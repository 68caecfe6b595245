---------------------------- MODULE OnChainProofs ----------------------------
(***************************************************************************)
(* The parts of a node that follow a chain, the transaction pool and the   *)
(* ChainMonitor, and the load of the streams of a client, which counts     *)
(* those that it has to ask the network for.                               *)
(***************************************************************************)
EXTENDS TxPool, ChainMonitor, ClientInit, FiniteSetTheorems, TLAPS

(***************************************************************************)
(* The transaction pool for every set of jobs and every number of drops,   *)
(* failures, ambiguous sends and crashes: PoolInv is inductive, and what   *)
(* follows from it for the callers that wait for a receipt.                *)
(***************************************************************************)
LEMMA SmallestElement ==
  ASSUME NEW S \in SUBSET Nat, S # {}
  PROVE  \E n \in S : \A k \in S : n <= k
<1>1. \E n \in S : \A k \in S : ~ (<<k, n>> \in OpToRel(<, Nat))
  BY Zenon, NatLessThanWellFounded, WFMin
<1>2. PICK n \in S : \A k \in S : ~ (<<k, n>> \in OpToRel(<, Nat))
  BY Zenon, <1>1
<1>3. ASSUME NEW k \in S PROVE n <= k
  <2>1. <<k, n>> \in OpToRel(<, Nat) <=> k < n
    BY Zenon DEF OpToRel
  <2>2. ~ (k < n)
    BY <2>1, <1>2, Zenon
  <2> QED
    BY <2>2
<1> QED
  BY Zenon, <1>2, <1>3

LEMMA AppendFacts ==
  ASSUME NEW S, NEW q \in Seq(S), NEW e \in S
  PROVE  /\ Append(q, e) \in Seq(S)
         /\ DOMAIN Append(q, e) = DOMAIN q \cup {Len(q) + 1}
         /\ \A k \in DOMAIN q : Append(q, e)[k] = q[k]
         /\ Append(q, e)[Len(q) + 1] = e
  OBVIOUS

\* What TypeOK says of the elements of the list and of the transactions.
LEMMA Elements ==
  ASSUME TypeOK
  PROVE  /\ Len(pending) \in Nat /\ DOMAIN pending = 1..Len(pending)
         /\ \A i \in DOMAIN pending :
              /\ pending[i].job \in Job /\ pending[i].nonce \in Nat
              /\ pending[i].txHashes \in Seq(Nat \ {0})
              /\ \A k \in DOMAIN pending[i].txHashes : pending[i].txHashes[k] \in Nat
         /\ \A t \in Sent : t \in Tx /\ t.hash \in Nat /\ t.nonce \in Nat /\ t.job \in Job
         /\ chainNonce \in Nat /\ nextHash \in Nat
<1>1. pending \in Seq(PendingTx)
  BY Zenon DEF TypeOK
<1>2. ASSUME NEW i \in DOMAIN pending
      PROVE  /\ pending[i].job \in Job /\ pending[i].nonce \in Nat
             /\ pending[i].txHashes \in Seq(Nat \ {0})
             /\ \A k \in DOMAIN pending[i].txHashes : pending[i].txHashes[k] \in Nat
  <2>1. pending[i] \in PendingTx
    BY <1>1
  <2>2. /\ pending[i].job \in Job /\ pending[i].nonce \in Nat
        /\ pending[i].txHashes \in Seq(Nat \ {0})
    BY Zenon, <2>1 DEF PendingTx
  <2> QED
    BY <2>2
<1>3. \A t \in Sent : t \in Tx /\ t.hash \in Nat /\ t.nonce \in Nat /\ t.job \in Job
  BY Zenon DEF TypeOK, Sent, Tx
<1> QED
  BY <1>1, <1>2, <1>3 DEF TypeOK

\* PendingNonceAt: among one more nonces than there are waiting transactions
\* one is free, and the first of them is the answer.
LEMMA PendingNonceFound ==
  ASSUME TypeOK, IsFiniteSet(mempool)
  PROVE  /\ PendingNonceAt \in Nat /\ PendingNonceAt >= chainNonce
         /\ \A t \in mempool : t.nonce # PendingNonceAt
<1> DEFINE Range0 == chainNonce..(chainNonce + Cardinality(mempool))
           used == [t \in mempool |-> t.nonce]
           Used == {used[t] : t \in mempool}
           Free == Range0 \ Used
           P(m) == /\ \A t \in mempool : t.nonce # m
                   /\ \A k \in chainNonce..(m-1) : \E t \in mempool : t.nonce = k
<1>1. Cardinality(mempool) \in Nat /\ chainNonce \in Nat
  BY Zenon, FS_CardinalityType DEF TypeOK
<1>2. \A t \in mempool : t.nonce \in Nat
  BY Zenon DEF TypeOK, Tx
<1>3. IsFiniteSet(Range0) /\ Cardinality(Range0) = Cardinality(mempool) + 1
  BY SMTT(30), Z3T(30), <1>1, FS_Interval
<1>4. used \in Surjection(mempool, Used)
  BY Zenon DEF Surjection
<1>5. IsFiniteSet(Used) /\ Cardinality(Used) <= Cardinality(mempool)
  BY Zenon, <1>4, FS_Surjection
<1>6. Cardinality(Used) \in Nat
  BY Zenon, <1>5, FS_CardinalityType
<1>7. Free # {}
  <2>1. SUFFICES ASSUME Range0 \subseteq Used PROVE FALSE
    BY Zenon
  <2>2. Cardinality(Range0) <= Cardinality(Used)
    BY Zenon, <2>1, <1>5, FS_Subset
  <2> QED
    BY <2>2, <1>1, <1>3, <1>5, <1>6
<1>8. Free \in SUBSET Nat
  BY <1>1
<1>9. PICK n \in Free : \A k \in Free : n <= k
  <2> HIDE DEF Free
  <2> QED
    BY Zenon, <1>7, <1>8, SmallestElement
<1>10. n \in Range0 /\ \A t \in mempool : t.nonce # n
  BY Zenon, <1>9
<1>11. ASSUME NEW k \in chainNonce..(n-1) PROVE \E t \in mempool : t.nonce = k
  <2>1. k \in Range0 /\ ~ (n <= k)
    BY <1>1, <1>10
  <2> QED
    BY Zenon, <2>1, <1>9
<1>12. \E m \in Range0 : P(m)
  BY Zenon, <1>10, <1>11
<1>13. PendingNonceAt \in Range0 /\ \A t \in mempool : t.nonce # PendingNonceAt
  <2>1. PendingNonceAt = CHOOSE m \in Range0 : P(m)
    BY Zenon DEF PendingNonceAt
  <2>2. PendingNonceAt \in Range0 /\ P(PendingNonceAt)
    <3> HIDE DEF P, Range0
    <3> QED
      BY <2>1, <1>12, Zenon
  <2> QED
    BY Zenon, <2>2
<1> QED
  BY <1>13, <1>1

\* The nonce of a new transaction: past those of the list, and not used up
\* when the list is empty.
LEMMA NextNonceFacts ==
  ASSUME PoolInv
  PROVE  /\ nextNonce \in Nat
         /\ \A i \in DOMAIN pending : pending[i].nonce < nextNonce
         /\ pending = << >> => nextNonce >= chainNonce
<1> USE DEF PoolInv
<1>1. CASE pending = << >>
  BY <1>1, PendingNonceFound DEF nextNonce, ChainInv
<1>2. CASE pending # << >>
  <2>1. Len(pending) \in DOMAIN pending /\ DOMAIN pending = 1..Len(pending)
    BY <1>2 DEF TypeOK
  <2>2. \A i \in DOMAIN pending : pending[i].nonce \in Nat
    BY Zenon, Elements
  <2>3. \A i \in DOMAIN pending : i < Len(pending) => pending[i].nonce < pending[Len(pending)].nonce
    BY Zenon, <2>1 DEF ListInv
  <2> QED
    BY <1>2, <2>1, <2>2, <2>3 DEF nextNonce
<1> QED
  BY Zenon, <1>1, <1>2

LEMMA InitPool ==
  Init => PoolInv
<1> SUFFICES ASSUME Init PROVE PoolInv
  BY Zenon
<1> USE DEF Init
<1>1. TypeOK
  BY DEF TypeOK
<1>2. ChainInv
  BY FS_EmptySet DEF ChainInv, Sent
<1>3. ListInv
  BY DEF ListInv
<1>4. JobInv /\ KnownInv /\ ExecutedOnce /\ ReceiptsInOrder
  BY Zenon DEF JobInv, KnownInv, ExecutedOnce, ReceiptsInOrder, Sent
<1> QED
  BY Zenon, <1>1, <1>2, <1>3, <1>4 DEF PoolInv

\* OnBlock moves on, or returns, without sending or receiving anything.
LEMMA QuietStep ==
  ASSUME PoolInv, UNCHANGED <<poolVars, chainVars, nextHash>>, TypeOK'
  PROVE  PoolInv'
<1> USE DEF PoolInv, poolVars, chainVars
<1>1. Sent' = Sent
  BY Zenon DEF Sent
<1>2. ChainInv'
  BY Zenon, <1>1 DEF ChainInv
<1>3. ListInv'
  BY Zenon DEF ListInv
<1>4. JobInv' /\ KnownInv'
  BY <1>1 DEF JobInv, KnownInv
<1>5. ExecutedOnce' /\ ReceiptsInOrder'
  BY Zenon DEF ExecutedOnce, ReceiptsInOrder
<1> QED
  BY Zenon, <1>2, <1>3, <1>4, <1>5

\* The network forgets a transaction: everything is said of fewer ones.
LEMMA DropStep ==
  ASSUME PoolInv, Drop
  PROVE  PoolInv'
<1> USE DEF PoolInv, Drop, poolVars, blockVars
<1>1. mempool' \subseteq mempool /\ Sent' \subseteq Sent /\ UNCHANGED mined
  BY Zenon DEF Sent
<1>2. IsFiniteSet(mempool')
  BY Zenon, <1>1, FS_Subset DEF ChainInv
<1>3. TypeOK'
  BY <1>1 DEF TypeOK
<1>4. ChainInv'
  BY Zenon, <1>1, <1>2 DEF ChainInv
<1>5. ListInv'
  BY Zenon DEF ListInv
<1>6. JobInv' /\ KnownInv'
  BY <1>1 DEF JobInv, KnownInv
<1>7. ExecutedOnce' /\ ReceiptsInOrder'
  BY Zenon, <1>1 DEF ExecutedOnce, ReceiptsInOrder
<1> QED
  BY Zenon, <1>3, <1>4, <1>5, <1>6, <1>7

\* A transaction is included.  Its job has not been executed before: all
\* transactions of a job have one nonce, and this nonce was not used up.
LEMMA MineStep ==
  ASSUME PoolInv, Mine
  PROVE  PoolInv'
<1> USE DEF PoolInv
<1>1. PICK t \in mempool : /\ t.nonce = chainNonce
                           /\ mined' = mined \cup {t}
                           /\ mempool' = {u \in mempool : u.nonce # t.nonce}
                           /\ chainNonce' = chainNonce + 1
                           /\ UNCHANGED <<poolVars, blockVars, countVars>>
  BY Zenon DEF Mine
<1> USE DEF poolVars, blockVars, countVars
<1>2. t \in Sent /\ Sent' \subseteq Sent
  BY Zenon, <1>1 DEF Sent
<1>3. TypeOK'
  BY SMTT(30), Z3T(30), <1>1 DEF TypeOK
<1>4. \A u \in mined : u.job # t.job
  <2> SUFFICES ASSUME NEW u \in mined, u.job = t.job PROVE FALSE
    BY Zenon
  <2>1. u.nonce = t.nonce
    BY Zenon, <1>2 DEF JobInv, Sent
  <2> QED
    BY <2>1, <1>1, Elements DEF ChainInv, Sent
<1>5. status[t.job] # "done"
  BY Zenon, <1>2, <1>4, Elements DEF ExecutedOnce
<1>6. ChainInv'
  <2>1. IsFiniteSet(mempool')
    BY Zenon, <1>1, FS_Subset DEF ChainInv
  <2>2. \A u \in mempool' : u.nonce >= chainNonce'
    BY SMTT(30), Z3T(30), <1>1, Elements DEF ChainInv, Sent
  <2>3. \A u \in mined' : u.nonce < chainNonce'
    BY SMTT(30), Z3T(30), <1>1, Elements DEF ChainInv, Sent
  <2>4. \A u, v \in mined' : u.nonce = v.nonce => u = v
    BY <1>1, Elements DEF ChainInv, Sent
  <2>5. \A n \in 0..(chainNonce' - 1) : \E u \in mined' : u.nonce = n
    <3> SUFFICES ASSUME NEW n \in 0..(chainNonce' - 1) PROVE \E u \in mined' : u.nonce = n
      BY Zenon
    <3>1. n \in 0..(chainNonce - 1) \/ n = chainNonce
      BY <1>1, Elements
    <3> QED
      BY Zenon, <3>1, <1>1 DEF ChainInv
  <2>6. \A u \in Sent' : u.hash < nextHash'
    BY Zenon, <1>1, <1>2 DEF ChainInv
  <2>7. \A u, v \in Sent' : u.hash = v.hash => u = v
    BY Zenon, <1>2 DEF ChainInv
  <2> QED
    BY Zenon, <2>1, <2>2, <2>3, <2>4, <2>5, <2>6, <2>7 DEF ChainInv
<1>7. ListInv'
  BY Zenon, <1>1 DEF ListInv
<1>8. JobInv' /\ KnownInv'
  BY <1>1, <1>2 DEF JobInv, KnownInv
<1>9. ExecutedOnce'
  BY Zenon, <1>1, <1>4 DEF ExecutedOnce
<1>10. ReceiptsInOrder'
  BY Zenon, <1>1, <1>5 DEF ReceiptsInOrder
<1> QED
  BY Zenon, <1>3, <1>6, <1>7, <1>8, <1>9, <1>10

\* What SendTransaction does to the chain: one more transaction waits, with
\* a hash that no other has.
LEMMA SendFacts ==
  ASSUME PoolInv, NEW n \in Nat, NEW j \in Job, Send(n, j), UNCHANGED <<mined, chainNonce>>
  PROVE  /\ [hash |-> nextHash, nonce |-> n, job |-> j] \in Tx
         /\ Sent' = Sent \cup {[hash |-> nextHash, nonce |-> n, job |-> j]}
         /\ nextHash' = nextHash + 1 /\ nextHash' \in Nat \ {0}
         /\ mempool' \subseteq Tx
         /\ ChainInv'
<1> USE DEF PoolInv
<1> DEFINE tx == [hash |-> nextHash, nonce |-> n, job |-> j]
<1>1. tx \in Tx /\ tx.hash = nextHash /\ tx.nonce = n /\ tx.job = j
  BY Zenon DEF TypeOK, Tx
<1>2. mempool' = mempool \cup {tx} /\ nextHash' = nextHash + 1 /\ n >= chainNonce
  BY Zenon DEF Send
<1>3. Sent' = Sent \cup {tx}
  BY Zenon, <1>2 DEF Sent
<1>4. nextHash' \in Nat \ {0} /\ mempool' \subseteq Tx
  BY <1>1, <1>2 DEF TypeOK
<1> HIDE DEF tx
<1>5. ChainInv'
  <2>1. IsFiniteSet(mempool')
    BY Zenon, <1>2, FS_AddElement DEF ChainInv
  <2>2. \A t \in mempool' : t.nonce >= chainNonce'
    BY Zenon, <1>1, <1>2 DEF ChainInv
  <2>3. \A t \in Sent' : t.hash < nextHash'
    BY SMTT(30), Z3T(30), <1>1, <1>2, <1>3, Elements DEF ChainInv
  <2>4. \A t, u \in Sent' : t.hash = u.hash => t = u
    BY <1>1, <1>3, Elements DEF ChainInv
  <2> QED
    BY Zenon, <2>1, <2>2, <2>3, <2>4 DEF ChainInv
<1> QED
  BY Zenon, <1>1, <1>2, <1>3, <1>4, <1>5 DEF tx

\* A new transaction at the end of the list.  Its job has sent nothing
\* before, and its nonce is past those of all others that wait.
LEMMA SubmitStep ==
  ASSUME PoolInv, NEW j \in Job, Submit(j)
  PROVE  PoolInv'
<1> USE DEF PoolInv
<1> DEFINE tx == [hash |-> nextHash, nonce |-> nextNonce, job |-> j]
           entry == [job |-> j, nonce |-> nextNonce, txHashes |-> <<nextHash>>]
<1>1. /\ Send(nextNonce, j) /\ UNCHANGED <<mined, chainNonce>>
      /\ status[j] = "new" /\ status' = [status EXCEPT ![j] = "pending"]
      /\ pending' = Append(pending, entry)
      /\ UNCHANGED <<receipt, blockVars, mined, chainNonce, drops, failures, ambiguous, crashes>>
  BY Zenon DEF Submit
<1>2. nextNonce \in Nat /\ \A i \in DOMAIN pending : pending[i].nonce < nextNonce
  BY Zenon, NextNonceFacts
<1>3. /\ tx \in Tx /\ Sent' = Sent \cup {tx} /\ nextHash' = nextHash + 1
      /\ nextHash' \in Nat \ {0} /\ mempool' \subseteq Tx /\ ChainInv'
  BY Zenon, <1>1, <1>2, SendFacts
<1>4. entry \in PendingTx
  BY SMTT(30), Z3T(30), <1>2 DEF PendingTx, TypeOK
<1>5. TypeOK'
  BY SMTT(30), Z3T(30), <1>1, <1>3, <1>4 DEF TypeOK, blockVars
<1>6. /\ tx.hash = nextHash /\ tx.nonce = nextNonce /\ tx.job = j
      /\ entry.job = j /\ entry.nonce = nextNonce /\ entry.txHashes = <<nextHash>>
      /\ DOMAIN entry.txHashes = {1} /\ entry.txHashes[1] = nextHash
  OBVIOUS
<1> DEFINE last == Len(pending) + 1
<1>7. /\ DOMAIN pending' = DOMAIN pending \cup {last} /\ last \notin DOMAIN pending
      /\ \A i \in DOMAIN pending : i < last /\ pending'[i] = pending[i]
      /\ pending'[last] = entry
  BY <1>1, <1>4 DEF TypeOK
<1>8. \A t \in Sent : t.job # j
  BY Zenon, <1>1 DEF JobInv
<1>9. \A i \in DOMAIN pending : pending[i].job # j
  BY Zenon, <1>1 DEF ListInv
<1> HIDE DEF tx, entry, last
<1>10. ListInv'
  <2>1. \A k \in Job : status'[k] = "pending" <=> \E i \in DOMAIN pending' : pending'[i].job = k
    <3> SUFFICES ASSUME NEW k \in Job
                 PROVE  status'[k] = "pending" <=> \E i \in DOMAIN pending' : pending'[i].job = k
      BY Zenon
    <3>1. CASE k = j
      BY SMTT(30), Z3T(30), <3>1, <1>1, <1>6, <1>7 DEF TypeOK
    <3>2. CASE k # j
      <4>1. status'[k] = status[k]
        BY Zenon, <3>2, <1>1 DEF TypeOK
      <4>2. (\E i \in DOMAIN pending' : pending'[i].job = k) <=> \E i \in DOMAIN pending : pending[i].job = k
        BY Zenon, <3>2, <1>6, <1>7
      <4> QED
        BY Zenon, <4>1, <4>2 DEF ListInv
    <3> QED
      BY Zenon, <3>1, <3>2
  <2>2. \A i, k \in DOMAIN pending' : pending'[i].job = pending'[k].job => i = k
    BY SMTT(30), Z3T(30), <1>6, <1>7, <1>9 DEF ListInv
  <2>3. \A i, k \in DOMAIN pending' : i < k => pending'[i].nonce < pending'[k].nonce
    <3> SUFFICES ASSUME NEW i \in DOMAIN pending', NEW k \in DOMAIN pending', i < k
                 PROVE  pending'[i].nonce < pending'[k].nonce
      BY Zenon
    <3>1. i \in DOMAIN pending
      BY <1>7, Elements DEF last
    <3> QED
      BY <3>1, <1>2, <1>6, <1>7 DEF ListInv
  <2>4. \A i \in DOMAIN pending' : \A k \in DOMAIN pending'[i].txHashes :
          pending'[i].txHashes[k] < nextHash'
    <3> SUFFICES ASSUME NEW i \in DOMAIN pending', NEW k \in DOMAIN pending'[i].txHashes
                 PROVE  pending'[i].txHashes[k] < nextHash'
      BY Zenon
    <3>1. CASE i = last
      BY SMTT(30), Z3T(30), <3>1, <1>3, <1>6, <1>7, Elements
    <3>2. CASE i \in DOMAIN pending
      <4>1. pending[i].txHashes[k] < nextHash /\ pending[i].txHashes[k] \in Nat
        BY Zenon, <3>2, <1>7, Elements DEF ListInv
      <4> QED
        BY <3>2, <4>1, <1>3, <1>7, Elements
    <3> QED
      BY Zenon, <3>1, <3>2, <1>7
  <2> QED
    BY Zenon, <2>1, <2>2, <2>3, <2>4 DEF ListInv
<1>11. JobInv'
  <2>1. \A t \in Sent' : status'[t.job] # "new"
    BY ZenonT(30), <1>1, <1>3, <1>6, Elements DEF JobInv, TypeOK
  <2>2. \A t, u \in Sent' : t.job = u.job => t.nonce = u.nonce
    BY SMTT(30), <1>3, <1>6, <1>8 DEF JobInv
  <2>3. \A t \in Sent', i \in DOMAIN pending' :
          t.job = pending'[i].job => t.nonce = pending'[i].nonce
    BY <1>3, <1>6, <1>7, <1>8, <1>9 DEF JobInv
  <2>4. \A t \in Sent', i \in DOMAIN pending' : \A k \in DOMAIN pending'[i].txHashes :
          t.hash = pending'[i].txHashes[k] => t.job = pending'[i].job
    <3> SUFFICES ASSUME NEW t \in Sent', NEW i \in DOMAIN pending',
                        NEW k \in DOMAIN pending'[i].txHashes, t.hash = pending'[i].txHashes[k]
                 PROVE  t.job = pending'[i].job
      BY Zenon
    <3>1. CASE i = last
      <4>1. t.hash = nextHash
        BY Zenon, <3>1, <1>6, <1>7
      <4>2. t = tx
        BY <4>1, <1>3, Elements DEF ChainInv
      <4> QED
        BY Zenon, <4>2, <3>1, <1>6, <1>7
    <3>2. CASE i \in DOMAIN pending
      <4>1. t.hash = pending[i].txHashes[k] /\ k \in DOMAIN pending[i].txHashes
        BY Zenon, <3>2, <1>7
      <4>2. t # tx
        BY <4>1, <3>2, <1>6, Elements DEF ListInv
      <4> QED
        BY <4>1, <4>2, <3>2, <1>3, <1>7 DEF JobInv
    <3> QED
      BY Zenon, <3>1, <3>2, <1>7
  <2> QED
    BY Zenon, <2>1, <2>2, <2>3, <2>4 DEF JobInv
<1>12. KnownInv'
  <2> SUFFICES ASSUME MaxAmbiguous = 0, MaxCrashes = 0
               PROVE  /\ \A t \in Sent' : status'[t.job] \in {"pending", "done"}
                      /\ \A t \in Sent', i \in DOMAIN pending' :
                           t.job = pending'[i].job =>
                             \E k \in DOMAIN pending'[i].txHashes : t.hash = pending'[i].txHashes[k]
    BY Zenon DEF KnownInv
  <2>1. \A t \in Sent' : status'[t.job] \in {"pending", "done"}
    BY <1>1, <1>3, <1>6, Elements DEF KnownInv, TypeOK
  <2>2. ASSUME NEW t \in Sent', NEW i \in DOMAIN pending', t.job = pending'[i].job
        PROVE  \E k \in DOMAIN pending'[i].txHashes : t.hash = pending'[i].txHashes[k]
    <3>1. CASE i = last
      BY Zenon, <3>1, <2>2, <1>3, <1>6, <1>7, <1>8
    <3>2. CASE i \in DOMAIN pending
      BY SMTT(30), Z3T(30), <3>2, <2>2, <1>3, <1>6, <1>7, <1>9 DEF KnownInv
    <3> QED
      BY Zenon, <3>1, <3>2, <1>7
  <2> QED
    BY Zenon, <2>1, <2>2
<1>13. ExecutedOnce'
  BY Zenon, <1>1 DEF ExecutedOnce, TypeOK
<1>14. ReceiptsInOrder'
  <2> SUFFICES ASSUME NEW t \in mined, NEW i \in DOMAIN pending', status'[t.job] = "done"
               PROVE  t.nonce < pending'[i].nonce
    BY Zenon, <1>1 DEF ReceiptsInOrder
  <2>1. t \in Sent /\ t.nonce \in Nat /\ t.job \in Job
    BY Zenon, Elements DEF Sent
  <2>2. status[t.job] = "done"
    BY Zenon, <2>1, <1>1 DEF TypeOK
  <2>3. CASE i \in DOMAIN pending
    BY Zenon, <2>2, <2>3, <1>7 DEF ReceiptsInOrder
  <2>4. CASE i = last
    <3>1. CASE pending = << >>
      BY SMTT(30), Z3T(30), <3>1, <2>1, <2>4, <1>2, <1>6, <1>7, NextNonceFacts, Elements DEF ChainInv
    <3>2. CASE pending # << >>
      <4>1. 1 \in DOMAIN pending /\ pending[1].nonce \in Nat
        BY <3>2, Elements DEF TypeOK
      <4>2. t.nonce < pending[1].nonce /\ pending[1].nonce < nextNonce
        BY Zenon, <4>1, <2>2, <1>2 DEF ReceiptsInOrder
      <4> QED
        BY SMTT(30), Z3T(30), <4>1, <4>2, <2>1, <2>4, <1>2, <1>6, <1>7
    <3> QED
      BY ZenonT(30), <3>1, <3>2
  <2> QED
    BY Zenon, <2>3, <2>4, <1>7
<1> QED
  BY Zenon, <1>3, <1>5, <1>10, <1>11, <1>12, <1>13, <1>14

LEMMA SubmitFailsStep ==
  ASSUME PoolInv, NEW j \in Job, SubmitFails(j)
  PROVE  PoolInv'
<1> USE DEF PoolInv
<1>1. /\ status[j] = "new" /\ status' = [status EXCEPT ![j] = "failed"]
      /\ UNCHANGED <<pending, receipt, blockVars, chainVars, nextHash>>
  BY Zenon DEF SubmitFails
<1> USE DEF blockVars, chainVars
<1>2. TypeOK'
  BY <1>1 DEF TypeOK, SubmitFails
<1>3. Sent' = Sent
  BY Zenon, <1>1 DEF Sent
<1>4. ChainInv'
  BY Zenon, <1>1, <1>3 DEF ChainInv
<1>5. ListInv'
  BY ZenonT(30), <1>1 DEF ListInv, TypeOK
<1>6. \A t \in Sent : t.job # j /\ t.job \in Job
  BY Zenon, <1>1, Elements DEF JobInv
<1>7. \A t \in Sent : status'[t.job] = status[t.job]
  BY Zenon, <1>1, <1>6 DEF TypeOK
<1>8. JobInv' /\ KnownInv'
  BY SMTT(30), Z3T(30), <1>1, <1>3, <1>7 DEF JobInv, KnownInv
<1>9. ExecutedOnce' /\ ReceiptsInOrder'
  BY <1>1, <1>7 DEF ExecutedOnce, ReceiptsInOrder, TypeOK, Sent
<1> QED
  BY Zenon, <1>2, <1>4, <1>5, <1>8, <1>9

\* The transaction is sent and not in the list: nobody waits for its job,
\* which no other transaction is made for.
LEMMA SubmitAmbiguousStep ==
  ASSUME PoolInv, NEW j \in Job, SubmitAmbiguous(j)
  PROVE  PoolInv'
<1> USE DEF PoolInv
<1> DEFINE tx == [hash |-> nextHash, nonce |-> nextNonce, job |-> j]
<1>1. /\ Send(nextNonce, j) /\ UNCHANGED <<mined, chainNonce>>
      /\ status[j] = "new" /\ status' = [status EXCEPT ![j] = "failed"]
      /\ ambiguous < MaxAmbiguous /\ ambiguous' = ambiguous + 1
      /\ UNCHANGED <<pending, receipt, blockVars, mined, chainNonce, drops, failures, crashes>>
  BY Zenon DEF SubmitAmbiguous
<1>2. nextNonce \in Nat
  BY Zenon, NextNonceFacts
<1>3. /\ tx \in Tx /\ Sent' = Sent \cup {tx} /\ nextHash' = nextHash + 1
      /\ nextHash' \in Nat \ {0} /\ mempool' \subseteq Tx /\ ChainInv'
  BY Zenon, <1>1, <1>2, SendFacts
<1>4. TypeOK'
  BY <1>1, <1>3 DEF TypeOK, blockVars
<1>5. tx.hash = nextHash /\ tx.nonce = nextNonce /\ tx.job = j
  BY Zenon
<1> HIDE DEF tx
<1>6. \A i \in DOMAIN pending : pending[i].job # j
  BY Zenon, <1>1 DEF ListInv
<1>7. \A t \in Sent : t.job # j /\ t.job \in Job
  BY Zenon, <1>1, Elements DEF JobInv
<1>8. \A t \in Sent : status'[t.job] = status[t.job]
  BY Zenon, <1>1, <1>7 DEF TypeOK
<1>9. ListInv'
  <2>1. \A i \in DOMAIN pending : \A k \in DOMAIN pending[i].txHashes : pending[i].txHashes[k] < nextHash'
    BY <1>3, Elements DEF ListInv
  <2> QED
    BY Zenon, <2>1, <1>1 DEF ListInv, TypeOK
<1>10. JobInv'
  <2>1. \A t \in Sent' : status'[t.job] # "new"
    BY Zenon, <1>1, <1>3, <1>5, <1>8 DEF JobInv, TypeOK
  <2>2. \A t, u \in Sent' : t.job = u.job => t.nonce = u.nonce
    BY Zenon, <1>3, <1>5, <1>7 DEF JobInv
  <2>3. \A t \in Sent', i \in DOMAIN pending : t.job = pending[i].job => t.nonce = pending[i].nonce
    BY Zenon, <1>3, <1>5, <1>6 DEF JobInv
  <2>4. \A t \in Sent', i \in DOMAIN pending : \A k \in DOMAIN pending[i].txHashes :
          t.hash = pending[i].txHashes[k] => t.job = pending[i].job
    <3> SUFFICES ASSUME NEW t \in Sent', NEW i \in DOMAIN pending,
                        NEW k \in DOMAIN pending[i].txHashes, t.hash = pending[i].txHashes[k]
                 PROVE  t.job = pending[i].job
      BY Zenon
    <3>1. t # tx
      BY SMTT(30), Z3T(30), <1>5, Elements DEF ListInv
    <3> QED
      BY Zenon, <3>1, <1>3 DEF JobInv
  <2> QED
    BY Zenon, <2>1, <2>2, <2>3, <2>4, <1>1 DEF JobInv
<1>11. KnownInv'
  BY <1>1, TxPoolAssumption DEF KnownInv, TypeOK
<1>12. ExecutedOnce' /\ ReceiptsInOrder'
  BY Zenon, <1>1, <1>8 DEF ExecutedOnce, ReceiptsInOrder, TypeOK, Sent
<1> QED
  BY Zenon, <1>3, <1>4, <1>9, <1>10, <1>11, <1>12

\* The first job of the list gets its receipt: its nonce is below those of
\* the jobs that are left.
LEMMA DeliverStep ==
  ASSUME PoolInv, DeliverReceipt
  PROVE  PoolInv'
<1> USE DEF PoolInv
<1> DEFINE first == pending[1]
<1>1. /\ pending # << >> /\ Head(pending) = first /\ pending' = Tail(pending)
      /\ status' = [status EXCEPT ![first.job] = "done"]
      /\ UNCHANGED <<blockVars, chainVars, countVars>>
  <2>1. pending \in Seq(PendingTx) /\ pending # << >>
    BY Zenon DEF DeliverReceipt, TypeOK
  <2>2. Head(pending) = first
    BY <2>1
  <2> QED
    BY Zenon, <2>1, <2>2 DEF DeliverReceipt
<1>2. PICK h \in Receipts : receipt' = [receipt EXCEPT ![first.job] = h]
  BY Zenon, <1>1 DEF DeliverReceipt
<1>3. PICK r \in mined : r.hash = h /\ \E k \in DOMAIN first.txHashes : r.hash = first.txHashes[k]
  BY Zenon, <1>1, <1>2 DEF Receipts
<1> USE DEF blockVars, chainVars, countVars
<1>4. /\ 1 \in DOMAIN pending
      /\ \A i \in DOMAIN pending' : i + 1 \in DOMAIN pending /\ pending'[i] = pending[i+1]
      /\ \A i \in DOMAIN pending : i = 1 \/ (i - 1 \in DOMAIN pending' /\ pending'[i-1] = pending[i])
      /\ DOMAIN pending' \subseteq Nat \ {0}
      /\ pending' \in Seq(PendingTx)
  BY <1>1 DEF TypeOK
<1>5. first.job \in Job /\ first.nonce \in Nat
  BY Zenon, <1>4, Elements
<1>6. r \in Sent /\ r.job = first.job /\ h \in Nat
  BY Zenon, <1>3, <1>4, Elements DEF JobInv, Sent
<1>7. TypeOK'
  BY Zenon, <1>1, <1>2, <1>4, <1>5, <1>6 DEF TypeOK
<1>8. Sent' = Sent /\ mined' = mined
  BY Zenon, <1>1 DEF Sent
<1>9. status[first.job] = "pending" /\ \A k \in Job : k # first.job => status'[k] = status[k] /\ receipt'[k] = receipt[k]
  BY SMTT(30), Z3T(30), <1>1, <1>2, <1>4, <1>5 DEF ListInv, TypeOK
<1>10. status'[first.job] = "done" /\ receipt'[first.job] = h
  BY Zenon, <1>1, <1>2, <1>5 DEF TypeOK
<1> HIDE DEF first
<1>11. ChainInv'
  BY Zenon, <1>1, <1>8 DEF ChainInv
<1>12. \A i \in DOMAIN pending' : pending'[i].job # first.job
  BY <1>4 DEF ListInv, first
<1>13. ListInv'
  <2>1. \A k \in Job : status'[k] = "pending" <=> \E i \in DOMAIN pending' : pending'[i].job = k
    <3> SUFFICES ASSUME NEW k \in Job
                 PROVE  status'[k] = "pending" <=> \E i \in DOMAIN pending' : pending'[i].job = k
      BY Zenon
    <3>1. CASE k = first.job
      BY Zenon, <3>1, <1>10, <1>12
    <3>2. CASE k # first.job
      <4>1. (\E i \in DOMAIN pending' : pending'[i].job = k) <=> \E i \in DOMAIN pending : pending[i].job = k
        BY Zenon, <3>2, <1>4 DEF first
      <4> QED
        BY Zenon, <3>2, <4>1, <1>9 DEF ListInv
    <3> QED
      BY Zenon, <3>1, <3>2
  <2>2. \A i, k \in DOMAIN pending' : pending'[i].job = pending'[k].job => i = k
    BY SMTT(30), Z3T(30), <1>4 DEF ListInv
  <2>3. ASSUME NEW i \in DOMAIN pending', NEW k \in DOMAIN pending', i < k
        PROVE  pending'[i].nonce < pending'[k].nonce
    <3>1. i + 1 \in DOMAIN pending /\ k + 1 \in DOMAIN pending /\ i + 1 < k + 1
      BY <2>3, <1>4
    <3>2. pending[i+1].nonce < pending[k+1].nonce
      BY Zenon, <3>1 DEF ListInv
    <3> QED
      BY Zenon, <3>2, <1>4
  <2>4. \A i \in DOMAIN pending' : \A k \in DOMAIN pending'[i].txHashes :
          pending'[i].txHashes[k] < nextHash'
    BY <1>1, <1>4 DEF ListInv
  <2> QED
    BY Zenon, <2>1, <2>2, <2>3, <2>4 DEF ListInv
<1>14. \A t \in Sent : /\ status'[t.job] # "new"
                       /\ status[t.job] \in {"pending", "done"} => status'[t.job] \in {"pending", "done"}
  BY Zenon, <1>9, <1>10, Elements DEF JobInv
<1>15. JobInv'
  BY <1>4, <1>8, <1>14 DEF JobInv
<1>16. KnownInv'
  <2> SUFFICES ASSUME MaxAmbiguous = 0, MaxCrashes = 0
               PROVE  /\ \A t \in Sent' : status'[t.job] \in {"pending", "done"}
                      /\ \A t \in Sent', i \in DOMAIN pending' :
                           t.job = pending'[i].job =>
                             \E k \in DOMAIN pending'[i].txHashes : t.hash = pending'[i].txHashes[k]
    BY Zenon DEF KnownInv
  <2>1. \A t \in Sent' : status'[t.job] \in {"pending", "done"}
    BY Zenon, <1>8, <1>14 DEF KnownInv
  <2>2. ASSUME NEW t \in Sent', NEW i \in DOMAIN pending', t.job = pending'[i].job
        PROVE  \E k \in DOMAIN pending'[i].txHashes : t.hash = pending'[i].txHashes[k]
    BY SMTT(30), Z3T(30), <2>2, <1>4, <1>8 DEF KnownInv
  <2> QED
    BY Zenon, <2>1, <2>2
<1>17. ExecutedOnce'
  BY SMTT(30), Z3T(30), <1>3, <1>6, <1>8, <1>9, <1>10 DEF ExecutedOnce
<1>18. ReceiptsInOrder'
  <2> SUFFICES ASSUME NEW t \in mined, NEW i \in DOMAIN pending', status'[t.job] = "done"
               PROVE  t.nonce < pending'[i].nonce
    BY Zenon, <1>8 DEF ReceiptsInOrder
  <2>1. i + 1 \in DOMAIN pending /\ pending'[i] = pending[i+1]
    BY Zenon, <1>4
  <2>2. CASE t.job = first.job
    <3>1. t.nonce = first.nonce
      BY SMTT(30), Z3T(30), <2>2, <1>4 DEF JobInv, Sent, first
    <3>2. first.nonce < pending[i+1].nonce
      BY <1>4, <2>1 DEF ListInv, first
    <3> QED
      BY ZenonT(30), <3>1, <3>2, <2>1
  <2>3. CASE t.job # first.job
    BY Zenon, <2>1, <2>3, <1>9, Elements DEF ReceiptsInOrder, Sent
  <2> QED
    BY Zenon, <2>2, <2>3
<1> QED
  BY Zenon, <1>7, <1>11, <1>13, <1>15, <1>16, <1>17, <1>18

\* A replacement: one more transaction of a job of the list, with its nonce.
LEMMA ResendFacts ==
  ASSUME PoolInv, NEW c \in DOMAIN pending, Send(pending[c].nonce, pending[c].job),
         UNCHANGED <<status, receipt, mined, chainNonce>>
  PROVE  LET tx == [hash |-> nextHash, nonce |-> pending[c].nonce, job |-> pending[c].job]
         IN  /\ tx \in Tx /\ Sent' = Sent \cup {tx} /\ nextHash' = nextHash + 1
             /\ nextHash' \in Nat \ {0} /\ mempool' \subseteq Tx /\ ChainInv' /\ ExecutedOnce'
             /\ \A t \in Sent' : status[t.job] # "new"
             /\ \A t, u \in Sent' : t.job = u.job => t.nonce = u.nonce
             /\ \A t \in Sent', i \in DOMAIN pending :
                  t.job = pending[i].job => t.nonce = pending[i].nonce
             /\ \A t \in Sent', i \in DOMAIN pending : \A k \in DOMAIN pending[i].txHashes :
                  t.hash = pending[i].txHashes[k] => t \in Sent
<1> USE DEF PoolInv
<1> DEFINE tx == [hash |-> nextHash, nonce |-> pending[c].nonce, job |-> pending[c].job]
<1>1. pending[c].nonce \in Nat /\ pending[c].job \in Job
  BY Zenon, Elements
<1>2. /\ tx \in Tx /\ Sent' = Sent \cup {tx} /\ nextHash' = nextHash + 1
      /\ nextHash' \in Nat \ {0} /\ mempool' \subseteq Tx /\ ChainInv'
  BY Zenon, <1>1, SendFacts
<1>3. tx.hash = nextHash /\ tx.nonce = pending[c].nonce /\ tx.job = pending[c].job
  BY Zenon
<1> HIDE DEF tx
<1>4. status[tx.job] = "pending"
  BY ZenonT(30), <1>1, <1>3 DEF ListInv
<1>5. \A t \in Sent' : status[t.job] # "new"
  BY Zenon, <1>2, <1>4 DEF JobInv
<1>6. \A t, u \in Sent' : t.job = u.job => t.nonce = u.nonce
  BY <1>2, <1>3 DEF JobInv
<1>7. \A t \in Sent', i \in DOMAIN pending : t.job = pending[i].job => t.nonce = pending[i].nonce
  <2>1. \A i \in DOMAIN pending : tx.job = pending[i].job => i = c
    BY Zenon, <1>3 DEF ListInv
  <2> QED
    BY Zenon, <2>1, <1>2, <1>3 DEF JobInv
<1>8. ASSUME NEW t \in Sent', NEW i \in DOMAIN pending, NEW k \in DOMAIN pending[i].txHashes,
             t.hash = pending[i].txHashes[k]
      PROVE  t \in Sent
  <2>1. t # tx
    BY SMTT(30), Z3T(30), <1>3, <1>8, Elements DEF ListInv
  <2> QED
    BY Zenon, <2>1, <1>2
<1>9. ExecutedOnce'
  BY Zenon DEF ExecutedOnce
<1> QED
  BY Zenon, <1>2, <1>5, <1>6, <1>7, <1>8, <1>9 DEF tx

LEMMA ReplaceAmbiguousStep ==
  ASSUME PoolInv, ReplaceAmbiguous
  PROVE  PoolInv'
<1> USE DEF PoolInv
<1>1. /\ Send(pending[cursor].nonce, pending[cursor].job)
      /\ ambiguous < MaxAmbiguous /\ ambiguous' = ambiguous + 1 /\ cursor' = cursor + 1
      /\ cursor \in DOMAIN pending
      /\ UNCHANGED <<pending, status, receipt, block, seenNonce, mined, chainNonce, drops, failures, crashes>>
  BY DEF ReplaceAmbiguous, TypeOK, poolVars
<1>2. /\ nextHash' = nextHash + 1 /\ nextHash' \in Nat \ {0} /\ mempool' \subseteq Tx
      /\ ChainInv' /\ ExecutedOnce'
      /\ \A t \in Sent' : status[t.job] # "new"
      /\ \A t, u \in Sent' : t.job = u.job => t.nonce = u.nonce
      /\ \A t \in Sent', i \in DOMAIN pending :
           t.job = pending[i].job => t.nonce = pending[i].nonce
      /\ \A t \in Sent', i \in DOMAIN pending : \A k \in DOMAIN pending[i].txHashes :
           t.hash = pending[i].txHashes[k] => t \in Sent
  BY ZenonT(30), <1>1, ResendFacts
<1>3. TypeOK'
  BY SMTT(30), Z3T(30), <1>1, <1>2 DEF TypeOK
<1>4. ListInv'
  <2>1. \A i \in DOMAIN pending : \A k \in DOMAIN pending[i].txHashes : pending[i].txHashes[k] < nextHash'
    BY <1>2, Elements DEF ListInv
  <2> QED
    BY ZenonT(30), <2>1, <1>1 DEF ListInv
<1>5. JobInv'
  <2>1. \A t \in Sent', i \in DOMAIN pending : \A k \in DOMAIN pending[i].txHashes :
          t.hash = pending[i].txHashes[k] => t.job = pending[i].job
    BY Zenon, <1>2 DEF JobInv
  <2> QED
    BY Zenon, <2>1, <1>1, <1>2 DEF JobInv
<1>6. KnownInv'
  BY <1>1, TxPoolAssumption DEF KnownInv, TypeOK
<1>7. ReceiptsInOrder'
  BY Zenon, <1>1 DEF ReceiptsInOrder
<1> QED
  BY Zenon, <1>2, <1>3, <1>4, <1>5, <1>6, <1>7

\* The hash of the replacement is added to those of the job.
LEMMA ReplaceStep ==
  ASSUME PoolInv, Replace
  PROVE  PoolInv'
<1> USE DEF PoolInv
<1> DEFINE tx == [hash |-> nextHash, nonce |-> pending[cursor].nonce, job |-> pending[cursor].job]
           hashes == pending[cursor].txHashes
<1>1. /\ Send(pending[cursor].nonce, pending[cursor].job)
      /\ pending' = [pending EXCEPT ![cursor].txHashes = Append(@, nextHash)]
      /\ cursor' = cursor + 1 /\ cursor \in DOMAIN pending
      /\ UNCHANGED <<status, receipt, block, seenNonce, mined, chainNonce, drops,
                     failures, ambiguous, crashes>>
  BY DEF Replace, TypeOK
<1>2. /\ tx \in Tx /\ Sent' = Sent \cup {tx}
      /\ nextHash' = nextHash + 1 /\ nextHash' \in Nat \ {0} /\ mempool' \subseteq Tx
      /\ ChainInv' /\ ExecutedOnce'
      /\ \A t \in Sent' : status[t.job] # "new"
      /\ \A t, u \in Sent' : t.job = u.job => t.nonce = u.nonce
      /\ \A t \in Sent', i \in DOMAIN pending :
           t.job = pending[i].job => t.nonce = pending[i].nonce
      /\ \A t \in Sent', i \in DOMAIN pending : \A k \in DOMAIN pending[i].txHashes :
           t.hash = pending[i].txHashes[k] => t \in Sent
  BY Zenon, <1>1, ResendFacts
<1>3. hashes \in Seq(Nat \ {0}) /\ nextHash \in Nat \ {0}
  BY Zenon, <1>1, Elements DEF TypeOK
<1>4. /\ DOMAIN Append(hashes, nextHash) = DOMAIN hashes \cup {Len(hashes) + 1}
      /\ \A k \in DOMAIN hashes : Append(hashes, nextHash)[k] = hashes[k]
      /\ Append(hashes, nextHash)[Len(hashes) + 1] = nextHash
      /\ Append(hashes, nextHash) \in Seq(Nat \ {0})
  <2> HIDE DEF hashes
  <2> QED
    BY <1>3, AppendFacts
<1>5. /\ DOMAIN pending' = DOMAIN pending
      /\ \A i \in DOMAIN pending : /\ pending'[i].job = pending[i].job
                                   /\ pending'[i].nonce = pending[i].nonce
                                   /\ i # cursor => pending'[i].txHashes = pending[i].txHashes
      /\ pending'[cursor].txHashes = Append(hashes, nextHash)
      /\ pending' \in Seq(PendingTx)
  <2>1. pending \in Seq(PendingTx) /\ pending[cursor] \in PendingTx
    BY SMTT(30), Z3T(30), <1>1 DEF TypeOK
  <2>2. [pending[cursor] EXCEPT !.txHashes = Append(@, nextHash)] \in PendingTx
    BY Zenon, <2>1, <1>4 DEF PendingTx
  <2>3. /\ [pending[cursor] EXCEPT !.txHashes = Append(@, nextHash)].job = pending[cursor].job
        /\ [pending[cursor] EXCEPT !.txHashes = Append(@, nextHash)].nonce = pending[cursor].nonce
        /\ [pending[cursor] EXCEPT !.txHashes = Append(@, nextHash)].txHashes = Append(hashes, nextHash)
    BY Zenon, <2>1 DEF PendingTx
  <2>4. pending' = [pending EXCEPT ![cursor] = [pending[cursor] EXCEPT !.txHashes = Append(@, nextHash)]]
    BY Zenon, <1>1
  <2> DEFINE entry == [pending[cursor] EXCEPT !.txHashes = Append(@, nextHash)]
  <2> HIDE DEF entry
  <2>5. /\ pending' = [pending EXCEPT ![cursor] = entry] /\ entry \in PendingTx
        /\ entry.job = pending[cursor].job /\ entry.nonce = pending[cursor].nonce
        /\ entry.txHashes = Append(hashes, nextHash)
    BY Zenon, <2>2, <2>3, <2>4 DEF entry
  <2> QED
    BY SMTT(30), Z3T(30), <2>1, <2>5, <1>1
<1>6. \A i \in DOMAIN pending : \A k \in DOMAIN pending'[i].txHashes :
        \/ k \in DOMAIN pending[i].txHashes /\ pending'[i].txHashes[k] = pending[i].txHashes[k]
        \/ i = cursor /\ pending'[i].txHashes[k] = nextHash
  BY ZenonT(30), <1>4, <1>5
<1>7. tx.hash = nextHash /\ tx.nonce = pending[cursor].nonce /\ tx.job = pending[cursor].job
  BY Zenon
<1> HIDE DEF tx, hashes
<1>8. TypeOK'
  <2>1. cursor' \in Nat \ {0}
    BY SMTT(30), Z3T(30), <1>1 DEF TypeOK
  <2> QED
    BY Zenon, <2>1, <1>1, <1>2, <1>5 DEF TypeOK
<1>9. ListInv'
  <2>1. \A i \in DOMAIN pending' : \A k \in DOMAIN pending'[i].txHashes :
          pending'[i].txHashes[k] < nextHash'
    <3> SUFFICES ASSUME NEW i \in DOMAIN pending', NEW k \in DOMAIN pending'[i].txHashes
                 PROVE  pending'[i].txHashes[k] < nextHash'
      BY Zenon
    <3>1. CASE k \in DOMAIN pending[i].txHashes /\ pending'[i].txHashes[k] = pending[i].txHashes[k]
      <4>1. pending[i].txHashes[k] \in Nat /\ pending[i].txHashes[k] < nextHash
        BY ZenonT(30), <3>1, <1>5, Elements DEF ListInv
      <4> QED
        BY SMTT(30), Z3T(30), <4>1, <3>1, <1>2, <1>3
    <3>2. CASE pending'[i].txHashes[k] = nextHash
      BY <3>2, <1>2, <1>3
    <3> QED
      BY Zenon, <3>1, <3>2, <1>5, <1>6
  <2>2. \A i, k \in DOMAIN pending' : i < k => pending'[i].nonce < pending'[k].nonce
    BY Zenon, <1>5 DEF ListInv
  <2>3. \A i, k \in DOMAIN pending' : pending'[i].job = pending'[k].job => i = k
    BY Zenon, <1>5 DEF ListInv
  <2>4. \A j \in Job : status'[j] = "pending" <=> \E i \in DOMAIN pending' : pending'[i].job = j
    BY SMTT(30), Z3T(30), <1>1, <1>5 DEF ListInv
  <2> QED
    BY Zenon, <2>1, <2>2, <2>3, <2>4 DEF ListInv
<1>10. JobInv'
  <2>1. ASSUME NEW t \in Sent', NEW i \in DOMAIN pending', NEW k \in DOMAIN pending'[i].txHashes,
               t.hash = pending'[i].txHashes[k]
        PROVE  t.job = pending'[i].job
    <3>1. CASE k \in DOMAIN pending[i].txHashes /\ pending'[i].txHashes[k] = pending[i].txHashes[k]
      BY SMTT(30), Z3T(30), <3>1, <2>1, <1>2, <1>5 DEF JobInv
    <3>2. CASE i = cursor /\ pending'[i].txHashes[k] = nextHash
      <4>1. t = tx
        BY SMTT(30), Z3T(30), <3>2, <2>1, <1>2, Elements DEF ChainInv
      <4> QED
        BY ZenonT(30), <4>1, <3>2, <1>5, <1>7
    <3> QED
      BY Zenon, <3>1, <3>2, <1>5, <1>6
  <2>2. \A t \in Sent', i \in DOMAIN pending' : t.job = pending'[i].job => t.nonce = pending'[i].nonce
    BY SMTT(30), Z3T(30), <1>2, <1>5
  <2> QED
    BY Zenon, <2>1, <2>2, <1>1, <1>2 DEF JobInv
<1>11. KnownInv'
  <2> SUFFICES ASSUME MaxAmbiguous = 0, MaxCrashes = 0
               PROVE  /\ \A t \in Sent' : status'[t.job] \in {"pending", "done"}
                      /\ \A t \in Sent', i \in DOMAIN pending' :
                           t.job = pending'[i].job =>
                             \E k \in DOMAIN pending'[i].txHashes : t.hash = pending'[i].txHashes[k]
    BY Zenon DEF KnownInv
  <2>1. status[tx.job] = "pending"
    BY Zenon, <1>1, <1>7, Elements DEF ListInv
  <2>2. \A t \in Sent' : status'[t.job] \in {"pending", "done"}
    BY Zenon, <2>1, <1>1, <1>2 DEF KnownInv
  <2>3. \A i \in DOMAIN pending : \A k \in DOMAIN pending[i].txHashes :
          k \in DOMAIN pending'[i].txHashes /\ pending'[i].txHashes[k] = pending[i].txHashes[k]
    BY ZenonT(30), <1>4, <1>5 DEF hashes
  <2>4. ASSUME NEW t \in Sent', NEW i \in DOMAIN pending', t.job = pending'[i].job
        PROVE  \E k \in DOMAIN pending'[i].txHashes : t.hash = pending'[i].txHashes[k]
    <3>1. CASE t \in Sent
      BY SMTT(30), Z3T(30), <3>1, <2>3, <2>4, <1>5 DEF KnownInv
    <3>2. CASE t = tx
      <4>1. i = cursor
        BY SMTT(30), Z3T(30), <3>2, <2>4, <1>1, <1>5, <1>7 DEF ListInv
      <4> QED
        BY Zenon, <4>1, <3>2, <1>4, <1>5, <1>7
    <3> QED
      BY Zenon, <3>1, <3>2, <1>2
  <2> QED
    BY Zenon, <2>2, <2>4
<1>12. ReceiptsInOrder'
  BY ZenonT(30), <1>1, <1>5 DEF ReceiptsInOrder
<1> QED
  BY Zenon, <1>2, <1>8, <1>9, <1>10, <1>11, <1>12

LEMMA CrashStep ==
  ASSUME PoolInv, Crash
  PROVE  PoolInv'
<1> USE DEF PoolInv
<1>1. /\ pending' = << >> /\ crashes < MaxCrashes /\ crashes' = crashes + 1 /\ block' = "idle"
      /\ status' = [j \in Job |-> IF status[j] = "pending" THEN "failed" ELSE status[j]]
      /\ UNCHANGED <<receipt, seenNonce, cursor, mempool, mined, chainNonce, nextHash, drops, failures, ambiguous>>
  BY Zenon DEF Crash, chainVars
<1>2. TypeOK'
  BY <1>1 DEF TypeOK
<1>3. Sent' = Sent /\ DOMAIN pending' = {}
  BY <1>1 DEF Sent
<1>4. ChainInv'
  BY Zenon, <1>1, <1>3 DEF ChainInv
<1>5. ListInv'
  BY Zenon, <1>1, <1>3 DEF ListInv, TypeOK
<1>6. JobInv'
  BY Zenon, <1>1, <1>3, Elements DEF JobInv
<1>7. KnownInv'
  BY <1>1, TxPoolAssumption DEF KnownInv, TypeOK
<1>8. ExecutedOnce'
  BY Zenon, <1>1 DEF ExecutedOnce
<1>9. ReceiptsInOrder'
  BY Zenon, <1>3 DEF ReceiptsInOrder
<1> QED
  BY Zenon, <1>2, <1>4, <1>5, <1>6, <1>7, <1>8, <1>9

LEMMA NextPool ==
  PoolInv /\ [Next]_vars => PoolInv'
<1> SUFFICES ASSUME PoolInv, [Next]_vars PROVE PoolInv'
  BY Zenon
<1> USE DEF poolVars, blockVars, chainVars, countVars
<1>1. CASE Mine
  BY Zenon, <1>1, MineStep
<1>2. CASE Drop
  BY Zenon, <1>2, DropStep
<1>3. CASE \E j \in Job : Submit(j) \/ SubmitFails(j) \/ SubmitAmbiguous(j)
  BY ZenonT(30), <1>3, SubmitStep, SubmitFailsStep, SubmitAmbiguousStep
<1>4. CASE OnBlock
  BY SMTT(30), Z3T(30), <1>4, QuietStep DEF OnBlock, PoolInv, TypeOK
<1>5. CASE OnBlockFails
  BY SMTT(30), Z3T(30), <1>5, QuietStep DEF OnBlockFails, PoolInv, TypeOK
<1>6. CASE DeliverReceipt
  BY Zenon, <1>6, DeliverStep
<1>7. CASE EndReceipts
  BY ZenonT(30), <1>7, QuietStep DEF EndReceipts, PoolInv, TypeOK
<1>8. CASE Replace
  BY Zenon, <1>8, ReplaceStep
<1>9. CASE SkipReplace
  BY SMTT(30), Z3T(30), <1>9, QuietStep DEF SkipReplace, PoolInv, TypeOK
<1>10. CASE ReplaceAmbiguous
  BY Zenon, <1>10, ReplaceAmbiguousStep
<1>11. CASE EndReplace
  BY Zenon, <1>11, QuietStep DEF EndReplace, PoolInv, TypeOK
<1>12. CASE Crash
  BY Zenon, <1>12, CrashStep
<1>13. CASE UNCHANGED vars
  BY Zenon, <1>13, QuietStep DEF vars, PoolInv, TypeOK
<1> QED
  BY ZenonT(30), <1>1, <1>2, <1>3, <1>4, <1>5, <1>6, <1>7, <1>8, <1>9, <1>10, <1>11, <1>12, <1>13 DEF Next

\* The invariant of the pool and the chain, in every reachable state.
THEOREM PoolInvariance ==
  Spec => []PoolInv
  BY InitPool, NextPool, PTL DEF Spec

\* However often a transaction is replaced, forgotten and sent again, also
\* by a process that cannot know whether a send succeeded, its job is
\* executed once and its caller gets the receipt of that execution.
THEOREM JobsExecuteOnce ==
  Spec => []ExecutedOnce
<1>1. PoolInv => ExecutedOnce
  BY Zenon DEF PoolInv
<1> QED
  BY <1>1, PoolInvariance, PTL

\* A caller has its receipt only when no transaction sent before its own
\* still waits.
THEOREM ReceiptsComeInOrder ==
  Spec => []ReceiptsInOrder
<1>1. PoolInv => ReceiptsInOrder
  BY Zenon DEF PoolInv
<1> QED
  BY <1>1, PoolInvariance, PTL

\* As long as every send that reaches the network is reported as sent and
\* the process is not restarted, the transaction that used up the nonce of
\* a pending one is one that the pool knows, and the loop of OnBlock that
\* asks for its receipt ends.
THEOREM ReceiptsAreKnown ==
  ASSUME MaxAmbiguous = 0, MaxCrashes = 0
  PROVE  Spec => []ReceiptKnown
<1>1. PoolInv => ReceiptKnown
  <2> SUFFICES ASSUME PoolInv, NEW i \in DOMAIN pending, pending[i].nonce < chainNonce
               PROVE  \E t \in mined, k \in DOMAIN pending[i].txHashes : t.hash = pending[i].txHashes[k]
    BY Zenon DEF ReceiptKnown
  <2> USE DEF PoolInv
  <2>1. pending[i].nonce \in 0..(chainNonce - 1)
    BY Elements
  <2>2. PICK t \in mined : t.nonce = pending[i].nonce
    BY Zenon, <2>1 DEF ChainInv
  <2>3. t \in Sent /\ t.nonce \in Nat /\ t.job \in Job
    BY Zenon, Elements DEF Sent
  <2>4. status[t.job] \in {"pending", "done"}
    BY Zenon, <2>3 DEF KnownInv
  <2>5. status[t.job] # "done"
    BY <2>2, <2>3 DEF ReceiptsInOrder
  <2>6. PICK m \in DOMAIN pending : pending[m].job = t.job
    BY Zenon, <2>3, <2>4, <2>5 DEF ListInv
  <2>7. pending[m].nonce = pending[i].nonce
    BY ZenonT(30), <2>2, <2>3, <2>6 DEF JobInv
  <2>8. m = i
    BY SMTT(30), Z3T(30), <2>7, Elements DEF ListInv
  <2> QED
    BY Zenon, <2>3, <2>6, <2>8 DEF KnownInv
<1> QED
  BY <1>1, PoolInvariance, PTL

(***************************************************************************)
(* The loop of the ChainMonitor skips no block, runs ahead of no chain and *)
(* announces the blocks one by one, for every limit of a range, every      *)
(* height of the chain and every lag of the providers.                     *)
(***************************************************************************)
\* What the bounds are, and that the block numbers do not reach the width of the integers.
LEMMA BoundFacts ==
  ASSUME chainBound \in ChainBounds
  PROVE  /\ chainBound.height \in Nat /\ chainBound.lag \in Nat
         /\ chainBound.behind \in BOOLEAN /\ chainBound.logsBehind \in BOOLEAN
         /\ RangeLimit \in Nat /\ Width \in Nat
         /\ chainBound.height + RangeLimit < Width /\ 1 + RangeLimit < Width
BY Zenon, ChainAssumption DEF ChainBound

\* The range of a round is not empty, and ends at the head at the latest unless the first
\* head is behind the block to start from: then it is a whole range.
LEMMA RangeOfRound ==
  ASSUME MonitorInv, NEW h \in 0..chainHead, started # NotStarted,
         lastProcessed = NothingYet \/ lastProcessed < h
  PROVE  /\ ToBlock(h) \in Nat /\ fromBlock <= ToBlock(h)
         /\ h >= fromBlock => ToBlock(h) <= h
<1>1. /\ fromBlock \in Nat /\ chainHead \in Nat /\ h \in Nat /\ h <= chainHead
  BY SMTT(30), Z3T(30) DEF MonitorInv, MonitorTypeOK
<1>2. h < fromBlock => fromBlock = started /\ started <= chainHead
  BY SMTT(30), Z3T(30), <1>1 DEF MonitorInv, MonitorTypeOK, NothingYet
<1>3. h < fromBlock => h - fromBlock + Width > RangeLimit
  BY SMTT(30), Z3T(30), <1>1, <1>2, BoundFacts DEF MonitorInv
<1> QED
  BY SMTT(30), Z3T(30), <1>1, <1>3, BoundFacts DEF ToBlock, Minus, MonitorInv

\* The loop starts with the invariant.
LEMMA InitMonitorInv == MonitorInit => MonitorInv
BY BoundFacts DEF MonitorInit, MonitorInv, MonitorTypeOK, NotStarted, NothingYet, NoPoll, Polling

\* Every step of the loop, of the chain and of the callbacks preserves the invariant.
LEMMA NextMonitorInv ==
  MonitorInv /\ [MonitorNext]_<<monitorVars, chainBound>> => MonitorInv'
<1> SUFFICES ASSUME MonitorInv, [MonitorNext]_<<monitorVars, chainBound>>
             PROVE  MonitorInv'
  BY ZenonT(30)
<1> USE BoundFacts DEF NotStarted, NothingYet, NoPoll, Polling, Upto
<1>1. CASE NewBlock /\ UNCHANGED chainBound
  BY SMTT(30), Z3T(30), <1>1 DEF NewBlock, MonitorInv, MonitorTypeOK, Sound
<1>2. CASE StartMonitor /\ UNCHANGED chainBound
  BY SMTT(30), Z3T(30), <1>2 DEF StartMonitor, MonitorInv, MonitorTypeOK, Sound
<1>3. CASE AnnounceBlock /\ UNCHANGED chainBound
  BY <1>3 DEF AnnounceBlock, AnnouncedAfter, MonitorInv, MonitorTypeOK, Sound
<1>4. CASE HandLogs /\ UNCHANGED chainBound
  BY SMTT(30), Z3T(30), <1>4 DEF HandLogs, MonitorInv, MonitorTypeOK, Sound
<1>5. CASE EndRound /\ UNCHANGED chainBound
  BY SMTT(30), Z3T(30), <1>5 DEF EndRound, NextFrom, MonitorInv, MonitorTypeOK, Sound
<1>6. ASSUME NEW h \in 0..chainHead, NEW l \in 0..chainHead, MayRead(h, l), BeginRound(h, l),
             UNCHANGED chainBound
      PROVE  MonitorInv'
  <2>1. ToBlock(h) \in Nat /\ fromBlock <= ToBlock(h) /\ (h >= fromBlock => ToBlock(h) <= h)
    BY ZenonT(30), <1>6, RangeOfRound DEF BeginRound
  <2>2. ~chainBound.behind => h >= fromBlock
    BY <1>6 DEF MayRead, BeginRound, MonitorInv, MonitorTypeOK
  <2>3. Sound => l = chainHead
    BY Zenon, <1>6 DEF MayRead, Sound
  <2> QED
    BY SMTT(30), Z3T(30), <1>6, <2>1, <2>2, <2>3 DEF BeginRound, MonitorInv, MonitorTypeOK, Sound
<1>7. CASE UNCHANGED <<monitorVars, chainBound>>
  BY Zenon, <1>7 DEF monitorVars, MonitorInv, MonitorTypeOK, Sound
<1> QED
  BY Zenon, <1>1, <1>2, <1>3, <1>4, <1>5, <1>6, <1>7 DEF MonitorNext

\* The invariant gives the properties of the loop.
LEMMA MonitorInvImplies == MonitorInv => NoBlockSkipped /\ NothingAhead
<1> SUFFICES ASSUME MonitorInv PROVE NoBlockSkipped /\ NothingAhead
  BY ZenonT(30)
<1> USE BoundFacts DEF NotStarted, NothingYet, NoPoll, Polling, Upto, MonitorInv, MonitorTypeOK, Sound
<1>1. NoBlockSkipped
  BY SMTT(30), Z3T(30) DEF NoBlockSkipped
<1>2. NothingAhead
  BY DEF NothingAhead
<1> QED
  BY Zenon, <1>1, <1>2

\* A step announces no block, or the next one.
LEMMA NextAnnounces ==
  ASSUME MonitorInv, MonitorNext, announced' # announced
  PROVE  \/ announced = 0 /\ announced' = started
         \/ announced # 0 /\ announced' = announced + 1
<1>1. AnnounceBlock
  BY Zenon DEF MonitorNext, NewBlock, StartMonitor, HandLogs, EndRound, BeginRound
<1> QED
  BY <1>1 DEF AnnounceBlock, AnnouncedAfter, MonitorInv, MonitorTypeOK, Upto, NotStarted, Polling

\* The state of the loop keeps its invariant (chain_monitor.go:219-322).
THEOREM LoopInvariant == MonitorSpec => []MonitorInv
BY InitMonitorInv, NextMonitorInv, PTL DEF MonitorSpec

\* No block between the one the process started at and the next range is left out, neither
\* its logs nor its announcement, when the first head and the logs are not read from a
\* provider that is behind (chain_monitor.go:242-272, 312-319).
THEOREM NoBlockIsSkipped == MonitorSpec => []NoBlockSkipped
BY LoopInvariant, MonitorInvImplies, PTL

\* The loop announces no block that the chain does not have (chain_monitor.go:255-260).
THEOREM NothingIsAhead == MonitorSpec => []NothingAhead
BY LoopInvariant, MonitorInvImplies, PTL

\* The callbacks get the blocks one by one, each once, whatever the providers answer
\* (chain_monitor_builder.go:119-126).
THEOREM BlocksComeOneByOne == MonitorSpec => BlocksOneByOne
<1>1. MonitorInv /\ [MonitorNext]_<<monitorVars, chainBound>>
        => [announced' # announced => \/ announced = 0 /\ announced' = started
                                      \/ announced # 0 /\ announced' = announced + 1]_monitorVars
  BY Zenon, NextAnnounces DEF monitorVars
<1> QED
  BY <1>1, LoopInvariant, PTL DEF MonitorSpec, BlocksOneByOne

(***************************************************************************)
(* The load of the streams of a client: LoadInv is inductive.  One tick    *)
(* runs at a time and takes the tasks in their order; the counter of the   *)
(* loads from the network is never less than those that are missing.       *)
(***************************************************************************)

\* The three tasks in the order of start().
LEMMA TaskLists ==
  /\ AllTasks # <<>> /\ Head(AllTasks) = "high" /\ Tail(AllTasks) = TasksAfter("high")
  /\ TasksAfter("high") # <<>> /\ Head(TasksAfter("high")) = "persistence"
  /\ Tail(TasksAfter("high")) = TasksAfter("persistence")
  /\ TasksAfter("persistence") # <<>> /\ Head(TasksAfter("persistence")) = "network"
  /\ Tail(TasksAfter("persistence")) = <<>> /\ TasksAfter("network") = <<>>
  /\ AllTasks # TasksAfter("high") /\ AllTasks # TasksAfter("persistence")
  /\ TasksAfter("high") # TasksAfter("persistence")
  BY DEF AllTasks, TasksAfter

\* The streams that are counted are finitely many.
LEMMA CountedSets ==
  /\ IsFiniteSet(NotStored) /\ IsFiniteSet(AskedNetwork)
  /\ Cardinality(NotStored) \in Nat /\ Cardinality(AskedNetwork) \in Nat
<1>1. NotStored \subseteq Joined /\ AskedNetwork \subseteq Joined
  BY Zenon DEF NotStored, AskedNetwork
<1>2. IsFiniteSet(NotStored) /\ IsFiniteSet(AskedNetwork)
  BY <1>1, LoadAssumption, FS_Subset
<1> QED BY <1>2, FS_CardinalityType

\* With no request to the network outstanding, each stream that is not loaded has been asked for.
LEMMA NothingOutstanding ==
  LoadCore /\ didLoadStreamsFromPersistence /\ streamCountRequiringNetworkAccess = 0
    => \A s \in streamIds : <<"network", s, FALSE>> \in ended
<1> SUFFICES ASSUME LoadCore, didLoadStreamsFromPersistence, streamCountRequiringNetworkAccess = 0
             PROVE \A s \in streamIds : <<"network", s, FALSE>> \in ended
  BY Zenon
<1>1. AskedNetwork \subseteq NotStored
  BY Zenon DEF LoadCore, StreamsCovered
<1>2. Cardinality(NotStored) - Cardinality(AskedNetwork) <= 0
  BY SMTT(30), Z3T(30), CountedSets DEF LoadCore, CountSuffices
<1>3. Cardinality(AskedNetwork) <= Cardinality(NotStored)
      /\ (Cardinality(NotStored) = Cardinality(AskedNetwork) => NotStored = AskedNetwork)
  BY SMTT(30), Z3T(30), <1>1, CountedSets, FS_Subset
<1>4. NotStored = AskedNetwork
  BY <1>2, <1>3, CountedSets
<1>5. ~NotBegun("persistence") /\ "persistence" \notin jobs
  BY Zenon DEF LoadCore, TasksInOrder
<1>6. toLoad["persistence"] = {} /\ loading["persistence"] = {}
  BY SMTT(30), Z3T(30), <1>5 DEF LoadCore, JobOK, LoadJob
<1>7. streamIds \subseteq NotStored
  BY <1>5, <1>6 DEF LoadCore, StreamsCovered
<1> SUFFICES ASSUME NEW s \in streamIds PROVE <<"network", s, FALSE>> \in ended
  BY Zenon
<1>8. PICK ok \in BOOLEAN : <<"network", s, ok>> \in ended
  BY <1>4, <1>7 DEF AskedNetwork
<1>9. <<"network", s, TRUE>> \notin ended
  BY Zenon DEF LoadCore, StreamsCovered
<1> QED BY <1>8, <1>9, Zenon

LEMMA LoadInitInv == LoadInit => LoadInv
<1> SUFFICES ASSUME LoadInit PROVE LoadInv
  OBVIOUS
<1> USE DEF LoadInit
<1>1. LoadTypes
  <2>1. loadBound \in LoadBound
    BY LoadAssumption
  <2>2. toLoad \in [LoadJob -> SUBSET Joined] /\ loading \in [LoadJob -> SUBSET Joined]
    <3>1. toLoad = [j \in LoadJob |-> {}] /\ loading = [j \in LoadJob |-> {}] /\ {} \in SUBSET Joined
      BY Zenon
    <3> HIDE DEF LoadInit
    <3> QED BY <3>1
  <2>3. streamIds \subseteq Joined /\ ended \subseteq LoadJob \X Joined \X BOOLEAN /\ loadStarted \in BOOLEAN
    BY Zenon
  <2>4. streamCountRequiringNetworkAccess \in Int
    BY SMTT(30), Z3T(30)
  <2> QED BY <2>1, <2>2, <2>3, <2>4, Zenon DEF LoadTypes
<1>2. OneTick /\ (\A j \in LoadJob : JobOK(j)) /\ StatusTrue
  BY SMTT(30), Z3T(30) DEF OneTick, JobOK, StatusTrue
<1>3. TasksInOrder
  <2>1. "network" \in LoadJob /\ loadTasks = TasksAfter("network")
    BY SMTT(30), Z3T(30), TaskLists DEF LoadJob
  <2> QED BY SMTT(30), Z3T(30), <2>1 DEF TasksInOrder, NotBegun
<1>4. NotStored = {} /\ AskedNetwork = {}
  BY SMTT(30), Z3T(30) DEF NotStored, AskedNetwork
<1>5. StreamsCovered
  BY SMTT(30), Z3T(30), <1>4 DEF StreamsCovered, LoadJob
<1>6. CountSuffices
  BY <1>4, FS_EmptySet DEF CountSuffices
<1> QED BY SMTT(30), Z3T(30), <1>1, <1>2, <1>3, <1>5, <1>6 DEF LoadInv, LoadCore

\* What a step leaves alone that only moves the timeout or the sync.
LoadsSame ==
  /\ loadStarted' = loadStarted /\ loadTasks' = loadTasks /\ streamIds' = streamIds /\ toLoad' = toLoad
  /\ loading' = loading /\ jobs' = jobs /\ ended' = ended /\ didLoadStreamsFromPersistence' = didLoadStreamsFromPersistence
  /\ streamCountRequiringNetworkAccess' = streamCountRequiringNetworkAccess /\ initStatus' = initStatus
  /\ loadBound' = loadBound

LEMMA SameLoads ==
  ASSUME LoadCore, StatusTrue, LoadsSame, OneTick'
  PROVE LoadCore' /\ StatusTrue'
<1>1. \A j : NotBegun(j)' <=> NotBegun(j)
  BY Zenon DEF LoadsSame, NotBegun
<1>2. NotStored' = NotStored /\ AskedNetwork' = AskedNetwork
  BY Zenon DEF LoadsSame, NotStored, AskedNetwork
<1>3. LoadTypes' /\ StatusTrue'
  BY Zenon DEF LoadCore, LoadsSame, LoadTypes, StatusTrue
<1>4. TasksInOrder'
  BY <1>1, Zenon DEF LoadCore, LoadsSame, TasksInOrder
<1>5. \A j \in LoadJob : JobOK(j)'
  BY <1>1, Zenon DEF LoadCore, LoadsSame, JobOK
<1>6. StreamsCovered'
  BY <1>1, <1>2, Zenon DEF LoadCore, LoadsSame, StreamsCovered
<1>7. CountSuffices'
  BY <1>2, Zenon DEF LoadCore, LoadsSame, CountSuffices
<1> QED BY <1>3, <1>4, <1>5, <1>6, <1>7, Zenon DEF LoadCore

LEMMA EmitTrue ==
  ASSUME LoadCore', EmitClientStatus
  PROVE StatusTrue'
<1>1. initStatus'.isRemoteDataLoaded => didLoadStreamsFromPersistence' /\ streamCountRequiringNetworkAccess' = 0
  BY Zenon DEF EmitClientStatus
<1>2. initStatus'.isLocalDataLoaded = didLoadStreamsFromPersistence'
  BY DEF EmitClientStatus
<1>3. (LoadCore /\ didLoadStreamsFromPersistence /\ streamCountRequiringNetworkAccess = 0
        => \A s \in streamIds : <<"network", s, FALSE>> \in ended)'
  BY NothingOutstanding, PTL
<1> QED BY <1>1, <1>2, <1>3, Zenon DEF StatusTrue

LEMMA StartLoadingInv ==
  ASSUME LoadCore, StatusTrue, StartLoading, loadBound' = loadBound
  PROVE LoadCore' /\ StatusTrue'
<1>a. LoadTypes /\ OneTick /\ TasksInOrder /\ (\A j \in LoadJob : JobOK(j)) /\ StreamsCovered /\ CountSuffices
  BY Zenon DEF LoadCore
<1>b. /\ ~loadStarted /\ loadStarted' = TRUE /\ streamIds' = Joined /\ loadTasks' = AllTasks
      /\ timeoutId' = CheckStartTicking(timeoutId) /\ toLoad' = toLoad /\ loading' = loading /\ jobs' = jobs
      /\ startingSync' = startingSync /\ strayTimeouts' = strayTimeouts /\ ended' = ended
      /\ didLoadStreamsFromPersistence' = didLoadStreamsFromPersistence /\ initStatus' = initStatus
      /\ streamCountRequiringNetworkAccess' = streamCountRequiringNetworkAccess
  BY SMTT(30), Z3T(30) DEF StartLoading, AllTasks
<1>1. \A j : NotBegun(j) /\ NotBegun(j)'
  BY <1>b DEF NotBegun
<1>2. NotStored' = NotStored /\ AskedNetwork' = AskedNetwork
  BY <1>b, Zenon DEF NotStored, AskedNetwork
<1>3. LoadTypes'
  BY SMTT(30), Z3T(30), <1>a, <1>b DEF LoadTypes
<1>4. OneTick'
  <2>1. timeoutId = "none" /\ jobs = {} /\ startingSync = 0 /\ strayTimeouts = 0
    BY SMTT(30), Z3T(30), <1>a, <1>b DEF OneTick
  <2>2. timeoutId' = "armed"
    BY <1>b, <2>1, TaskLists DEF CheckStartTicking
  <2> QED BY SMTT(30), Z3T(30), <1>b, <2>1, <2>2 DEF OneTick
<1>5. TasksInOrder' /\ ~initStatus.isRemoteDataLoaded
  BY <1>a, <1>b, <1>1, Zenon DEF TasksInOrder
<1>6. \A j \in LoadJob : JobOK(j)'
  BY <1>a, <1>b, <1>1, Zenon DEF JobOK
<1>7. StreamsCovered'
  <2>1. \A s \in Joined : <<"network", s, TRUE>> \notin ended
    BY <1>a, <1>1, Zenon DEF JobOK, LoadJob
  <2> QED BY <1>a, <1>b, <1>1, <1>2, <2>1, Zenon DEF StreamsCovered
<1>8. CountSuffices'
  BY <1>a, <1>b, <1>2, Zenon DEF CountSuffices
<1> QED BY <1>b, <1>3, <1>4, <1>5, <1>6, <1>7, <1>8, Zenon DEF LoadCore, StatusTrue

LEMMA SetStartSyncRequestedInv ==
  ASSUME LoadCore, StatusTrue, NEW wish \in BOOLEAN, SetStartSyncRequested(wish), loadBound' = loadBound
  PROVE LoadCore' /\ StatusTrue'
<1>1. /\ LoadsSame /\ startingSync' = startingSync /\ strayTimeouts' = strayTimeouts
      /\ timeoutId' = timeoutId \/ (timeoutId = "none" /\ timeoutId' = "armed" /\ loadStarted)
  BY SMTT(30), Z3T(30) DEF SetStartSyncRequested, LoadsSame, taskVars, statusVars, CheckStartTicking
<1>2. OneTick'
  BY SMTT(30), Z3T(30), <1>1 DEF LoadCore, OneTick, LoadsSame
<1> QED BY <1>1, <1>2, SameLoads, Zenon

\* The timeout after a tick.
LEMMA TickEndsFacts ==
  ASSUME OneTick, timeoutId = "fired", TickEnds, loadStarted' = loadStarted
  PROVE strayTimeouts' = 0 /\ timeoutId' \in {"none", "armed"} /\ loadStarted
  BY DEF OneTick, TickEnds, AfterTick, CheckStartTicking

LEMMA SyncIsStartedInv ==
  ASSUME LoadCore, StatusTrue, SyncIsStarted, loadBound' = loadBound
  PROVE LoadCore' /\ StatusTrue'
<1>1. LoadsSame /\ startingSync > 0 /\ startingSync' = startingSync - 1 /\ TickEnds
  BY SMTT(30), Z3T(30) DEF SyncIsStarted, LoadsSame, statusVars
<1>2. OneTick'
  <2>1. timeoutId = "fired" /\ jobs = {} /\ startingSync' = 0 /\ OneTick
    BY SMTT(30), Z3T(30), <1>1 DEF LoadCore, OneTick
  <2>2. strayTimeouts' = 0 /\ timeoutId' \in {"none", "armed"} /\ loadStarted
    BY <1>1, <2>1, TickEndsFacts DEF LoadsSame
  <2> QED BY SMTT(30), Z3T(30), <1>1, <2>1, <2>2 DEF OneTick, LoadsSame
<1> QED BY <1>1, <1>2, SameLoads, Zenon

\* A tick takes the next task.
LEMMA BeginJobInv ==
  ASSUME LoadCore, StatusTrue, timeoutId = "armed", timeoutId' = "fired", strayTimeouts' = strayTimeouts,
         NEW j, loadTasks # <<>>, j = Head(loadTasks), BeginJob(j), loadBound' = loadBound
  PROVE LoadCore' /\ StatusTrue'
<1>a. LoadTypes /\ OneTick /\ TasksInOrder /\ (\A k \in LoadJob : JobOK(k)) /\ StreamsCovered /\ CountSuffices
  BY Zenon DEF LoadCore
<1>b. /\ loadTasks' = Tail(loadTasks) /\ jobs' = jobs \cup {j}
      /\ toLoad' = [toLoad EXCEPT ![j] = IF j = "high" THEN loadBound.high ELSE streamIds]
      /\ loadStarted' = loadStarted /\ loading' = loading /\ startingSync' = startingSync /\ streamIds' = streamIds
      /\ didLoadStreamsFromPersistence' = didLoadStreamsFromPersistence /\ initStatus' = initStatus /\ ended' = ended
      /\ streamCountRequiringNetworkAccess' = streamCountRequiringNetworkAccess
  BY SMTT(30), Z3T(30) DEF BeginJob, statusVars
<1>c. jobs = {} /\ jobs' = {j} /\ startingSync = 0 /\ loadStarted /\ strayTimeouts = 0
  BY <1>a, <1>b DEF OneTick
<1>d. /\ j \in LoadJob /\ loadTasks' = TasksAfter(j)
      /\ \/ loadTasks = AllTasks /\ j = "high"
         \/ loadTasks = TasksAfter("high") /\ j = "persistence"
         \/ loadTasks = TasksAfter("persistence") /\ j = "network"
  <2>1. loadTasks \in {AllTasks, TasksAfter("high"), TasksAfter("persistence")}
    BY ZenonT(30), <1>a, TaskLists DEF TasksInOrder, LoadJob
  <2> QED BY <1>b, <2>1, TaskLists, Zenon DEF LoadJob
<1>e. NotBegun(j) /\ ~NotBegun(j)' /\ \A k \in LoadJob : k # j => (NotBegun(k)' <=> NotBegun(k))
  BY SMTT(30), Z3T(30), <1>b, <1>c, <1>d, TaskLists DEF NotBegun, LoadJob
<1>f. \A k \in LoadJob : toLoad[k] = {} /\ loading[k] = {}
  BY <1>a, <1>c, Zenon DEF JobOK
<1>g. /\ toLoad'[j] = IF j = "high" THEN loadBound.high ELSE streamIds
      /\ \A k \in LoadJob : k # j => toLoad'[k] = {}
      /\ toLoad' = [toLoad EXCEPT ![j] = toLoad'[j]]
  BY <1>a, <1>b, <1>d, <1>f, Zenon DEF LoadTypes
<1>2. NotStored' = NotStored /\ AskedNetwork' = AskedNetwork
  BY <1>b, Zenon DEF NotStored, AskedNetwork
<1>3. LoadTypes'
  <2>1. toLoad'[j] \in SUBSET Joined
    BY <1>a, <1>g DEF LoadTypes, LoadBound
  <2>2. toLoad' \in [LoadJob -> SUBSET Joined]
    BY <1>a, <1>g, <2>1, Zenon DEF LoadTypes
  <2> QED BY <1>a, <1>b, <2>2, ZenonT(30) DEF LoadTypes
<1>4. OneTick'
  BY <1>b, <1>c, <1>d, Zenon DEF OneTick
<1>5. TasksInOrder'
  <2>1. didLoadStreamsFromPersistence <=> ~NotBegun("persistence")
    BY <1>a, <1>c, Zenon DEF TasksInOrder
  <2>2. ~NotBegun("persistence")' /\ "persistence" \notin jobs' <=> ~NotBegun("persistence")
    BY <1>c, <1>d, <1>e DEF LoadJob
  <2> QED BY <1>a, <1>b, <1>c, <1>d, <2>1, <2>2, Zenon DEF TasksInOrder
<1>6. ASSUME NEW k \in LoadJob PROVE JobOK(k)'
  <2>1. CASE k = j
    <3>1. \A s \in Joined, ok \in BOOLEAN : <<j, s, ok>> \notin ended
      BY <1>a, <1>d, <1>e, Zenon DEF JobOK
    <3>2. toLoad'[j] \subseteq Joined /\ loading'[j] = {} /\ j \in jobs'
      BY SMTT(30), Z3T(30), <1>3, <1>b, <1>c, <1>d, <1>f DEF LoadTypes
    <3> QED BY <1>b, <1>e, <2>1, <3>1, <3>2 DEF JobOK
  <2>2. CASE k # j
    <3>1. toLoad'[k] = {} /\ loading'[k] = {} /\ k \notin jobs'
      BY SMTT(30), Z3T(30), <1>b, <1>c, <1>f, <1>g, <2>2
    <3>2. NotBegun(k)' => \A s \in Joined, ok \in BOOLEAN : <<k, s, ok>> \notin ended'
      BY <1>a, <1>b, <1>e, <2>2, Zenon DEF JobOK
    <3> QED BY <3>1, <3>2, Zenon DEF JobOK
  <2> QED BY <2>1, <2>2, Zenon
<1>7. StreamsCovered'
  <2>1. ~NotBegun("persistence")' => streamIds' \subseteq (toLoad["persistence"] \cup loading["persistence"] \cup NotStored)'
    <3>1. CASE j = "persistence"
      BY ZenonT(30), <1>b, <1>g, <3>1
    <3>2. CASE j # "persistence"
      <4>1. ~NotBegun("persistence")' => streamIds \subseteq NotStored
        BY SMTT(30), Z3T(30), <1>a, <1>d, <1>e, <1>f, <3>2 DEF StreamsCovered, LoadJob
      <4> QED BY ZenonT(30), <1>2, <1>b, <4>1
    <3> QED BY <3>1, <3>2, Zenon
  <2>2. (toLoad["network"] \cup loading["network"] \cup AskedNetwork)' \subseteq NotStored'
    <3>0. AskedNetwork' \subseteq NotStored' /\ loading'["network"] = {}
      BY ZenonT(30), <1>a, <1>b, <1>2, <1>f DEF StreamsCovered, LoadJob
    <3>1. CASE j = "network"
      <4>1. ~NotBegun("persistence")
        BY ZenonT(30), <1>c, <1>d, <3>1, TaskLists DEF NotBegun
      <4>2. streamIds \subseteq NotStored
        BY SMTT(30), Z3T(30), <1>a, <1>f, <4>1 DEF StreamsCovered, LoadJob
      <4> QED BY ZenonT(30), <1>2, <1>g, <3>0, <3>1, <4>2
    <3>2. CASE j # "network"
      <4>1. toLoad'["network"] = {}
        BY <1>g, <3>2 DEF LoadJob
      <4> QED BY SMTT(30), Z3T(30), <3>0, <4>1
    <3> QED BY <3>1, <3>2, Zenon
  <2> QED BY <1>a, <1>b, <2>1, <2>2, Zenon DEF StreamsCovered
<1>8. CountSuffices'
  BY <1>a, <1>b, <1>2, Zenon DEF CountSuffices
<1> QED BY <1>b, <1>3, <1>4, <1>5, <1>6, <1>7, <1>8, Zenon DEF LoadCore, StatusTrue

LEMMA TimeoutFiresInv ==
  ASSUME LoadCore, StatusTrue, TimeoutFires, loadBound' = loadBound
  PROVE LoadCore' /\ StatusTrue'
<1>0. timeoutId = "armed" /\ strayTimeouts' = strayTimeouts
  BY Zenon DEF TimeoutFires
<1>a. OneTick /\ jobs = {} /\ startingSync = 0 /\ loadStarted /\ strayTimeouts = 0
  BY <1>0 DEF LoadCore, OneTick
<1>1. CASE timeoutId' = "fired" /\ loadTasks # <<>> /\ BeginJob(Head(loadTasks))
  <2>1. PICK j : j = Head(loadTasks)
    OBVIOUS
  <2> QED BY <1>0, <1>1, <2>1, BeginJobInv, Zenon
<1>2. CASE timeoutId' = "fired" /\ loadTasks = <<>> /\ startSyncRequested /\ BeginSync
  <2>1. LoadsSame /\ startingSync' = startingSync + 1
    BY SMTT(30), Z3T(30), <1>2 DEF BeginSync, LoadsSame, statusVars
  <2>2. OneTick'
    BY SMTT(30), Z3T(30), <1>0, <1>2, <1>a, <2>1 DEF OneTick, LoadsSame
  <2> QED BY <2>1, <2>2, SameLoads, Zenon
<1>3. CASE timeoutId' = "none" /\ UNCHANGED <<loadStarted, taskVars, statusVars, startSyncRequested, loadRequests, loadStops>>
  <2>1. LoadsSame /\ startingSync' = startingSync
    BY SMTT(30), Z3T(30), <1>3 DEF LoadsSame, statusVars, taskVars
  <2>2. OneTick'
    BY SMTT(30), Z3T(30), <1>0, <1>3, <1>a, <2>1 DEF OneTick, LoadsSame
  <2> QED BY <2>1, <2>2, SameLoads, Zenon
<1> QED BY <1>1, <1>2, <1>3, Zenon DEF TimeoutFires, LoaderTick

LEMMA BeginLoadInv ==
  ASSUME LoadCore, StatusTrue, NEW j \in LoadJob, NEW s \in Joined, BeginLoad(j, s), loadBound' = loadBound
  PROVE LoadCore' /\ StatusTrue'
<1>a. LoadTypes /\ OneTick /\ TasksInOrder /\ (\A k \in LoadJob : JobOK(k)) /\ StreamsCovered /\ CountSuffices
  BY Zenon DEF LoadCore
<1>b. /\ s \in toLoad[j] /\ toLoad' = [toLoad EXCEPT ![j] = @ \ {s}] /\ loading' = [loading EXCEPT ![j] = @ \cup {s}]
      /\ loadTasks' = loadTasks /\ jobs' = jobs /\ timeoutId' = timeoutId /\ strayTimeouts' = strayTimeouts
      /\ loadStarted' = loadStarted /\ startingSync' = startingSync /\ streamIds' = streamIds
      /\ didLoadStreamsFromPersistence' = didLoadStreamsFromPersistence /\ initStatus' = initStatus /\ ended' = ended
      /\ streamCountRequiringNetworkAccess' = streamCountRequiringNetworkAccess
  BY DEF BeginLoad, statusVars, timerVars
<1>1. \A k : NotBegun(k)' <=> NotBegun(k)
  BY <1>b, Zenon DEF NotBegun
<1>2. NotStored' = NotStored /\ AskedNetwork' = AskedNetwork
  BY <1>b, Zenon DEF NotStored, AskedNetwork
<1>g. /\ toLoad'[j] = toLoad[j] \ {s} /\ loading'[j] = loading[j] \cup {s}
      /\ \A k \in LoadJob : k # j => toLoad'[k] = toLoad[k] /\ loading'[k] = loading[k]
  BY <1>a, <1>b, Zenon DEF LoadTypes
<1>h. \A k \in LoadJob : toLoad'[k] \cup loading'[k] = toLoad[k] \cup loading[k]
  BY <1>b, <1>g
<1>3. LoadTypes'
  <2>1. toLoad[j] \ {s} \in SUBSET Joined /\ loading[j] \cup {s} \in SUBSET Joined
    BY <1>a DEF LoadTypes
  <2>2. toLoad' \in [LoadJob -> SUBSET Joined] /\ loading' \in [LoadJob -> SUBSET Joined]
    BY <1>a, <1>b, <2>1, Zenon DEF LoadTypes
  <2> QED BY <1>a, <1>b, <2>2, Zenon DEF LoadTypes
<1>4. OneTick' /\ StatusTrue'
  BY <1>a, <1>b, Zenon DEF OneTick, StatusTrue
<1>5. TasksInOrder'
  BY <1>a, <1>b, <1>1, Zenon DEF TasksInOrder
<1>6. ASSUME NEW k \in LoadJob PROVE JobOK(k)'
  <2>1. toLoad'[k] \cap loading'[k] = {}
    BY ZenonT(30), <1>a, <1>b, <1>g DEF JobOK
  <2>2. k \notin jobs => toLoad'[k] = {} /\ loading'[k] = {}
    BY <1>a, <1>b, <1>g DEF JobOK
  <2>3. \A t \in toLoad'[k] \cup loading'[k], ok \in BOOLEAN : <<k, t, ok>> \notin ended
    BY <1>a, <1>h, Zenon DEF JobOK
  <2> QED BY <1>a, <1>b, <1>1, <2>1, <2>2, <2>3, Zenon DEF JobOK
<1>7. StreamsCovered'
  <2>1. /\ toLoad'["persistence"] \cup loading'["persistence"] = toLoad["persistence"] \cup loading["persistence"]
        /\ toLoad'["network"] \cup loading'["network"] = toLoad["network"] \cup loading["network"]
    BY <1>h, Zenon DEF LoadJob
  <2> QED BY <1>a, <1>b, <1>1, <1>2, <2>1, Zenon DEF StreamsCovered
<1>8. CountSuffices'
  BY <1>a, <1>b, <1>2, Zenon DEF CountSuffices
<1> QED BY <1>3, <1>4, <1>5, <1>6, <1>7, <1>8, Zenon DEF LoadCore

LEMMA JobEndsInv ==
  ASSUME LoadCore, StatusTrue, NEW j \in LoadJob, JobEnds(j), loadBound' = loadBound
  PROVE LoadCore' /\ StatusTrue'
<1>a. LoadTypes /\ OneTick /\ TasksInOrder /\ (\A k \in LoadJob : JobOK(k)) /\ StreamsCovered /\ CountSuffices
  BY ZenonT(30) DEF LoadCore
<1>b. /\ j \in jobs /\ toLoad[j] = {} /\ loading[j] = {} /\ jobs' = jobs \ {j} /\ TickEnds /\ EmitClientStatus
      /\ toLoad' = toLoad /\ loading' = loading /\ loadTasks' = loadTasks
      /\ loadStarted' = loadStarted /\ startingSync' = startingSync /\ streamIds' = streamIds
      /\ didLoadStreamsFromPersistence' = (didLoadStreamsFromPersistence \/ j = "persistence") /\ ended' = ended
      /\ streamCountRequiringNetworkAccess' = streamCountRequiringNetworkAccess
  BY ZenonT(30) DEF JobEnds
<1>c. jobs = {j} /\ jobs' = {} /\ startingSync = 0 /\ timeoutId = "fired"
  BY <1>a, <1>b DEF OneTick
<1>d. strayTimeouts' = 0 /\ timeoutId' \in {"none", "armed"} /\ loadStarted
  BY <1>a, <1>b, <1>c, TickEndsFacts, Zenon
<1>1. \A k : NotBegun(k)' <=> NotBegun(k)
  BY <1>b, Zenon DEF NotBegun
<1>2. NotStored' = NotStored /\ AskedNetwork' = AskedNetwork
  BY <1>b, Zenon DEF NotStored, AskedNetwork
<1>3. LoadTypes'
  BY <1>a, <1>b, Zenon DEF LoadTypes
<1>4. OneTick'
  BY <1>b, <1>c, <1>d, Zenon DEF OneTick
<1>5. TasksInOrder'
  <2>1. ~NotBegun(j)
    BY <1>a, <1>b, Zenon DEF JobOK
  <2>2. didLoadStreamsFromPersistence' <=> ~NotBegun("persistence")' /\ "persistence" \notin jobs'
    <3>1. CASE j = "persistence"
      BY <1>1, <1>b, <1>c, <2>1, <3>1, Zenon
    <3>2. CASE j # "persistence"
      <4>1. "persistence" \notin jobs /\ "persistence" \notin jobs'
        BY <1>c, <3>2, Zenon
      <4> QED BY <1>a, <1>1, <1>b, <3>2, <4>1, Zenon DEF TasksInOrder
    <3> QED BY <3>1, <3>2, Zenon
  <2> QED BY <1>a, <1>b, <1>d, <2>2, Zenon DEF TasksInOrder
<1>6. \A k \in LoadJob : JobOK(k)'
  <2>1. ASSUME NEW k \in LoadJob PROVE toLoad'[k] = {} /\ loading'[k] = {}
    BY <1>a, <1>b, <1>c DEF JobOK
  <2> QED BY ZenonT(30), <1>a, <1>b, <1>c, <1>1, <2>1 DEF JobOK
<1>7. StreamsCovered'
  BY <1>a, <1>b, <1>1, <1>2, Zenon DEF StreamsCovered
<1>8. CountSuffices'
  BY <1>a, <1>b, <1>2, Zenon DEF CountSuffices
<1>9. LoadCore'
  BY <1>3, <1>4, <1>5, <1>6, <1>7, <1>8, Zenon DEF LoadCore
<1> QED BY <1>b, <1>9, EmitTrue, Zenon

LEMMA LoadEndsInv ==
  ASSUME LoadCore, StatusTrue, NEW j \in LoadJob, NEW s \in Joined, NEW ok \in BOOLEAN, LoadEnds(j, s, ok),
         loadBound' = loadBound
  PROVE LoadCore' /\ StatusTrue'
<1>a. LoadTypes /\ OneTick /\ TasksInOrder /\ (\A k \in LoadJob : JobOK(k)) /\ StreamsCovered /\ CountSuffices
  BY Zenon DEF LoadCore
<1>b. /\ s \in loading[j] /\ loading' = [loading EXCEPT ![j] = @ \ {s}] /\ EmitClientStatus
      /\ streamIds' = IF ok THEN streamIds \ {s} ELSE streamIds
      /\ streamCountRequiringNetworkAccess' = CountAfter(j, ok) /\ ended' = ended \cup {<<j, s, ok>>}
      /\ toLoad' = toLoad /\ loadTasks' = loadTasks /\ jobs' = jobs /\ timeoutId' = timeoutId
      /\ strayTimeouts' = strayTimeouts /\ loadStarted' = loadStarted /\ startingSync' = startingSync
      /\ didLoadStreamsFromPersistence' = didLoadStreamsFromPersistence
  BY DEF LoadEnds, timerVars
<1>c. j \in jobs /\ ~NotBegun(j) /\ loadStarted /\ s \notin toLoad[j] /\ \A b \in BOOLEAN : <<j, s, b>> \notin ended
  <2>1. JobOK(j)
    BY <1>a, Zenon
  <2>2. j \in jobs /\ s \notin toLoad[j] /\ \A b \in BOOLEAN : <<j, s, b>> \notin ended
    BY <1>b, <2>1, Zenon DEF JobOK
  <2>3. ~NotBegun(j)
    BY <2>1, <2>2, Zenon DEF JobOK
  <2> QED BY <2>2, <2>3, Zenon DEF NotBegun
<1>1. \A k : NotBegun(k)' <=> NotBegun(k)
  BY <1>b, Zenon DEF NotBegun
<1>g. loading'[j] = loading[j] \ {s} /\ \A k \in LoadJob : k # j => loading'[k] = loading[k]
  BY <1>a, <1>b, Zenon DEF LoadTypes
<1>e. \A k, t, b : <<k, t, b>> \in ended' <=> <<k, t, b>> \in ended \/ (k = j /\ t = s /\ b = ok)
  BY <1>b
<1>h. streamIds' \subseteq streamIds /\ (ok => s \notin streamIds')
  BY <1>b
<1>2. NotStored' = (IF j = "persistence" /\ ~ok THEN NotStored \cup {s} ELSE NotStored)
  BY <1>e, Zenon DEF NotStored
<1>3. AskedNetwork' = (IF j = "network" THEN AskedNetwork \cup {s} ELSE AskedNetwork)
  <2>1. CASE j = "network"
    BY ZenonT(30), <1>e, <2>1 DEF AskedNetwork
  <2>2. CASE j # "network"
    <3>1. \A t, b : <<"network", t, b>> \in ended' <=> <<"network", t, b>> \in ended
      BY <1>e, <2>2, Zenon
    <3> QED BY <2>2, <3>1, Zenon DEF AskedNetwork
  <2> QED BY <2>1, <2>2, Zenon
<1>4. LoadTypes'
  <2>1. loading[j] \ {s} \in SUBSET Joined /\ streamIds' \subseteq Joined /\ <<j, s, ok>> \in LoadJob \X Joined \X BOOLEAN
    BY <1>a, <1>h DEF LoadTypes
  <2>2. loading' \in [LoadJob -> SUBSET Joined]
    BY <1>a, <1>b, <2>1, ZenonT(30) DEF LoadTypes
  <2>3. streamCountRequiringNetworkAccess' \in Int
    <3>1. streamCountRequiringNetworkAccess \in Int
      BY Zenon, <1>a DEF LoadTypes
    <3>2. CountAfter(j, ok) \in Int
      BY <3>1 DEF CountAfter
    <3> QED BY Zenon, <1>b, <3>2
  <2>4. ended' \subseteq LoadJob \X Joined \X BOOLEAN
    BY <1>a, <1>b, <2>1, Zenon DEF LoadTypes
  <2> QED BY <1>a, <1>b, <2>1, <2>2, <2>3, <2>4, Zenon DEF LoadTypes
<1>5. OneTick'
  BY <1>a, <1>b, Zenon DEF OneTick
<1>6. TasksInOrder'
  BY <1>a, <1>b, <1>c, <1>1, Zenon DEF TasksInOrder
<1>7. ASSUME NEW k \in LoadJob PROVE JobOK(k)'
  <2>0. JobOK(k)
    BY <1>a, Zenon
  <2>1. CASE k = j
    <3>1. toLoad'[k] \cap loading'[k] = {} /\ s \notin toLoad'[k] \cup loading'[k]
          /\ toLoad'[k] \cup loading'[k] \subseteq toLoad[k] \cup loading[k]
      BY <1>b, <1>c, <1>g, <2>0, <2>1, Zenon DEF JobOK
    <3>2. \A t \in toLoad'[k] \cup loading'[k], b \in BOOLEAN : <<k, t, b>> \notin ended'
      BY <1>e, <2>0, <3>1, Zenon DEF JobOK
    <3> QED BY <1>b, <1>c, <1>1, <2>1, <3>1, <3>2, Zenon DEF JobOK
  <2>2. CASE k # j
    <3>1. \A t, b : <<k, t, b>> \in ended' <=> <<k, t, b>> \in ended
      BY <1>e, <2>2, Zenon
    <3>2. loading'[k] = loading[k]
      BY <1>g, <2>2, Zenon
    <3> QED BY <1>b, <1>1, <2>0, <3>1, <3>2, Zenon DEF JobOK
  <2> QED BY <2>1, <2>2, Zenon
<1>8. StreamsCovered'
  <2>1. ~NotBegun("persistence")' => streamIds' \subseteq (toLoad["persistence"] \cup loading["persistence"] \cup NotStored)'
    <3>1. ~NotBegun("persistence")' => streamIds \subseteq toLoad["persistence"] \cup loading["persistence"] \cup NotStored
      BY ZenonT(30), <1>a, <1>1, Zenon DEF StreamsCovered
    <3>2. CASE j = "persistence"
      BY ZenonT(30), <1>b, <1>g, <1>h, <1>2, <3>1, <3>2
    <3>3. CASE j # "persistence"
      <4>1. loading'["persistence"] = loading["persistence"]
        BY ZenonT(30), <1>g, <3>3 DEF LoadJob
      <4> QED BY ZenonT(30), <1>b, <1>h, <1>2, <3>1, <3>3, <4>1
    <3> QED BY <3>2, <3>3, Zenon
  <2>2. (toLoad["network"] \cup loading["network"] \cup AskedNetwork)' \subseteq NotStored'
    <3>1. toLoad["network"] \cup loading["network"] \cup AskedNetwork \subseteq NotStored /\ NotStored \subseteq NotStored'
      BY ZenonT(30), <1>a, <1>2, Zenon DEF StreamsCovered
    <3>2. CASE j = "network"
      BY ZenonT(30), <1>b, <1>g, <1>3, <3>1, <3>2
    <3>3. CASE j # "network"
      <4>1. loading'["network"] = loading["network"]
        BY <1>g, <3>3 DEF LoadJob
      <4> QED BY ZenonT(30), <1>b, <1>3, <3>1, <3>3, <4>1
    <3> QED BY <3>2, <3>3, Zenon
  <2>3. ASSUME NEW t \in streamIds' PROVE <<"network", t, TRUE>> \notin ended'
    <3>1. t \in streamIds /\ <<"network", t, TRUE>> \notin ended /\ ~(t = s /\ ok)
      BY <1>a, <1>h, <2>3, Zenon DEF StreamsCovered
    <3>2. PICK b : b = TRUE
      OBVIOUS
    <3>3. <<"network", t, b>> \in ended' => <<"network", t, b>> \in ended \/ (t = s /\ b = ok)
      BY <1>b
    <3> QED BY <3>1, <3>2, <3>3, Zenon
  <2> QED BY <2>1, <2>2, <2>3, Zenon DEF StreamsCovered
<1>9. CountSuffices'
  <2>1. s \notin AskedNetwork \/ j # "network"
    BY <1>c, Zenon DEF AskedNetwork
  <2>2. s \notin NotStored \/ j # "persistence"
    BY <1>c, Zenon DEF NotStored
  <2>3. /\ Cardinality(NotStored \cup {s}) = IF s \in NotStored THEN Cardinality(NotStored) ELSE Cardinality(NotStored) + 1
        /\ Cardinality(AskedNetwork \cup {s}) = IF s \in AskedNetwork THEN Cardinality(AskedNetwork) ELSE Cardinality(AskedNetwork) + 1
    BY CountedSets, FS_AddElement, Zenon
  <2>4. streamCountRequiringNetworkAccess \in Int
        /\ streamCountRequiringNetworkAccess >= Cardinality(NotStored) - Cardinality(AskedNetwork)
    BY <1>a, Zenon DEF LoadTypes, CountSuffices
  <2>5. CASE j = "network"
    <3>1. Cardinality(NotStored') = Cardinality(NotStored) /\ Cardinality(AskedNetwork') = Cardinality(AskedNetwork) + 1
          /\ streamCountRequiringNetworkAccess' = streamCountRequiringNetworkAccess + -1
      BY SMTT(30), Z3T(30), <1>b, <1>2, <1>3, <2>1, <2>3, <2>5 DEF CountAfter
    <3> QED BY SMTT(30), Z3T(30), <2>4, <3>1, CountedSets DEF CountSuffices
  <2>6. CASE j = "persistence" /\ ~ok
    <3>1. Cardinality(NotStored') = Cardinality(NotStored) + 1 /\ Cardinality(AskedNetwork') = Cardinality(AskedNetwork)
          /\ streamCountRequiringNetworkAccess' = streamCountRequiringNetworkAccess + 1
      BY SMTT(30), Z3T(30), <1>b, <1>2, <1>3, <2>2, <2>3, <2>6 DEF CountAfter
    <3> QED BY SMTT(30), Z3T(30), <2>4, <3>1, CountedSets DEF CountSuffices
  <2>7. CASE j # "network" /\ ~(j = "persistence" /\ ~ok)
    <3>1. NotStored' = NotStored /\ AskedNetwork' = AskedNetwork
      BY <1>2, <1>3, <2>7, ZenonT(30)
    <3>2. streamCountRequiringNetworkAccess' >= streamCountRequiringNetworkAccess /\ streamCountRequiringNetworkAccess' \in Int
      BY <1>b, <2>4, <2>7 DEF CountAfter
    <3> QED BY SMTT(30), Z3T(30), <2>4, <3>1, <3>2, CountedSets DEF CountSuffices
  <2> QED BY <2>5, <2>6, <2>7, Zenon
<1>10. LoadCore'
  BY <1>4, <1>5, <1>6, <1>7, <1>8, <1>9, Zenon DEF LoadCore
<1> QED BY <1>b, <1>10, EmitTrue, Zenon

LEMMA LoadNextInv ==
  ASSUME LoadInv, [LoadNext]_<<loadVars, loadBound>>
  PROVE LoadInv'
<1>0. CASE UNCHANGED <<loadVars, loadBound>>
  <2>1. LoadsSame /\ UNCHANGED <<startingSync, timeoutId, strayTimeouts, loadStops>>
    BY SMTT(30), Z3T(30), <1>0 DEF loadVars, taskVars, timerVars, statusVars, LoadsSame
  <2>2. OneTick => OneTick'
    BY <2>1 DEF OneTick, LoadsSame
  <2> QED BY ZenonT(30), <2>1, <2>2, SameLoads DEF LoadInv, LoadCore
<1>1. CASE LoadNext
  <2>0. loadBound' = loadBound
    BY <1>1, Zenon DEF LoadNext
  <2>1. CASE StopTicking
    <3>1. loadStops' \in Nat /\ loadStops' # 0
      BY <2>1 DEF LoadInv, StopTicking
    <3> QED BY <3>1, Zenon DEF LoadInv
  <2>2. CASE ~StopTicking
    <3>1. loadStops' = loadStops
      BY <1>1, <2>2, Zenon DEF LoadNext, StartLoading, TimeoutFires, StrayTimeoutFires, SyncIsStarted,
        SetStartSyncRequested, JobEnds, BeginLoad, LoadEnds, LoaderTick, BeginJob, BeginSync
    <3>2. ASSUME loadStops = 0 PROVE LoadCore' /\ StatusTrue'
      <4>a. LoadCore /\ StatusTrue
        BY <3>2, Zenon DEF LoadInv
      <4>b. ~StrayTimeoutFires
        BY <4>a DEF LoadCore, OneTick, StrayTimeoutFires
      <4>1. ASSUME NEW j \in LoadJob, JobEnds(j) PROVE LoadCore' /\ StatusTrue'
        BY <2>0, <4>a, <4>1, JobEndsInv, Zenon
      <4>2. ASSUME NEW j \in LoadJob, NEW s \in Joined, BeginLoad(j, s) PROVE LoadCore' /\ StatusTrue'
        BY <2>0, <4>a, <4>2, BeginLoadInv, Zenon
      <4>3. ASSUME NEW j \in LoadJob, NEW s \in Joined, NEW ok \in BOOLEAN, LoadEnds(j, s, ok)
            PROVE LoadCore' /\ StatusTrue'
        BY <2>0, <4>a, <4>3, LoadEndsInv, Zenon
      <4>4. ASSUME NEW wish \in BOOLEAN, SetStartSyncRequested(wish) PROVE LoadCore' /\ StatusTrue'
        BY <2>0, <4>a, <4>4, SetStartSyncRequestedInv, Zenon
      <4>5. ASSUME StartLoading \/ TimeoutFires \/ SyncIsStarted PROVE LoadCore' /\ StatusTrue'
        BY <2>0, <4>a, <4>5, StartLoadingInv, TimeoutFiresInv, SyncIsStartedInv, Zenon
      <4> QED BY <1>1, <2>2, <4>b, <4>1, <4>2, <4>3, <4>4, <4>5, Zenon DEF LoadNext
    <3> QED BY <3>1, <3>2, Zenon DEF LoadInv
  <2> QED BY <2>1, <2>2, Zenon
<1> QED BY <1>0, <1>1, Zenon

\* The sync is started by one tick and after all tasks, and the client reports that the remote data is
\* loaded only when every stream that the store does not have has been asked of the network
\* (syncedStreamsExtension.ts:204, 219), for every set of streams and limit of loads at a time, unless
\* the client has been stopped.
THEOREM SyncStartsLoaded == LoadSpec => []LoadedBeforeSync
<1>1. LoadInv => LoadedBeforeSync
  <2> SUFFICES ASSUME LoadInv, loadStops = 0
               PROVE /\ startingSync > 0 => jobs = {} /\ loadTasks = <<>> /\ startingSync = 1
                     /\ StatusTrue
    BY Zenon DEF LoadedBeforeSync, StatusTrue
  <2>1. OneTick /\ StatusTrue
    BY Zenon DEF LoadInv, LoadCore
  <2> QED BY <2>1 DEF OneTick
<1> QED BY <1>1, LoadInitInv, LoadNextInv, PTL DEF LoadSpec
==============================================================================
