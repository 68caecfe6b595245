------------------------------- MODULE TxPool -------------------------------
(***************************************************************************)
(* The transaction pool of core/node/crypto/chain_txpool.go, through which *)
(* a node sends all its transactions to a chain, and the chain as seen by  *)
(* the account of the node.                                                *)
(*                                                                         *)
(* Submit and OnBlock hold the mutex of the pool from start to end, so     *)
(* Submit is one action.  OnBlock calls the chain many times and the chain *)
(* moves on meanwhile: it is one action per call, and block is where it    *)
(* stands while it holds the mutex.                                        *)
(*                                                                         *)
(* A job is one call of Submit.  A transaction is a hash, the nonce it     *)
(* uses and the job it was made for.                                       *)
(***************************************************************************)
EXTENDS Integers, Sequences, FiniteSets

CONSTANTS Job,
          MaxHash,       \* transactions made, not counting those for lost ones
          MaxDrops,      \* transactions the network may forget
          MaxFailures,   \* calls to the chain that may fail without effect
          MaxAmbiguous,  \* sends that reach the network and return an error
          MaxCrashes

ASSUME TxPoolAssumption ==
  {MaxHash, MaxDrops, MaxFailures, MaxAmbiguous, MaxCrashes} \subseteq Nat

VARIABLES pending,     \* the list from firstPendingTx to lastPendingTx
          status,      \* per job: what its caller knows
          receipt,     \* per job: executedHash, 0 before
          block,       \* OnBlock: "idle", "receipts" or "replace"
          seenNonce,   \* the account nonce OnBlock has read
          cursor,      \* position of OnBlock in the list when it replaces
          mempool,     \* transactions the network may still include
          mined,       \* transactions of the account that were included
          chainNonce,  \* number of the account's included transactions
          nextHash, drops, failures, ambiguous, crashes

poolVars == <<pending, status, receipt>>
blockVars == <<block, seenNonce, cursor>>
chainVars == <<mempool, mined, chainNonce>>
countVars == <<nextHash, drops, failures, ambiguous, crashes>>
vars == <<poolVars, blockVars, chainVars, countVars>>

Tx == [hash : Nat \ {0}, nonce : Nat, job : Job]

\* txPoolPendingTransaction.
PendingTx == [job : Job, nonce : Nat, txHashes : Seq(Nat \ {0})]

TypeOK ==
  /\ pending \in Seq(PendingTx)
  /\ status \in [Job -> {"new", "pending", "failed", "done"}]
  /\ receipt \in [Job -> Nat]
  /\ block \in {"idle", "receipts", "replace"}
  /\ seenNonce \in Nat /\ cursor \in Nat \ {0}
  /\ mempool \subseteq Tx /\ mined \subseteq Tx /\ chainNonce \in Nat
  /\ nextHash \in Nat \ {0}
  /\ drops \in Nat /\ failures \in Nat /\ ambiguous \in Nat /\ crashes \in Nat

Init ==
  /\ pending = << >>
  /\ status = [j \in Job |-> "new"]
  /\ receipt = [j \in Job |-> 0]
  /\ block = "idle" /\ seenNonce = 0 /\ cursor = 1
  /\ mempool = {} /\ mined = {} /\ chainNonce = 0
  /\ nextHash = 1 /\ drops = 0 /\ failures = 0 /\ ambiguous = 0 /\ crashes = 0

(***************************************************************************)
(* The chain.                                                              *)
(***************************************************************************)

\* PendingNonceAt: the first nonce that no included or waiting transaction uses.
PendingNonceAt ==
  CHOOSE n \in chainNonce..(chainNonce + Cardinality(mempool)) :
    /\ \A t \in mempool : t.nonce # n
    /\ \A k \in chainNonce..(n-1) : \E t \in mempool : t.nonce = k

\* A transaction with the account's next nonce is included; the others that
\* use the nonce can never be.
Mine ==
  \E t \in mempool :
    /\ t.nonce = chainNonce
    /\ mined' = mined \cup {t}
    /\ mempool' = {u \in mempool : u.nonce # t.nonce}
    /\ chainNonce' = chainNonce + 1
    /\ UNCHANGED <<poolVars, blockVars, countVars>>

\* The network forgets a transaction, for instance one that pays too little.
Drop ==
  /\ drops < MaxDrops
  /\ drops' = drops + 1
  /\ \E t \in mempool : mempool' = mempool \ {t}
  /\ UNCHANGED <<poolVars, blockVars, mined, chainNonce, nextHash, failures,
                 ambiguous, crashes>>

\* SendTransaction gets a new transaction into the network: the chain refuses
\* a nonce that is used up.  One that is waiting may be replaced.
Send(nonce, job) ==
  /\ nextHash <= MaxHash \/ \A t \in mempool : t.nonce # nonce
  /\ nonce >= chainNonce
  /\ mempool' = mempool \cup {[hash |-> nextHash, nonce |-> nonce, job |-> job]}
  /\ nextHash' = nextHash + 1

(***************************************************************************)
(* Submit.                                                                 *)
(***************************************************************************)
nextNonce ==
  IF pending # << >> THEN pending[Len(pending)].nonce + 1 ELSE PendingNonceAt

\* Slip: the nonce is always asked for from the chain's included transactions.
Submit_ChainNonce(j) ==
  /\ block = "idle"
  /\ status[j] = "new"
  /\ Send(chainNonce, j)
  /\ pending' = Append(pending, [job |-> j, nonce |-> chainNonce, txHashes |-> <<nextHash>>])
  /\ status' = [status EXCEPT ![j] = "pending"]
  /\ UNCHANGED <<receipt, blockVars, mined, chainNonce, drops, failures, ambiguous, crashes>>

Submit(j) ==
  /\ block = "idle"
  /\ status[j] = "new"
  /\ Send(nextNonce, j)
  /\ pending' = Append(pending, [job |-> j, nonce |-> nextNonce, txHashes |-> <<nextHash>>])
  /\ status' = [status EXCEPT ![j] = "pending"]
  /\ UNCHANGED <<receipt, blockVars, mined, chainNonce, drops, failures, ambiguous, crashes>>

\* nextNonce, createTx, the check of the fee cap or SendTransaction fails.
SubmitFails(j) ==
  /\ block = "idle"
  /\ status[j] = "new"
  /\ \/ nextNonce < chainNonce /\ UNCHANGED failures
     \/ failures < MaxFailures /\ failures' = failures + 1
  /\ status' = [status EXCEPT ![j] = "failed"]
  /\ UNCHANGED <<pending, receipt, blockVars, chainVars, nextHash, drops, ambiguous, crashes>>

\* The transaction reaches the network and SendTransaction returns an error.
SubmitAmbiguous(j) ==
  /\ block = "idle"
  /\ status[j] = "new"
  /\ ambiguous < MaxAmbiguous
  /\ ambiguous' = ambiguous + 1
  /\ Send(nextNonce, j)
  /\ status' = [status EXCEPT ![j] = "failed"]
  /\ UNCHANGED <<pending, receipt, blockVars, mined, chainNonce, drops, failures, crashes>>

(***************************************************************************)
(* OnBlock: first the receipts of the transactions that were included,     *)
(* then replacements for those that wait for too long.                     *)
(***************************************************************************)
OnBlock ==
  /\ block = "idle"
  /\ pending # << >>
  /\ block' = "receipts"
  /\ seenNonce' = chainNonce
  /\ cursor' = 1
  /\ UNCHANGED <<poolVars, chainVars, countVars>>

\* A call to the chain fails and OnBlock returns.
OnBlockFails ==
  /\ block # "idle"
  /\ failures < MaxFailures
  /\ failures' = failures + 1
  /\ block' = "idle"
  /\ UNCHANGED <<poolVars, seenNonce, cursor, chainVars, nextHash, drops, ambiguous, crashes>>

\* The hashes of the first pending transaction that have a receipt.
Receipts == {t.hash : t \in {u \in mined : \E i \in DOMAIN Head(pending).txHashes :
                                             u.hash = Head(pending).txHashes[i]}}

\* Slip: the receipt of the latest replacement is the only one asked for.
DeliverReceipt_LastHash ==
  /\ block = "receipts"
  /\ pending # << >>
  /\ Head(pending).nonce < seenNonce
  /\ LET h == Head(pending).txHashes[Len(Head(pending).txHashes)]
     IN  /\ \E t \in mined : t.hash = h
         /\ receipt' = [receipt EXCEPT ![Head(pending).job] = h]
  /\ status' = [status EXCEPT ![Head(pending).job] = "done"]
  /\ pending' = Tail(pending)
  /\ UNCHANGED <<blockVars, chainVars, countVars>>

\* The receipt of the first pending transaction is found and sent to its
\* listener.  When none of its hashes has one the loop asks again and again.
DeliverReceipt ==
  /\ block = "receipts"
  /\ pending # << >>
  /\ Head(pending).nonce < seenNonce
  /\ \E h \in Receipts : receipt' = [receipt EXCEPT ![Head(pending).job] = h]
  /\ status' = [status EXCEPT ![Head(pending).job] = "done"]
  /\ pending' = Tail(pending)
  /\ UNCHANGED <<blockVars, chainVars, countVars>>

EndReceipts ==
  /\ block = "receipts"
  /\ pending # << >> => Head(pending).nonce >= seenNonce
  /\ block' = "replace"
  /\ UNCHANGED <<poolVars, seenNonce, cursor, chainVars, countVars>>

\* Slip: the hash of the transaction that is replaced is forgotten.
Replace_ForgetsHash ==
  /\ block = "replace"
  /\ cursor <= Len(pending)
  /\ Send(pending[cursor].nonce, pending[cursor].job)
  /\ pending' = [pending EXCEPT ![cursor].txHashes = <<nextHash>>]
  /\ cursor' = cursor + 1
  /\ UNCHANGED <<status, receipt, block, seenNonce, mined, chainNonce, drops,
                 failures, ambiguous, crashes>>

\* Slip: the replacement is made with a nonce of its own.
Replace_NewNonce ==
  /\ block = "replace"
  /\ cursor <= Len(pending)
  /\ Send(PendingNonceAt, pending[cursor].job)
  /\ pending' = [pending EXCEPT ![cursor].txHashes = Append(@, nextHash)]
  /\ cursor' = cursor + 1
  /\ UNCHANGED <<status, receipt, block, seenNonce, mined, chainNonce, drops,
                 failures, ambiguous, crashes>>

\* The transaction at the cursor is eligible and its replacement is sent.
Replace ==
  /\ block = "replace"
  /\ cursor <= Len(pending)
  /\ Send(pending[cursor].nonce, pending[cursor].job)
  /\ pending' = [pending EXCEPT ![cursor].txHashes = Append(@, nextHash)]
  /\ cursor' = cursor + 1
  /\ UNCHANGED <<status, receipt, block, seenNonce, mined, chainNonce, drops,
                 failures, ambiguous, crashes>>

\* It is not eligible yet, or the replacement cannot be made or sent.
SkipReplace ==
  /\ block = "replace"
  /\ cursor <= Len(pending)
  /\ cursor' = cursor + 1
  /\ UNCHANGED <<poolVars, block, seenNonce, chainVars, countVars>>

\* The replacement reaches the network and SendTransaction returns an error.
ReplaceAmbiguous ==
  /\ block = "replace"
  /\ cursor <= Len(pending)
  /\ ambiguous < MaxAmbiguous
  /\ ambiguous' = ambiguous + 1
  /\ Send(pending[cursor].nonce, pending[cursor].job)
  /\ cursor' = cursor + 1
  /\ UNCHANGED <<poolVars, block, seenNonce, mined, chainNonce, drops, failures, crashes>>

EndReplace ==
  /\ block = "replace"
  /\ cursor > Len(pending)
  /\ block' = "idle"
  /\ UNCHANGED <<poolVars, seenNonce, cursor, chainVars, countVars>>

\* The process stops: the pool is in memory only, the network keeps what was
\* sent, and nobody waits for it any more.
Crash ==
  /\ crashes < MaxCrashes
  /\ crashes' = crashes + 1
  /\ pending' = << >>
  /\ status' = [j \in Job |-> IF status[j] = "pending" THEN "failed" ELSE status[j]]
  /\ block' = "idle"
  /\ UNCHANGED <<receipt, seenNonce, cursor, chainVars, nextHash, drops, failures, ambiguous>>

Next ==
  \/ Mine \/ Drop
  \/ \E j \in Job : Submit(j) \/ SubmitFails(j) \/ SubmitAmbiguous(j)
  \/ OnBlock \/ OnBlockFails \/ DeliverReceipt \/ EndReceipts
  \/ Replace \/ SkipReplace \/ ReplaceAmbiguous \/ EndReplace
  \/ Crash

Spec == Init /\ [][Next]_vars

(***************************************************************************)
(* A pending transaction whose nonce has been used up on the chain has a   *)
(* receipt under a hash the pool knows.  Otherwise the loop of OnBlock     *)
(* that waits for one never ends, with the mutex of the pool held: "It     *)
(* keeps track of the old pending transactions in case the original        *)
(* transaction was included in the chain."                                 *)
(***************************************************************************)
ReceiptKnown ==
  \A i \in DOMAIN pending :
    pending[i].nonce < chainNonce =>
      \E t \in mined, k \in DOMAIN pending[i].txHashes :
        t.hash = pending[i].txHashes[k]

(***************************************************************************)
(* However often a transaction is replaced, dropped and sent again, its    *)
(* job is executed once, and the receipt its caller gets is the one of     *)
(* that execution.                                                         *)
(***************************************************************************)
ExecutedOnce ==
  /\ \A t, u \in mined : t.job = u.job => t = u
  /\ \A j \in Job : status[j] = "done" =>
       \E t \in mined : t.job = j /\ t.hash = receipt[j]

(***************************************************************************)
(* Receipts arrive in the order of Submit: when a caller has its receipt,  *)
(* no transaction sent through the pool before it is still waiting.        *)
(***************************************************************************)
ReceiptsInOrder ==
  \A t \in mined, i \in DOMAIN pending :
    status[t.job] = "done" => t.nonce < pending[i].nonce

(***************************************************************************)
(* The inductive invariant behind these three.                             *)
(***************************************************************************)
Sent == mempool \cup mined

\* A nonce is used once on the chain, and a hash names one transaction.
ChainInv ==
  /\ IsFiniteSet(mempool)
  /\ \A t \in mempool : t.nonce >= chainNonce
  /\ \A t \in mined : t.nonce < chainNonce
  /\ \A t, u \in mined : t.nonce = u.nonce => t = u
  /\ \A n \in 0..(chainNonce - 1) : \E t \in mined : t.nonce = n
  /\ \A t \in Sent : t.hash < nextHash
  /\ \A t, u \in Sent : t.hash = u.hash => t = u

\* The list holds the jobs that wait, in the order of their nonces.
ListInv ==
  /\ \A j \in Job : status[j] = "pending" <=> \E i \in DOMAIN pending : pending[i].job = j
  /\ \A i, k \in DOMAIN pending : pending[i].job = pending[k].job => i = k
  /\ \A i, k \in DOMAIN pending : i < k => pending[i].nonce < pending[k].nonce
  /\ \A i \in DOMAIN pending : \A k \in DOMAIN pending[i].txHashes :
       pending[i].txHashes[k] < nextHash

\* All transactions of a job have one nonce, and the hashes of a pending
\* transaction are hashes of its job.
JobInv ==
  /\ \A t \in Sent : status[t.job] # "new"
  /\ \A t, u \in Sent : t.job = u.job => t.nonce = u.nonce
  /\ \A t \in Sent, i \in DOMAIN pending :
       t.job = pending[i].job => t.nonce = pending[i].nonce
  /\ \A t \in Sent, i \in DOMAIN pending : \A k \in DOMAIN pending[i].txHashes :
       t.hash = pending[i].txHashes[k] => t.job = pending[i].job

\* Without ambiguous sends and crashes the pool knows all that was sent.
KnownInv ==
  MaxAmbiguous = 0 /\ MaxCrashes = 0 =>
    /\ \A t \in Sent : status[t.job] \in {"pending", "done"}
    /\ \A t \in Sent, i \in DOMAIN pending :
         t.job = pending[i].job =>
           \E k \in DOMAIN pending[i].txHashes : t.hash = pending[i].txHashes[k]

PoolInv ==
  /\ TypeOK /\ ChainInv /\ ListInv /\ JobInv /\ KnownInv
  /\ ExecutedOnce /\ ReceiptsInOrder

(***************************************************************************)
(* Fairness: the chain produces blocks and includes what it can, OnBlock   *)
(* runs for every block and goes on while it holds the mutex, and a        *)
(* transaction past its deadline is not refused a replacement for ever.    *)
(***************************************************************************)
Fairness ==
  /\ WF_vars(Mine)
  /\ WF_vars(OnBlock)
  /\ WF_vars(DeliverReceipt)
  /\ WF_vars(EndReceipts)
  /\ WF_vars(Replace \/ SkipReplace)
  /\ WF_vars(EndReplace)
  /\ SF_vars(Replace /\ pending[cursor].nonce = chainNonce)

FairSpec == Spec /\ Fairness

(***************************************************************************)
(* Whoever waits for a receipt gets it, unless the process stops: "The     *)
(* pool will resubmit transactions when necessary."                        *)
(***************************************************************************)
WaitEnds ==
  \A j \in Job : status[j] = "pending" ~> status[j] # "pending"
=============================================================================
