---------------------------- MODULE RestartProofs ----------------------------
(***************************************************************************)
(* The parts whose processes stop and start at any time and must not lose  *)
(* what they have answered for: the owner of a database, and the devices   *)
(* that exchange keys.                                                     *)
(***************************************************************************)
EXTENDS SingleNodeKey, KeyExchange, TLAPS

(***************************************************************************)
(* The owner of a database, for every number of processes, transactions,   *)
(* crashes and missed notifications: OwnerInv is inductive, and what the   *)
(* owner has in memory is what is in storage.                              *)
(***************************************************************************)
\* Three transactions that each have to come before the next cannot be ordered.
LEMMA CycleNotSerializable ==
  ASSUME NEW h, NEW a \in 1 .. Len(h), NEW b \in 1 .. Len(h), NEW c \in 1 .. Len(h),
         a # b, b # c, c # a,
         Precedes(h, a, b), Precedes(h, b, c), Precedes(h, c, a)
  PROVE  ~Serializable(h)
<1> DEFINE S == {a, b, c}
<1>1. S \in SUBSET (1 .. Len(h)) /\ S # {}
  BY Zenon
<1>2. ASSUME NEW n \in S PROVE \E m \in S \ {n} : Precedes(h, m, n)
  <2>1. CASE n = a
    BY Zenon, <2>1
  <2>2. CASE n = b
    BY Zenon, <2>2
  <2>3. CASE n = c
    BY Zenon, <2>3
  <2> QED
    BY Zenon, <2>1, <2>2, <2>3
<1> HIDE DEF S
<1> QED
  BY Zenon, <1>1, <1>2 DEF Serializable

\* A write that has not seen the takeover k, and a read of the stream that has seen k and
\* not the write, cannot both commit.
LEMMA LateWriteExcluded ==
  ASSUME NEW h \in Seq(PgTx), NEW k \in 1 .. Len(h), NEW n \in 1 .. Len(h), NEW r \in 1 .. Len(h),
         "key" \in h[k].writes,
         h[n].snapshot < k, "key" \in h[n].reads, "data" \in h[n].writes,
         k =< h[r].snapshot, h[r].snapshot < r, {"key", "data"} \subseteq h[r].reads,
         h[r].snapshot < n
  PROVE  ~Serializable(h)
<1>1. h[k] \in PgTx /\ h[n] \in PgTx /\ h[r] \in PgTx
  OBVIOUS
<1>2. h[n].snapshot \in Nat /\ h[r].snapshot \in Nat
  BY Zenon, <1>1 DEF PgTx
<1>3. n # k /\ k # r /\ r # n
  BY <1>2
<1>4. Precedes(h, n, k)
  BY Zenon, <1>2 DEF Precedes
<1>5. Precedes(h, k, r)
  BY Zenon DEF Precedes
<1>6. Precedes(h, r, n)
  BY Zenon DEF Precedes
<1> QED
  BY Zenon, <1>3, <1>4, <1>5, <1>6, CycleNotSerializable

LEMMA InitOwner ==
  OwnerInit => OwnerInv
<1> SUFFICES ASSUME OwnerInit PROVE OwnerInv
  BY Zenon
<1> USE DEF OwnerInit
<1>1. NoTx \in WorkTx /\ NoTx.pc = "none"
  BY Zenon DEF NoTx, WorkTx
<1>2. OwnerTypeOK
  BY <1>1 DEF OwnerTypeOK, NotLoaded
<1>3. \A i \in Instance, w \in Work : ~Open(i, w)
  BY Zenon, <1>1 DEF Open
<1>4. \A i \in Instance, w \in Work : OpenTxInv(i, w)
  BY Zenon, <1>3 DEF OpenTxInv
<1> QED
  BY <1>2, <1>4 DEF OwnerInv

\* The steps that commit nothing and open no transaction on the streams.
LEMMA QuietOwner ==
  ASSUME OwnerInv, OwnerTypeOK', UNCHANGED <<row, data, committed, cache>>,
         \A i \in Instance : phase'[i] = "new" <=> phase[i] = "new",
         \A i \in Instance, w \in Work :
           Open(i, w)' => txs'[i][w] = txs[i][w] \/ (w = "key" /\ OpenTxInv(i, w)')
  PROVE  OwnerInv'
<1> USE DEF OwnerInv
<1>1. \A n \in 1 .. Len(committed') : committed'[n].snapshot < n
  BY Zenon
<1>2. ASSUME NEW i \in Instance, NEW w \in Work PROVE OpenTxInv(i, w)'
  <2>1. CASE ~Open(i, w)'
    BY Zenon, <2>1 DEF OpenTxInv
  <2>2. CASE Open(i, w)' /\ txs'[i][w] = txs[i][w]
    <3>1. Open(i, w) /\ OpenTxInv(i, w)
      BY Zenon, <2>2 DEF Open
    <3> QED
      BY <3>1, <2>2 DEF OpenTxInv
  <2> QED
    BY Zenon, <2>1, <2>2
<1>3. ASSUME NEW i \in row, NEW k \in 1 .. Len(committed), TakenOver(i, k) PROVE TakenOver(i, k)'
  <2>1. \A j \in Instance, w \in Work \ {"key"} : Open(j, w)' => Open(j, w) /\ txs'[j][w] = txs[j][w]
    BY Zenon DEF Open
  <2>2. i \in Instance /\ "stream" \in Work \ {"key"}
    BY Zenon DEF OwnerTypeOK, Work
  <2>3. \A j \in Instance \ {i}, w \in Work \ {"key"} : Open(j, w)' => txs'[j][w].tx.snapshot < k
    BY Zenon, <2>1, <1>3 DEF TakenOver
  <2>4. Open(i, "stream")' => Open(i, "stream") /\ txs'[i]["stream"] = txs[i]["stream"]
    BY Zenon, <2>1, <2>2
  <2> QED
    BY Zenon, <2>3, <2>4, <1>3 DEF TakenOver, LateWrite
<1> QED
  BY Zenon, <1>1, <1>2, <1>3

LEMMA ClosedTxs ==
  /\ NoTx \in WorkTx /\ NoTx.pc # "open"
  /\ [pc |-> "blocked"] \in WorkTx /\ [pc |-> "blocked"].pc # "open"
  /\ \A k \in TxKind : [pc |-> "again", kind |-> k] \in WorkTx /\ [pc |-> "again", kind |-> k].pc # "open"
BY Zenon DEF NoTx, WorkTx

LEMMA OpenTx ==
  ASSUME OwnerTypeOK, NEW i \in Instance, NEW w \in Work, Open(i, w)
  PROVE  /\ txs[i][w].tx \in PgTx /\ txs[i][w].kind \in TxKind
         /\ txs[i][w].kind \in {"load", "write", "other"} => txs[i][w].read \in Nat
<1> DEFINE t == txs[i][w]
<1>1. t \in WorkTx /\ t.pc = "open"
  BY Zenon DEF OwnerTypeOK, Open
<1> HIDE DEF t
<1>2. \/ t \in [pc : {"open"}, kind : {"initialize", "cleanup"}, tx : PgTx]
      \/ t \in [pc : {"open"}, kind : {"load", "write", "other"}, read : Nat, tx : PgTx]
  BY Zenon, <1>1 DEF WorkTx
<1>3. /\ t.tx \in PgTx /\ t.kind \in TxKind
      /\ t.kind \in {"load", "write", "other"} => t.read \in Nat
  BY Zenon, <1>2 DEF TxKind
<1> QED
  BY Zenon, <1>3 DEF t

\* A transaction commits.
LEMMA CommitFacts ==
  ASSUME OwnerInv, NEW i \in Instance, NEW w \in Work, Open(i, w), Commit(i, w, txs[i][w].tx)
  PROVE  /\ committed' \in Seq(PgTx) /\ Len(committed) \in Nat /\ Len(committed') = Len(committed) + 1
         /\ \A n \in 1 .. Len(committed) : committed'[n] = committed[n]
         /\ committed'[Len(committed')] = txs[i][w].tx
         /\ \A n \in 1 .. Len(committed') : committed'[n].snapshot < n
         /\ Serializable(committed')
         /\ txs' \in [Instance -> [Work -> WorkTx]] /\ ~Open(i, w)'
         /\ \A j \in Instance, v \in Work :
              Open(j, v)' => Open(j, v) /\ txs'[j][v] = txs[j][v] /\ <<j, v>> # <<i, w>>
<1> USE DEF OwnerInv
<1> DEFINE tx == txs[i][w].tx
<1>1. tx \in PgTx /\ committed \in Seq(PgTx) /\ committed' = Append(committed, tx)
  BY Zenon, OpenTx DEF OwnerTypeOK, Commit
<1>2. tx.snapshot \in Nat /\ tx.snapshot =< Len(committed)
  <2>1. OpenTxInv(i, w)
    BY Zenon
  <2> QED
    BY Zenon, <2>1, <1>1 DEF PgTx, OpenTxInv
<1>3. Serializable(committed')
  BY Zenon, <1>1 DEF Commit, CanCommit
<1>4. /\ txs' \in [Instance -> [Work -> WorkTx]] /\ txs'[i][w] = NoTx
      /\ \A j \in Instance, v \in Work : <<j, v>> # <<i, w>> => txs'[j][v] = txs[j][v]
  <2>1. txs' = [txs EXCEPT ![i][w] = NoTx]
    BY Zenon DEF Commit
  <2>2. PICK t \in WorkTx : t = NoTx
    BY Zenon, ClosedTxs
  <2>3. txs' = [txs EXCEPT ![i][w] = t] /\ txs \in [Instance -> [Work -> WorkTx]]
    BY Zenon, <2>1, <2>2 DEF OwnerTypeOK
  <2> HIDE DEF OwnerInv, tx
  <2>4. /\ txs' \in [Instance -> [Work -> WorkTx]] /\ txs'[i][w] = t
        /\ \A j \in Instance, v \in Work : <<j, v>> # <<i, w>> => txs'[j][v] = txs[j][v]
    BY Zenon, <2>3
  <2> QED
    BY Zenon, <2>2, <2>4
<1> HIDE DEF tx
<1>5. /\ committed' \in Seq(PgTx) /\ Len(committed) \in Nat /\ Len(committed') = Len(committed) + 1
      /\ \A n \in 1 .. Len(committed) : committed'[n] = committed[n]
      /\ committed'[Len(committed')] = tx
  BY <1>1
<1>6. ASSUME NEW n \in 1 .. Len(committed') PROVE committed'[n].snapshot < n
  <2>1. CASE n = Len(committed')
    BY <2>1, <1>2, <1>5
  <2>2. CASE n \in 1 .. Len(committed)
    BY Zenon, <2>2, <1>5
  <2> QED
    BY <2>1, <2>2, <1>5
<1>7. ~Open(i, w)'
  BY Zenon, <1>4, ClosedTxs DEF Open
<1>8. \A j \in Instance, v \in Work :
        Open(j, v)' => Open(j, v) /\ txs'[j][v] = txs[j][v] /\ <<j, v>> # <<i, w>>
  BY Zenon, <1>4, <1>7 DEF Open
<1> QED
  BY Zenon, <1>3, <1>4, <1>5, <1>6, <1>7, <1>8 DEF tx

\* The open transactions keep their invariant when one commits.
LEMMA CommitKeepsOpen ==
  ASSUME OwnerInv, NEW i \in Instance, NEW w \in Work, Open(i, w), Commit(i, w, txs[i][w].tx),
         \A j \in Instance, v \in Work :
            <<j, v>> # <<i, w>> => \/ phase'[j] = phase[j]
                                   \/ phase'[j] # "new" /\ (v = "key" => ~Open(j, v))
  PROVE  \A j \in Instance, v \in Work : OpenTxInv(j, v)'
<1> SUFFICES ASSUME NEW j \in Instance, NEW v \in Work, Open(j, v)' PROVE OpenTxInv(j, v)'
  BY DEF OpenTxInv
<1>1. Open(j, v) /\ txs'[j][v] = txs[j][v] /\ <<j, v>> # <<i, w>>
  BY Zenon, CommitFacts
<1>2. OpenTxInv(j, v) /\ Len(committed) \in Nat /\ Len(committed') = Len(committed) + 1
  BY Zenon, CommitFacts DEF OwnerInv
<1>3. txs[j][v].tx.snapshot \in Nat
  BY Zenon, <1>1, OpenTx DEF OwnerInv, PgTx
<1>4. txs[j][v].tx.snapshot =< Len(committed')
  BY <1>1, <1>2, <1>3 DEF OpenTxInv
<1> QED
  BY Zenon, <1>1, <1>2, <1>4 DEF OpenTxInv

\* The takeover stays what it is while others commit and the stream is not written.
LEMMA CommitKeepsTaken ==
  ASSUME OwnerInv, NEW i \in Instance, NEW w \in Work, Open(i, w), Commit(i, w, txs[i][w].tx),
         NEW o \in Instance, NEW k \in 1 .. Len(committed), TakenOver(o, k),
         data' = data, cache'[o] = cache[o]
  PROVE  TakenOver(o, k)' /\ k \in 1 .. Len(committed')
<1>1. /\ Len(committed) \in Nat /\ Len(committed') = Len(committed) + 1
      /\ \A n \in 1 .. Len(committed) : committed'[n] = committed[n]
      /\ \A j \in Instance, v \in Work : Open(j, v)' => Open(j, v) /\ txs'[j][v] = txs[j][v]
  BY CommitFacts
<1>2. "stream" \in Work
  BY Zenon DEF Work
<1>3. "key" \in committed'[k].writes
  BY Zenon, <1>1 DEF TakenOver
<1>4. \A j \in Instance \ {o}, v \in Work \ {"key"} : Open(j, v)' => txs'[j][v].tx.snapshot < k
  BY Zenon, <1>1 DEF TakenOver
<1>5. ASSUME Open(o, "stream")'
      PROVE  /\ k =< txs'[o]["stream"].tx.snapshot
             /\ txs'[o]["stream"].kind = "load" =>
                  \/ txs'[o]["stream"].read = data'
                  \/ \E n \in txs'[o]["stream"].tx.snapshot + 1 .. Len(committed') : LateWrite(n, k)'
  <2>1. Open(o, "stream") /\ txs'[o]["stream"] = txs[o]["stream"]
    BY Zenon, <1>1, <1>2, <1>5
  <2>2. txs[o]["stream"].tx.snapshot \in Nat
    BY Zenon, <2>1, <1>2, OpenTx DEF OwnerInv, PgTx
  <2>3. k =< txs[o]["stream"].tx.snapshot
    BY Zenon, <2>1 DEF TakenOver
  <2>4. ASSUME txs[o]["stream"].kind = "load", txs[o]["stream"].read # data
        PROVE  \E n \in txs'[o]["stream"].tx.snapshot + 1 .. Len(committed') : LateWrite(n, k)'
    <3>1. PICK n \in txs[o]["stream"].tx.snapshot + 1 .. Len(committed) : LateWrite(n, k)
      BY Zenon, <2>1, <2>4 DEF TakenOver
    <3>2. n \in 1 .. Len(committed) /\ n \in txs[o]["stream"].tx.snapshot + 1 .. Len(committed')
      BY SMTT(30), Z3T(30), Z3T(30), <3>1, <2>2, <1>1
    <3>3. LateWrite(n, k)'
      BY Zenon, <3>1, <3>2, <1>1 DEF LateWrite
    <3> QED
      BY Zenon, <3>2, <3>3, <2>1
  <2> QED
    BY Zenon, <2>1, <2>3, <2>4
<1>6. ASSUME cache'[o] # NotLoaded
      PROVE  /\ cache'[o] = data'
             /\ \E n \in 1 .. Len(committed') :
                  k =< committed'[n].snapshot /\ {"key", "data"} \subseteq committed'[n].reads
  <2>1. PICK n \in 1 .. Len(committed) :
          k =< committed[n].snapshot /\ {"key", "data"} \subseteq committed[n].reads
    BY Zenon, <1>6 DEF TakenOver
  <2>2. n \in 1 .. Len(committed') /\ committed'[n] = committed[n]
    BY <1>1
  <2> QED
    BY Zenon, <2>1, <2>2, <1>6 DEF TakenOver
<1>7. k \in 1 .. Len(committed')
  BY <1>1
<1> QED
  BY Zenon, <1>3, <1>4, <1>5, <1>6, <1>7 DEF TakenOver

\* A process takes the key over: nothing that is open has seen that.
LEMMA TakeoverStep ==
  ASSUME OwnerInv, NEW i \in Instance, InitializeSingleNodeKey(i)
  PROVE  OwnerInv'
<1> USE DEF OwnerInv
<1>1. /\ Open(i, "key") /\ "key" \in Work /\ Commit(i, "key", txs[i]["key"].tx)
      /\ row' = {i} /\ phase' = [phase EXCEPT ![i] = "running"]
      /\ txs[i]["key"].kind = "initialize"
      /\ UNCHANGED <<data, cache, exitSignal>>
  BY Zenon DEF InitializeSingleNodeKey, Open, Work, KeyRows
<1>2. /\ committed' \in Seq(PgTx) /\ Len(committed) \in Nat /\ Len(committed') = Len(committed) + 1
      /\ committed'[Len(committed')] = txs[i]["key"].tx
      /\ \A n \in 1 .. Len(committed') : committed'[n].snapshot < n
      /\ txs' \in [Instance -> [Work -> WorkTx]]
      /\ \A j \in Instance, v \in Work :
           Open(j, v)' => Open(j, v) /\ txs'[j][v] = txs[j][v] /\ <<j, v>> # <<i, "key">>
  BY ZenonT(30), <1>1, CommitFacts
<1>3. OpenTxInv(i, "key")
  BY Zenon, <1>1
<1>4. phase[i] = "new" /\ txs[i]["key"].tx.writes = {"key"}
  BY Zenon, <1>1, <1>3 DEF OpenTxInv
<1>5. OwnerTypeOK'
  <2>1. listener' \in [Instance -> {"off", "waiting", "notified", "blocked"}]
    BY Zenon DEF OwnerTypeOK, InitializeSingleNodeKey
  <2>2. phase' \in [Instance -> {"new", "running", "closing", "gone"}]
    BY Zenon, <1>1 DEF OwnerTypeOK
  <2>3. row' \in SUBSET Instance /\ (\A j, o \in row' : j = o) /\ data' \in 0 .. Len(committed')
    BY <1>1, <1>2 DEF OwnerTypeOK
  <2> QED
    BY Zenon, <2>1, <2>2, <2>3, <1>1, <1>2 DEF OwnerTypeOK
<1>6. phase'[i] # "new" /\ \A j \in Instance : j # i => phase'[j] = phase[j]
  BY Zenon, <1>1 DEF OwnerTypeOK
<1>7. \A j \in Instance, v \in Work : OpenTxInv(j, v)'
  BY ZenonT(30), <1>1, <1>6, CommitKeepsOpen
<1>8. \A j \in Instance : phase'[j] = "new" => cache'[j] = NotLoaded
  BY Zenon, <1>1, <1>6
<1>9. ~Open(i, "stream")'
  <2>1. "stream" \in Work /\ OpenTxInv(i, "stream")
    BY Zenon DEF Work
  <2>2. ~Open(i, "stream")
    BY Zenon, <2>1, <1>4 DEF OpenTxInv
  <2> QED
    BY Zenon, <2>1, <2>2, <1>2
<1>10. ASSUME NEW j \in Instance, NEW v \in Work, Open(j, v)'
       PROVE  txs'[j][v].tx.snapshot < Len(committed')
  <2>1. Open(j, v) /\ txs'[j][v] = txs[j][v] /\ OpenTxInv(j, v)
    BY Zenon, <1>2, <1>10
  <2>2. txs[j][v].tx.snapshot \in Nat
    BY Zenon, <2>1, OpenTx DEF PgTx
  <2> QED
    BY <2>1, <2>2, <1>2 DEF OpenTxInv
<1>11. TakenOver(i, Len(committed))'
  <2>1. cache'[i] = NotLoaded
    BY Zenon, <1>1, <1>4
  <2> QED
    BY Zenon, <2>1, <1>2, <1>4, <1>9, <1>10 DEF TakenOver
<1>12. \A j \in row' : \E k \in 1 .. Len(committed') : TakenOver(j, k)'
  BY <1>1, <1>2, <1>11
<1> QED
  BY Zenon, <1>2, <1>5, <1>7, <1>8, <1>12

\* A process removes its own key.
LEMMA CleanupStep ==
  ASSUME OwnerInv, NEW i \in Instance, CleanupStorage(i)
  PROVE  OwnerInv'
<1> USE DEF OwnerInv
<1>1. /\ Open(i, "key") /\ "key" \in Work /\ Commit(i, "key", txs[i]["key"].tx)
      /\ row' = row \ {i}
      /\ UNCHANGED <<data, phase, cache, listener, exitSignal>>
  BY Zenon DEF CleanupStorage, Open, Work
<1>2. /\ committed' \in Seq(PgTx) /\ Len(committed) \in Nat /\ Len(committed') = Len(committed) + 1
      /\ \A n \in 1 .. Len(committed') : committed'[n].snapshot < n
      /\ txs' \in [Instance -> [Work -> WorkTx]]
  BY Zenon, <1>1, CommitFacts
<1>3. OwnerTypeOK'
  BY <1>1, <1>2 DEF OwnerTypeOK
<1>4. \A j \in Instance, v \in Work : OpenTxInv(j, v)'
  BY Zenon, <1>1, CommitKeepsOpen
<1>5. ASSUME NEW o \in row' PROVE \E k \in 1 .. Len(committed') : TakenOver(o, k)'
  <2>1. o \in Instance /\ o \in row
    BY Zenon, <1>1 DEF OwnerTypeOK
  <2>2. PICK k \in 1 .. Len(committed) : TakenOver(o, k)
    BY Zenon, <2>1
  <2> QED
    BY Zenon, <2>1, <2>2, <1>1, CommitKeepsTaken
<1> QED
  BY Zenon, <1>1, <1>2, <1>3, <1>4, <1>5

\* A transaction on a stream begins: it has seen the takeover if its process owns the
\* database, and does not go on otherwise.
LEMMA BeginStep ==
  ASSUME OwnerInv, NEW i \in Instance, NEW w \in Work, NEW kind \in {"load", "write", "other"},
         (w = "stream" /\ kind # "other") \/ (w = "other" /\ kind = "other"),
         Begin(i, w, kind), CompareUUID(i, row)
  PROVE  OwnerInv'
<1> USE DEF OwnerInv
<1> DEFINE tx == [snapshot |-> Len(committed), reads |-> TxReads(kind),
                  writes |-> IF kind = "write" THEN {"data"} ELSE {}]
           t == [pc |-> "open", kind |-> kind, read |-> data, tx |-> tx]
<1>1. /\ row = {i} /\ phase[i] # "new" /\ txs' = [txs EXCEPT ![i][w] = t]
      /\ UNCHANGED <<row, data, committed, phase, cache, listener, exitSignal>>
  BY Zenon DEF Begin, CompareUUID, Alive
<1>2. Len(committed) \in Nat /\ data \in Nat
  BY DEF OwnerTypeOK
<1>3. tx \in PgTx
  BY Zenon, <1>2 DEF PgTx, TxReads
<1>4. /\ tx.snapshot = Len(committed) /\ tx.reads = TxReads(kind)
      /\ tx.writes = IF kind = "write" THEN {"data"} ELSE {}
  BY Zenon
<1> HIDE DEF tx
<1>5. t \in WorkTx /\ t.pc = "open" /\ t.kind = kind /\ t.read = data /\ t.tx = tx
  BY Zenon, <1>2, <1>3 DEF WorkTx
<1> HIDE DEF t
<1>6. /\ txs' \in [Instance -> [Work -> WorkTx]] /\ txs'[i][w] = t
      /\ \A j \in Instance, v \in Work : <<j, v>> # <<i, w>> => txs'[j][v] = txs[j][v]
  <2>1. OwnerTypeOK /\ txs' = [txs EXCEPT ![i][w] = t] /\ t \in WorkTx
    BY Zenon, <1>1, <1>5
  <2>2. txs \in [Instance -> [Work -> WorkTx]]
    BY Zenon DEF OwnerTypeOK
  <2> HIDE DEF OwnerInv
  <2> QED
    BY Zenon, <2>1, <2>2
<1>7. OwnerTypeOK'
  BY Zenon, <1>1, <1>6 DEF OwnerTypeOK
<1>8. ASSUME NEW j \in Instance, NEW v \in Work PROVE OpenTxInv(j, v)'
  <2>1. CASE <<j, v>> = <<i, w>>
    <3>1. j = i /\ v = w /\ txs'[j][v] = t
      BY Zenon, <2>1, <1>6
    <3>2. t.tx.snapshot =< Len(committed') /\ t.tx.reads = TxReads(t.kind) /\ phase'[i] # "new"
      BY <1>1, <1>2, <1>4, <1>5
    <3>3. t.tx.writes = IF t.kind = "write" THEN {"data"} ELSE {}
      BY Zenon, <1>4, <1>5
    <3>4. w # "key" /\ t.kind \in (IF w = "stream" THEN {"load", "write"} ELSE {"other"})
      BY Zenon, <1>5
    <3> QED
      BY Zenon, <3>1, <3>2, <3>3, <3>4 DEF OpenTxInv
  <2>2. CASE <<j, v>> # <<i, w>>
    <3>1. txs'[j][v] = txs[j][v] /\ OpenTxInv(j, v)
      BY Zenon, <2>2, <1>6
    <3> QED
      BY <3>1, <1>1 DEF OpenTxInv, Open
  <2> QED
    BY Zenon, <2>1, <2>2
<1>9. PICK k \in 1 .. Len(committed) : TakenOver(i, k)
  BY Zenon, <1>1
<1>10. \A j \in Instance \ {i}, v \in Work \ {"key"} : Open(j, v)' => txs'[j][v].tx.snapshot < k
  BY ZenonT(30), <1>6, <1>9 DEF TakenOver, Open
<1>11. ASSUME Open(i, "stream")'
       PROVE  /\ k =< txs'[i]["stream"].tx.snapshot
              /\ txs'[i]["stream"].kind = "load" =>
                   \/ txs'[i]["stream"].read = data'
                   \/ \E n \in txs'[i]["stream"].tx.snapshot + 1 .. Len(committed') : LateWrite(n, k)'
  <2>1. CASE w = "stream"
    BY <2>1, <1>1, <1>2, <1>4, <1>5, <1>6
  <2>2. CASE w # "stream"
    <3>1. txs'[i]["stream"] = txs[i]["stream"] /\ Open(i, "stream")
      BY Zenon, <2>2, <1>6, <1>11 DEF Work, Open
    <3> QED
      BY Zenon, <3>1, <1>1, <1>9 DEF TakenOver, LateWrite
  <2> QED
    BY Zenon, <2>1, <2>2
<1>12. TakenOver(i, k)'
  BY Zenon, <1>1, <1>9, <1>10, <1>11 DEF TakenOver
<1> QED
  BY Zenon, <1>1, <1>7, <1>8, <1>9, <1>12

\* A transaction on a stream commits.  A write of the former owner commits only as long as
\* the owner has not read the stream, and then the owner cannot commit what it has read.
LEMMA EndStep ==
  ASSUME OwnerInv, NEW i \in Instance, NEW w \in Work, End(i, w)
  PROVE  OwnerInv'
<1> USE DEF OwnerInv
<1> DEFINE t == txs[i][w]
<1>1. /\ Open(i, w) /\ Commit(i, w, t.tx) /\ t.kind \in {"load", "write", "other"}
      /\ data' = (IF t.kind = "write" THEN Len(committed') ELSE data)
      /\ cache' = (IF t.kind = "other" THEN cache
                   ELSE [cache EXCEPT ![i] = IF t.kind = "write" THEN data' ELSE t.read])
      /\ UNCHANGED <<row, phase, listener, exitSignal>>
  BY Zenon DEF End, Open
<1>2. /\ committed' \in Seq(PgTx) /\ Len(committed) \in Nat /\ Len(committed') = Len(committed) + 1
      /\ \A n \in 1 .. Len(committed) : committed'[n] = committed[n]
      /\ committed'[Len(committed')] = t.tx
      /\ \A n \in 1 .. Len(committed') : committed'[n].snapshot < n
      /\ Serializable(committed')
      /\ txs' \in [Instance -> [Work -> WorkTx]] /\ ~Open(i, w)'
      /\ \A j \in Instance, v \in Work :
           Open(j, v)' => Open(j, v) /\ txs'[j][v] = txs[j][v] /\ <<j, v>> # <<i, w>>
  BY Zenon, <1>1, CommitFacts
<1>3. OpenTxInv(i, w) /\ t.tx \in PgTx /\ t.read \in Nat
  BY Zenon, <1>1, OpenTx
<1>4. /\ w # "key" /\ phase[i] # "new" /\ t.tx.reads = TxReads(t.kind) /\ t.tx.snapshot \in Nat
      /\ t.tx.snapshot =< Len(committed)
      /\ t.tx.writes = IF t.kind = "write" THEN {"data"} ELSE {}
      /\ t.kind # "other" => w = "stream"
  BY Zenon, <1>1, <1>3 DEF OpenTxInv, PgTx
<1> HIDE DEF t
<1>5. /\ data \in Nat /\ data' \in 0 .. Len(committed') /\ cache' \in [Instance -> Int]
      /\ \A j \in Instance \ {i} : cache'[j] = cache[j]
  BY <1>1, <1>2, <1>3 DEF OwnerTypeOK
<1>6. OwnerTypeOK'
  BY Zenon, <1>1, <1>2, <1>5 DEF OwnerTypeOK
<1>7. \A j \in Instance, v \in Work : OpenTxInv(j, v)'
  BY Zenon, <1>1, CommitKeepsOpen DEF t
<1>8. \A j \in Instance : phase'[j] = "new" => cache'[j] = NotLoaded
  BY Zenon, <1>1, <1>4, <1>5
<1>9. ASSUME NEW o \in row PROVE \E k \in 1 .. Len(committed') : TakenOver(o, k)'
  <2>1. o \in Instance /\ "stream" \in Work
    BY Zenon DEF OwnerTypeOK, Work
  <2>2. PICK k \in 1 .. Len(committed) : TakenOver(o, k)
    BY Zenon
  <2>3. /\ k \in 1 .. Len(committed') /\ "key" \in committed'[k].writes
        /\ \A j \in Instance \ {o}, v \in Work \ {"key"} : Open(j, v)' => txs'[j][v].tx.snapshot < k
    <3>1. k \in 1 .. Len(committed')
      BY <1>2
    <3>2. "key" \in committed'[k].writes
      BY Zenon, <2>2, <1>2 DEF TakenOver
    <3> QED
      BY ZenonT(30), <3>1, <3>2, <2>2, <1>2 DEF TakenOver
  <2>4. CASE i # o /\ t.kind # "write"
    BY Zenon, <2>1, <2>2, <2>4, <1>1, <1>5, CommitKeepsTaken DEF t
  <2>5. CASE i # o /\ t.kind = "write"
    <3>1. t.tx.snapshot < k
      BY Zenon, <2>1, <2>2, <2>5, <1>1, <1>4 DEF TakenOver, t
    <3>2. LateWrite(Len(committed), k)'
      BY Zenon, <3>1, <2>5, <1>2, <1>4 DEF LateWrite, TxReads
    <3>3. cache[o] = NotLoaded
      <4> SUFFICES ASSUME cache[o] # NotLoaded PROVE FALSE
        BY Zenon
      <4>1. PICK r \in 1 .. Len(committed) :
              k =< committed[r].snapshot /\ {"key", "data"} \subseteq committed[r].reads
        BY Zenon, <2>2 DEF TakenOver
      <4>2. r \in 1 .. Len(committed') /\ committed'[r] = committed[r] /\ committed[r].snapshot < r
        BY <1>2
      <4>3. committed[r].snapshot \in Nat
        <5>1. committed'[r] \in PgTx
          BY <4>2, <1>2
        <5> QED
          BY Zenon, <5>1, <4>2 DEF PgTx
      <4>4. committed'[r].snapshot < Len(committed')
        BY <4>2, <4>3, <1>2
      <4>5. /\ committed' \in Seq(PgTx) /\ Len(committed') \in 1 .. Len(committed')
            /\ k =< committed'[r].snapshot /\ committed'[r].snapshot < r
            /\ {"key", "data"} \subseteq committed'[r].reads
        BY <4>1, <4>2, <1>2
      <4>6. /\ committed'[Len(committed')].snapshot < k /\ "key" \in committed'[Len(committed')].reads
            /\ "data" \in committed'[Len(committed')].writes
        BY Zenon, <3>2 DEF LateWrite
      <4>7. ~Serializable(committed')
        BY Zenon, <4>2, <4>4, <4>5, <4>6, <2>3, LateWriteExcluded
      <4> QED
        BY Zenon, <4>7, <1>2
    <3>4. cache'[o] = NotLoaded
      BY Zenon, <3>3, <2>1, <2>5, <1>5
    <3>5. ASSUME Open(o, "stream")'
          PROVE  /\ k =< txs'[o]["stream"].tx.snapshot
                 /\ \E n \in txs'[o]["stream"].tx.snapshot + 1 .. Len(committed') : LateWrite(n, k)'
      <4>1. Open(o, "stream") /\ txs'[o]["stream"] = txs[o]["stream"] /\ OpenTxInv(o, "stream")
        BY Zenon, <3>5, <2>1, <1>2
      <4>2. txs[o]["stream"].tx.snapshot \in Nat /\ txs[o]["stream"].tx.snapshot =< Len(committed)
        BY Zenon, <4>1, <2>1, OpenTx DEF OpenTxInv, PgTx
      <4>3. k =< txs[o]["stream"].tx.snapshot
        BY Zenon, <4>1, <2>2 DEF TakenOver
      <4>4. Len(committed') \in txs[o]["stream"].tx.snapshot + 1 .. Len(committed')
        BY SMTT(30), Z3T(30), Z3T(30), <4>2, <1>2
      <4> QED
        BY Zenon, <4>1, <4>3, <4>4, <3>2
    <3>6. TakenOver(o, k)'
      BY Zenon, <3>4, <3>5, <2>3 DEF TakenOver
    <3> QED
      BY Zenon, <3>6, <2>3
  <2>6. CASE i = o /\ t.kind = "other"
    BY Zenon, <2>1, <2>2, <2>6, <1>1, CommitKeepsTaken DEF t
  <2>7. CASE i = o /\ t.kind # "other"
    <3>1. w = "stream" /\ k =< t.tx.snapshot /\ ~Open(o, "stream")'
      BY Zenon, <2>2, <2>7, <1>1, <1>2, <1>4 DEF TakenOver, t
    <3>2. {"key", "data"} \subseteq t.tx.reads
      BY Zenon, <2>7, <1>1, <1>4 DEF TxReads
    <3>3. Len(committed') \in 1 .. Len(committed')
      BY <1>2
    <3>4. cache'[o] = data'
      <4>1. CASE t.kind = "write"
        BY Zenon, <4>1, <2>7, <1>1 DEF OwnerTypeOK
      <4>2. CASE t.kind = "load"
        <5>1. t.read = data
          <6> SUFFICES ASSUME t.read # data PROVE FALSE
            BY Zenon
          <6>1. PICK n \in t.tx.snapshot + 1 .. Len(committed) : LateWrite(n, k)
            BY Zenon, <4>2, <3>1, <2>2, <2>7, <1>1 DEF TakenOver, t
          <6>2. /\ n \in 1 .. Len(committed') /\ committed'[n] = committed[n]
                /\ committed'[Len(committed')].snapshot < n
            <7>1. n \in 1 .. Len(committed) /\ t.tx.snapshot < n
              BY SMTT(30), Z3T(30), Z3T(30), <6>1, <1>2, <1>4
            <7> QED
              BY <7>1, <1>2
          <6> QED
            BY ZenonT(30), <6>1, <6>2, <3>1, <3>2, <3>3, <2>3, <1>2, LateWriteExcluded DEF LateWrite
        <5> QED
          BY Zenon, <5>1, <4>2, <2>7, <1>1 DEF OwnerTypeOK
      <4> QED
        BY Zenon, <4>1, <4>2, <2>7, <1>1
    <3>5. TakenOver(o, k)'
      BY SMTT(30), Z3T(30), <3>1, <3>2, <3>3, <3>4, <2>3, <1>2 DEF TakenOver
    <3> QED
      BY Zenon, <3>5, <2>3
  <2> QED
    BY Zenon, <2>4, <2>5, <2>6, <2>7
<1> QED
  BY Zenon, <1>1, <1>2, <1>6, <1>7, <1>8, <1>9

\* One transaction of a process is set to something that is not open, or is part of the
\* takeover or the cleanup.
LEMMA SetQuietTx ==
  ASSUME OwnerInv, NEW i \in Instance, NEW w \in Work,
         txs' \in [Instance -> [Work -> WorkTx]], exitSignal' \in [Instance -> {0, 1}],
         \A j \in Instance, v \in Work : <<j, v>> # <<i, w>> => txs'[j][v] = txs[j][v],
         ~Open(i, w)' \/ (w = "key" /\ OpenTxInv(i, w)'),
         UNCHANGED <<row, data, committed, phase, cache, listener>>
  PROVE  OwnerInv'
<1>1. OwnerTypeOK'
  BY Zenon DEF OwnerInv, OwnerTypeOK
<1>2. \A j \in Instance, v \in Work :
        Open(j, v)' => txs'[j][v] = txs[j][v] \/ (v = "key" /\ OpenTxInv(j, v)')
  BY Zenon
<1> QED
  BY Zenon, <1>1, <1>2, QuietOwner

\* The takeover or the cleanup begins.
LEMMA BeginKeyStep ==
  ASSUME OwnerInv, NEW i \in Instance, BeginInitializeKey(i) \/ BeginCleanup(i)
  PROVE  OwnerInv'
<1> USE DEF OwnerInv
<1> DEFINE tx == [snapshot |-> Len(committed), reads |-> {"key"}, writes |-> {"key"}]
<1>1. PICK kind \in {"initialize", "cleanup"} :
        /\ txs' = [txs EXCEPT ![i]["key"] = [pc |-> "open", kind |-> kind, tx |-> tx]]
        /\ kind = "initialize" => phase[i] = "new"
        /\ UNCHANGED <<row, data, committed, phase, cache, listener, exitSignal, requests, failed>>
  BY Zenon DEF BeginInitializeKey, BeginCleanup
<1>2. tx \in PgTx /\ tx.snapshot = Len(committed) /\ tx.writes = {"key"} /\ Len(committed) \in Nat
  BY DEF PgTx, OwnerTypeOK
<1> DEFINE t == [pc |-> "open", kind |-> kind, tx |-> tx]
<1> HIDE DEF tx
<1>3. t \in WorkTx /\ t.pc = "open" /\ t.kind = kind /\ t.tx = tx
  BY Zenon, <1>2 DEF WorkTx
<1>4. txs' = [txs EXCEPT ![i]["key"] = t]
  BY Zenon, <1>1
<1> HIDE DEF t
<1>5. txs \in [Instance -> [Work -> WorkTx]] /\ "key" \in Work /\ exitSignal \in [Instance -> {0, 1}]
  BY Zenon DEF OwnerTypeOK, Work
<1>6. /\ txs' \in [Instance -> [Work -> WorkTx]] /\ txs'[i]["key"] = t
      /\ \A j \in Instance, v \in Work : <<j, v>> # <<i, "key">> => txs'[j][v] = txs[j][v]
  BY Zenon, <1>3, <1>4, <1>5
<1>7. OpenTxInv(i, "key")'
  BY <1>1, <1>2, <1>3, <1>6 DEF OpenTxInv
<1> QED
  BY <1>1, <1>5, <1>6, <1>7, SetQuietTx

\* A transaction is tried again, ends with an error, or waits to report one.
LEMMA CloseTxStep ==
  ASSUME OwnerInv, NEW i \in Instance, NEW w \in Work,
         TxRetry(i, w) \/ (SendExit(i, w) /\ UNCHANGED <<row, data, committed, phase, cache, listener>>)
  PROVE  OwnerInv'
<1> USE DEF OwnerInv
<1>1. \E t \in WorkTx : t.pc # "open" /\ txs' = [txs EXCEPT ![i][w] = t]
  <2>1. CASE TxRetry(i, w)
    <3>1. txs[i][w].kind \in TxKind
      BY Zenon, <2>1, OpenTx DEF TxRetry, Open
    <3> QED
      BY Zenon, <2>1, <3>1, ClosedTxs DEF TxRetry
  <2>2. CASE SendExit(i, w)
    BY Zenon, <2>2, ClosedTxs DEF SendExit
  <2> QED
    BY Zenon, <2>1, <2>2
<1>2. PICK t \in WorkTx : t.pc # "open" /\ txs' = [txs EXCEPT ![i][w] = t]
  BY Zenon, <1>1
<1>3. txs \in [Instance -> [Work -> WorkTx]]
  BY Zenon DEF OwnerTypeOK
<1>4. /\ txs' \in [Instance -> [Work -> WorkTx]] /\ txs'[i][w] = t
      /\ \A j \in Instance, v \in Work : <<j, v>> # <<i, w>> => txs'[j][v] = txs[j][v]
  BY Zenon, <1>2, <1>3
<1>5. ~Open(i, w)'
  BY Zenon, <1>2, <1>4 DEF Open
<1>6. exitSignal' \in [Instance -> {0, 1}] /\ UNCHANGED <<row, data, committed, phase, cache, listener>>
  BY Zenon DEF TxRetry, SendExit, OwnerTypeOK
<1> QED
  BY Zenon, <1>4, <1>5, <1>6, SetQuietTx

\* A process is told of its successor, exits or is killed.
LEMMA ExitStep ==
  ASSUME OwnerInv, NEW i \in Instance,
         Listen(i) \/ MissNotification(i) \/ TakeExit(i) \/ PoolClose(i) \/ CrashProcess(i)
  PROVE  OwnerInv'
<1> USE DEF OwnerInv
<1>1. UNCHANGED <<row, data, committed, cache>>
  BY Zenon DEF Listen, MissNotification, TakeExit, PoolClose, CrashProcess
<1>2. /\ phase' \in [Instance -> {"new", "running", "closing", "gone"}]
      /\ \A j \in Instance : phase'[j] = "new" <=> phase[j] = "new"
  BY Zenon DEF Listen, MissNotification, TakeExit, PoolClose, CrashProcess, Alive, OwnerTypeOK
<1>3. /\ exitSignal' \in [Instance -> {0, 1}]
      /\ listener' \in [Instance -> {"off", "waiting", "notified", "blocked"}]
  BY Zenon DEF Listen, MissNotification, TakeExit, PoolClose, CrashProcess, OwnerTypeOK
<1>4. txs \in [Instance -> [Work -> WorkTx]]
  BY Zenon DEF OwnerTypeOK
<1>5. /\ txs' \in [Instance -> [Work -> WorkTx]]
      /\ \A j \in Instance, v \in Work : txs'[j][v] = txs[j][v] \/ txs'[j][v] = NoTx
  <2>1. CASE CrashProcess(i)
    BY Zenon, <2>1, <1>4, ClosedTxs DEF CrashProcess
  <2>2. CASE UNCHANGED txs
    BY Zenon, <2>2, <1>4
  <2> QED
    BY Zenon, <2>1, <2>2 DEF Listen, MissNotification, TakeExit, PoolClose
<1>6. \A j \in Instance, v \in Work : Open(j, v)' => txs'[j][v] = txs[j][v]
  BY Zenon, <1>5, ClosedTxs DEF Open
<1>7. OwnerTypeOK'
  BY Zenon, <1>1, <1>2, <1>3, <1>5 DEF OwnerTypeOK
<1> QED
  BY Zenon, <1>1, <1>2, <1>6, <1>7, QuietOwner

LEMMA NextOwner ==
  OwnerInv /\ [OwnerNext]_<<ownerVars, ownerBound>> => OwnerInv'
<1> SUFFICES ASSUME OwnerInv, [OwnerNext]_<<ownerVars, ownerBound>> PROVE OwnerInv'
  BY Zenon
<1>1. CASE UNCHANGED <<ownerVars, ownerBound>>
  <2>1. UNCHANGED <<row, data, committed, phase, cache, txs, listener, exitSignal>>
    BY Zenon, <1>1 DEF ownerVars
  <2>2. OwnerTypeOK'
    BY Zenon, <2>1 DEF OwnerInv, OwnerTypeOK
  <2> QED
    BY Zenon, <2>1, <2>2, QuietOwner
<1>2. CASE OwnerNext
  <2>1. PICK i \in Instance :
          \/ BeginInitializeKey(i) \/ InitializeSingleNodeKey(i)
          \/ \E kind \in {"load", "write"} : Begin(i, "stream", kind)
          \/ Begin(i, "other", "other")
          \/ \E w \in Work : End(i, w) \/ TxRetry(i, w) \/ Unblock(i, w)
          \/ Exit(i) \/ MissNotification(i) \/ CrashProcess(i)
    BY Zenon, <1>2 DEF OwnerNext
  <2>2. ASSUME NEW w \in Work, NEW kind \in {"load", "write", "other"},
               (w = "stream" /\ kind # "other") \/ (w = "other" /\ kind = "other"),
               Begin(i, w, kind)
        PROVE  OwnerInv'
    <3>1. CASE CompareUUID(i, row)
      BY Zenon, <2>2, <3>1, BeginStep
    <3>2. CASE ~CompareUUID(i, row)
      <4>1. SendExit(i, w) /\ UNCHANGED <<row, data, committed, phase, cache, listener>>
        BY Zenon, <2>2, <3>2 DEF Begin
      <4> QED
        BY Zenon, <4>1, CloseTxStep
    <3> QED
      BY Zenon, <3>1, <3>2
  <2>3. CASE \E kind \in {"load", "write"} : Begin(i, "stream", kind)
    <3>1. PICK kind \in {"load", "write"} : Begin(i, "stream", kind)
      BY Zenon, <2>3
    <3>2. "stream" \in Work /\ kind \in {"load", "write", "other"} /\ kind # "other"
      BY Zenon DEF Work
    <3> QED
      BY Zenon, <3>1, <3>2, <2>2
  <2>4. CASE Begin(i, "other", "other")
    BY Zenon, <2>4, <2>2 DEF Work
  <2>5. ASSUME NEW w \in Work, End(i, w) \/ TxRetry(i, w) \/ Unblock(i, w) PROVE OwnerInv'
    <3>1. CASE Unblock(i, w)
      BY Zenon, <3>1, CloseTxStep DEF Unblock
    <3> QED
      BY Zenon, <3>1, <2>5, EndStep, CloseTxStep
  <2>6. CASE Exit(i) \/ MissNotification(i) \/ CrashProcess(i)
    BY Zenon, <2>6, ExitStep, BeginKeyStep, CleanupStep DEF Exit
  <2> QED
    BY Zenon, <2>1, <2>3, <2>4, <2>5, <2>6, BeginKeyStep, TakeoverStep
<1> QED
  BY Zenon, <1>1, <1>2

\* The invariant of the processes that share a database.
THEOREM OwnerInvariant ==
  OwnerSpec => []OwnerInv
  BY InitOwner, NextOwner, PTL DEF OwnerSpec

\* The process whose uuid is in singlenodekey has in memory what is in storage, for every
\* number of processes, however late the transactions of its predecessors end.
THEOREM OwnerIsCurrent ==
  OwnerSpec => []OwnerCacheCurrent
<1>1. OwnerInv => OwnerCacheCurrent
  BY Zenon DEF OwnerInv, OwnerCacheCurrent, TakenOver
<1> QED
  BY <1>1, OwnerInvariant, PTL

(***************************************************************************)
(* The key exchange loses no event on its way through the queues and       *)
(* acknowledges no message whose keys are not stored, for every set of     *)
(* devices and sessions and any number of restarts, lost messages, failed  *)
(* imports and failed decryptions; what a failure costs is in abandoned    *)
(* and spoiled.                                                            *)
(***************************************************************************)
LEMMA ConcatFacts ==
  ASSUME NEW S, NEW s \in Seq(S), NEW t \in Seq(S)
  PROVE  /\ s \o t \in Seq(S) /\ Len(s \o t) = Len(s) + Len(t)
         /\ \A i \in 1..(Len(s) + Len(t)) : (s \o t)[i] = IF i <= Len(s) THEN s[i] ELSE t[i - Len(s)]
OBVIOUS

LEMMA SubSeqFacts ==
  ASSUME NEW S, NEW s \in Seq(S), NEW m \in 1..(Len(s) + 1), NEW n \in (m - 1)..Len(s)
  PROVE  /\ SubSeq(s, m, n) \in Seq(S) /\ Len(SubSeq(s, m, n)) = (n - m) + 1
         /\ \A i \in 1..((n - m) + 1) : SubSeq(s, m, n)[i] = s[(m + i) - 1]
OBVIOUS


\* NoEventStuck and AckedKeysStored for one device.
NotStuck(d) ==
  /\ received[d] \subseteq
       decrypted[d] \cup encryptedContent[d] \cup decryptionRetries[d] \cup decryptionFailures[d]
         \cup abandoned[d] \cup (IF task[d].kind \in {"content", "retry"} THEN {task[d].id} ELSE {})
  /\ decryptionFailures[d] \cap sessionKeys[d] = {}

AckedStored(d) ==
  \A n \in 1 .. acked[d] : inbox[d][n] \subseteq sessionKeys[d] \cup spoiled[d]

\* The types that do not depend on the tasks.
KeyTypes ==
  /\ sessionKeys \in [Device -> SUBSET SessionId]
  /\ received \in [Device -> SUBSET SessionId] /\ decrypted \in [Device -> SUBSET SessionId]
  /\ encryptedContent \in [Device -> SUBSET SessionId]
  /\ decryptionRetries \in [Device -> SUBSET SessionId]
  /\ decryptionFailures \in [Device -> SUBSET SessionId]
  /\ abandoned \in [Device -> SUBSET SessionId] /\ spoiled \in [Device -> SUBSET SessionId]
  /\ newGroupSession \in [Device -> Seq(SUBSET SessionId)]
  /\ priorityTasks \in [Device -> Seq(SUBSET SessionId)]
  /\ missingKeys \in [Device -> BOOLEAN]
  /\ upToDate \in [Device -> SUBSET {"stream", "inbox"}] /\ member \in SUBSET Device
  /\ inbox \in [Device -> Seq(SUBSET SessionId)]
  /\ fetched \in [Device -> Nat] /\ acked \in [Device -> Nat]
  /\ \A d \in Device : acked[d] =< fetched[d] /\ fetched[d] =< Len(inbox[d])
  /\ Mishaps

\* The invariant, device by device.
DeviceInv(d) == TaskOK(task[d]) /\ InboxInv(d) /\ NotStuck(d) /\ AckedStored(d)

LEMMA ByDevice ==
  KeyInv <=> /\ KeyTypes /\ keyBound \in KeyBounds /\ DOMAIN task = Device
             /\ \A d \in Device : DeviceInv(d)
<1>1. NoEventStuck <=> \A d \in Device : NotStuck(d)
  BY Zenon DEF NoEventStuck, NotStuck
<1>2. AckedKeysStored <=> \A d \in Device : AckedStored(d)
  BY Zenon DEF AckedKeysStored, AckedStored
<1>3. (KeyTypeOK /\ (\A d \in Device : TaskOK(task[d])) /\ inbox \in [Device -> Seq(SUBSET SessionId)]
        /\ fetched \in [Device -> Nat] /\ acked \in [Device -> Nat] /\ Mishaps)
      <=> (KeyTypes /\ \A d \in Device : TaskOK(task[d]))
  BY Zenon DEF KeyTypeOK, KeyTypes, TaskOK
<1> QED
  BY Zenon, <1>1, <1>2, <1>3 DEF KeyInv, DeviceInv

\* The same after a step that keeps the bound.
LEMMA AllDevices ==
  ASSUME KeyInv, keyBound' = keyBound, KeyTypes', DOMAIN task' = Device, \A d \in Device : DeviceInv(d)'
  PROVE  KeyInv'
<1>1. (KeyInv <=> /\ KeyTypes /\ keyBound \in KeyBounds /\ DOMAIN task = Device
                  /\ \A d \in Device : DeviceInv(d))'
  BY ByDevice, PTL
<1>2. keyBound' \in KeyBounds
  BY Zenon, ByDevice
<1> QED
  BY Zenon, <1>1, <1>2

LEMMA BadSessionTypes ==
  ASSUME Mishaps, BadSession
  PROVE  Mishaps'
BY DEF Mishaps, BadSession

LEMMA OtherErrorTypes ==
  ASSUME Mishaps, OtherError
  PROVE  Mishaps'
BY DEF Mishaps, OtherError

LEMMA InitKeyInv ==
  ASSUME KeyInit
  PROVE  KeyInv
<1>1. keyBound \in KeyBound /\ keyBound \in KeyBounds
  BY Zenon, KeyAssumption DEF KeyInit
<1>2. KeyTypes
  BY <1>1 DEF KeyInit, KeyTypes, KeyBound, Mishaps
<1>3. DOMAIN task = Device
  BY Zenon DEF KeyInit
<1>4. ASSUME NEW d \in Device
      PROVE  DeviceInv(d)
  <2>1. task[d].kind = "idle" /\ priorityTasks[d] = << >> /\ fetched[d] = 0 /\ acked[d] = 0
        /\ received[d] = {} /\ decryptionFailures[d] = {}
    BY Zenon DEF KeyInit, Idle
  <2>2. TaskOK(task[d])
    BY <2>1 DEF TaskOK
  <2>3. InboxInv(d) /\ AckedStored(d)
    <3>1. \A n \in 1 .. 0 : FALSE
      OBVIOUS
    <3>2. InboxInv(d)
      BY Zenon, <2>1, <3>1 DEF InboxInv
    <3> QED
      BY Zenon, <2>1, <3>1, <3>2 DEF AckedStored
  <2>4. NotStuck(d)
    BY Zenon, <2>1 DEF NotStuck
  <2> QED
    BY Zenon, <2>2, <2>3, <2>4 DEF DeviceInv
<1> QED
  BY Zenon, <1>1, <1>2, <1>3, <1>4, ByDevice

(***************************************************************************)
(* What a step leaves alone.                                               *)
(***************************************************************************)

\* A message waits as before when nobody takes one up.
LEMMA SameWaiting ==
  ASSUME NEW e \in Device, KeyInv,
         newGroupSession'[e] = newGroupSession[e], priorityTasks'[e] = priorityTasks[e],
         sessionKeys'[e] = sessionKeys[e], spoiled'[e] = spoiled[e], fetched'[e] = fetched[e],
         acked'[e] = acked[e], keyBound' = keyBound,
         inbox'[e] = inbox[e] \/ \E m \in SUBSET SessionId : inbox'[e] = Append(inbox[e], m),
         task'[e] = task[e] \/ (task[e].kind # "session" /\ task'[e].kind # "session")
  PROVE  InboxInv(e)' /\ AckedStored(e)'
<1>1. /\ inbox[e] \in Seq(SUBSET SessionId) /\ fetched[e] \in Nat /\ acked[e] \in Nat
      /\ acked[e] <= fetched[e] /\ fetched[e] <= Len(inbox[e])
      /\ InboxInv(e) /\ AckedStored(e)
  BY Zenon, ByDevice DEF KeyTypes, DeviceInv
<1>2. \A n \in 1 .. fetched[e] : inbox'[e][n] = inbox[e][n]
  BY SMTT(30), Z3T(30), Z3T(30), <1>1
<1>3. \A m : Waits(e, m)' <=> Waits(e, m)
  BY Zenon DEF Waits
<1>4. AckedStored(e)'
  <2>1. 1 .. acked[e] \subseteq 1 .. fetched[e]
    BY <1>1
  <2> QED
    BY Zenon, <1>1, <1>2, <2>1 DEF AckedStored
<1>5. InboxInv(e)'
  <2>1. priorityTasks[e] # << >> => task[e].kind # "session"
    BY Zenon, <1>1 DEF InboxInv
  <2>2. priorityTasks'[e] # << >> => task'[e].kind # "session"
    BY Zenon, <2>1
  <2>3. \A n \in 1 .. fetched[e] :
          inbox[e][n] \subseteq sessionKeys[e] \cup spoiled[e] \/ Waits(e, inbox[e][n])
    BY Zenon, <1>1 DEF InboxInv
  <2> QED
    BY Zenon, <1>2, <1>3, <2>2, <2>3 DEF InboxInv
<1> QED
  BY Zenon, <1>4, <1>5

\* A device at which nothing happens, except that a message may reach its inbox.
LEMMA OtherDevice ==
  ASSUME NEW e \in Device, KeyInv,
         newGroupSession'[e] = newGroupSession[e], priorityTasks'[e] = priorityTasks[e],
         sessionKeys'[e] = sessionKeys[e], spoiled'[e] = spoiled[e], fetched'[e] = fetched[e],
         acked'[e] = acked[e], abandoned'[e] = abandoned[e], received'[e] = received[e], decrypted'[e] = decrypted[e],
         encryptedContent'[e] = encryptedContent[e], decryptionRetries'[e] = decryptionRetries[e],
         decryptionFailures'[e] = decryptionFailures[e], keyBound' = keyBound, task'[e] = task[e],
         inbox'[e] = inbox[e] \/ \E m \in SUBSET SessionId : inbox'[e] = Append(inbox[e], m)
  PROVE  DeviceInv(e)'
<1>1. InboxInv(e)' /\ AckedStored(e)'
  BY Zenon, SameWaiting
<1>2. NotStuck(e) /\ TaskOK(task[e])
  BY Zenon, ByDevice DEF DeviceInv
<1>3. NotStuck(e)'
  BY Zenon, <1>2 DEF NotStuck
<1> QED
  BY Zenon, <1>1, <1>2, <1>3 DEF DeviceInv, TaskOK
\* The tick of d ends, begins or goes on, and no other changes.
TaskOf(d) == DOMAIN task' = Device /\ \A e \in Device \ {d} : task'[e] = task[e]

LEMMA TickOf ==
  ASSUME KeyInv, NEW d, NEW t, task' = [task EXCEPT ![d] = t]
  PROVE  TaskOf(d) /\ (d \in Device => task'[d] = t)
BY Zenon, ByDevice DEF TaskOf

\* The steps that touch neither an event nor a message that was enqueued.
LEMMA QuietStep ==
  ASSUME KeyInv, NEW d \in Device, KeyTypes',
         UNCHANGED <<newGroupSession, priorityTasks, sessionKeys, abandoned, spoiled, fetched, acked, received, decrypted,
                     encryptedContent, decryptionRetries, decryptionFailures, keyBound>>,
         TaskOf(d), TaskOK(task'[d]),
         task'[d] = task[d] \/ (/\ task[d].kind \notin {"session", "content", "retry"}
                                /\ task'[d].kind \notin {"session", "content", "retry"}),
         \A e \in Device : inbox'[e] = inbox[e] \/ \E m \in SUBSET SessionId : inbox'[e] = Append(inbox[e], m)
  PROVE  KeyInv'
<1>1. ASSUME NEW e \in Device, e # d
      PROVE  DeviceInv(e)'
  BY Zenon, <1>1, OtherDevice DEF TaskOf
<1>2. DeviceInv(d)'
  <2>1. InboxInv(d)' /\ AckedStored(d)'
    BY Zenon, SameWaiting
  <2>2. NotStuck(d)
    BY Zenon, ByDevice DEF DeviceInv
  <2>3. NotStuck(d)'
    BY Zenon, <2>2 DEF NotStuck
  <2> QED
    BY Zenon, <2>1, <2>3 DEF DeviceInv, TaskOK
<1> QED
  BY Zenon, <1>1, <1>2, AllDevices DEF TaskOf

\* The steps that move an event of d and leave the messages alone.
LEMMA EventStep ==
  ASSUME KeyInv, NEW d \in Device, KeyTypes',
         UNCHANGED <<newGroupSession, priorityTasks, sessionKeys, spoiled, inbox, fetched, acked, keyBound>>,
         \A e \in Device \ {d} : /\ received'[e] = received[e] /\ decrypted'[e] = decrypted[e]
                                 /\ encryptedContent'[e] = encryptedContent[e]
                                 /\ decryptionRetries'[e] = decryptionRetries[e]
                                 /\ decryptionFailures'[e] = decryptionFailures[e]
                                 /\ abandoned'[e] = abandoned[e],
         TaskOf(d), TaskOK(task'[d]),
         task'[d] = task[d] \/ (task[d].kind # "session" /\ task'[d].kind # "session"),
         NotStuck(d)'
  PROVE  KeyInv'
<1>1. ASSUME NEW e \in Device, e # d
      PROVE  DeviceInv(e)'
  <2>1. e \in Device \ {d}
    BY Zenon, <1>1
  <2> QED
    BY Zenon, <2>1, OtherDevice DEF TaskOf
<1>2. DeviceInv(d)'
  <2>1. InboxInv(d)' /\ AckedStored(d)'
    BY Zenon, SameWaiting
  <2> QED
    BY Zenon, <2>1 DEF DeviceInv, TaskOK
<1> QED
  BY Zenon, <1>1, <1>2, AllDevices DEF TaskOf

\* The steps that take up, enqueue or process messages of d.
LEMMA MessageStep ==
  ASSUME KeyInv, NEW d \in Device, KeyTypes', UNCHANGED <<inbox, received, decrypted, keyBound>>,
         \A e \in Device \ {d} : /\ encryptedContent'[e] = encryptedContent[e]
                                 /\ decryptionRetries'[e] = decryptionRetries[e]
                                 /\ decryptionFailures'[e] = decryptionFailures[e]
                                 /\ newGroupSession'[e] = newGroupSession[e]
                                 /\ priorityTasks'[e] = priorityTasks[e]
                                 /\ sessionKeys'[e] = sessionKeys[e]
                                 /\ abandoned'[e] = abandoned[e] /\ spoiled'[e] = spoiled[e]
                                 /\ fetched'[e] = fetched[e] /\ acked'[e] = acked[e],
         TaskOf(d), TaskOK(task'[d]), NotStuck(d)', InboxInv(d)', AckedStored(d)'
  PROVE  KeyInv'
<1>1. ASSUME NEW e \in Device, e # d
      PROVE  DeviceInv(e)'
  <2>1. e \in Device \ {d}
    BY Zenon, <1>1
  <2> QED
    BY Zenon, <2>1, OtherDevice DEF TaskOf
<1>2. DeviceInv(d)'
  BY Zenon DEF DeviceInv, TaskOK
<1> QED
  BY Zenon, <1>1, <1>2, AllDevices DEF TaskOf

(***************************************************************************)
(* The actions that are quiet in this sense.                               *)
(***************************************************************************)

LEMMA SolicitationIsQuiet ==
  ASSUME KeyInv, NEW d \in Device, EnqueueKeySolicitation(d), keyBound' = keyBound
  PROVE  KeyInv'
<1>1. KeyTypes /\ TaskOK(task[d]) /\ DOMAIN task = Device
  BY Zenon, ByDevice DEF DeviceInv
<1>2. UNCHANGED <<newGroupSession, priorityTasks, sessionKeys, abandoned, spoiled, fetched, acked, received, decrypted,
                  encryptedContent, decryptionRetries, decryptionFailures, keyBound, inbox, task,
                  missingKeys, upToDate, member, mishaps>>
  BY Zenon DEF EnqueueKeySolicitation, modeVars, lossVars
<1>3. KeyTypes'
  BY Zenon, <1>1, <1>2 DEF KeyTypes, Mishaps
<1>4. TaskOf(d) /\ TaskOK(task'[d]) /\ task'[d] = task[d]
  BY Zenon, <1>1, <1>2 DEF TaskOf
<1> QED
  BY Zenon, <1>2, <1>3, <1>4, QuietStep

LEMMA UpToDateIsQuiet ==
  ASSUME KeyInv, NEW d \in Device, NEW stream \in {"stream", "inbox"}, SetStreamUpToDate(d, stream),
         keyBound' = keyBound
  PROVE  KeyInv'
<1>1. KeyTypes /\ TaskOK(task[d]) /\ DOMAIN task = Device
  BY Zenon, ByDevice DEF DeviceInv
<1>2. UNCHANGED <<newGroupSession, priorityTasks, sessionKeys, abandoned, spoiled, fetched, acked, received, decrypted,
                  encryptedContent, decryptionRetries, decryptionFailures, keyBound, inbox, task,
                  missingKeys, member, mishaps>>
  BY Zenon DEF SetStreamUpToDate, keyQueues, nodeVars, lossVars
<1>3. upToDate' \in [Device -> SUBSET {"stream", "inbox"}]
  BY Zenon, <1>1 DEF SetStreamUpToDate, KeyTypes
<1>4. KeyTypes'
  BY Zenon, <1>1, <1>2, <1>3 DEF KeyTypes, Mishaps
<1>5. TaskOf(d) /\ TaskOK(task'[d]) /\ task'[d] = task[d]
  BY Zenon, <1>1, <1>2 DEF TaskOf
<1> QED
  BY Zenon, <1>2, <1>4, <1>5, QuietStep

LEMMA JoiningIsQuiet ==
  ASSUME KeyInv, NEW d \in Device, RetryDecryptionFailures(d), keyBound' = keyBound
  PROVE  KeyInv'
<1>1. KeyTypes /\ TaskOK(task[d]) /\ DOMAIN task = Device
  BY Zenon, ByDevice DEF DeviceInv
<1>2. UNCHANGED <<newGroupSession, priorityTasks, sessionKeys, abandoned, spoiled, fetched, acked, received, decrypted,
                  encryptedContent, decryptionRetries, decryptionFailures, keyBound, inbox, task,
                  upToDate, mishaps>>
  BY Zenon DEF RetryDecryptionFailures, nodeVars, lossVars
<1>3. missingKeys' \in [Device -> BOOLEAN]
  BY Zenon, <1>1 DEF RetryDecryptionFailures, KeyTypes, HasFailures
<1>4. member' \in SUBSET Device
  BY Zenon, <1>1 DEF RetryDecryptionFailures, KeyTypes
<1>5. KeyTypes'
  BY Zenon, <1>1, <1>2, <1>3, <1>4 DEF KeyTypes, Mishaps
<1>6. TaskOf(d) /\ TaskOK(task'[d]) /\ task'[d] = task[d]
  BY Zenon, <1>1, <1>2 DEF TaskOf
<1> QED
  BY Zenon, <1>2, <1>5, <1>6, QuietStep

LEMMA TakingKeysIsQuiet ==
  ASSUME KeyInv, NEW d \in Device, keyBound' = keyBound,
         TakeMissingKeys(d) \/ \E x \in Device : TakeKeySolicitation(d, x)
  PROVE  KeyInv'
<1>1. KeyTypes /\ TaskOK(task[d]) /\ DOMAIN task = Device
  BY Zenon, ByDevice DEF DeviceInv
<1>2. UNCHANGED <<newGroupSession, priorityTasks, sessionKeys, abandoned, spoiled, fetched, acked, received, decrypted,
                  encryptedContent, decryptionRetries, decryptionFailures, keyBound, inbox,
                  upToDate, member, mishaps>>
  BY Zenon DEF TakeMissingKeys, TakeKeySolicitation, nodeVars, modeVars, lossVars
<1>3. missingKeys' \in [Device -> BOOLEAN]
  BY Zenon, <1>1 DEF TakeMissingKeys, TakeKeySolicitation, KeyTypes
<1>4. KeyTypes'
  BY Zenon, <1>1, <1>2, <1>3 DEF KeyTypes, Mishaps
<1>5. task[d].kind = "idle"
  BY DEF TakeMissingKeys, TakeKeySolicitation, Due, Ticking, Idle
<1>6. TaskOf(d) /\ TaskOK(task'[d]) /\ task'[d].kind \notin {"session", "content", "retry"}
  <2>1. CASE TakeMissingKeys(d)
    <3>1. PICK t \in {[kind |-> "solicit", ids |-> decryptionFailures[d]], Idle} :
            task' = [task EXCEPT ![d] = t]
      BY Zenon, <2>1 DEF TakeMissingKeys
    <3>2. TaskOf(d) /\ task'[d] = t
      BY Zenon, <3>1, TickOf
    <3>3. TaskOK(t) /\ t.kind \notin {"session", "content", "retry"}
      BY <3>1 DEF TaskOK, Idle
    <3> QED
      BY Zenon, <3>2, <3>3
  <2>2. ASSUME NEW x \in Device, TakeKeySolicitation(d, x)
        PROVE  TaskOf(d) /\ TaskOK(task'[d]) /\ task'[d].kind \notin {"session", "content", "retry"}
    <3>1. PICK reply \in SUBSET SessionId, new \in {keySolicitations[d][x].isNewDevice} :
            task' = [task EXCEPT ![d] =
                       IF reply = {} THEN Idle
                       ELSE [kind |-> "fulfill", to |-> x, ids |-> reply, new |-> new]]
      <4> DEFINE ask == keySolicitations[d][x]
                 ids0 == IF ask.isNewDevice THEN sessionKeys[d] ELSE sessionKeys[d] \cap ask.sessionIds
      <4>1. ids0 \in SUBSET SessionId
        BY Zenon, <1>1 DEF KeyTypes
      <4>2. task' = [task EXCEPT ![d] =
                       IF ids0 = {} THEN Idle
                       ELSE [kind |-> "fulfill", to |-> x, ids |-> ids0, new |-> ask.isNewDevice]]
        BY Zenon, <2>2 DEF TakeKeySolicitation
      <4> HIDE DEF ids0
      <4> QED
        BY Zenon, <4>1, <4>2
    <3> DEFINE t == IF reply = {} THEN Idle
                    ELSE [kind |-> "fulfill", to |-> x, ids |-> reply, new |-> new]
    <3>2. TaskOK(t) /\ t.kind \notin {"session", "content", "retry"}
      BY Zenon, <3>1 DEF TaskOK, Idle
    <3>3. TaskOf(d) /\ task'[d] = t
      <4>1. task' = [task EXCEPT ![d] = t]
        BY Zenon, <3>1
      <4> HIDE DEF t
      <4> QED
        BY Zenon, <4>1, TickOf
    <3> HIDE DEF t
    <3> QED
      BY Zenon, <3>2, <3>3
  <2> QED
    BY Zenon, <2>1, <2>2
<1>7. task[d].kind \notin {"session", "content", "retry"}
  BY Zenon, <1>5
<1> QED
  BY Zenon, <1>2, <1>4, <1>6, <1>7, QuietStep

LEMMA SendingIsQuiet ==
  ASSUME KeyInv, NEW d \in Device, keyBound' = keyBound,
         SendKeySolicitation(d) \/ SendKeyFulfillment(d) \/ EncryptAndShareGroupSessions(d)
  PROVE  KeyInv'
<1>1. KeyTypes /\ TaskOK(task[d]) /\ DOMAIN task = Device
  BY Zenon, ByDevice DEF DeviceInv
<1>2. UNCHANGED <<newGroupSession, priorityTasks, sessionKeys, abandoned, spoiled, fetched, acked, received, decrypted,
                  encryptedContent, decryptionRetries, decryptionFailures, keyBound,
                  missingKeys, upToDate, member>>
  BY Zenon DEF SendKeySolicitation, SendKeyFulfillment, EncryptAndShareGroupSessions, keyQueues, modeVars, lossVars
<1>3. Mishaps'
  <2>1. Mishaps
    BY Zenon, <1>1 DEF KeyTypes
  <2>2. CASE SendKeySolicitation(d)
    BY <2>1, <2>2 DEF SendKeySolicitation, Mishaps
  <2>3. CASE SendKeyFulfillment(d)
    BY Zenon, <2>1, <2>3 DEF SendKeyFulfillment, Mishaps, modeVars, lossVars
  <2>4. CASE EncryptAndShareGroupSessions(d)
    BY <2>1, <2>4 DEF EncryptAndShareGroupSessions, Mishaps
  <2> QED
    BY Zenon, <2>2, <2>3, <2>4
<1>4. task[d].kind \notin {"session", "content", "retry"}
  BY Zenon DEF SendKeySolicitation, SendKeyFulfillment, EncryptAndShareGroupSessions
<1>5. TaskOf(d) /\ TaskOK(task'[d]) /\ task'[d].kind \notin {"session", "content", "retry"}
  <2>1. CASE task' = [task EXCEPT ![d] = Idle]
    <3>1. TaskOf(d) /\ task'[d] = Idle
      BY Zenon, <2>1, TickOf
    <3>2. TaskOK(Idle) /\ Idle.kind \notin {"session", "content", "retry"}
      BY Zenon DEF TaskOK, Idle
    <3> QED
      BY Zenon, <3>1, <3>2
  <2>2. CASE task[d].kind = "fulfill"
             /\ task' = [task EXCEPT ![d] = [kind |-> "share", to |-> task[d].to, ids |-> task[d].ids]]
    <3> DEFINE t == [kind |-> "share", to |-> task[d].to, ids |-> task[d].ids]
    <3>1. TaskOK(t) /\ t.kind \notin {"session", "content", "retry"}
      BY Zenon, <1>1, <2>2 DEF TaskOK
    <3>2. TaskOf(d) /\ task'[d] = t
      <4>1. task' = [task EXCEPT ![d] = t]
        BY Zenon, <2>2
      <4> HIDE DEF t
      <4> QED
        BY Zenon, <4>1, TickOf
    <3> HIDE DEF t
    <3> QED
      BY Zenon, <3>1, <3>2
  <2> QED
    BY Zenon, <2>1, <2>2 DEF SendKeySolicitation, SendKeyFulfillment, EncryptAndShareGroupSessions, Ends
<1>6. inbox' = inbox
      \/ \E x \in Device, m \in SUBSET SessionId : inbox' = [inbox EXCEPT ![x] = Append(@, m)]
  <2>1. CASE EncryptAndShareGroupSessions(d)
    <3>1. task[d].to \in Device /\ task[d].ids \in SUBSET SessionId
      BY Zenon, <1>1, <2>1 DEF EncryptAndShareGroupSessions, TaskOK
    <3> QED
      BY Zenon, <2>1, <3>1 DEF EncryptAndShareGroupSessions
  <2> QED
    BY Zenon, <2>1 DEF SendKeySolicitation, SendKeyFulfillment
<1>7. /\ \A e \in Device : inbox'[e] = inbox[e] \/ \E m \in SUBSET SessionId : inbox'[e] = Append(inbox[e], m)
      /\ inbox' \in [Device -> Seq(SUBSET SessionId)]
      /\ \A e \in Device : Len(inbox[e]) \in Nat /\ Len(inbox[e]) =< Len(inbox'[e]) /\ Len(inbox'[e]) \in Nat
  <2>1. inbox \in [Device -> Seq(SUBSET SessionId)]
    BY Zenon, <1>1 DEF KeyTypes
  <2>2. CASE inbox' = inbox
    BY <2>1, <2>2
  <2>3. ASSUME NEW x \in Device, NEW m \in SUBSET SessionId, inbox' = [inbox EXCEPT ![x] = Append(@, m)]
        PROVE  /\ \A e \in Device : inbox'[e] = inbox[e]
                                    \/ \E k \in SUBSET SessionId : inbox'[e] = Append(inbox[e], k)
               /\ inbox' \in [Device -> Seq(SUBSET SessionId)]
               /\ \A e \in Device : /\ Len(inbox[e]) \in Nat /\ Len(inbox[e]) =< Len(inbox'[e])
                                    /\ Len(inbox'[e]) \in Nat
    <3> DEFINE new == Append(inbox[x], m)
    <3>1. new \in Seq(SUBSET SessionId) /\ Len(inbox[x]) \in Nat /\ Len(new) = Len(inbox[x]) + 1
      BY <2>1
    <3>2. inbox' = [inbox EXCEPT ![x] = new]
      BY Zenon, <2>3
    <3>3. inbox'[x] = Append(inbox[x], m) /\ \A e \in Device \ {x} : inbox'[e] = inbox[e]
      BY Zenon, <2>1, <3>2
    <3>4. \A e \in Device : inbox'[e] = inbox[e] \/ \E k \in SUBSET SessionId : inbox'[e] = Append(inbox[e], k)
      BY Zenon, <3>3
    <3> HIDE DEF new
    <3>5. inbox' \in [Device -> Seq(SUBSET SessionId)]
      BY Zenon, <2>1, <3>1, <3>2
    <3>6. \A e \in Device : Len(inbox[e]) \in Nat /\ Len(inbox[e]) =< Len(inbox'[e]) /\ Len(inbox'[e]) \in Nat
      BY <2>1, <3>1, <3>2
    <3> QED
      BY Zenon, <3>4, <3>5, <3>6
  <2> QED
    BY Zenon, <1>6, <2>2, <2>3
<1>8. KeyTypes'
  <2>1. \A e \in Device : acked'[e] =< fetched'[e] /\ fetched'[e] =< Len(inbox'[e])
    BY SMTT(30), Z3T(30), Z3T(30), <1>1, <1>2, <1>7 DEF KeyTypes
  <2> QED
    BY Zenon, <1>1, <1>2, <1>3, <1>7, <2>1 DEF KeyTypes
<1> QED
  BY Zenon, <1>2, <1>4, <1>5, <1>7, <1>8, QuietStep

(***************************************************************************)
(* The steps of an event.                                                  *)
(***************************************************************************)

LEMMA EnqueueKeepsEvents ==
  ASSUME KeyInv, NEW d \in Device, NEW s \in SessionId, EnqueueNewEncryptedContent(d, s),
         keyBound' = keyBound
  PROVE  KeyInv'
<1>1. KeyTypes /\ TaskOK(task[d]) /\ DOMAIN task = Device /\ NotStuck(d)
  BY Zenon, ByDevice DEF DeviceInv
<1>2. /\ UNCHANGED <<newGroupSession, priorityTasks, sessionKeys, abandoned, spoiled, inbox, fetched, acked, keyBound, task,
                     decrypted, decryptionRetries, decryptionFailures, missingKeys, upToDate, member,
                     mishaps>>
      /\ received' = [received EXCEPT ![d] = @ \cup {s}]
      /\ encryptedContent' = [encryptedContent EXCEPT ![d] = @ \cup {s}]
  BY Zenon DEF EnqueueNewEncryptedContent, modeVars, lossVars, nodeVars
<1>3. /\ received' \in [Device -> SUBSET SessionId] /\ encryptedContent' \in [Device -> SUBSET SessionId]
      /\ \A e \in Device \ {d} : received'[e] = received[e] /\ encryptedContent'[e] = encryptedContent[e]
      /\ received'[d] = received[d] \cup {s} /\ encryptedContent'[d] = encryptedContent[d] \cup {s}
  BY <1>1, <1>2 DEF KeyTypes
<1>4. KeyTypes'
  BY Zenon, <1>1, <1>2, <1>3 DEF KeyTypes, Mishaps
<1>5. TaskOf(d) /\ TaskOK(task'[d]) /\ task'[d] = task[d]
  BY Zenon, <1>1, <1>2 DEF TaskOf
<1>6. NotStuck(d)'
  BY Zenon, <1>1, <1>2, <1>3 DEF NotStuck
<1> QED
  BY Zenon, <1>2, <1>3, <1>4, <1>5, <1>6, EventStep

LEMMA TakeKeepsEvents ==
  ASSUME KeyInv, NEW d \in Device, NEW s \in SessionId, keyBound' = keyBound,
         TakeEncryptedContent(d, s) \/ TakeDecryptionRetry(d, s)
  PROVE  KeyInv'
<1>1. KeyTypes /\ TaskOK(task[d]) /\ DOMAIN task = Device /\ NotStuck(d)
  BY Zenon, ByDevice DEF DeviceInv
<1>2. UNCHANGED <<newGroupSession, priorityTasks, sessionKeys, abandoned, spoiled, inbox, fetched, acked,
                  keyBound, received, decrypted, decryptionFailures, missingKeys, upToDate, member, mishaps>>
  BY Zenon DEF TakeEncryptedContent, TakeDecryptionRetry, modeVars, lossVars, nodeVars
<1>3. task[d].kind = "idle"
  <2>1. task[d] = Idle
    BY Zenon DEF TakeEncryptedContent, TakeDecryptionRetry, Due, Ticking
  <2> QED
    BY <2>1 DEF Idle
<1>4. /\ encryptedContent' \in [Device -> SUBSET SessionId]
      /\ decryptionRetries' \in [Device -> SUBSET SessionId]
      /\ \A e \in Device \ {d} : /\ encryptedContent'[e] = encryptedContent[e]
                                 /\ decryptionRetries'[e] = decryptionRetries[e]
      /\ encryptedContent[d] \cup decryptionRetries[d]
           \subseteq encryptedContent'[d] \cup decryptionRetries'[d] \cup {s}
  <2>1. CASE TakeEncryptedContent(d, s)
    BY Zenon, <1>1, <2>1 DEF TakeEncryptedContent, KeyTypes
  <2>2. CASE TakeDecryptionRetry(d, s)
    BY Zenon, <1>1, <2>2 DEF TakeDecryptionRetry, KeyTypes
  <2> QED
    BY Zenon, <2>1, <2>2
<1>5. KeyTypes'
  BY Zenon, <1>1, <1>2, <1>4 DEF KeyTypes, Mishaps
<1>6. PICK t \in {[kind |-> "content", id |-> s], [kind |-> "retry", id |-> s]} :
        task' = [task EXCEPT ![d] = t]
  BY Zenon DEF TakeEncryptedContent, TakeDecryptionRetry
<1>7. TaskOf(d) /\ task'[d] = t
  BY Zenon, <1>6, TickOf
<1>8. TaskOK(t) /\ t.kind # "session" /\ t.kind \in {"content", "retry"} /\ t.id = s
  BY <1>6 DEF TaskOK
<1>9. NotStuck(d)'
  <2>1. received[d] \subseteq decrypted[d] \cup encryptedContent[d] \cup decryptionRetries[d]
                                 \cup decryptionFailures[d] \cup abandoned[d]
    BY Zenon, <1>1, <1>3 DEF NotStuck
  <2>2. decryptionFailures[d] \cap sessionKeys[d] = {}
    BY Zenon, <1>1 DEF NotStuck
  <2> QED
    BY Zenon, <1>2, <1>4, <1>7, <1>8, <2>1, <2>2 DEF NotStuck
<1>10. task[d].kind # "session" /\ task'[d].kind # "session" /\ TaskOK(task'[d])
  BY Zenon, <1>3, <1>7, <1>8
<1> QED
  BY Zenon, <1>2, <1>4, <1>5, <1>7, <1>9, <1>10, EventStep

LEMMA ProcessKeepsEvents ==
  ASSUME KeyInv, NEW d \in Device, keyBound' = keyBound,
         ProcessEncryptedContentItem(d) \/ ProcessDecryptionRetry(d)
  PROVE  KeyInv'
<1>1. KeyTypes /\ TaskOK(task[d]) /\ DOMAIN task = Device /\ NotStuck(d)
  BY Zenon, ByDevice DEF DeviceInv
<1>2. UNCHANGED <<newGroupSession, priorityTasks, sessionKeys, spoiled, inbox, fetched, acked, keyBound,
                  received, encryptedContent, upToDate, member>>
  BY Zenon DEF ProcessEncryptedContentItem, ProcessDecryptionRetry, nodeVars, lossVars
<1>3. task[d].kind \in {"content", "retry"}
  BY Zenon DEF ProcessEncryptedContentItem, ProcessDecryptionRetry
<1>4. PICK s \in SessionId : s = task[d].id
  BY Zenon, <1>1, <1>3 DEF TaskOK
<1>5. /\ decrypted' \in [Device -> SUBSET SessionId]
      /\ decryptionRetries' \in [Device -> SUBSET SessionId]
      /\ decryptionFailures' \in [Device -> SUBSET SessionId] /\ abandoned' \in [Device -> SUBSET SessionId]
      /\ \A e \in Device \ {d} : /\ decrypted'[e] = decrypted[e]
                                 /\ decryptionRetries'[e] = decryptionRetries[e]
                                 /\ decryptionFailures'[e] = decryptionFailures[e]
                                 /\ abandoned'[e] = abandoned[e]
      /\ decrypted[d] \subseteq decrypted'[d] /\ decryptionRetries[d] \subseteq decryptionRetries'[d]
      /\ decryptionFailures[d] \subseteq decryptionFailures'[d] /\ abandoned[d] \subseteq abandoned'[d]
      /\ s \in decrypted'[d] \cup decryptionRetries'[d] \cup decryptionFailures'[d] \cup abandoned'[d]
      /\ decryptionFailures'[d] \subseteq decryptionFailures[d] \cup ({s} \ sessionKeys[d])
  <2>1. \/ /\ decrypted' = [decrypted EXCEPT ![d] = @ \cup {s}]
           /\ UNCHANGED <<decryptionRetries, decryptionFailures, abandoned>>
        \/ /\ decryptionRetries' = [decryptionRetries EXCEPT ![d] = @ \cup {s}]
           /\ UNCHANGED <<decrypted, decryptionFailures, abandoned>>
        \/ /\ s \notin sessionKeys[d]
           /\ decryptionFailures' = [decryptionFailures EXCEPT ![d] = @ \cup {s}]
           /\ UNCHANGED <<decrypted, decryptionRetries, abandoned>>
        \/ /\ abandoned' = [abandoned EXCEPT ![d] = @ \cup {s}]
           /\ UNCHANGED <<decrypted, decryptionRetries, decryptionFailures>>
    BY ZenonT(30), <1>4 DEF ProcessEncryptedContentItem, ProcessDecryptionRetry, lossVars
  <2>2. /\ decrypted \in [Device -> SUBSET SessionId] /\ decryptionRetries \in [Device -> SUBSET SessionId]
        /\ decryptionFailures \in [Device -> SUBSET SessionId] /\ abandoned \in [Device -> SUBSET SessionId]
    BY Zenon, <1>1 DEF KeyTypes
  <2>3. CASE /\ decrypted' = [decrypted EXCEPT ![d] = @ \cup {s}]
             /\ UNCHANGED <<decryptionRetries, decryptionFailures, abandoned>>
    BY Zenon, <2>2, <2>3
  <2>4. CASE /\ decryptionRetries' = [decryptionRetries EXCEPT ![d] = @ \cup {s}]
             /\ UNCHANGED <<decrypted, decryptionFailures, abandoned>>
    BY Zenon, <2>2, <2>4
  <2>5. CASE /\ s \notin sessionKeys[d]
             /\ decryptionFailures' = [decryptionFailures EXCEPT ![d] = @ \cup {s}]
             /\ UNCHANGED <<decrypted, decryptionRetries, abandoned>>
    BY Zenon, <2>2, <2>5
  <2>6. CASE /\ abandoned' = [abandoned EXCEPT ![d] = @ \cup {s}]
             /\ UNCHANGED <<decrypted, decryptionRetries, decryptionFailures>>
    BY Zenon, <2>2, <2>6
  <2> QED
    BY Zenon, <2>1, <2>3, <2>4, <2>5, <2>6
<1>6. missingKeys' \in [Device -> BOOLEAN]
  BY Zenon, <1>1 DEF KeyTypes, ProcessEncryptedContentItem, ProcessDecryptionRetry
<1>7. KeyTypes'
  <2>1. Mishaps'
    BY Zenon, <1>1, OtherErrorTypes
       DEF KeyTypes, Mishaps, ProcessEncryptedContentItem, ProcessDecryptionRetry
  <2> QED
    BY Zenon, <1>1, <1>2, <1>5, <1>6, <2>1 DEF KeyTypes
<1>8. TaskOf(d) /\ task'[d] = Idle
  BY Zenon, TickOf DEF ProcessEncryptedContentItem, ProcessDecryptionRetry, Ends
<1>9. NotStuck(d)'
  <2>1. received[d] \subseteq decrypted[d] \cup encryptedContent[d] \cup decryptionRetries[d]
                                 \cup decryptionFailures[d] \cup abandoned[d] \cup {s}
    BY Zenon, <1>1, <1>3, <1>4 DEF NotStuck
  <2>2. decryptionFailures'[d] \cap sessionKeys[d] = {}
    BY Zenon, <1>1, <1>5 DEF NotStuck
  <2>3. received[d] \subseteq decrypted'[d] \cup encryptedContent[d] \cup decryptionRetries'[d]
                                 \cup decryptionFailures'[d] \cup abandoned'[d]
    BY Zenon, <1>5, <2>1
  <2> QED
    BY Zenon, <1>2, <2>2, <2>3 DEF NotStuck
<1>10. task[d].kind # "session" /\ task'[d].kind # "session" /\ TaskOK(task'[d])
  BY <1>3, <1>8 DEF TaskOK, Idle
<1> QED
  BY Zenon, <1>2, <1>5, <1>7, <1>8, <1>9, <1>10, EventStep

(***************************************************************************)
(* The steps of a message.                                                 *)
(***************************************************************************)

\* What waits after messages have been moved between the queues and the tick.
LEMMA MovedMessages ==
  ASSUME KeyInv, NEW d \in Device, keyBound' = keyBound, inbox' = inbox, fetched'[d] = fetched[d],
         acked'[d] = acked[d], sessionKeys'[d] = sessionKeys[d], spoiled[d] \subseteq spoiled'[d],
         priorityTasks'[d] # << >> => task'[d].kind # "session",
         \A m : Waits(d, m) => Waits(d, m)' \/ m \subseteq spoiled'[d]
  PROVE  InboxInv(d)' /\ AckedStored(d)'
<1>1. InboxInv(d) /\ AckedStored(d)
  BY Zenon, ByDevice DEF DeviceInv
<1>2. \A m : m \subseteq sessionKeys[d] \cup spoiled[d] => m \subseteq sessionKeys'[d] \cup spoiled'[d]
  BY Zenon
<1>3. \A m : m \subseteq spoiled'[d] => m \subseteq sessionKeys'[d] \cup spoiled'[d]
  BY Zenon
<1>4. AckedStored(d)'
  BY Zenon, <1>1, <1>2 DEF AckedStored
<1>5. InboxInv(d)'
  <2>1. ASSUME NEW n \in 1 .. fetched[d]
        PROVE  inbox[d][n] \subseteq sessionKeys'[d] \cup spoiled'[d] \/ Waits(d, inbox[d][n])'
    <3>1. PICK m : m = inbox[d][n]
      BY Zenon
    <3>2. m \subseteq sessionKeys[d] \cup spoiled[d] \/ Waits(d, m)
      BY Zenon, <1>1, <3>1 DEF InboxInv
    <3>3. m \subseteq sessionKeys'[d] \cup spoiled'[d] \/ Waits(d, m)'
      BY Zenon, <1>2, <1>3, <3>2
    <3> QED
      BY Zenon, <3>1, <3>3 DEF Waits
  <2> QED
    BY Zenon, <1>1, <2>1 DEF InboxInv
<1> QED
  BY Zenon, <1>4, <1>5

LEMMA EnqueueKeepsMessages ==
  ASSUME KeyInv, NEW d \in Device, EnqueueNewGroupSessions(d), keyBound' = keyBound
  PROVE  KeyInv'
<1>1. KeyTypes /\ TaskOK(task[d]) /\ DOMAIN task = Device /\ NotStuck(d) /\ InboxInv(d) /\ AckedStored(d)
  BY Zenon, ByDevice DEF DeviceInv
<1>2. UNCHANGED <<sessionKeys, received, decrypted, encryptedContent, decryptionRetries, missingKeys,
                  decryptionFailures, abandoned, spoiled, task, priorityTasks, upToDate, member, mishaps,
                  inbox, acked, keyBound>>
  BY Zenon DEF EnqueueNewGroupSessions, modeVars, lossVars
<1>3. /\ inbox[d] \in Seq(SUBSET SessionId) /\ newGroupSession[d] \in Seq(SUBSET SessionId)
      /\ fetched[d] \in Nat /\ acked[d] \in Nat /\ acked[d] =< fetched[d]
  BY Zenon, <1>1 DEF KeyTypes
<1>4. PICK n \in 1 .. Len(inbox[d]), m \in SUBSET SessionId, q \in Seq(SUBSET SessionId) :
        n = fetched[d] + 1 /\ m = inbox[d][n] /\ q = newGroupSession[d]
  <2>1. fetched[d] + 1 \in 1 .. Len(inbox[d]) /\ inbox[d][fetched[d] + 1] \in SUBSET SessionId
    BY SMTT(30), Z3T(30), <1>3 DEF EnqueueNewGroupSessions
  <2> QED
    BY Zenon, <1>3, <2>1
<1>5. fetched' = [fetched EXCEPT ![d] = n] /\ fetched'[d] = n
  BY Zenon, <1>1, <1>4 DEF EnqueueNewGroupSessions, KeyTypes
<1>6. newGroupSession' = [newGroupSession EXCEPT ![d] = Append(q, m)]
  BY Zenon, <1>4, <1>5 DEF EnqueueNewGroupSessions
<1>7. /\ Append(q, m) \in Seq(SUBSET SessionId) /\ Len(q) \in Nat /\ DOMAIN q = 1 .. Len(q)
      /\ DOMAIN Append(q, m) = 1 .. (Len(q) + 1)
      /\ Append(q, m)[Len(q) + 1] = m /\ \A i \in 1 .. Len(q) : Append(q, m)[i] = q[i]
  BY SMTT(30), Z3T(30), Z3T(30), <1>3, <1>4
<1>8. /\ newGroupSession'[d] = Append(q, m) /\ newGroupSession' \in [Device -> Seq(SUBSET SessionId)]
      /\ \A e \in Device \ {d} : newGroupSession'[e] = newGroupSession[e]
  BY Zenon, <1>1, <1>6, <1>7 DEF KeyTypes
<1>9. /\ fetched' \in [Device -> Nat] /\ \A e \in Device \ {d} : fetched'[e] = fetched[e]
      /\ \A e \in Device : acked'[e] =< fetched'[e] /\ fetched'[e] =< Len(inbox'[e])
  BY <1>1, <1>2, <1>3, <1>4, <1>5 DEF KeyTypes
<1>10. KeyTypes'
  BY Zenon, <1>1, <1>2, <1>8, <1>9 DEF KeyTypes, Mishaps
<1>11. TaskOf(d) /\ TaskOK(task'[d])
  BY Zenon, <1>1, <1>2 DEF TaskOf
<1>12. NotStuck(d)'
  BY Zenon, <1>1, <1>2 DEF NotStuck
<1>13. Waits(d, m)' /\ \A k : Waits(d, k) => Waits(d, k)'
  <2>1. \E i \in DOMAIN newGroupSession'[d] : newGroupSession'[d][i] = m
    <3>1. Len(q) + 1 \in 1 .. (Len(q) + 1)
      BY <1>7
    <3> QED
      BY Zenon, <1>7, <1>8, <3>1
  <2>2. ASSUME NEW k, NEW i \in DOMAIN q, q[i] = k
        PROVE  \E j \in DOMAIN newGroupSession'[d] : newGroupSession'[d][j] = k
    <3>1. i \in 1 .. (Len(q) + 1)
      BY <1>7
    <3> QED
      BY Zenon, <1>7, <1>8, <2>2, <3>1
  <2> QED
    BY Zenon, <1>2, <1>4, <2>1, <2>2 DEF Waits
<1>14. InboxInv(d)'
  <2>1. priorityTasks'[d] # << >> => task'[d].kind # "session"
    BY Zenon, <1>1, <1>2 DEF InboxInv
  <2>2. ASSUME NEW k \in 1 .. n, NEW x, x = inbox[d][k]
        PROVE  x \subseteq sessionKeys[d] \cup spoiled[d] \/ Waits(d, x)'
    <3>1. CASE k = n
      BY Zenon, <1>4, <1>13, <2>2, <3>1
    <3>2. CASE k # n
      <4>1. k \in 1 .. fetched[d]
        BY <1>3, <1>4, <3>2
      <4>2. x \subseteq sessionKeys[d] \cup spoiled[d] \/ Waits(d, x)
        BY Zenon, <1>1, <2>2, <4>1 DEF InboxInv
      <4> QED
        BY Zenon, <1>13, <4>2
    <3> QED
      BY Zenon, <3>1, <3>2
  <2> QED
    BY Zenon, <1>2, <1>5, <2>1, <2>2 DEF InboxInv
<1>15. AckedStored(d)'
  BY Zenon, <1>1, <1>2 DEF AckedStored
<1> QED
  BY Zenon, <1>2, <1>8, <1>9, <1>10, <1>11, <1>12, <1>14, <1>15, MessageStep

LEMMA DownloadKeepsMessages ==
  ASSUME KeyInv, NEW d \in Device, DownloadNewMessages(d), keyBound' = keyBound
  PROVE  KeyInv'
<1>1. KeyTypes /\ TaskOK(task[d]) /\ DOMAIN task = Device /\ NotStuck(d) /\ keyBound \in KeyBounds
  BY Zenon, ByDevice DEF DeviceInv
<1>2. UNCHANGED <<sessionKeys, received, decrypted, encryptedContent, decryptionRetries, missingKeys,
                  decryptionFailures, abandoned, task, upToDate, member, inbox, fetched, acked, keyBound>>
  BY Zenon DEF DownloadNewMessages, nodeVars
<1>3. PICK p \in Seq(SUBSET SessionId), q \in Seq(SUBSET SessionId) :
        p = priorityTasks[d] /\ q = newGroupSession[d]
  BY Zenon, <1>1 DEF KeyTypes
<1>4. /\ q \o p \in Seq(SUBSET SessionId)
      /\ Len(q) \in Nat /\ Len(p) \in Nat /\ DOMAIN q = 1 .. Len(q) /\ DOMAIN p = 1 .. Len(p)
      /\ DOMAIN (q \o p) = 1 .. (Len(q) + Len(p))
      /\ \A i \in 1 .. Len(q) : (q \o p)[i] = q[i]
      /\ \A i \in 1 .. Len(p) : (q \o p)[Len(q) + i] = p[i]
  <2>1. /\ q \o p \in Seq(SUBSET SessionId) /\ Len(q \o p) = Len(q) + Len(p)
        /\ \A i \in 1 .. Len(q) + Len(p) : (q \o p)[i] = IF i <= Len(q) THEN q[i] ELSE p[i - Len(q)]
    BY ZenonT(30), <1>3, ConcatFacts
  <2>2. Len(q) \in Nat /\ Len(p) \in Nat /\ DOMAIN q = 1 .. Len(q) /\ DOMAIN p = 1 .. Len(p)
    BY <1>3
  <2>3. DOMAIN (q \o p) = 1 .. Len(q \o p)
    BY <2>1
  <2> DEFINE qp == q \o p
  <2> HIDE DEF qp
  <2> QED
    BY <2>1, <2>2, <2>3 DEF qp
<1>5. /\ priorityTasks' \in [Device -> Seq(SUBSET SessionId)] /\ priorityTasks'[d] = << >>
      /\ \A e \in Device \ {d} : priorityTasks'[e] = priorityTasks[e]
  BY SMTT(30), Z3T(30), <1>1 DEF KeyTypes, DownloadNewMessages
<1>6. \/ /\ newGroupSession' = [newGroupSession EXCEPT ![d] = q \o p] /\ mishaps' = mishaps
         /\ spoiled' = spoiled
      \/ /\ newGroupSession' = newGroupSession
         /\ mishaps' = [mishaps EXCEPT !.lostDownloads = @ + 1]
         /\ spoiled' = [spoiled EXCEPT ![d] = @ \cup UNION {p[i] : i \in DOMAIN p}]
  <2>1. newGroupSession' = [newGroupSession EXCEPT ![d] = @ \o priorityTasks[d]]
          => newGroupSession' = [newGroupSession EXCEPT ![d] = q \o p]
    BY Zenon, <1>3
  <2>2. {p[i] : i \in DOMAIN p} = {priorityTasks[d][i] : i \in DOMAIN priorityTasks[d]}
    BY Zenon, <1>3
  <2> QED
    BY Zenon, <2>1, <2>2 DEF DownloadNewMessages
<1>7. Mishaps'
  <2>1. mishaps \in [restarts : [Device -> Nat], lostAsks : Nat, lostShares : Nat, lostDownloads : Nat,
                    errors : Nat, badSessions : Nat]
    BY Zenon, <1>1 DEF KeyTypes, Mishaps
  <2>2. mishaps.lostDownloads \in Nat
    BY Zenon, <2>1
  <2>3. CASE mishaps' = mishaps
    BY Zenon, <1>1, <2>2, <2>3 DEF KeyTypes, Mishaps
  <2>4. CASE mishaps' = [mishaps EXCEPT !.lostDownloads = @ + 1]
    <3>1. PICK n \in Nat : n = mishaps.lostDownloads + 1
      BY <2>2
    <3>2. mishaps' = [mishaps EXCEPT !.lostDownloads = n]
      BY Zenon, <2>4, <3>1
    <3>3. Mishaps'
      BY Zenon, <2>1, <3>2 DEF Mishaps
    <3> QED
      BY Zenon, <2>2, <3>3
  <2> QED
    BY Zenon, <1>6, <2>3, <2>4
<1>8. /\ newGroupSession' \in [Device -> Seq(SUBSET SessionId)]
      /\ \A e \in Device \ {d} : newGroupSession'[e] = newGroupSession[e]
      /\ spoiled' \in [Device -> SUBSET SessionId] /\ spoiled[d] \subseteq spoiled'[d]
      /\ \A e \in Device \ {d} : spoiled'[e] = spoiled[e]
      /\ \/ newGroupSession'[d] = q \o p
         \/ newGroupSession'[d] = q /\ \A i \in DOMAIN p : p[i] \subseteq spoiled'[d]
  <2>1. newGroupSession \in [Device -> Seq(SUBSET SessionId)] /\ spoiled \in [Device -> SUBSET SessionId]
    BY Zenon, <1>1 DEF KeyTypes
  <2>2. CASE newGroupSession' = [newGroupSession EXCEPT ![d] = q \o p] /\ spoiled' = spoiled
    BY Zenon, <1>4, <2>1, <2>2
  <2>3. CASE /\ newGroupSession' = newGroupSession
             /\ spoiled' = [spoiled EXCEPT ![d] = @ \cup UNION {p[i] : i \in DOMAIN p}]
    <3>1. PICK u : u = UNION {p[i] : i \in DOMAIN p}
      BY Zenon
    <3>2. \A i \in DOMAIN p : p[i] \subseteq u
      BY Zenon, <3>1
    <3>3. \A i \in DOMAIN p : p[i] \in SUBSET SessionId
      BY <1>3
    <3>4. u \in SUBSET SessionId
      BY Zenon, <3>1, <3>3
    <3>5. spoiled' = [spoiled EXCEPT ![d] = spoiled[d] \cup u]
      BY Zenon, <2>3, <3>1
    <3>6. spoiled'[d] = spoiled[d] \cup u /\ \A e \in Device \ {d} : spoiled'[e] = spoiled[e]
      BY Zenon, <2>1, <3>5
    <3>7. spoiled' \in [Device -> SUBSET SessionId]
      BY Zenon, <2>1, <3>4, <3>5
    <3>8. \A i \in DOMAIN p : p[i] \subseteq spoiled'[d]
      BY Zenon, <3>2, <3>6
    <3> QED
      BY Zenon, <1>3, <2>1, <2>3, <3>6, <3>7, <3>8
  <2> QED
    BY Zenon, <1>6, <2>2, <2>3
<1>9. KeyTypes'
  BY Zenon, <1>1, <1>2, <1>5, <1>7, <1>8 DEF KeyTypes
<1>10. TaskOf(d) /\ TaskOK(task'[d])
  BY Zenon, <1>1, <1>2 DEF TaskOf
<1>11. NotStuck(d)'
  BY Zenon, <1>1, <1>2 DEF NotStuck
<1>12. ASSUME NEW m, Waits(d, m)
       PROVE  Waits(d, m)' \/ m \subseteq spoiled'[d]
  <2>1. ASSUME NEW i \in DOMAIN q, q[i] = m
        PROVE  \E j \in DOMAIN newGroupSession'[d] : newGroupSession'[d][j] = m
    <3>1. i \in DOMAIN (q \o p) /\ (q \o p)[i] = m
      BY <1>4, <2>1
    <3> QED
      BY Zenon, <1>8, <2>1, <3>1
  <2>2. ASSUME NEW i \in DOMAIN p, p[i] = m, newGroupSession'[d] = q \o p
        PROVE  \E j \in DOMAIN newGroupSession'[d] : newGroupSession'[d][j] = m
    <3>1. Len(q) + i \in DOMAIN (q \o p) /\ (q \o p)[Len(q) + i] = m
      BY <1>4, <2>2
    <3> QED
      BY Zenon, <2>2, <3>1
  <2>3. ASSUME NEW i \in DOMAIN p, p[i] = m, newGroupSession'[d] # q \o p
        PROVE  m \subseteq spoiled'[d]
    BY Zenon, <1>8, <2>3
  <2> QED
    BY Zenon, <1>2, <1>3, <1>12, <2>1, <2>2, <2>3 DEF Waits
<1>13. InboxInv(d)' /\ AckedStored(d)'
  BY Zenon, <1>2, <1>5, <1>8, <1>12, MovedMessages
<1> QED
  BY Zenon, <1>2, <1>5, <1>8, <1>9, <1>10, <1>11, <1>13, MessageStep

LEMMA TakeKeepsMessages ==
  ASSUME KeyInv, NEW d \in Device, TakeNewGroupSession(d), keyBound' = keyBound
  PROVE  KeyInv'
<1>1. KeyTypes /\ TaskOK(task[d]) /\ DOMAIN task = Device /\ NotStuck(d)
  BY Zenon, ByDevice DEF DeviceInv
<1>2. UNCHANGED <<sessionKeys, received, decrypted, encryptedContent, decryptionRetries, missingKeys,
                  decryptionFailures, abandoned, spoiled, priorityTasks, upToDate, member, mishaps, inbox,
                  fetched, acked, keyBound>>
  BY Zenon DEF TakeNewGroupSession, nodeVars, modeVars, lossVars
<1>3. PICK q \in Seq(SUBSET SessionId) : q = newGroupSession[d] /\ q # << >>
  BY Zenon, <1>1 DEF KeyTypes, TakeNewGroupSession
<1>4. /\ Tail(q) \in Seq(SUBSET SessionId) /\ Head(q) \in SUBSET SessionId /\ Head(q) = q[1]
      /\ Len(q) \in Nat /\ DOMAIN q = 1 .. Len(q) /\ DOMAIN Tail(q) = 1 .. (Len(q) - 1)
      /\ \A i \in 1 .. (Len(q) - 1) : Tail(q)[i] = q[i + 1]
  BY <1>3
<1>5. /\ newGroupSession' \in [Device -> Seq(SUBSET SessionId)] /\ newGroupSession'[d] = Tail(q)
      /\ \A e \in Device \ {d} : newGroupSession'[e] = newGroupSession[e]
  <2>1. newGroupSession' = [newGroupSession EXCEPT ![d] = Tail(q)]
    BY Zenon, <1>3 DEF TakeNewGroupSession
  <2> QED
    BY Zenon, <1>1, <1>4, <2>1 DEF KeyTypes
<1>6. KeyTypes'
  BY Zenon, <1>1, <1>2, <1>5 DEF KeyTypes, Mishaps
<1>7. TaskOf(d) /\ task'[d] = [kind |-> "session", ids |-> Head(q)]
  BY Zenon, <1>3, TickOf DEF TakeNewGroupSession
<1>8. TaskOK(task'[d]) /\ task'[d].kind = "session" /\ task'[d].ids = q[1] /\ task[d].kind = "idle"
  BY <1>4, <1>7 DEF TaskOK, TakeNewGroupSession, Ticking, Idle
<1>9. NotStuck(d)'
  BY Zenon, <1>1, <1>2, <1>8 DEF NotStuck
<1>10. priorityTasks'[d] = << >> /\ priorityTasks[d] = << >>
  BY Zenon, <1>2 DEF TakeNewGroupSession
<1>11. ASSUME NEW m, Waits(d, m)
       PROVE  Waits(d, m)'
  <2>1. PICK i \in DOMAIN q : q[i] = m
    BY <1>3, <1>8, <1>10, <1>11 DEF Waits
  <2>2. CASE i = 1
    BY Zenon, <1>8, <2>1, <2>2 DEF Waits
  <2>3. CASE i # 1
    <3>1. i - 1 \in DOMAIN Tail(q) /\ Tail(q)[i - 1] = m
      BY <1>4, <2>1, <2>3
    <3> QED
      BY Zenon, <1>5, <3>1 DEF Waits
  <2> QED
    BY Zenon, <2>2, <2>3
<1>12. InboxInv(d)' /\ AckedStored(d)'
  BY Zenon, <1>2, <1>10, <1>11, MovedMessages
<1> QED
  BY Zenon, <1>2, <1>5, <1>6, <1>7, <1>8, <1>9, <1>12, MessageStep

\* What processNewGroupSession does to the keys that it needs: some are got and the others
\* spoiled, the failures of those that it goes back to are enqueued again, and the inbox is
\* acknowledged as a whole or not at all.
KeysProcessed(d, needed) ==
  \E got \in SUBSET needed, back \in SUBSET needed, ack \in {acked[d], fetched[d]} :
    /\ got \subseteq back
    /\ sessionKeys' = [sessionKeys EXCEPT ![d] = @ \cup got]
    /\ spoiled' = [spoiled EXCEPT ![d] = @ \cup (needed \ got)]
    /\ encryptedContent' = [encryptedContent EXCEPT ![d] = @ \cup (back \cap decryptionFailures[d])]
    /\ decryptionFailures' = [decryptionFailures EXCEPT ![d] = @ \ (back \cap decryptionFailures[d])]
    /\ acked' = [acked EXCEPT ![d] = ack]
    /\ ack = acked[d] \/ newGroupSession[d] = << >>

LEMMA ProcessedKeys ==
  ASSUME KeyInv, NEW d \in Device, ProcessNewGroupSession(d),
         NEW needed, needed = task[d].ids \ sessionKeys[d]
  PROVE  KeysProcessed(d, needed)
<1>1. KeyTypes
  BY Zenon, ByDevice
<1>2. UNCHANGED acked => acked' = [acked EXCEPT ![d] = acked[d]]
  BY Zenon, <1>1 DEF KeyTypes
<1>3. ASSUME NEW lost \in SUBSET needed,
             sessionKeys' = [sessionKeys EXCEPT ![d] = @ \cup (needed \ lost)],
             spoiled' = [spoiled EXCEPT ![d] = @ \cup lost],
             encryptedContent' = [encryptedContent EXCEPT ![d] = @ \cup Unblocked(d, needed)],
             decryptionFailures' = [decryptionFailures EXCEPT ![d] = @ \ Unblocked(d, needed)],
             \/ acked' = [acked EXCEPT ![d] = AckedAfter(d, needed)]
             \/ UNCHANGED acked
      PROVE  KeysProcessed(d, needed)
  <2>1. PICK got \in SUBSET needed : got = needed \ lost
    BY Zenon
  <2>2. lost = needed \ got
    BY Zenon, <2>1
  <2>3. PICK ack \in {acked[d], fetched[d]} :
          acked' = [acked EXCEPT ![d] = ack] /\ (ack = acked[d] \/ newGroupSession[d] = << >>)
    BY Zenon, <1>2, <1>3 DEF AckedAfter
  <2>4. /\ spoiled' = [spoiled EXCEPT ![d] = @ \cup (needed \ got)]
        /\ encryptedContent' = [encryptedContent EXCEPT ![d] = @ \cup (needed \cap decryptionFailures[d])]
        /\ decryptionFailures' = [decryptionFailures EXCEPT ![d] = @ \ (needed \cap decryptionFailures[d])]
    BY Zenon, <1>3, <2>2 DEF Unblocked
  <2> QED
    BY ZenonT(30), <1>3, <2>1, <2>3, <2>4 DEF KeysProcessed
<1>4. ASSUME spoiled' = [spoiled EXCEPT ![d] = @ \cup needed],
             UNCHANGED <<sessionKeys, encryptedContent, decryptionFailures, acked>>
      PROVE  KeysProcessed(d, needed)
  <2>1. \A x : x \cup {} = x /\ x \ {} = x /\ {} \cap x = {}
    OBVIOUS
  <2>2. sessionKeys = [sessionKeys EXCEPT ![d] = sessionKeys[d]]
    BY Zenon, <1>1 DEF KeyTypes
  <2>3. encryptedContent = [encryptedContent EXCEPT ![d] = encryptedContent[d]]
    BY Zenon, <1>1 DEF KeyTypes
  <2>4. decryptionFailures = [decryptionFailures EXCEPT ![d] = decryptionFailures[d]]
    BY Zenon, <1>1 DEF KeyTypes
  <2>5. PICK got \in SUBSET needed : got = {}
    BY Zenon
  <2>6. /\ sessionKeys[d] \cup got = sessionKeys[d] /\ needed \ got = needed
        /\ encryptedContent[d] \cup (got \cap decryptionFailures[d]) = encryptedContent[d]
        /\ decryptionFailures[d] \ (got \cap decryptionFailures[d]) = decryptionFailures[d]
    BY Zenon, <2>5
  <2>7. /\ sessionKeys' = [sessionKeys EXCEPT ![d] = @ \cup got]
        /\ spoiled' = [spoiled EXCEPT ![d] = @ \cup (needed \ got)]
        /\ encryptedContent' = [encryptedContent EXCEPT ![d] = @ \cup (got \cap decryptionFailures[d])]
        /\ decryptionFailures' = [decryptionFailures EXCEPT ![d] = @ \ (got \cap decryptionFailures[d])]
    BY Zenon, <1>4, <2>2, <2>3, <2>4, <2>6
  <2> QED
    BY Zenon, <1>2, <1>4, <2>5, <2>7 DEF KeysProcessed
<1> QED
  BY Zenon, <1>3, <1>4 DEF ProcessNewGroupSession

\* processNewGroupSession acknowledges the whole inbox only when nothing of it waits but
\* the message in hand, whose keys it has just imported or lost.
LEMMA ProcessKeepsMessages ==
  ASSUME KeyInv, NEW d \in Device, ProcessNewGroupSession(d), keyBound' = keyBound
  PROVE  KeyInv'
<1>1. KeyTypes /\ TaskOK(task[d]) /\ DOMAIN task = Device /\ NotStuck(d) /\ InboxInv(d) /\ AckedStored(d)
  BY Zenon, ByDevice DEF DeviceInv
<1>2. UNCHANGED <<received, decrypted, newGroupSession, decryptionRetries, missingKeys, abandoned,
                  priorityTasks, upToDate, member, inbox, fetched, keyBound>>
  BY Zenon DEF ProcessNewGroupSession
<1>3. task[d].kind = "session"
  BY Zenon DEF ProcessNewGroupSession
<1>4. PICK ids \in SUBSET SessionId, needed \in SUBSET SessionId :
        ids = task[d].ids /\ needed = ids \ sessionKeys[d]
  BY Zenon, <1>1, <1>3 DEF TaskOK
<1>5. PICK got \in SUBSET needed, back \in SUBSET needed, ack \in {acked[d], fetched[d]} :
        /\ got \subseteq back
        /\ sessionKeys' = [sessionKeys EXCEPT ![d] = @ \cup got]
        /\ spoiled' = [spoiled EXCEPT ![d] = @ \cup (needed \ got)]
        /\ encryptedContent' = [encryptedContent EXCEPT ![d] = @ \cup (back \cap decryptionFailures[d])]
        /\ decryptionFailures' = [decryptionFailures EXCEPT ![d] = @ \ (back \cap decryptionFailures[d])]
        /\ acked' = [acked EXCEPT ![d] = ack]
        /\ ack = acked[d] \/ newGroupSession[d] = << >>
  <2>1. KeysProcessed(d, needed)
    BY Zenon, <1>4, ProcessedKeys
  <2> QED
    BY Zenon, <2>1 DEF KeysProcessed
<1>6. /\ sessionKeys' \in [Device -> SUBSET SessionId]
      /\ sessionKeys'[d] = sessionKeys[d] \cup got
      /\ \A e \in Device \ {d} : sessionKeys'[e] = sessionKeys[e]
  BY Zenon, <1>1, <1>4, <1>5 DEF KeyTypes
<1>s. /\ spoiled' \in [Device -> SUBSET SessionId]
      /\ spoiled'[d] = spoiled[d] \cup (needed \ got)
      /\ \A e \in Device \ {d} : spoiled'[e] = spoiled[e]
  BY Zenon, <1>1, <1>4, <1>5 DEF KeyTypes
<1>7. /\ encryptedContent' \in [Device -> SUBSET SessionId]
      /\ encryptedContent'[d] = encryptedContent[d] \cup (back \cap decryptionFailures[d])
      /\ \A e \in Device \ {d} : encryptedContent'[e] = encryptedContent[e]
  BY Zenon, <1>1, <1>5 DEF KeyTypes
<1>8. /\ decryptionFailures' \in [Device -> SUBSET SessionId]
      /\ decryptionFailures'[d] = decryptionFailures[d] \ back
      /\ \A e \in Device \ {d} : decryptionFailures'[e] = decryptionFailures[e]
  BY Zenon, <1>1, <1>5 DEF KeyTypes
<1>10. /\ acked' \in [Device -> Nat] /\ acked'[d] = ack
       /\ \A e \in Device \ {d} : acked'[e] = acked[e]
       /\ \A e \in Device : acked'[e] =< fetched'[e] /\ fetched'[e] =< Len(inbox'[e])
  <2>1. ack \in Nat /\ ack =< fetched[d]
    BY <1>1, <1>5 DEF KeyTypes
  <2> QED
    BY Zenon, <1>1, <1>2, <1>5, <2>1 DEF KeyTypes
<1>11. KeyTypes'
  <2>1. Mishaps'
    BY Zenon, <1>1, BadSessionTypes DEF KeyTypes, Mishaps, ProcessNewGroupSession
  <2> QED
    BY ZenonT(30), <1>1, <1>2, <1>6, <1>s, <1>7, <1>8, <1>10, <2>1 DEF KeyTypes
<1>12. TaskOf(d) /\ task'[d] = Idle
  BY ZenonT(30), TickOf DEF ProcessNewGroupSession, Ends
<1>13. TaskOK(task'[d]) /\ task'[d].kind = "idle"
  BY <1>12 DEF TaskOK, Idle
<1>14. NotStuck(d)'
  <2>1. received[d] \subseteq decrypted[d] \cup encryptedContent[d] \cup decryptionRetries[d]
                                 \cup decryptionFailures[d] \cup abandoned[d]
    BY Zenon, <1>1, <1>3 DEF NotStuck
  <2>2. received[d] \subseteq decrypted[d] \cup encryptedContent'[d] \cup decryptionRetries[d]
                                 \cup decryptionFailures'[d] \cup abandoned[d]
    BY Zenon, <1>7, <1>8, <2>1
  <2>3. decryptionFailures'[d] \cap sessionKeys'[d] = {}
    BY Zenon, <1>1, <1>5, <1>6, <1>8 DEF NotStuck
  <2> QED
    BY Zenon, <1>2, <2>2, <2>3 DEF NotStuck
<1>15. priorityTasks[d] = << >>
  BY Zenon, <1>1, <1>3 DEF InboxInv
<1>16. \A x : x \subseteq sessionKeys[d] \cup spoiled[d] => x \subseteq sessionKeys'[d] \cup spoiled'[d]
  BY Zenon, <1>6, <1>s
<1>17. ASSUME NEW n \in 1 .. fetched[d], NEW x, x = inbox[d][n]
       PROVE  /\ x \subseteq sessionKeys'[d] \cup spoiled'[d] \/ Waits(d, x)'
              /\ newGroupSession[d] = << >> => x \subseteq sessionKeys'[d] \cup spoiled'[d]
  <2>1. x \subseteq sessionKeys[d] \cup spoiled[d] \/ Waits(d, x)
    BY ZenonT(30), <1>1, <1>17 DEF InboxInv
  <2>2. Waits(d, x) => x = ids \/ \E i \in DOMAIN newGroupSession[d] : newGroupSession[d][i] = x
    BY <1>4, <1>15 DEF Waits
  <2>3. ids \subseteq sessionKeys'[d] \cup spoiled'[d]
    BY Zenon, <1>4, <1>6, <1>s
  <2>4. (\E i \in DOMAIN newGroupSession[d] : newGroupSession[d][i] = x) => Waits(d, x)'
    BY Zenon, <1>2 DEF Waits
  <2>5. newGroupSession[d] = << >> => ~(\E i \in DOMAIN newGroupSession[d] : newGroupSession[d][i] = x)
    OBVIOUS
  <2> QED
    BY Zenon, <1>16, <2>1, <2>2, <2>3, <2>4, <2>5
<1>18. InboxInv(d)'
  <2>1. priorityTasks'[d] # << >> => task'[d].kind # "session"
    BY Zenon, <1>13
  <2> QED
    BY Zenon, <1>2, <1>17, <2>1 DEF InboxInv
<1>19. AckedStored(d)'
  <2>1. CASE acked'[d] = acked[d]
    BY Zenon, <1>1, <1>2, <1>16, <2>1 DEF AckedStored
  <2>2. CASE acked'[d] = fetched[d] /\ newGroupSession[d] = << >>
    BY Zenon, <1>2, <1>17, <2>2 DEF AckedStored
  <2> QED
    BY Zenon, <1>5, <1>10, <2>1, <2>2
<1> QED
  BY ZenonT(30), <1>2, <1>6, <1>s, <1>7, <1>8, <1>10, <1>11, <1>12, <1>13, <1>14, <1>18, <1>19, MessageStep

\* A process that starts again has before it every message that it has not acknowledged.
LEMMA RestartKeepsMessages ==
  ASSUME KeyInv, NEW d \in Device, Restart(d), keyBound' = keyBound
  PROVE  KeyInv'
<1>1. KeyTypes /\ TaskOK(task[d]) /\ DOMAIN task = Device /\ NotStuck(d) /\ InboxInv(d) /\ AckedStored(d)
  BY Zenon, ByDevice DEF DeviceInv
<1>2. UNCHANGED <<sessionKeys, received, decrypted, spoiled, member, inbox, acked, keyBound>>
  BY Zenon DEF Restart
<1>3. PICK box \in Seq(SUBSET SessionId), a \in Nat : box = inbox[d] /\ a = acked[d]
  BY Zenon, <1>1 DEF KeyTypes
<1>4. PICK n \in a .. Len(box) :
        /\ newGroupSession' = [newGroupSession EXCEPT ![d] = SubSeq(box, n + 1, Len(box))]
        /\ priorityTasks' = [priorityTasks EXCEPT ![d] = SubSeq(box, a + 1, n)]
  BY Zenon, <1>3 DEF Restart
<1>5. Len(box) \in Nat /\ n \in Nat /\ a \in Nat /\ a =< n /\ n =< Len(box)
  BY <1>3, <1>4
<1>6. PICK q, p : q = SubSeq(box, n + 1, Len(box)) /\ p = SubSeq(box, a + 1, n)
  BY Zenon
<1>7. /\ q \in Seq(SUBSET SessionId) /\ DOMAIN q = 1 .. (Len(box) - n)
      /\ \A i \in 1 .. (Len(box) - n) : q[i] = box[n + i]
  <2>1. /\ box \in Seq(SUBSET SessionId)
        /\ n + 1 \in 1..(Len(box) + 1) /\ Len(box) \in ((n + 1) - 1)..Len(box)
    BY <1>3, <1>5
  <2>2. /\ q \in Seq(SUBSET SessionId)
        /\ Len(q) = (Len(box) - (n + 1)) + 1
        /\ \A i \in 1 .. ((Len(box) - (n + 1)) + 1) : q[i] = box[((n + 1) + i) - 1]
    BY ZenonT(30), <1>6, <2>1, SubSeqFacts
  <2>3. DOMAIN q = 1 .. Len(q) /\ Len(q) = Len(box) - n
    BY <1>5, <2>2
  <2> QED
    BY SMTT(30), Z3T(30), Z3T(30), <1>5, <2>2, <2>3
<1>8. /\ p \in Seq(SUBSET SessionId) /\ DOMAIN p = 1 .. (n - a)
      /\ \A i \in 1 .. (n - a) : p[i] = box[a + i]
  <2>1. /\ box \in Seq(SUBSET SessionId)
        /\ a + 1 \in 1..(Len(box) + 1) /\ n \in ((a + 1) - 1)..Len(box)
    BY <1>3, <1>5
  <2>2. /\ p \in Seq(SUBSET SessionId)
        /\ Len(p) = (n - (a + 1)) + 1
        /\ \A i \in 1 .. ((n - (a + 1)) + 1) : p[i] = box[((a + 1) + i) - 1]
    BY ZenonT(30), <1>6, <2>1, SubSeqFacts
  <2>3. DOMAIN p = 1 .. Len(p) /\ Len(p) = n - a
    BY <1>5, <2>2
  <2>4. ASSUME NEW i \in 1 .. (n - a)
        PROVE  p[i] = box[a + i]
    <3>1. i \in 1 .. ((n - (a + 1)) + 1) /\ ((a + 1) + i) - 1 = a + i
      BY SMTT(30), Z3T(30), <1>5
    <3> QED
      BY Zenon, <2>2, <3>1
  <2> QED
    BY Zenon, <2>2, <2>3, <2>4
<1>9. /\ newGroupSession' \in [Device -> Seq(SUBSET SessionId)] /\ newGroupSession'[d] = q
      /\ \A e \in Device \ {d} : newGroupSession'[e] = newGroupSession[e]
  BY SMTT(30), Z3T(30), Z3T(30), <1>1, <1>4, <1>6, <1>7 DEF KeyTypes
<1>10. /\ priorityTasks' \in [Device -> Seq(SUBSET SessionId)] /\ priorityTasks'[d] = p
       /\ \A e \in Device \ {d} : priorityTasks'[e] = priorityTasks[e]
  BY SMTT(30), Z3T(30), Z3T(30), <1>1, <1>4, <1>6, <1>8 DEF KeyTypes
<1>11. /\ encryptedContent' \in [Device -> SUBSET SessionId]
       /\ encryptedContent'[d] = received[d] \ decrypted[d]
       /\ \A e \in Device \ {d} : encryptedContent'[e] = encryptedContent[e]
  BY Zenon, <1>1 DEF KeyTypes, Restart, Unread
<1>12. /\ decryptionRetries' \in [Device -> SUBSET SessionId]
       /\ \A e \in Device \ {d} : decryptionRetries'[e] = decryptionRetries[e]
       /\ decryptionFailures' \in [Device -> SUBSET SessionId] /\ decryptionFailures'[d] = {}
       /\ \A e \in Device \ {d} : decryptionFailures'[e] = decryptionFailures[e]
       /\ abandoned' \in [Device -> SUBSET SessionId]
       /\ \A e \in Device \ {d} : abandoned'[e] = abandoned[e]
  BY Zenon, <1>1 DEF KeyTypes, Restart
<1>13. missingKeys' \in [Device -> BOOLEAN] /\ upToDate' \in [Device -> SUBSET {"stream", "inbox"}]
  BY Zenon, <1>1 DEF KeyTypes, Restart
<1>14. Mishaps'
  <2>1. mishaps \in [restarts : [Device -> Nat], lostAsks : Nat, lostShares : Nat, lostDownloads : Nat,
                    errors : Nat, badSessions : Nat]
    BY Zenon, <1>1 DEF KeyTypes, Mishaps
  <2>2. PICK r \in [Device -> Nat] : r = [mishaps.restarts EXCEPT ![d] = @ + 1]
    <3>1. PICK f \in [Device -> Nat] : f = mishaps.restarts
      BY Zenon, <2>1
    <3>2. [f EXCEPT ![d] = @ + 1] \in [Device -> Nat]
      BY <3>1
    <3> QED
      BY Zenon, <3>1, <3>2
  <2>3. mishaps' = [mishaps EXCEPT !.restarts = r]
    BY Zenon, <2>2 DEF Restart
  <2> QED
    BY Zenon, <2>1, <2>3 DEF Mishaps
<1>15. /\ fetched' \in [Device -> Nat] /\ fetched'[d] = Len(box)
       /\ \A e \in Device \ {d} : fetched'[e] = fetched[e]
       /\ \A e \in Device : acked'[e] =< fetched'[e] /\ fetched'[e] =< Len(inbox'[e])
  <2>1. fetched' = [fetched EXCEPT ![d] = Len(box)]
    BY Zenon, <1>3 DEF Restart
  <2> QED
    BY SMTT(30), Z3T(30), Z3T(30), <1>1, <1>2, <1>3, <1>5, <2>1 DEF KeyTypes
<1>16. KeyTypes'
  BY Zenon, <1>1, <1>2, <1>9, <1>10, <1>11, <1>12, <1>13, <1>14, <1>15 DEF KeyTypes
<1>17. TaskOf(d) /\ task'[d] = Idle
  BY ZenonT(30), TickOf DEF Restart, Ends
<1>18. TaskOK(task'[d]) /\ task'[d].kind = "idle"
  BY <1>17 DEF TaskOK, Idle
<1>19. NotStuck(d)'
  <2>1. received[d] \subseteq decrypted[d] \cup encryptedContent'[d]
    BY SMTT(30), Z3T(30), <1>11
  <2> QED
    BY Zenon, <1>2, <1>12, <2>1 DEF NotStuck
<1>20. ASSUME NEW k \in 1 .. Len(box), NEW x, x = box[k]
       PROVE  x \subseteq sessionKeys[d] \cup spoiled[d] \/ Waits(d, x)'
  <2>1. CASE k =< a
    <3>1. k \in 1 .. a
      BY <1>3, <2>1
    <3> QED
      BY Zenon, <1>1, <1>3, <1>20, <3>1 DEF AckedStored
  <2>2. CASE a < k /\ k =< n
    <3>1. k - a \in DOMAIN p /\ p[k - a] = x
      BY SMTT(30), Z3T(30), Z3T(30), <1>3, <1>5, <1>8, <1>20, <2>2
    <3> QED
      BY Zenon, <1>10, <3>1 DEF Waits
  <2>3. CASE n < k
    <3>1. k - n \in DOMAIN q /\ q[k - n] = x
      BY <1>5, <1>7, <1>20, <2>3
    <3> QED
      BY Zenon, <1>9, <3>1 DEF Waits
  <2> QED
    BY SMTT(30), Z3T(30), <1>3, <1>5, <2>1, <2>2, <2>3
<1>21. InboxInv(d)'
  <2>1. priorityTasks'[d] # << >> => task'[d].kind # "session"
    BY Zenon, <1>18
  <2> QED
    BY Zenon, <1>2, <1>3, <1>15, <1>20, <2>1 DEF InboxInv
<1>22. AckedStored(d)'
  BY Zenon, <1>1, <1>2 DEF AckedStored
<1> QED
  BY ZenonT(30), <1>2, <1>9, <1>10, <1>11, <1>12, <1>15, <1>16, <1>17, <1>18, <1>19, <1>21, <1>22, MessageStep

(***************************************************************************)
(* The theorems.                                                           *)
(***************************************************************************)

LEMMA NextKeyInv ==
  ASSUME KeyInv, [KeyNext]_<<keyVars, keyBound>>
  PROVE  KeyInv'
<1>1. CASE UNCHANGED <<keyVars, keyBound>>
  <2>1. UNCHANGED <<sessionKeys, received, decrypted, encryptedContent, newGroupSession, decryptionRetries,
                    missingKeys, decryptionFailures, abandoned, spoiled, task, priorityTasks, upToDate, member,
                    mishaps, inbox, fetched, acked, keyBound>>
    BY Zenon, <1>1 DEF keyVars, keyQueues, modeVars, lossVars, nodeVars
  <2>2. /\ KeyTypes /\ DOMAIN task = Device /\ \A d \in Device : DeviceInv(d)
    BY Zenon, ByDevice
  <2>3. KeyTypes'
    BY Zenon, <2>1, <2>2 DEF KeyTypes, Mishaps
  <2>4. ASSUME NEW d \in Device
        PROVE  DeviceInv(d)'
    BY Zenon, <2>1, OtherDevice
  <2> QED
    BY Zenon, <2>1, <2>2, <2>3, <2>4, AllDevices
<1>2. CASE KeyNext
  <2>1. keyBound' = keyBound /\ keyBound \in KeyBound
    BY Zenon, <1>2, ByDevice, KeyAssumption DEF KeyNext
  <2>2. PICK d \in keyBound.present :
          \/ \E s \in SessionId : EnqueueNewEncryptedContent(d, s)
          \/ EnqueueNewGroupSessions(d) \/ EnqueueKeySolicitation(d)
          \/ \E stream \in {"stream", "inbox"} : SetStreamUpToDate(d, stream)
          \/ RetryDecryptionFailures(d) \/ Take(d) \/ Process(d) \/ Restart(d)
    BY Zenon, <1>2 DEF KeyNext
  <2>3. d \in Device
    BY Zenon, <2>1 DEF KeyBound
  <2>4. Take(d) => KeyInv'
    BY Zenon, <2>1, <2>3, DownloadKeepsMessages, TakeKeepsMessages, TakeKeepsEvents, TakingKeysIsQuiet
       DEF Take
  <2>5. Process(d) => KeyInv'
    BY Zenon, <2>1, <2>3, ProcessKeepsMessages, ProcessKeepsEvents, SendingIsQuiet DEF Process
  <2> QED
    BY Zenon, <2>1, <2>2, <2>3, <2>4, <2>5, EnqueueKeepsEvents, EnqueueKeepsMessages, SolicitationIsQuiet,
       UpToDateIsQuiet, JoiningIsQuiet, RestartKeepsMessages
<1> QED
  BY Zenon, <1>1, <1>2

\* The queues, the tick in progress, the crypto store and the inbox of every device agree:
\* a message that was enqueued is stored, waits or has failed (decryptionExtensions.ts).
THEOREM KeyInvariant == KeySpec => []KeyInv
<1>1. KeyInit => KeyInv
  BY Zenon, InitKeyInv
<1>2. KeyInv /\ [KeyNext]_<<keyVars, keyBound>> => KeyInv'
  BY Zenon, NextKeyInv
<1> QED
  BY <1>1, <1>2, PTL DEF KeySpec

\* No event is dropped on the way through the queues but one that is shown with an error other
\* than a missing key after its retry, and none waits for a key that the device has, whatever
\* decryptions, downloads and imports fail (processEncryptedContentItem, processDecryptionRetry,
\* processNewGroupSession).
THEOREM NoEventIsStuck == KeySpec => []NoEventStuck
<1>1. KeyInv => NoEventStuck
  BY Zenon DEF KeyInv
<1> QED
  BY <1>1, KeyInvariant, PTL

\* The keys of every message that a device has acknowledged are in its crypto store, however
\* often its process stopped and started, but for those of messages that it failed to download or
\* to import (ackNewGroupSession).
THEOREM AckedKeysAreStored == KeySpec => []AckedKeysStored
<1>1. KeyInv => AckedKeysStored
  BY Zenon DEF KeyInv
<1> QED
  BY <1>1, KeyInvariant, PTL
==============================================================================
