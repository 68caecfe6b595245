--------------------------- MODULE StreamStorage ---------------------------
(***************************************************************************)
(* One stream in the Postgres store of core/node/storage/pg_storage.go.    *)
(* Every method runs in one serializable transaction, so each is one       *)
(* atomic change of the rows of the stream; X describes the rows a         *)
(* committed transaction leaves and CanX the checks it makes before.       *)
(*                                                                         *)
(* The rows of the minipools table share the generation of the service row *)
(* (slot -1): WriteEvent compares every row with the generation it         *)
(* inserts, and PromoteBlock replaces all of them.  So the table is one    *)
(* number, dbGeneration, and the envelopes in slot order.                  *)
(***************************************************************************)
EXTENDS StreamView

VARIABLES dbBlocks,      \* miniblocks: seq_num n is entry n+1; << >>: no stream
          dbSnapshot,    \* es.latest_snapshot_miniblock
          dbGeneration,  \* generation of the minipool rows
          dbMinipool,    \* envelopes of slots 0, 1, ...
          dbCandidates   \* miniblock_candidates

dbVars == <<dbBlocks, dbSnapshot, dbGeneration, dbMinipool, dbCandidates>>

StorageTypeOK ==
  /\ dbBlocks \in Seq(Miniblock)
  /\ dbSnapshot \in Nat
  /\ dbGeneration \in Nat
  /\ dbMinipool \in Seq(Event)
  /\ dbCandidates \in SUBSET Miniblock

StorageInit ==
  /\ dbBlocks = << >>
  /\ dbSnapshot = 0
  /\ dbGeneration = 0
  /\ dbMinipool = << >>
  /\ dbCandidates = {}

\* MAX(seq_num) + 1, for a stream that exists.
NextSeqNum == dbBlocks[Len(dbBlocks)].num + 1

\* CreateStreamStorage.  The insert into es fails when the stream exists.
CanCreateStreamStorage == dbBlocks = << >>

CreateStreamStorage(genesis) ==
  /\ dbBlocks' = <<genesis>>
  /\ dbSnapshot' = 0
  /\ dbGeneration' = 1
  /\ dbMinipool' = << >>
  /\ UNCHANGED dbCandidates

\* ReadStreamFromLastSnapshot: the blocks from the latest snapshot on.
\* (precedingBlockCount changes StartMiniblockNumber only, not the query.)
StoredBlocks == SubSeq(dbBlocks, dbSnapshot + 1, Len(dbBlocks))

CanReadStreamFromLastSnapshot ==
  /\ dbBlocks # << >>
  /\ \A i \in (dbSnapshot + 1)..Len(dbBlocks) : dbBlocks[i].num = i - 1
  /\ dbMinipool # << >> => dbGeneration = NextSeqNum

CanWriteEvent(minipoolGeneration, minipoolSlot) ==
  /\ dbGeneration = minipoolGeneration
  /\ Len(dbMinipool) = minipoolSlot

WriteEvent(envelope) ==
  /\ dbMinipool' = Append(dbMinipool, envelope)
  /\ UNCHANGED <<dbBlocks, dbSnapshot, dbGeneration, dbCandidates>>

CanWriteBlockProposal(blockNumber) ==
  /\ dbBlocks # << >>
  /\ blockNumber >= NextSeqNum

WriteBlockProposal(miniblock) ==
  /\ dbCandidates' = dbCandidates \cup {miniblock}
  /\ UNCHANGED <<dbBlocks, dbSnapshot, dbGeneration, dbMinipool>>

\* The candidate rows PromoteBlock copies: seq_num and block_hash are a key.
CandidatesFor(minipoolGeneration, hash) ==
  {c \in dbCandidates : c.num = minipoolGeneration /\ c.hash = hash}

CanPromoteBlock(minipoolGeneration, hash) ==
  /\ dbBlocks # << >>
  /\ minipoolGeneration = NextSeqNum
  /\ CandidatesFor(minipoolGeneration, hash) # {}

\* Slip: the service row keeps its generation.
PromoteBlock_KeepsGeneration(minipoolGeneration, hash, snapshotMiniblock, envelopes) ==
  /\ \E c \in CandidatesFor(minipoolGeneration, hash) :
       dbBlocks' = Append(dbBlocks, c)
  /\ dbSnapshot' = IF snapshotMiniblock THEN minipoolGeneration ELSE dbSnapshot
  /\ dbGeneration' = minipoolGeneration
  /\ dbMinipool' = envelopes
  /\ dbCandidates' = {c \in dbCandidates : c.num > minipoolGeneration}

PromoteBlock(minipoolGeneration, hash, snapshotMiniblock, envelopes) ==
  /\ \E c \in CandidatesFor(minipoolGeneration, hash) :
       dbBlocks' = Append(dbBlocks, c)
  /\ dbSnapshot' = IF snapshotMiniblock THEN minipoolGeneration ELSE dbSnapshot
  /\ dbGeneration' = minipoolGeneration + 1
  /\ dbMinipool' = envelopes
  /\ dbCandidates' = {c \in dbCandidates : c.num > minipoolGeneration}
=============================================================================
