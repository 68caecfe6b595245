---------------------------- MODULE ChainMonitor ----------------------------
(***************************************************************************)
(* The loop that follows a chain: core/node/crypto/chain_monitor.go.  It   *)
(* asks for the head of the chain, takes a range of new blocks, and hands  *)
(* the numbers of the blocks and the logs in them to the callbacks of the  *)
(* process, in two goroutines.                                             *)
(*                                                                         *)
(* The provider that answers may be behind the chain, by another distance  *)
(* for each request.                                                       *)
(***************************************************************************)
EXTENDS Integers

CONSTANTS RangeLimit,   \* blocks of a range beyond the first one (25)
          Width,        \* numbers of blocks are below this (2^64)
          ChainBounds

ChainBound ==
  [height : Nat,          \* of the chain
   lag : Nat,             \* of the provider, in blocks
   behind : BOOLEAN,      \* also when the first head is read
   logsBehind : BOOLEAN,  \* also when logs are read
   calls : Nat,           \* to the contracts
   about : {"nodes", "settings"},
   unset : {"none", "last", "any", "all"}]   \* which settings are deleted

ASSUME ChainAssumption ==
  /\ RangeLimit \in Nat /\ Width \in Nat
  /\ ChainBounds \subseteq ChainBound
  /\ 1 + RangeLimit < Width /\ \A b \in ChainBounds : b.height + RangeLimit < Width

VARIABLES chainHead,      \* the last block of the chain
          started,        \* the block from which the process started, or NotStarted
          fromBlock,      \* the next block to ask for
          lastProcessed,  \* the last block of the last range, or NothingYet
          poll,           \* a range that is being handed out, or NoPoll
          announced,      \* the last block that the block callback has got
          logged,         \* the blocks of which the event callbacks have got the logs
          chainBound

monitorVars == <<chainHead, started, fromBlock, lastProcessed, poll, announced, logged>>

NotStarted == -1
NothingYet == -1
NoPoll == [to |-> 0, block |-> 0, log |-> 0, known |-> 0]
Polling == poll.to # 0

MonitorInit ==
  /\ chainBound \in ChainBounds
  /\ chainHead = 1 /\ started = NotStarted /\ fromBlock = 0 /\ lastProcessed = NothingYet
  /\ poll = NoPoll /\ announced = 0 /\ logged = {}

\* The chain grows.
NewBlock ==
  /\ chainHead < chainBound.height /\ chainHead' = chainHead + 1
  /\ UNCHANGED <<started, fromBlock, lastProcessed, poll, announced, logged>>

\* The process reads the number of the last block, everything is loaded at that block, and
\* the loop starts from it, inclusive.
StartMonitor ==
  /\ started = NotStarted /\ started' = chainHead
  /\ fromBlock' = chainHead
  /\ UNCHANGED <<chainHead, lastProcessed, poll, announced, logged>>

\* The difference of two unsigned numbers.
Minus(m, n) == IF m >= n THEN m - n ELSE m - n + Width

\* The end of the next range.
ToBlock(h) == IF Minus(h, fromBlock) > RangeLimit THEN fromBlock + RangeLimit ELSE h

\* What a provider may say the head is.
Heads == {h \in 0..chainHead : h + chainBound.lag >= chainHead}

\* A round that finds a new head h and reads the logs from a provider at head l.  A round
\* that fails, or finds nothing new, changes nothing.
BeginRound(h, l) ==
  /\ started # NotStarted /\ ~Polling
  /\ lastProcessed = NothingYet \/ lastProcessed < h
  /\ poll' = [to |-> ToBlock(h), block |-> fromBlock, log |-> fromBlock, known |-> l]
  /\ UNCHANGED <<chainHead, started, fromBlock, lastProcessed, announced, logged>>

\* The two answers of the provider that a round rests on.
MayRead(h, l) ==
  /\ h \in Heads /\ l \in Heads
  /\ lastProcessed = NothingYet /\ ~chainBound.behind => h >= fromBlock
  /\ ~chainBound.logsBehind => l = chainHead

AnnouncedAfter(b) == IF announced < b THEN b ELSE announced

\* The block callback gets the next block of the range.
AnnounceBlock ==
  /\ Polling /\ poll.block <= poll.to
  /\ announced' = AnnouncedAfter(poll.block)
  /\ poll' = [poll EXCEPT !.block = @ + 1]
  /\ UNCHANGED <<chainHead, started, fromBlock, lastProcessed, logged>>

\* The event callbacks get the logs of the next block of the range, if the provider knew it.
HandLogs ==
  /\ Polling /\ poll.log <= poll.to
  /\ logged' = IF poll.log <= poll.known THEN logged \cup {poll.log} ELSE logged
  /\ poll' = [poll EXCEPT !.log = @ + 1]
  /\ UNCHANGED <<chainHead, started, fromBlock, lastProcessed, announced>>

NextFrom_Skips(to) == to + 2

NextFrom(to) == to + 1

\* All callbacks have returned.
EndRound ==
  /\ Polling /\ poll.block > poll.to /\ poll.log > poll.to
  /\ fromBlock' = NextFrom(poll.to) /\ lastProcessed' = poll.to /\ poll' = NoPoll
  /\ UNCHANGED <<chainHead, started, announced, logged>>

MonitorNext ==
  /\ UNCHANGED chainBound
  /\ \/ NewBlock \/ StartMonitor \/ AnnounceBlock \/ HandLogs \/ EndRound
     \/ \E h, l \in 0..chainHead : MayRead(h, l) /\ BeginRound(h, l)

MonitorSpec == MonitorInit /\ [][MonitorNext]_<<monitorVars, chainBound>>

(***************************************************************************)
(* Properties                                                              *)
(***************************************************************************)
Sound == ~chainBound.behind /\ ~chainBound.logsBehind

\* The state of the loop: a range starts behind the last one (chain_monitor.go:187-199, 247-253).
MonitorTypeOK ==
  /\ chainHead \in Nat /\ started \in Nat \cup {NotStarted} /\ fromBlock \in Nat
  /\ lastProcessed = NothingYet \/ lastProcessed = fromBlock - 1
  /\ announced \in Nat /\ logged \subseteq Nat
  /\ poll \in [to : Nat, block : Nat, log : Nat, known : Nat]

\* The callback has got every block before the next one of the range.
Upto(b) == IF b = started THEN 0 ELSE b - 1

\* What holds between any two steps of the loop (chain_monitor.go:219-322): the blocks that
\* were announced and the logs that were handed out are those before the two positions in the
\* range, and the range starts where the last one ended.
MonitorInv ==
  /\ MonitorTypeOK /\ chainBound \in ChainBounds
  /\ 1 <= chainHead /\ (chainHead = 1 \/ chainHead <= chainBound.height)
  /\ started = NotStarted => announced = 0 /\ fromBlock = 0 /\ lastProcessed = NothingYet /\ ~Polling
  /\ started # NotStarted =>
       /\ 1 <= started /\ started <= chainHead /\ started <= fromBlock
       /\ lastProcessed = NothingYet <=> fromBlock = started
       /\ ~chainBound.behind => fromBlock <= chainHead + 1
       /\ Sound => started..(fromBlock - 1) \subseteq logged
       /\ ~Polling => announced = Upto(fromBlock)
  /\ Polling =>
       /\ fromBlock <= poll.to
       /\ fromBlock <= poll.block /\ poll.block <= poll.to + 1
       /\ fromBlock <= poll.log /\ poll.log <= poll.to + 1
       /\ announced = Upto(poll.block)
       /\ ~chainBound.behind => poll.to <= chainHead
       /\ Sound => poll.to <= poll.known /\ fromBlock..(poll.log - 1) \subseteq logged

\* No block is skipped: the logs of every block from the one the process started at up to
\* the one before the next range have been handed out, and the blocks of them announced,
\* although a provider may fall behind what it has said before.  When it is behind the first
\* block already, the unsigned difference wraps and 26 blocks that are not there yet count
\* as processed (chain_monitor.go:242-260, 317-319).
NoBlockSkipped ==
  (Sound /\ started # NotStarted)
    => /\ started..(fromBlock - 1) \subseteq logged
       /\ fromBlock > started => announced >= fromBlock - 1

\* Nothing is announced that is not in the chain, and logs are handed out only of blocks
\* that are (chain_monitor.go:255-272).
NothingAhead ==
  ~chainBound.behind => announced <= chainHead /\ fromBlock <= chainHead + 1

\* The callback gets the blocks one by one, each once, from the one the process started at:
\* a callback may count blocks (chain_monitor.go:171-180, chain_monitor_builder.go:119-126).
BlocksOneByOne ==
  [][announced' # announced => \/ announced = 0 /\ announced' = started
                               \/ announced # 0 /\ announced' = announced + 1]_monitorVars
=============================================================================
