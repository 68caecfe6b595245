-------------------------- MODULE ClientSyncProofs --------------------------
(***************************************************************************)
(* The sync of a client, for every number of streams, events, sessions and *)
(* calls: one loop runs (LoopInv), and views miss nothing (ViewInv).       *)
(***************************************************************************)
EXTENDS ClientSync, TLAPS

LEMMA SyncConstants == MaxEvents \in Nat \ {0} /\ MaxStarts \in Nat \ {0} /\ MaxSession \in Nat \ {0} /\ 0 \notin Loop /\ 0 \notin Session /\ 1 \in Loop
  BY SyncAssumption DEF Loop, Session

\* The transitions that stateConstraints allows.
LEMMA SyncStates ==
  ASSUME NEW st \in SyncState
  PROVE /\ ("Starting" \in stateConstraints[st] <=> st \in {"NotSyncing", "Retrying"})
        /\ ("Syncing" \in stateConstraints[st] <=> st \in {"Starting", "Retrying"})
        /\ ("Retrying" \in stateConstraints[st] <=> st \in {"Starting", "Syncing", "Retrying"})
        /\ ("Canceling" \in stateConstraints[st] <=> st \in {"Starting", "Syncing", "Retrying"})
        /\ ("NotSyncing" \in stateConstraints[st] <=> st = "Canceling")
  BY DEF SyncState, stateConstraints

LEMMA LoopInitInv == SyncInit => LoopInv
<1> SUFFICES ASSUME SyncInit PROVE LoopInv
  OBVIOUS
<1>1. LoopTypes
  BY SyncAssumption DEF SyncInit, LoopTypes, SyncState, LoopState
<1>2. StopOK
  BY DEF SyncInit, StopOK
<1>3. OneRunning
  BY DEF SyncInit, OneRunning, Running
<1> QED BY <1>1, <1>2, <1>3, Zenon DEF LoopInv

\* A loop goes on, and ends only as it leaves the state NotSyncing.
Turn(l) ==
  /\ syncState' \in SyncState /\ waiter' \in {0} \cup Loop /\ syncBound' = syncBound
  /\ \E x \in LoopState : /\ loops' = [loops EXCEPT ![l] = x]
                          /\ x.pc \in {"next", "retryWait"} <=> syncState' # "NotSyncing"

\* The steps of a loop, one by one.
LEMMA NextIterationTurns ==
  ASSUME LoopTypes, UNCHANGED syncBound, NEW l \in Loop, NEW st \in SyncState, NEW pt, NextIteration(l, st, pt)
  PROVE Turn(l) /\ (st \in {"Canceling", "NotSyncing"} => syncState' \in {"Canceling", "NotSyncing"})
<1>w. waiter \in {0} \cup Loop /\ l \in {0} \cup Loop
  BY Zenon DEF LoopTypes
<1>1. CASE st \in {"Starting", "Syncing", "Retrying"} /\ OpenSession(l, st, pt)
  <2>1. PICK n \in Session : n = nextSession
    BY <1>1, Zenon DEF OpenSession
  <2> DEFINE x == [pc |-> "next", session |-> n]
  <2>2. x \in LoopState /\ x.pc = "next"
    BY DEF LoopState
  <2>3. loops' = [loops EXCEPT ![l] = x] /\ waiter' = l /\ syncState' = IF st = "Retrying" THEN "Starting" ELSE st
    BY <1>1, <2>1, Zenon DEF OpenSession
  <2>4. syncState' \in {"Starting", "Syncing"}
    BY <1>1, <2>3
  <2>5. syncState' \in SyncState /\ syncState' # "NotSyncing"
    BY <2>4 DEF SyncState
  <2> HIDE DEF x
  <2>6. st \notin {"Canceling", "NotSyncing"}
    BY <1>1
  <2> QED BY <1>w, <2>2, <2>3, <2>5, <2>6, Zenon DEF Turn
<1>2. CASE st \notin {"Starting", "Syncing", "Retrying"} /\ Finally(l, st, waiter)
  <2> DEFINE x == [pc |-> "done", session |-> 0]
  <2>1. x \in LoopState /\ x.pc \notin {"next", "retryWait"}
    BY DEF LoopState
  <2>2. loops' = [loops EXCEPT ![l] = x] /\ waiter' = waiter
    BY <1>2, Zenon DEF Finally
  <2>3. st = "Canceling" \/ st = "NotSyncing"
    BY <1>2 DEF SyncState
  <2>4. syncState' = "NotSyncing" \/ (syncState' = st /\ "NotSyncing" \notin stateConstraints[st])
    BY <1>2, Zenon DEF Finally
  <2>5. syncState' = "NotSyncing"
    BY <2>3, <2>4, SyncStates, Zenon
  <2>6. syncState' \in SyncState
    BY <2>5 DEF SyncState
  <2> HIDE DEF x
  <2> QED BY <1>w, <2>1, <2>2, <2>5, <2>6, Zenon DEF Turn
<1> QED BY <1>1, <1>2, Zenon DEF NextIteration

LEMMA NextResponseTurns ==
  ASSUME LoopTypes, UNCHANGED syncBound, NEW l \in Loop, Running(l), NEW st \in SyncState, NEW id, NEW pt, NextResponse(l, st, id, pt)
  PROVE Turn(l) /\ (st \in {"Canceling", "NotSyncing"} => syncState' \in {"Canceling", "NotSyncing"})
<1>1. CASE st \in {"Syncing", "Starting"} /\ syncState' = st /\ waiter' = l /\ loops' = loops
  <2>1. PICK x \in LoopState : x = loops[l]
    BY Zenon DEF LoopTypes
  <2>2. loops' = [loops EXCEPT ![l] = x]
    BY <1>1, <2>1, Zenon DEF LoopTypes
  <2>3. st # "NotSyncing" /\ st \notin {"Canceling", "NotSyncing"}
    BY <1>1
  <2> QED BY <1>1, <2>1, <2>2, <2>3, Zenon DEF Turn, Running
<1>2. CASE st \notin {"Syncing", "Starting"} /\ NextIteration(l, st, pt)
  BY <1>2, NextIterationTurns, Zenon
<1> QED BY <1>1, <1>2, Zenon DEF NextResponse

LEMMA AttemptRetryTurns ==
  ASSUME LoopTypes, UNCHANGED syncBound, NEW l \in Loop, AttemptRetry(l)
  PROVE Turn(l) /\ (syncState \in {"Canceling", "NotSyncing"} => syncState' \in {"Canceling", "NotSyncing"})
<1>s. syncState \in SyncState /\ waiter \in {0} \cup Loop
  BY Zenon DEF LoopTypes
<1>1. CASE /\ "Retrying" \in stateConstraints[syncState] /\ syncState' = "Retrying" /\ waiter' = waiter
           /\ loops' = [loops EXCEPT ![l] = [pc |-> "retryWait", session |-> 0]]
  <2> DEFINE x == [pc |-> "retryWait", session |-> 0]
  <2>1. x \in LoopState /\ x.pc = "retryWait"
    BY DEF LoopState
  <2>2. "Retrying" \in SyncState /\ "Retrying" # "NotSyncing" /\ syncState \notin {"Canceling", "NotSyncing"}
    BY <1>s, <1>1, SyncStates DEF SyncState
  <2>3. loops' = [loops EXCEPT ![l] = x]
    BY <1>1, Zenon
  <2> HIDE DEF x
  <2> QED BY <1>s, <1>1, <2>1, <2>2, <2>3, Zenon DEF Turn
<1>2. CASE NextIteration(l, syncState, FALSE)
  BY <1>s, <1>2, NextIterationTurns, Zenon
<1> QED BY <1>1, <1>2, Zenon DEF AttemptRetry

\* A step of a running loop, whatever calls wait.
LEMMA TurnInv ==
  ASSUME LoopInv, NEW l \in Loop, Running(l), Turn(l), syncState \in {"Canceling", "NotSyncing"} => syncState' \in {"Canceling", "NotSyncing"},
         used' \in [{"faults", "lostCalls", "lostCancels", "badUpdates"} -> Nat], used'.lostCancels = used.lostCancels,
         UNCHANGED stopVars
  PROVE LoopInv'
<1>t. LoopTypes /\ UNCHANGED <<stopCall, breakTimers>>
  BY Zenon DEF LoopInv, stopVars
<1>1. PICK x \in LoopState : loops' = [loops EXCEPT ![l] = x] /\ (x.pc \in {"next", "retryWait"} <=> syncState' # "NotSyncing")
  BY Zenon DEF Turn
<1>2. LoopTypes'
  BY <1>t, <1>1, Zenon DEF LoopTypes, Turn
<1>3. ASSUME ~syncBound.anyTime /\ used.lostCancels = 0 PROVE StopOK' /\ OneRunning'
  <2>1. StopOK'
    BY <1>t, <1>3, Zenon DEF StopOK, LoopInv
  <2>2. loops'[l] = x /\ \A m \in Loop \ {l} : loops'[m] = loops[m]
    BY <1>t, <1>1, Zenon DEF LoopTypes
  <2>3. \A m \in Loop \ {l} : ~Running(m)
    BY <1>3, Zenon DEF LoopInv, OneRunning
  <2>4. \A m \in Loop \ {l} : ~Running(m)'
    BY <2>2, <2>3, Zenon DEF Running
  <2>5. Running(l)' <=> syncState' # "NotSyncing"
    BY <1>1, <2>2, Zenon DEF Running
  <2> QED BY <2>1, <2>4, <2>5, Zenon DEF OneRunning
<1>4. syncBound' = syncBound
  BY Zenon DEF Turn
<1> QED BY <1>2, <1>3, <1>4, Zenon DEF LoopInv

\* startSyncStreams, which callers that wait for stopSync call when no loop runs.
LEMMA StartSyncStreamsInv == ASSUME LoopInv, UNCHANGED syncBound, NEW l \in Loop, StartSyncStreams(l) PROVE LoopInv'
<1>t. LoopTypes /\ syncState \in SyncState
  BY Zenon DEF LoopInv, LoopTypes
<1>b. /\ syncBound.anyTime \/ (syncState = "NotSyncing" /\ stopCall = NoStop)
      /\ NextIteration(l, IF "Starting" \in stateConstraints[syncState] THEN "Starting" ELSE syncState, pingTimer)
      /\ UNCHANGED <<stopCall, breakTimers, used>>
  BY Zenon DEF StartSyncStreams, stopVars
<1>1. PICK st : st = IF "Starting" \in stateConstraints[syncState] THEN "Starting" ELSE syncState
  OBVIOUS
<1>2. st \in SyncState
  BY <1>t, <1>1 DEF SyncState
<1>3. Turn(l)
  BY <1>t, <1>b, <1>1, <1>2, NextIterationTurns
<1>4. PICK x \in LoopState : loops' = [loops EXCEPT ![l] = x] /\ (x.pc \in {"next", "retryWait"} <=> syncState' # "NotSyncing")
  BY <1>3, Zenon DEF Turn
<1>5. LoopTypes'
  BY <1>t, <1>b, <1>3, <1>4, Zenon DEF LoopTypes, Turn
<1>6. ASSUME ~syncBound.anyTime /\ used.lostCancels = 0 PROVE StopOK' /\ OneRunning'
  <2>0. StopOK /\ OneRunning /\ syncState = "NotSyncing" /\ stopCall = NoStop
    BY <1>b, <1>6, Zenon DEF LoopInv
  <2>1. StopOK'
    BY <1>b, <2>0, Zenon DEF StopOK
  <2>2. loops'[l] = x /\ \A m \in Loop \ {l} : loops'[m] = loops[m]
    BY <1>t, <1>4, Zenon DEF LoopTypes
  <2>4. \A m \in Loop \ {l} : ~Running(m)'
    BY <2>0, <2>2, Zenon DEF Running, OneRunning
  <2>5. Running(l)' <=> syncState' # "NotSyncing"
    BY <1>4, <2>2, Zenon DEF Running
  <2> QED BY <2>1, <2>4, <2>5, Zenon DEF OneRunning
<1> QED BY <1>b, <1>5, <1>6, Zenon DEF LoopInv

LEMMA LoopStepTurns ==
  ASSUME LoopInv, UNCHANGED syncBound, NEW l \in Loop, LoopStep(l)
  PROVE /\ Running(l) /\ Turn(l)
        /\ syncState \in {"Canceling", "NotSyncing"} => syncState' \in {"Canceling", "NotSyncing"}
        /\ UNCHANGED <<stopVars, used>>
<1>t. LoopTypes /\ syncState \in SyncState
  BY Zenon DEF LoopInv, LoopTypes
<1>1. CASE SyncStarted(l)
  <2>1. PICK st, id, pt : /\ st = IF syncId = 0 /\ "Syncing" \in stateConstraints[syncState] THEN "Syncing" ELSE syncState
                          /\ NextResponse(l, st, id, pt)
    BY <1>1, Zenon DEF SyncStarted
  <2>2. st \in SyncState /\ (syncState \in {"Canceling", "NotSyncing"} => st = syncState)
    BY <1>t, <2>1, SyncStates DEF SyncState
  <2>3. Running(l) /\ UNCHANGED <<stopVars, used>>
    BY <1>1, Zenon DEF SyncStarted, Running
  <2> QED BY <1>t, <2>1, <2>2, <2>3, NextResponseTurns, Zenon
<1>2. CASE SyncClosed(l)
  <2>3. Running(l) /\ UNCHANGED <<stopVars, used>>
    BY <1>2, Zenon DEF SyncClosed, Running
  <2>4. /\ "Canceling" \in SyncState /\ "Retrying" \in SyncState /\ "NotSyncing" \in SyncState
        /\ (syncState \in {"Starting", "Syncing"} => syncState \notin {"Canceling", "NotSyncing"})
        /\ (syncState = "Retrying" => syncState \notin {"Canceling", "NotSyncing"} /\ syncState # "NotSyncing")
    BY DEF SyncState
  <2>5. CASE syncState = "Canceling" /\ NextResponse(l, "Canceling", syncId, FALSE)
    BY <1>t, <2>3, <2>4, <2>5, NextResponseTurns, Zenon
  <2>6. CASE syncState \in {"Starting", "Syncing"} /\ NextResponse(l, "Retrying", syncId, FALSE)
    BY <1>t, <2>3, <2>4, <2>6, NextResponseTurns, Zenon
  <2>7. CASE syncState = "NotSyncing" /\ NextIteration(l, "NotSyncing", FALSE)
    BY <1>t, <2>3, <2>4, <2>7, NextIterationTurns, Zenon
  <2>8. CASE syncState = "Retrying" /\ loops' = [loops EXCEPT ![l] = [pc |-> "retryWait", session |-> 0]] /\ UNCHANGED <<syncState, waiter>>
    <3> DEFINE x == [pc |-> "retryWait", session |-> 0]
    <3>1. x \in LoopState /\ x.pc = "retryWait"
      BY DEF LoopState
    <3>2. loops' = [loops EXCEPT ![l] = x]
      BY <2>8, Zenon
    <3> HIDE DEF x
    <3> QED BY <1>t, <2>3, <2>4, <2>8, <3>1, <3>2, Zenon DEF Turn, LoopTypes
  <2> QED BY <1>2, <2>5, <2>6, <2>7, <2>8, Zenon DEF SyncClosed
<1>3. CASE GotUpdate(l)
  <2>3. Running(l) /\ UNCHANGED <<stopVars, used>> /\ NextResponse(l, syncState, syncId, pingTimer)
    BY <1>3, Zenon DEF GotUpdate, Running
  <2> QED BY <1>t, <2>3, NextResponseTurns, Zenon
<1>4. CASE SessionFailed(l)
  <2>3. Running(l) /\ UNCHANGED <<stopVars, used>> /\ AttemptRetry(l)
    BY <1>4, Zenon DEF SessionFailed, Running
  <2> QED BY <1>t, <2>3, AttemptRetryTurns, Zenon
<1>5. CASE RetryWaitEnds(l)
  <2>3. Running(l) /\ UNCHANGED <<stopVars, used>> /\ NextIteration(l, syncState, pingTimer)
    BY <1>5, Zenon DEF RetryWaitEnds, Running
  <2> QED BY <1>t, <2>3, NextIterationTurns, Zenon
<1> QED BY <1>1, <1>2, <1>3, <1>4, <1>5, Zenon DEF LoopStep

LEMMA LoopStepInv == ASSUME LoopInv, UNCHANGED syncBound, NEW l \in Loop, LoopStep(l) PROVE LoopInv'
<1>1. used \in [{"faults", "lostCalls", "lostCancels", "badUpdates"} -> Nat]
  BY Zenon DEF LoopInv, LoopTypes
<1>2. used' = used
  BY LoopStepTurns, Zenon
<1> QED BY <1>1, <1>2, LoopStepTurns, TurnInv, Zenon

\* The counters of faults.
LEMMA FaultCounts ==
  ASSUME LoopTypes, NEW kind \in {"faults", "lostCalls", "lostCancels", "badUpdates"}, Fault(kind)
  PROVE /\ used' \in [{"faults", "lostCalls", "lostCancels", "badUpdates"} -> Nat]
        /\ kind # "lostCancels" => used'.lostCancels = used.lostCancels
        /\ kind = "lostCancels" => used'.lostCancels # 0
<1>1. used \in [{"faults", "lostCalls", "lostCancels", "badUpdates"} -> Nat] /\ used' = [used EXCEPT ![kind] = @ + 1]
  BY Zenon DEF LoopTypes, Fault
<1>2. used[kind] + 1 \in Nat /\ used[kind] + 1 # 0
  BY <1>1
<1> QED BY <1>1, <1>2, Zenon

LEMMA StopSyncInv == ASSUME LoopInv, UNCHANGED syncBound, StopSync PROVE LoopInv'
<1>t. LoopTypes /\ syncState \in SyncState
  BY Zenon DEF LoopInv, LoopTypes
<1>b. UNCHANGED <<loops, waiter, used, syncBound>>
  BY Zenon DEF StopSync
<1>1. CASE /\ "Canceling" \in stateConstraints[syncState] /\ syncState' = "Canceling"
           /\ breakTimers' = (IF syncId # 0 THEN breakTimers + 1 ELSE breakTimers)
           /\ stopCall = NoStop
           /\ stopCall' = [pc |-> IF syncId # 0 THEN "cancelRpc" ELSE "awaitLoop", syncId |-> syncId, loop |-> syncLoop]
  <2>1. syncState # "NotSyncing" /\ "Canceling" \in SyncState
    BY <1>t, <1>1, SyncStates DEF SyncState
  <2>2. breakTimers' \in Nat
    BY <1>t, <1>1 DEF LoopTypes
  <2>3. LoopTypes'
    BY <1>t, <1>b, <1>1, <2>1, <2>2, Zenon DEF LoopTypes
  <2>4. ASSUME StopOK, OneRunning PROVE StopOK' /\ OneRunning'
    <3>1. OneRunning'
      BY <1>b, <1>1, <2>1, <2>4 DEF OneRunning, Running
    <3>2. breakTimers = 0
      BY <1>t, <1>1, <2>4 DEF StopOK, LoopTypes
    <3>3. stopCall'.syncId = syncId /\ stopCall'.pc # "none"
      BY <1>1
    <3>4. stopCall' # NoStop
      BY <3>3 DEF NoStop
    <3>5. StopOK'
      BY <1>1, <3>2, <3>3, <3>4 DEF StopOK
    <3> QED BY <3>1, <3>5, Zenon
  <2> QED BY <1>b, <2>3, <2>4, Zenon DEF LoopInv
<1>2. CASE UNCHANGED <<syncState, breakTimers, stopCall>>
  BY <1>b, <1>2, Zenon DEF LoopInv, LoopTypes, StopOK, OneRunning, Running
<1> QED BY <1>1, <1>2, Zenon DEF StopSync

\* The timer of stopSync fires.
LEMMA BreakTimeoutInv == ASSUME LoopInv, UNCHANGED syncBound, BreakTimeout PROVE LoopInv'
<1>t. LoopTypes /\ syncState \in SyncState
  BY Zenon DEF LoopInv, LoopTypes
<1>b. UNCHANGED <<stopCall, used, syncBound>> /\ breakTimers > 0 /\ breakTimers' = breakTimers - 1
  BY Zenon DEF BreakTimeout
<1>n. breakTimers' \in Nat
  BY <1>t, <1>b DEF LoopTypes
<1>k. StopOK => breakTimers' = 0
  BY <1>t, <1>b DEF StopOK, LoopTypes
<1>0. ~(0 > 0)
  OBVIOUS
<1>1. CASE Awaiting /\ Finally(waiter, syncState, 0)
  <2>1. PICK l \in Loop : l = waiter
    BY <1>t, <1>1, Zenon DEF Awaiting, LoopTypes
  <2>2. loops[l].pc = "next"
    BY <1>1, <2>1, Zenon DEF Awaiting
  <2> DEFINE x == [pc |-> "done", session |-> 0]
  <2>3. x \in LoopState /\ x.pc \notin {"next", "retryWait"}
    BY DEF LoopState
  <2>4. loops' = [loops EXCEPT ![l] = x] /\ waiter' = 0 /\
        ((syncState = "Canceling" /\ syncState' = "NotSyncing") \/ (syncState # "Canceling" /\ syncState' = syncState))
    BY <1>t, <1>1, <2>1, SyncStates, Zenon DEF Finally
  <2> HIDE DEF x
  <2>5. "NotSyncing" \in SyncState
    BY DEF SyncState
  <2>6. LoopTypes'
    BY <1>t, <1>b, <1>n, <2>3, <2>4, <2>5, Zenon DEF LoopTypes
  <2>7. ASSUME StopOK, OneRunning PROVE StopOK' /\ OneRunning'
    <3>1. syncState \in {"Canceling", "NotSyncing"}
      BY <1>b, <2>7, Zenon DEF StopOK
    <3>2. \A m \in Loop \ {l} : ~Running(m)
      BY <2>2, <2>7, Zenon DEF OneRunning, Running
    <3>3. \A m \in Loop : ~Running(m)'
      BY <1>t, <2>3, <2>4, <3>2, Zenon DEF Running, LoopTypes
    <3>4. syncState' = "NotSyncing"
      BY <2>4, <3>1, Zenon
    <3> QED BY <1>0, <1>b, <1>k, <2>7, <3>3, <3>4, Zenon DEF OneRunning, StopOK
  <2> QED BY <1>b, <2>6, <2>7, Zenon DEF LoopInv
<1>2. CASE UNCHANGED <<syncState, loops, waiter>>
  <2>1. LoopTypes'
    BY <1>t, <1>b, <1>n, <1>2, Zenon DEF LoopTypes
  <2>2. ASSUME StopOK, OneRunning PROVE StopOK' /\ OneRunning'
    BY <1>0, <1>b, <1>k, <1>2, <2>2, Zenon DEF OneRunning, StopOK, Running
  <2> QED BY <1>b, <2>1, <2>2, Zenon DEF LoopInv
<1> QED BY <1>1, <1>2, Zenon DEF BreakTimeout

LEMMA StopCallInv == ASSUME LoopInv, UNCHANGED syncBound, CancelSync \/ CancelSyncFails \/ StopSyncDone PROVE LoopInv'
<1>t. LoopTypes /\ syncState \in SyncState
  BY Zenon DEF LoopInv, LoopTypes
<1>1. CASE CancelSync
  <2>1. UNCHANGED <<syncState, loops, waiter, breakTimers, used, syncBound>> /\ stopCall.pc = "cancelRpc" /\ stopCall' = [stopCall EXCEPT !.pc = "awaitLoop"]
    BY <1>1, Zenon DEF CancelSync, stateVars
  <2>2. stopCall # NoStop /\ stopCall'.syncId = stopCall.syncId
    BY <2>1 DEF NoStop
  <2>3. stopCall' # NoStop \/ stopCall.syncId = 0
    BY <2>2 DEF NoStop
  <2>4. LoopTypes' /\ (OneRunning => OneRunning')
    BY <1>t, <2>1, Zenon DEF LoopTypes, OneRunning, Running
  <2>5. StopOK => StopOK'
    BY <2>1, <2>2, <2>3, Zenon DEF StopOK
  <2> QED BY <2>1, <2>4, <2>5, Zenon DEF LoopInv
<1>2. CASE CancelSyncFails
  <2>1. UNCHANGED <<syncState, loops, waiter, breakTimers, syncBound>> /\ Fault("lostCancels")
    BY <1>2, Zenon DEF CancelSyncFails, stateVars
  <2>2. used' \in [{"faults", "lostCalls", "lostCancels", "badUpdates"} -> Nat] /\ used'.lostCancels # 0
    BY <1>t, <2>1, FaultCounts, Zenon
  <2>3. LoopTypes'
    BY <1>t, <2>1, <2>2, Zenon DEF LoopTypes
  <2> QED BY <2>2, <2>3, Zenon DEF LoopInv
<1>3. CASE StopSyncDone
  <2>1. UNCHANGED <<syncState, loops, waiter, used, syncBound>> /\ stopCall' = NoStop
        /\ breakTimers' = (IF stopCall.syncId # 0 /\ breakTimers > 0 THEN breakTimers - 1 ELSE breakTimers)
    BY <1>3, Zenon DEF StopSyncDone, stateVars
  <2>2. breakTimers' \in Nat /\ (StopOK => ~(breakTimers' > 0))
    BY <1>t, <2>1 DEF LoopTypes, StopOK
  <2>3. LoopTypes' /\ (OneRunning => OneRunning')
    BY <1>t, <2>1, <2>2, Zenon DEF LoopTypes, OneRunning, Running
  <2>4. StopOK => StopOK'
    BY <2>1, <2>2, Zenon DEF StopOK
  <2> QED BY <2>1, <2>3, <2>4, Zenon DEF LoopInv
<1> QED BY <1>1, <1>2, <1>3, Zenon

LEMMA PingFailsInv == ASSUME LoopInv, UNCHANGED syncBound, PingFails PROVE LoopInv'
<1>t. LoopTypes /\ syncState \in SyncState
  BY Zenon DEF LoopInv, LoopTypes
<1>b. UNCHANGED stopVars /\ UNCHANGED <<stopCall, breakTimers, syncBound>> /\ Fault("faults")
  BY Zenon DEF PingFails, stopVars
<1>n. used' \in [{"faults", "lostCalls", "lostCancels", "badUpdates"} -> Nat] /\ used'.lostCancels = used.lostCancels
  BY <1>t, <1>b, FaultCounts
<1>1. CASE Awaiting /\ AttemptRetry(waiter)
  <2>1. PICK l \in Loop : l = waiter
    BY <1>t, <1>1, Zenon DEF Awaiting, LoopTypes
  <2>2. Running(l) /\ AttemptRetry(l)
    BY <1>1, <2>1, Zenon DEF Awaiting, Running, AttemptRetry, NextIteration, OpenSession, Finally, Left
  <2> QED BY <1>t, <1>b, <1>n, <2>2, AttemptRetryTurns, TurnInv, Zenon
<1>2. CASE UNCHANGED <<syncState, loops, waiter>>
  BY <1>b, <1>n, <1>2, Zenon DEF LoopInv, LoopTypes, StopOK, OneRunning, Running
<1> QED BY <1>1, <1>2, Zenon DEF PingFails

\* Neither the loops, nor what stopSync has done: the other steps.
LEMMA LoopsSameInv ==
  ASSUME LoopInv, UNCHANGED <<stateVars, stopVars, syncBound>>,
         used' \in [{"faults", "lostCalls", "lostCancels", "badUpdates"} -> Nat], used'.lostCancels = used.lostCancels
  PROVE LoopInv'
  BY Zenon DEF stateVars, stopVars, LoopInv, LoopTypes, StopOK, OneRunning, Running

LEMMA OtherStepsInv ==
  ASSUME LoopInv, UNCHANGED <<stateVars, stopVars, syncBound>>, UNCHANGED used \/ Fault("lostCalls") \/ Fault("faults") \/ Fault("badUpdates")
  PROVE LoopInv'
<1>1. LoopTypes /\ used \in [{"faults", "lostCalls", "lostCancels", "badUpdates"} -> Nat]
  BY Zenon DEF LoopInv, LoopTypes
<1>2. used' \in [{"faults", "lostCalls", "lostCancels", "badUpdates"} -> Nat] /\ used'.lostCancels = used.lostCancels
  BY <1>1, FaultCounts
<1> QED BY <1>2, LoopsSameInv, Zenon

\* LoopInv is inductive.
LEMMA LoopNextInv == LoopInv /\ [SyncNext]_<<syncVars, syncBound>> => LoopInv'
<1> SUFFICES ASSUME LoopInv, [SyncNext]_<<syncVars, syncBound>> PROVE LoopInv'
  OBVIOUS
<1>1. CASE UNCHANGED <<syncVars, syncBound>>
  BY <1>1, OtherStepsInv, Zenon DEF syncVars
<1>2. CASE SyncNext
  <2>0. UNCHANGED syncBound
    BY <1>2, Zenon DEF SyncNext
  <2>1. ASSUME NEW l \in Loop, StartSyncStreams(l) \/ LoopStep(l) PROVE LoopInv'
    BY <2>0, <2>1, StartSyncStreamsInv, LoopStepInv, Zenon
  <2>2. ASSUME StopSync \/ CancelSync \/ CancelSyncFails \/ StopSyncDone \/ BreakTimeout PROVE LoopInv'
    BY <2>0, <2>2, StopSyncInv, StopCallInv, BreakTimeoutInv, Zenon
  <2>3. ASSUME NEW s \in Stream,
               \/ InitStream(s) \/ AddStreamToSync(s) \/ AddWaitEnds(s) \/ AddRpc(s) \/ AddRpcFails(s)
               \/ RemoveStreamFromSync(s) \/ RemoveWaitEnds(s) \/ RemoveRpc(s) \/ RemoveRpcFails(s)
        PROVE LoopInv'
    <3>1. UNCHANGED <<stateVars, stopVars>> /\ (UNCHANGED used \/ Fault("lostCalls"))
      BY <2>3, Zenon DEF InitStream, AddStreamToSync, AddWaitEnds, AddRpc, AddRpcFails, RemoveStreamFromSync,
           RemoveWaitEnds, RemoveRpc, RemoveRpcFails, Removed
    <3> QED BY <2>0, <3>1, OtherStepsInv, Zenon
  <2>4. ASSUME NEW s \in Stream, AddEvent(s) \/ \E k \in Session : Subscribe(k, s) \/ SendUpdate(k, s) PROVE LoopInv'
    <3>1. UNCHANGED <<stateVars, stopVars, used>>
      BY <2>4, Zenon DEF AddEvent, Subscribe, SendUpdate, nodeUnchanged
    <3> QED BY <2>0, <3>1, OtherStepsInv, Zenon
  <2>5. ASSUME Tick \/ OnUpdate \/ SendPing \/ PingAnswered PROVE LoopInv'
    <3>1. UNCHANGED <<stateVars, stopVars>> /\ (UNCHANGED used \/ Fault("badUpdates"))
      BY <2>5, Zenon DEF Tick, OnUpdate, SendPing, PingAnswered
    <3> QED BY <2>0, <3>1, OtherStepsInv, Zenon
  <2>6. ASSUME NEW k \in Session, SessionEnds(k) PROVE LoopInv'
    <3>1. UNCHANGED <<stateVars, stopVars>> /\ Fault("faults")
      BY <2>6, Zenon DEF SessionEnds, nodeUnchanged
    <3> QED BY <2>0, <3>1, OtherStepsInv, Zenon
  <2> QED BY <1>2, <2>0, <2>1, <2>2, <2>3, <2>4, <2>5, <2>6, PingFailsInv, Zenon DEF SyncNext
<1> QED BY <1>1, <1>2, Zenon

\* Unless the state is NotSyncing there is one loop, and it can still change the state, provided that
\* callers wait for stopSync and cancelSync is not lost (startSyncStreams, createSyncLoop, stopSync), for
\* every number of starts, sessions and streams.
THEOREM OneLoopRuns == SyncSpec => []OneLoop
<1>1. LoopInv => OneLoop
  BY Zenon DEF LoopInv, OneLoop
<1> QED BY <1>1, LoopInitInv, LoopNextInv, PTL DEF SyncSpec

(***************************************************************************)
(* The views: ViewInv is inductive relative to LoopInv.  The updates of a  *)
(* stream that a session has sent, from the one at work to the last on its *)
(* way, follow each other without a gap from where the view ends; a new    *)
(* session begins at the cookies of the views, and updates of an old one   *)
(* are not taken any more.                                                 *)
(*                                                                         *)
(* First queues, and the updates of one stream.                            *)
(***************************************************************************)

LEMMA QueueTail ==
  ASSUME NEW S, NEW q \in Seq(S), q # << >>
  PROVE /\ 1 \in DOMAIN q /\ Head(q) = q[1] /\ Head(q) \in S /\ Tail(q) \in Seq(S)
        /\ \A i \in DOMAIN Tail(q) : i \in Nat /\ i + 1 \in DOMAIN q /\ Tail(q)[i] = q[i + 1]
        /\ \A j \in DOMAIN q : j \in Nat /\ (j # 1 => j - 1 \in DOMAIN Tail(q) /\ (j - 1) + 1 = j)
  OBVIOUS

LEMMA QueueAppend ==
  ASSUME NEW S, NEW q \in Seq(S), NEW e \in S
  PROVE /\ Append(q, e) \in Seq(S) /\ Len(q) + 1 \in DOMAIN Append(q, e) /\ Append(q, e)[Len(q) + 1] = e
        /\ \A i \in DOMAIN q : i \in DOMAIN Append(q, e) /\ Append(q, e)[i] = q[i] /\ i < Len(q) + 1
        /\ \A i \in DOMAIN Append(q, e) : i \in DOMAIN q \/ i = Len(q) + 1
  OBVIOUS

LEMMA ItemIsNone == ASSUME NEW e \in SyncItem PROVE e # NoItem
<1>1. e.session \in Session /\ "session" \in DOMAIN e
  BY DEF SyncItem
<1>2. "session" \notin DOMAIN NoItem
  BY DEF NoItem
<1> QED BY <1>1, <1>2, Zenon

ViewBody == ViewTypes /\ LoopStands /\ QueueOK /\ \A s \in Stream : ViewOK(s) /\ TickOK(s)
Active == loops[1].pc = "next" /\ syncState \in {"Starting", "Syncing"}

LEMMA ViewInvParts == ViewInv <=> (OneStart => ViewBody /\ (Active => ChainOK))
  BY Zenon DEF ViewInv, ViewBody, Active

\* ViewInv holds initially.
LEMMA ViewInitInv == SyncInit => ViewInv
<1> SUFFICES ASSUME SyncInit, OneStart PROVE ViewInv
  BY DEF ViewInv
<1>0. loops[1].pc = "none" /\ \A l \in Loop : loops[l].pc = "none"
  BY SyncAssumption DEF SyncInit, Loop
<1>1. ViewTypes
  <2>1. NoCall \in [pc : {"none", "init", "waiting", "rpc"}, syncId : {0} \cup Session, cookie : Nat]
    BY DEF NoCall
  <2>2. NoSession \in SyncSession
    BY DEF NoSession, SyncSession
  <2>3. << >> \in Seq(SyncItem) /\ 1 \in Nat /\ 0 \in Nat
    OBVIOUS
  <2> QED BY <2>1, <2>2, <2>3, Zenon DEF SyncInit, ViewTypes
<1>2. LoopStands
  <2>1. ~(0 > 0)
    OBVIOUS
  <2>2. loops[1].pc = "none" /\ \A k \in Session : sess[k] = NoSession
    BY <1>0, Zenon DEF SyncInit
  <2> QED BY <1>0, <2>1, <2>2 DEF SyncInit, LoopStands
<1>3. QueueOK
  BY DEF SyncInit, QueueOK
<1>4. ASSUME NEW s \in Stream PROVE ViewOK(s) /\ TickOK(s)
  BY DEF SyncInit, ViewOK, TickOK, TickOf, NoCall, Had
<1>5. ~Active
  BY <1>0 DEF Active
<1> QED BY <1>1, <1>2, <1>3, <1>4, <1>5, ViewInvParts, Zenon DEF ViewBody

(***************************************************************************)
(* Steps that leave what is on its way, and let the views grow.            *)
(***************************************************************************)
(***************************************************************************)
(* What a step may do to the updates of a stream.                          *)
(***************************************************************************)

ViewGrows(s) ==
  /\ s \in streams => s \in streams'
  /\ cookie[s] <= cookie'[s] /\ log[s] <= log'[s]
  /\ \A x \in Nat : (Base(s, x) => Base(s, x)') /\ (ViewUpTo(s, x) => ViewUpTo(s, x)')

\* The fields of an update.
LEMMA ItemNumbers ==
  ASSUME ViewTypes, NEW k \in Session, NEW s \in Stream
  PROVE /\ sess[k].queue \in Seq(SyncResponse) /\ sess[k].asked \in [Stream -> Nat \cup {-1}] /\ sess[k].sent \in [Stream -> Nat \cup {-1}]
        /\ sess[k].sent[s] \in Nat \cup {-1} /\ sess[k].asked[s] \in Nat \cup {-1} /\ sess[k].open \in BOOLEAN
        /\ \A i \in DOMAIN responsesQueue : /\ responsesQueue[i] \in SyncItem /\ responsesQueue[i].from \in Nat /\ responsesQueue[i].to \in Nat
                                            /\ responsesQueue[i].stream \in Stream
        /\ \A i \in DOMAIN sess[k].queue : /\ sess[k].queue[i] \in SyncResponse
                                           /\ UpdateComing(i, k, s) => sess[k].queue[i].from \in Nat /\ sess[k].queue[i].to \in Nat
        /\ cookie[s] \in Nat /\ log[s] \in Nat
<1>1. sess[k] \in SyncSession
  BY Zenon DEF ViewTypes
<1>2. sess[k].queue \in Seq(SyncResponse) /\ sess[k].asked \in [Stream -> Nat \cup {-1}] /\ sess[k].sent \in [Stream -> Nat \cup {-1}] /\ sess[k].open \in BOOLEAN
  BY <1>1 DEF SyncSession
<1>3. sess[k].sent[s] \in Nat \cup {-1} /\ sess[k].asked[s] \in Nat \cup {-1}
  BY <1>2, Zenon
<1>4. ASSUME NEW i \in DOMAIN responsesQueue
      PROVE /\ responsesQueue[i] \in SyncItem /\ responsesQueue[i].from \in Nat /\ responsesQueue[i].to \in Nat
            /\ responsesQueue[i].stream \in Stream
  <2>1. responsesQueue[i] \in SyncItem
    BY DEF ViewTypes
  <2> QED BY <2>1 DEF SyncItem
<1>5. ASSUME NEW i \in DOMAIN sess[k].queue
      PROVE sess[k].queue[i] \in SyncResponse /\ (UpdateComing(i, k, s) => sess[k].queue[i].from \in Nat /\ sess[k].queue[i].to \in Nat)
  <2>1. sess[k].queue[i] \in SyncResponse
    BY <1>2
  <2> QED BY <2>1 DEF SyncResponse, SyncUpdate, UpdateComing
<1> QED BY <1>2, <1>3, <1>4, <1>5, Zenon DEF ViewTypes

\* The state of a stream when neither the client nor the session has changed for it, but the view may
\* have grown.
LEMMA StreamKept ==
  ASSUME ViewTypes, NEW k \in Session, NEW s \in Stream, responsesQueue' = responsesQueue, sess'[k] = sess[k],
         ViewGrows(s), cookie'[s] \in Nat, log'[s] \in Nat, StreamOK(k, s)
  PROVE StreamOK(k, s)'
<1>n. /\ sess[k].sent[s] \in Nat \cup {-1} /\ sess[k].asked[s] \in Nat \cup {-1} /\ cookie[s] \in Nat /\ log[s] \in Nat
      /\ \A i \in DOMAIN responsesQueue : responsesQueue[i].from \in Nat /\ responsesQueue[i].to \in Nat
      /\ \A i \in DOMAIN sess[k].queue : UpdateComing(i, k, s) => sess[k].queue[i].from \in Nat /\ sess[k].queue[i].to \in Nat
  BY ItemNumbers, Zenon
<1>1. \A i : (UpdateQueued(i, k, s)' <=> UpdateQueued(i, k, s)) /\ (UpdateComing(i, k, s)' <=> UpdateComing(i, k, s))
  BY Zenon DEF UpdateQueued, UpdateComing
<1>2. \A x : InPipe(k, s, x)' <=> InPipe(k, s, x)
  BY <1>1, Zenon DEF InPipe
<1>3. \A x, y \in Nat : ItemOK(k, s, x, y) => ItemOK(k, s, x, y)'
  BY <1>2, Zenon DEF ItemOK, ViewGrows
<1>4. ItemsOK(k, s)'
  BY <1>n, <1>1, <1>3, Zenon DEF ItemsOK, StreamOK
<1>5. Sorted(k, s)'
  BY <1>1, Zenon DEF Sorted, StreamOK
<1>6. SentOK(k, s)'
  <2>1. CASE sess[k].asked[s] # -1
    <3>1. sess[k].asked[s] \in Nat /\ sess[k].asked[s] <= cookie[s] /\ s \in streams /\ sess[k].sent[s] = -1
      BY <1>n, <2>1, Zenon DEF SentOK, StreamOK
    <3>2. sess[k].asked[s] <= cookie'[s]
      BY <1>n, <3>1 DEF ViewGrows
    <3> QED BY <3>1, <3>2, Zenon DEF SentOK, ViewGrows
  <2>2. CASE sess[k].asked[s] = -1 /\ sess[k].sent[s] # -1
    <3>1. /\ sess[k].sent[s] \in Nat /\ s \in streams /\ ViewUpTo(s, sess[k].sent[s]) /\ sess[k].sent[s] <= log[s]
          /\ Base(s, sess[k].sent[s]) \/ InPipe(k, s, sess[k].sent[s])
      BY <1>n, <2>2, Zenon DEF SentOK, StreamOK
    <3>2. sess[k].sent[s] <= log'[s]
      BY <1>n, <3>1 DEF ViewGrows
    <3>3. PICK x \in Nat : x = sess[k].sent[s]
      BY <3>1, Zenon
    <3>4. ViewUpTo(s, x)' /\ (Base(s, x)' \/ InPipe(k, s, x)')
      BY <1>2, <3>1, <3>3, Zenon DEF ViewGrows
    <3>5. ViewUpTo(s, sess[k].sent[s])' /\ (Base(s, sess[k].sent[s])' \/ InPipe(k, s, sess[k].sent[s])')
      BY <3>3, <3>4, Zenon DEF ViewUpTo, Base, InPipe, Had
    <3> QED BY <2>2, <3>1, <3>2, <3>5, Zenon DEF SentOK, ViewGrows
  <2>3. CASE sess[k].asked[s] = -1 /\ sess[k].sent[s] = -1
    BY <2>3, Zenon DEF SentOK
  <2> QED BY <2>1, <2>2, <2>3, Zenon
<1> QED BY <1>4, <1>5, <1>6, Zenon DEF StreamOK

\* Nothing of a stream that the session does not have is on its way.
LEMMA NoItems ==
  ASSUME ViewTypes, NEW k \in Session, NEW s \in Stream, ItemsOK(k, s), sess[k].sent[s] = -1
  PROVE /\ \A i \in DOMAIN responsesQueue : ~UpdateQueued(i, k, s)
        /\ \A i \in DOMAIN sess[k].queue : ~UpdateComing(i, k, s)
<1>1. \A x \in Nat : ~(x <= -1)
  OBVIOUS
<1>2. /\ \A i \in DOMAIN responsesQueue : responsesQueue[i].to \in Nat
      /\ \A i \in DOMAIN sess[k].queue : UpdateComing(i, k, s) => sess[k].queue[i].to \in Nat
  BY ItemNumbers, Zenon
<1> QED BY <1>1, <1>2, Zenon DEF ItemsOK, ItemOK

\* A step that leaves the session and the queue alone owes nothing new to a stream that the client does not have.
LEMMA StreamUnknown ==
  ASSUME ViewTypes, NEW k \in Session, NEW s \in Stream, responsesQueue' = responsesQueue, sess'[k] = sess[k],
         s \notin streams, StreamOK(k, s)
  PROVE StreamOK(k, s)'
<1>1. sess[k].sent[s] = -1 /\ sess[k].asked[s] = -1
  BY Zenon DEF StreamOK, SentOK
<1>2. /\ \A i \in DOMAIN responsesQueue : ~UpdateQueued(i, k, s)
      /\ \A i \in DOMAIN sess[k].queue : ~UpdateComing(i, k, s)
  BY <1>1, NoItems, Zenon DEF StreamOK
<1>3. \A i : (UpdateQueued(i, k, s)' <=> UpdateQueued(i, k, s)) /\ (UpdateComing(i, k, s)' <=> UpdateComing(i, k, s))
  BY Zenon DEF UpdateQueued, UpdateComing
<1> QED BY <1>1, <1>2, <1>3, Zenon DEF StreamOK, ItemsOK, Sorted, SentOK

(***************************************************************************)
(* Steps of the queues.                                                    *)
(***************************************************************************)

\* The session keeps its updates of a stream, be they d places further on.
UpdatesSame(k, s, d) ==
  LET q == sess[k].queue   p == sess'[k].queue
  IN /\ \A i \in DOMAIN p : p[i].op = "UPDATE" /\ p[i].stream = s => i \in Nat /\ i + d \in DOMAIN q /\ p[i] = q[i + d]
     /\ \A j \in DOMAIN q : q[j].op = "UPDATE" /\ q[j].stream = s => j \in Nat /\ j - d \in DOMAIN p /\ p[j - d] = q[j]

ClientSame == UNCHANGED <<responsesQueue, tick, streams, cookie, timeline, unapplied, log>>

LEMMA ClientSameFacts ==
  ASSUME ClientSame, NEW s
  PROVE /\ (TickOf(s)' <=> TickOf(s)) /\ \A x : (Base(s, x)' <=> Base(s, x)) /\ (ViewUpTo(s, x)' <=> ViewUpTo(s, x))
        /\ \A i, k : UpdateQueued(i, k, s)' <=> UpdateQueued(i, k, s)
<1>1. TickOf(s)' <=> TickOf(s)
  BY Zenon DEF ClientSame, TickOf
<1> QED BY <1>1, Zenon DEF ClientSame, Base, ViewUpTo, UpdateQueued, Had

\* The session has taken or sent other things.
LEMMA StreamShifted ==
  ASSUME ViewTypes, NEW k \in Session, NEW s \in Stream, NEW d \in {0, 1}, ClientSame, UpdatesSame(k, s, d),
         sess'[k].asked[s] = sess[k].asked[s], sess'[k].sent[s] = sess[k].sent[s], StreamOK(k, s)
  PROVE StreamOK(k, s)'
<1>1. \A i \in DOMAIN sess'[k].queue : UpdateComing(i, k, s)' =>
        i \in Nat /\ i + d \in DOMAIN sess[k].queue /\ UpdateComing(i + d, k, s) /\ sess'[k].queue[i] = sess[k].queue[i + d]
  BY Zenon DEF UpdatesSame, UpdateComing
<1>2. \A j \in DOMAIN sess[k].queue : UpdateComing(j, k, s) =>
        \E i \in DOMAIN sess'[k].queue : UpdateComing(i, k, s)' /\ sess'[k].queue[i] = sess[k].queue[j]
  <2> SUFFICES ASSUME NEW j \in DOMAIN sess[k].queue, UpdateComing(j, k, s)
               PROVE \E i \in DOMAIN sess'[k].queue : UpdateComing(i, k, s)' /\ sess'[k].queue[i] = sess[k].queue[j]
    BY Zenon
  <2>1. j - d \in DOMAIN sess'[k].queue /\ sess'[k].queue[j - d] = sess[k].queue[j]
    BY Zenon DEF UpdatesSame, UpdateComing
  <2>2. UpdateComing(j - d, k, s)'
    BY <2>1, Zenon DEF UpdateComing
  <2> QED BY <2>1, <2>2, Zenon
<1>c. /\ (TickOf(s)' <=> TickOf(s)) /\ \A x : (Base(s, x)' <=> Base(s, x)) /\ (ViewUpTo(s, x)' <=> ViewUpTo(s, x))
      /\ \A i : UpdateQueued(i, k, s)' <=> UpdateQueued(i, k, s)
      /\ responsesQueue' = responsesQueue /\ streams' = streams /\ cookie' = cookie /\ log' = log
  BY ClientSameFacts, Zenon DEF ClientSame
<1>3. \A x : InPipe(k, s, x) => InPipe(k, s, x)'
  BY <1>c, <1>2, Zenon DEF InPipe
<1>4. \A x, y : ItemOK(k, s, x, y) => ItemOK(k, s, x, y)'
  BY <1>c, <1>3, Zenon DEF ItemOK
<1>5. ItemsOK(k, s)'
  <2>1. ASSUME NEW i \in DOMAIN responsesQueue', UpdateQueued(i, k, s)' PROVE ItemOK(k, s, responsesQueue[i].from, responsesQueue[i].to)'
    <3>1. PICK x, y : x = responsesQueue[i].from /\ y = responsesQueue[i].to /\ x = responsesQueue'[i].from /\ y = responsesQueue'[i].to
      BY <1>c, Zenon
    <3>2. ItemOK(k, s, x, y)
      BY <1>c, <2>1, <3>1, Zenon DEF StreamOK, ItemsOK
    <3>3. ItemOK(k, s, x, y)'
      BY <1>4, <3>2, Zenon
    <3> QED BY <3>1, <3>3, Zenon DEF ItemOK, ViewUpTo, Base, InPipe, Had
  <2>2. ASSUME NEW i \in DOMAIN sess'[k].queue, UpdateComing(i, k, s)' PROVE ItemOK(k, s, sess[k].queue[i].from, sess[k].queue[i].to)'
    <3>1. PICK x, y : x = sess'[k].queue[i].from /\ y = sess'[k].queue[i].to
      BY ZenonT(30)
    <3>2. ItemOK(k, s, x, y)
      <4>1. PICK j : j = i + d
        OBVIOUS
      <4>2. j \in DOMAIN sess[k].queue /\ UpdateComing(j, k, s) /\ sess'[k].queue[i] = sess[k].queue[j]
        BY <1>1, <2>2, <4>1, Zenon
      <4> QED BY <3>1, <4>2, Zenon DEF StreamOK, ItemsOK
    <3>3. ItemOK(k, s, x, y)'
      BY <1>4, <3>2, Zenon
    <3> QED BY <3>1, <3>3, Zenon DEF ItemOK, ViewUpTo, Base, InPipe, Had
  <2> QED BY <2>1, <2>2, Zenon DEF ItemsOK
<1>6. Sorted(k, s)'
  <2>1. \A i, j \in DOMAIN responsesQueue' :
          i < j /\ UpdateQueued(i, k, s)' /\ UpdateQueued(j, k, s)' => responsesQueue'[i].to <= responsesQueue'[j].to
    BY <1>c, Zenon DEF StreamOK, Sorted
  <2>2. \A i \in DOMAIN responsesQueue', j \in DOMAIN sess'[k].queue :
          UpdateQueued(i, k, s)' /\ UpdateComing(j, k, s)' => responsesQueue'[i].to <= sess'[k].queue[j].to
    BY <1>c, <1>1, Zenon DEF StreamOK, Sorted
  <2>3. \A i, j \in DOMAIN sess'[k].queue :
          i < j /\ UpdateComing(i, k, s)' /\ UpdateComing(j, k, s)' => sess'[k].queue[i].to <= sess'[k].queue[j].to
    <3>1. \A i, j \in Nat : i < j => i + d < j + d
      OBVIOUS
    <3> QED BY <1>1, <3>1, Zenon DEF StreamOK, Sorted
  <2> QED BY <2>1, <2>2, <2>3, Zenon DEF Sorted
<1>7. SentOK(k, s)'
  <2>1. PICK x : x = sess[k].sent[s]
    OBVIOUS
  <2>2. x # -1 => /\ s \in streams /\ ViewUpTo(s, x) /\ x <= log[s]
                  /\ Base(s, x) \/ InPipe(k, s, x)
    BY <2>1, Zenon DEF StreamOK, SentOK
  <2>3. x # -1 => /\ s \in streams' /\ ViewUpTo(s, x)' /\ x <= log'[s]
                  /\ Base(s, x)' \/ InPipe(k, s, x)'
    BY <1>c, <1>3, <2>2, Zenon
  <2>4. sess'[k].sent[s] = x
    BY <2>1, Zenon
  <2>5. sess'[k].sent[s] # -1 =>
          /\ s \in streams' /\ ViewUpTo(s, sess[k].sent[s])' /\ sess'[k].sent[s] <= log'[s]
          /\ Base(s, sess[k].sent[s])' \/ InPipe(k, s, sess[k].sent[s])'
    BY <2>3, <2>4, Zenon DEF ViewUpTo, Base, InPipe, Had
  <2>6. sess'[k].asked[s] # -1 => s \in streams' /\ sess'[k].asked[s] <= cookie'[s] /\ sess'[k].sent[s] = -1
    BY <1>c, Zenon DEF StreamOK, SentOK
  <2> QED BY <2>5, <2>6, Zenon DEF SentOK
<1> QED BY <1>5, <1>6, <1>7, Zenon DEF StreamOK

\* For other streams, an update behind theirs changes nothing.
LEMMA OthersAppended ==
  ASSUME ViewTypes, NEW k \in Session, NEW s, NEW e \in SyncResponse, sess'[k].queue = Append(sess[k].queue, e),
         ~(e.op = "UPDATE" /\ e.stream = s)
  PROVE UpdatesSame(k, s, 0)
<1>1. PICK q, p : q \in Seq(SyncResponse) /\ q = sess[k].queue /\ p = sess'[k].queue /\ p = Append(q, e)
  <2>1. sess[k].queue \in Seq(SyncResponse)
    BY DEF ViewTypes, SyncSession
  <2> QED BY <2>1, Zenon
<1>2. /\ \A i \in DOMAIN q : i \in DOMAIN p /\ p[i] = q[i]
      /\ \A i \in DOMAIN p : i \in DOMAIN q \/ p[i] = e
  BY <1>1
<1>3. \A i \in DOMAIN q : i \in Nat /\ i + 0 = i /\ i - 0 = i
  BY <1>1
<1>4. \A i \in DOMAIN p : p[i].op = "UPDATE" /\ p[i].stream = s => i \in Nat /\ i + 0 \in DOMAIN q /\ p[i] = q[i + 0]
  BY <1>2, <1>3, Zenon
<1>5. \A j \in DOMAIN q : q[j].op = "UPDATE" /\ q[j].stream = s => j \in Nat /\ j - 0 \in DOMAIN p /\ p[j - 0] = q[j]
  BY <1>2, <1>3, Zenon
<1> QED BY <1>1, <1>4, <1>5, ZenonT(30) DEF UpdatesSame

\* Nor does the first response of the session, when it is not for them.
LEMMA OtherPopped ==
  ASSUME ViewTypes, NEW k \in Session, NEW s, sess[k].queue # << >>, sess'[k].queue = Tail(sess[k].queue),
         ~(sess[k].queue[1].op = "UPDATE" /\ sess[k].queue[1].stream = s)
  PROVE UpdatesSame(k, s, 1)
<1>1. PICK q, p : q \in Seq(SyncResponse) /\ q = sess[k].queue /\ p = sess'[k].queue /\ p = Tail(q) /\ q # << >>
  <2>1. sess[k].queue \in Seq(SyncResponse)
    BY DEF ViewTypes, SyncSession
  <2> QED BY <2>1, Zenon
<1>2. /\ \A i \in DOMAIN p : i \in Nat /\ i + 1 \in DOMAIN q /\ p[i] = q[i + 1]
      /\ \A j \in DOMAIN q : j \in Nat /\ (j # 1 => j - 1 \in DOMAIN p /\ (j - 1) + 1 = j)
  BY SMTT(30), Z3T(30), <1>1
<1>3. \A j \in DOMAIN q : j # 1 => p[j - 1] = q[j]
  BY <1>2, Zenon
<1>4. ~(q[1].op = "UPDATE" /\ q[1].stream = s)
  BY <1>1, Zenon
<1>5. \A j \in DOMAIN q : q[j].op = "UPDATE" /\ q[j].stream = s => j \in Nat /\ j - 1 \in DOMAIN p /\ p[j - 1] = q[j]
  BY <1>2, <1>3, <1>4, Zenon
<1> QED BY <1>1, <1>2, <1>5, Zenon DEF UpdatesSame

\* A new update of a stream, behind all others and up to what the session has sent.
NewUpdate(k, s, e) ==
  /\ e \in SyncUpdate /\ e.stream = s /\ sess'[k].queue = Append(sess[k].queue, e)
  /\ sess'[k].sent[s] = e.to /\ sess'[k].asked[s] = -1
  /\ s \in streams /\ ViewUpTo(s, e.to) /\ e.to <= log[s]
  /\ Base(s, e.from) \/ (e.from < e.to /\ InPipe(k, s, e.from))
  /\ sess[k].sent[s] <= e.to

\* A new update chains with those on their way.
LEMMA StreamAppended ==
  ASSUME ViewTypes, NEW k \in Session, NEW s \in Stream, ClientSame, NEW e, NewUpdate(k, s, e), StreamOK(k, s)
  PROVE StreamOK(k, s)'
<1>1. PICK q, p, n : q \in Seq(SyncResponse) /\ q = sess[k].queue /\ p = sess'[k].queue /\ p = Append(q, e) /\ n = Len(q) + 1
  <2>1. sess[k].queue \in Seq(SyncResponse)
    BY ItemNumbers, Zenon
  <2> QED BY <2>1, Zenon DEF NewUpdate
<1>e. e \in SyncUpdate /\ e \in SyncResponse /\ e.op = "UPDATE" /\ e.stream = s /\ e.to \in Nat /\ e.from \in Nat
  BY DEF NewUpdate, SyncUpdate, SyncResponse
<1>2. /\ n \in DOMAIN p /\ p[n] = e
      /\ \A i \in DOMAIN q : i \in DOMAIN p /\ p[i] = q[i] /\ i < n
      /\ \A i \in DOMAIN p : i \in DOMAIN q \/ i = n
  BY SMTT(30), Z3T(30), Z3T(30), <1>1, <1>e
<1>n. /\ \A i \in DOMAIN q : i \in Nat /\ ~(n < i)
      /\ n \in Nat /\ ~(n < n)
  BY <1>1
<1>c. /\ (TickOf(s)' <=> TickOf(s)) /\ \A x : (Base(s, x)' <=> Base(s, x)) /\ (ViewUpTo(s, x)' <=> ViewUpTo(s, x))
      /\ \A i : UpdateQueued(i, k, s)' <=> UpdateQueued(i, k, s)
      /\ responsesQueue' = responsesQueue /\ streams' = streams /\ cookie' = cookie /\ log' = log
  BY ClientSameFacts, Zenon DEF ClientSame
<1>3. UpdateComing(n, k, s)' /\ \A i \in DOMAIN q : UpdateComing(i, k, s)' <=> UpdateComing(i, k, s)
  BY <1>1, <1>2, <1>e, Zenon DEF UpdateComing
<1>4. \A x : InPipe(k, s, x) => InPipe(k, s, x)'
  BY <1>1, <1>2, <1>3, <1>c, Zenon DEF InPipe
<1>5. InPipe(k, s, e.to)'
  BY <1>1, <1>2, <1>3, Zenon DEF InPipe
<1>s. sess'[k].sent[s] = e.to /\ sess'[k].asked[s] = -1 /\ sess[k].sent[s] <= e.to /\ sess[k].sent[s] \in Nat \cup {-1}
  BY ItemNumbers, Zenon DEF NewUpdate
<1>6. \A x, y : y \in Nat /\ ItemOK(k, s, x, y) => ItemOK(k, s, x, y)' /\ y <= e.to
  <2>1. \A y \in Nat : y <= sess[k].sent[s] => y <= e.to
    BY <1>s, <1>e
  <2> QED BY <1>s, <1>c, <1>4, <2>1, Zenon DEF ItemOK
<1>7. ItemOK(k, s, e.from, e.to)'
  <2>1. e.to <= e.to
    BY <1>e
  <2> QED BY <1>s, <1>c, <1>4, <2>1, Zenon DEF ItemOK, NewUpdate
<1>t. /\ \A i \in DOMAIN responsesQueue : responsesQueue[i].to \in Nat
      /\ \A i \in DOMAIN q : UpdateComing(i, k, s) => q[i].to \in Nat
  BY <1>1, ItemNumbers, Zenon
<1>i. /\ \A i \in DOMAIN responsesQueue : UpdateQueued(i, k, s) => ItemOK(k, s, responsesQueue[i].from, responsesQueue[i].to)
      /\ \A i \in DOMAIN q : UpdateComing(i, k, s) => ItemOK(k, s, q[i].from, q[i].to)
  BY <1>1, Zenon DEF StreamOK, ItemsOK
<1>8. ItemsOK(k, s)'
  <2>1. ASSUME NEW i \in DOMAIN responsesQueue', UpdateQueued(i, k, s)' PROVE ItemOK(k, s, responsesQueue[i].from, responsesQueue[i].to)'
    <3>1. PICK x, y : x = responsesQueue[i].from /\ y = responsesQueue[i].to /\ x = responsesQueue'[i].from /\ y = responsesQueue'[i].to
      BY <1>c, Zenon
    <3>2. ItemOK(k, s, x, y)'
      BY <1>c, <1>t, <1>i, <1>6, <2>1, <3>1, Zenon
    <3> QED BY <3>1, <3>2, Zenon DEF ItemOK, ViewUpTo, Base, InPipe, Had
  <2>2. ASSUME NEW i \in DOMAIN p, UpdateComing(i, k, s)' PROVE ItemOK(k, s, sess[k].queue[i].from, sess[k].queue[i].to)'
    <3>1. PICK x, y : x = p[i].from /\ y = p[i].to
      OBVIOUS
    <3>2. ItemOK(k, s, x, y)'
      <4>1. CASE i \in DOMAIN q
        BY <1>2, <1>3, <1>t, <1>i, <1>6, <2>2, <3>1, <4>1, Zenon
      <4>2. CASE i = n
        BY <1>2, <1>7, <3>1, <4>2, Zenon
      <4> QED BY <1>2, <4>1, <4>2, Zenon
    <3> QED BY <1>1, <3>1, <3>2, Zenon DEF ItemOK, ViewUpTo, Base, InPipe, Had
  <2> QED BY <1>1, <2>1, <2>2, Zenon DEF ItemsOK
<1>9. Sorted(k, s)'
  <2>1. \A i, j \in DOMAIN responsesQueue' :
          i < j /\ UpdateQueued(i, k, s)' /\ UpdateQueued(j, k, s)' => responsesQueue'[i].to <= responsesQueue'[j].to
    BY <1>c, Zenon DEF StreamOK, Sorted
  <2>2. ASSUME NEW i \in DOMAIN responsesQueue, NEW j \in DOMAIN p, UpdateQueued(i, k, s), UpdateComing(j, k, s)'
        PROVE responsesQueue[i].to <= p[j].to
    <3>1. CASE j \in DOMAIN q
      BY <1>1, <1>2, <1>3, <2>2, <3>1, Zenon DEF StreamOK, Sorted
    <3>2. CASE j = n
      BY <1>2, <1>t, <1>i, <1>6, <2>2, <3>2, Zenon
    <3> QED BY <1>2, <3>1, <3>2, Zenon
  <2>3. ASSUME NEW i \in DOMAIN p, NEW j \in DOMAIN p, i < j, UpdateComing(i, k, s)', UpdateComing(j, k, s)'
        PROVE p[i].to <= p[j].to
    <3>0. i \in DOMAIN q
      BY <1>2, <1>n, <2>3, Zenon
    <3>1. CASE j \in DOMAIN q
      BY <1>1, <1>2, <1>3, <2>3, <3>0, <3>1, Zenon DEF StreamOK, Sorted
    <3>2. CASE j = n
      BY <1>2, <1>3, <1>t, <1>i, <1>6, <2>3, <3>0, <3>2, Zenon
    <3> QED BY <1>2, <3>1, <3>2, Zenon
  <2> QED BY <1>1, <1>c, <2>1, <2>2, <2>3, Zenon DEF Sorted
<1>10. SentOK(k, s)'
  <2>1. PICK x : x = e.to
    OBVIOUS
  <2>2. s \in streams' /\ ViewUpTo(s, x)' /\ x <= log'[s] /\ InPipe(k, s, x)'
    BY <1>c, <1>5, <2>1, Zenon DEF NewUpdate
  <2>3. s \in streams' /\ ViewUpTo(s, sess[k].sent[s])' /\ sess'[k].sent[s] <= log'[s] /\ InPipe(k, s, sess[k].sent[s])'
    BY <1>s, <2>1, <2>2, Zenon DEF ViewUpTo, InPipe
  <2> QED BY <1>s, <2>3, Zenon DEF SentOK
<1> QED BY <1>8, <1>9, <1>10, Zenon DEF StreamOK

\* The first update of the session goes to the end of responsesQueue.
UpdateTaken(k) ==
  /\ sess[k].queue # << >> /\ sess[k].queue[1].op = "UPDATE" /\ sess'[k].queue = Tail(sess[k].queue)
  /\ sess'[k].asked = sess[k].asked /\ sess'[k].sent = sess[k].sent
  /\ UNCHANGED <<tick, streams, cookie, timeline, unapplied, log>>
  /\ LET r == sess[k].queue[1]
     IN responsesQueue' = Append(responsesQueue, [session |-> k, stream |-> r.stream, from |-> r.from, to |-> r.to,
                                                  reset |-> r.reset, orphan |-> FALSE])

\* An update keeps its place as it moves from the session to the client.
LEMMA StreamTaken ==
  ASSUME ViewTypes, NEW k \in Session, NEW s \in Stream, UpdateTaken(k), StreamOK(k, s)
  PROVE StreamOK(k, s)'
<1>q. PICK q, p : q \in Seq(SyncResponse) /\ q = sess[k].queue /\ p = sess'[k].queue /\ q # << >> /\ p = Tail(q)
  <2>1. sess[k].queue \in Seq(SyncResponse)
    BY ItemNumbers, Zenon
  <2> QED BY <2>1, Zenon DEF UpdateTaken
<1>r. PICK r, e : r = q[1] /\ e = [session |-> k, stream |-> r.stream, from |-> r.from, to |-> r.to,
                                  reset |-> r.reset, orphan |-> FALSE]
  BY Zenon
<1>a. PICK a, b, m : a \in Seq(SyncItem) /\ a = responsesQueue /\ b = responsesQueue' /\ b = Append(a, e) /\ m = Len(a) + 1
  <2>1. responsesQueue \in Seq(SyncItem)
    BY Zenon DEF ViewTypes
  <2> QED BY <1>q, <1>r, <2>1, Zenon DEF UpdateTaken
<1>1. q = sess[k].queue /\ p = sess'[k].queue /\ a = responsesQueue /\ b = responsesQueue' /\ q[1].op = "UPDATE"
  BY <1>q, <1>a, Zenon DEF UpdateTaken
<1>e. e.session = k /\ e.stream = q[1].stream /\ e.from = q[1].from /\ e.to = q[1].to
  BY <1>r
<1>2. /\ m \in DOMAIN b /\ b[m] = e
      /\ \A i \in DOMAIN a : i \in DOMAIN b /\ b[i] = a[i]
      /\ \A i \in DOMAIN b : i \in DOMAIN a \/ i = m
  BY <1>a
<1>3. /\ 1 \in DOMAIN q
      /\ \A i \in DOMAIN p : i + 1 \in DOMAIN q /\ p[i] = q[i + 1] /\ 1 < i + 1
      /\ \A j \in DOMAIN q : j # 1 => j - 1 \in DOMAIN p /\ p[j - 1] = q[j]
      /\ \A i, j \in DOMAIN p : i < j => i + 1 < j + 1
  <2>1. DOMAIN q = 1 .. Len(q) /\ DOMAIN p = 1 .. (Len(q) - 1) /\ Len(q) \in Nat /\ 1 \in DOMAIN q
    BY <1>q
  <2>2. \A i \in DOMAIN p : i + 1 \in DOMAIN q /\ p[i] = q[i + 1] /\ 1 < i + 1
    BY <1>q, <2>1
  <2>3. \A j \in DOMAIN q : j # 1 => j - 1 \in DOMAIN p /\ (j - 1) + 1 = j
    BY <2>1
  <2>4. \A i, j \in DOMAIN p : i < j => i + 1 < j + 1
    BY <2>1
  <2> QED BY <2>1, <2>2, <2>3, <2>4, Zenon
<1>n. /\ \A i \in DOMAIN a : ~(m < i)
      /\ ~(m < m)
  <2>1. DOMAIN a = 1 .. Len(a) /\ Len(a) \in Nat /\ m = Len(a) + 1
    BY <1>a
  <2> QED BY <2>1
<1>4. (UpdateQueued(m, k, s)' <=> UpdateComing(1, k, s)) /\ \A i \in DOMAIN a : UpdateQueued(i, k, s)' <=> UpdateQueued(i, k, s)
  BY <1>1, <1>2, <1>e, Zenon DEF UpdateQueued, UpdateComing
<1>5. \A i \in DOMAIN p : UpdateComing(i, k, s)' <=> UpdateComing(i + 1, k, s)
  BY <1>1, <1>3, Zenon DEF UpdateComing
<1>6. \A j \in DOMAIN q : j # 1 => (UpdateComing(j - 1, k, s)' <=> UpdateComing(j, k, s))
  BY <1>1, <1>3, Zenon DEF UpdateComing
<1>7. \A x : InPipe(k, s, x) => InPipe(k, s, x)'
  <2>1. ASSUME NEW x, NEW i \in DOMAIN a, UpdateQueued(i, k, s), a[i].to = x PROVE InPipe(k, s, x)'
    BY <1>1, <1>2, <1>4, <2>1, Zenon DEF InPipe
  <2>2. ASSUME NEW x, NEW j \in DOMAIN q, UpdateComing(j, k, s), q[j].to = x PROVE InPipe(k, s, x)'
    <3>1. CASE j = 1
      BY <1>1, <1>2, <1>4, <1>e, <2>2, <3>1, Zenon DEF InPipe
    <3>2. CASE j # 1
      <4>1. PICK i \in DOMAIN p : UpdateComing(i, k, s)' /\ p[i] = q[j]
        BY <1>3, <1>6, <2>2, <3>2, Zenon
      <4> QED BY <1>1, <2>2, <4>1, Zenon DEF InPipe
    <3> QED BY <3>1, <3>2, Zenon
  <2> QED BY <1>1, <2>1, <2>2, Zenon DEF InPipe
<1>c. /\ \A x : (Base(s, x)' <=> Base(s, x)) /\ (ViewUpTo(s, x)' <=> ViewUpTo(s, x))
      /\ sess'[k].sent = sess[k].sent /\ sess'[k].asked = sess[k].asked /\ streams' = streams /\ cookie' = cookie /\ log' = log
  <2>1. TickOf(s)' <=> TickOf(s)
    BY Zenon DEF UpdateTaken, TickOf
  <2> QED BY <2>1, Zenon DEF UpdateTaken, Base, ViewUpTo, Had
<1>8. \A x, y : ItemOK(k, s, x, y) => ItemOK(k, s, x, y)'
  BY <1>c, <1>7, Zenon DEF ItemOK
<1>i. /\ \A i \in DOMAIN a : UpdateQueued(i, k, s) => ItemOK(k, s, a[i].from, a[i].to)
      /\ \A i \in DOMAIN q : UpdateComing(i, k, s) => ItemOK(k, s, q[i].from, q[i].to)
  BY <1>1, Zenon DEF StreamOK, ItemsOK
<1>9. ItemsOK(k, s)'
  <2>1. ASSUME NEW i \in DOMAIN b, UpdateQueued(i, k, s)' PROVE ItemOK(k, s, responsesQueue[i].from, responsesQueue[i].to)'
    <3>1. PICK x, y : x = b[i].from /\ y = b[i].to
      OBVIOUS
    <3>2. ItemOK(k, s, x, y)
      <4>1. CASE i \in DOMAIN a
        BY <1>2, <1>4, <1>i, <2>1, <3>1, <4>1, Zenon
      <4>2. CASE i = m
        BY <1>1, <1>2, <1>3, <1>4, <1>e, <1>i, <2>1, <3>1, <4>2, ZenonT(30)
      <4> QED BY <1>2, <4>1, <4>2, Zenon
    <3>3. ItemOK(k, s, x, y)'
      BY <1>8, <3>2, Zenon
    <3> QED BY <1>1, <3>1, <3>3, Zenon DEF ItemOK, ViewUpTo, Base, InPipe, Had
  <2>2. ASSUME NEW i \in DOMAIN p, UpdateComing(i, k, s)' PROVE ItemOK(k, s, sess[k].queue[i].from, sess[k].queue[i].to)'
    <3>1. PICK x, y : x = p[i].from /\ y = p[i].to
      OBVIOUS
    <3>2. ItemOK(k, s, x, y)
      BY <1>3, <1>5, <1>i, <2>2, <3>1, Zenon
    <3>3. ItemOK(k, s, x, y)'
      BY <1>8, <3>2, Zenon
    <3> QED BY <1>1, <3>1, <3>3, Zenon DEF ItemOK, ViewUpTo, Base, InPipe, Had
  <2> QED BY <1>1, <2>1, <2>2, Zenon DEF ItemsOK
<1>10. Sorted(k, s)'
  <2>s. /\ \A i, j \in DOMAIN a : i < j /\ UpdateQueued(i, k, s) /\ UpdateQueued(j, k, s) => a[i].to <= a[j].to
        /\ \A i \in DOMAIN a, j \in DOMAIN q : UpdateQueued(i, k, s) /\ UpdateComing(j, k, s) => a[i].to <= q[j].to
        /\ \A i, j \in DOMAIN q : i < j /\ UpdateComing(i, k, s) /\ UpdateComing(j, k, s) => q[i].to <= q[j].to
    BY <1>1, Zenon DEF StreamOK, Sorted
  <2>1. ASSUME NEW i \in DOMAIN b, NEW j \in DOMAIN b, i < j, UpdateQueued(i, k, s)', UpdateQueued(j, k, s)' PROVE b[i].to <= b[j].to
    <3>0. i \in DOMAIN a
      BY <1>2, <1>n, <2>1, Zenon
    <3>1. CASE j \in DOMAIN a
      BY <1>2, <1>4, <2>s, <2>1, <3>0, <3>1, Zenon
    <3>2. CASE j = m
      <4>1. UpdateComing(1, k, s) /\ b[j].to = q[1].to
        BY <1>2, <1>4, <1>e, <2>1, <3>2, Zenon
      <4>2. UpdateQueued(i, k, s) /\ b[i] = a[i]
        BY <1>2, <1>4, <2>1, <3>0, Zenon
      <4>3. a[i].to <= q[1].to
        BY <1>3, <2>s, <3>0, <4>1, <4>2, Zenon
      <4> QED BY <4>1, <4>2, <4>3, Zenon
    <3> QED BY <1>2, <3>1, <3>2, Zenon
  <2>2. ASSUME NEW i \in DOMAIN b, NEW j \in DOMAIN p, UpdateQueued(i, k, s)', UpdateComing(j, k, s)' PROVE b[i].to <= p[j].to
    <3>1. CASE i \in DOMAIN a
      BY <1>2, <1>3, <1>4, <1>5, <2>s, <2>2, <3>1, Zenon
    <3>2. CASE i = m
      <4>1. UpdateComing(1, k, s) /\ b[i].to = q[1].to
        BY <1>2, <1>4, <1>e, <2>2, <3>2, Zenon
      <4>2. UpdateComing(j + 1, k, s) /\ p[j] = q[j + 1] /\ 1 < j + 1 /\ j + 1 \in DOMAIN q
        BY <1>3, <1>5, <2>2, Zenon
      <4>3. q[1].to <= q[j + 1].to
        BY <1>3, <2>s, <4>1, <4>2, Zenon
      <4> QED BY <4>1, <4>2, <4>3, Zenon
    <3> QED BY <1>2, <3>1, <3>2, Zenon
  <2>3. ASSUME NEW i \in DOMAIN p, NEW j \in DOMAIN p, i < j, UpdateComing(i, k, s)', UpdateComing(j, k, s)' PROVE p[i].to <= p[j].to
    BY <1>3, <1>5, <2>s, <2>3, Zenon
  <2> QED BY <1>1, <2>1, <2>2, <2>3, Zenon DEF Sorted
<1>11. SentOK(k, s)'
  <2>1. PICK x : x = sess[k].sent[s]
    OBVIOUS
  <2>2. x # -1 => /\ s \in streams /\ ViewUpTo(s, x) /\ x <= log[s]
                  /\ Base(s, x) \/ InPipe(k, s, x)
    BY <2>1, Zenon DEF StreamOK, SentOK
  <2>3. x # -1 => /\ s \in streams' /\ ViewUpTo(s, x)' /\ x <= log'[s]
                  /\ Base(s, x)' \/ InPipe(k, s, x)'
    BY <1>c, <1>7, <2>2, Zenon
  <2>4. sess'[k].sent[s] = x
    BY <1>c, <2>1, Zenon
  <2>5. sess'[k].sent[s] # -1 =>
          /\ s \in streams' /\ ViewUpTo(s, sess[k].sent[s])' /\ sess'[k].sent[s] <= log'[s]
          /\ Base(s, sess[k].sent[s])' \/ InPipe(k, s, sess[k].sent[s])'
    BY <2>3, <2>4, Zenon DEF ViewUpTo, Base, InPipe, Had
  <2>6. sess'[k].asked[s] # -1 => s \in streams' /\ sess'[k].asked[s] <= cookie'[s] /\ sess'[k].sent[s] = -1
    BY <1>c, Zenon DEF StreamOK, SentOK
  <2> QED BY <2>5, <2>6, Zenon DEF SentOK
<1> QED BY <1>9, <1>10, <1>11, Zenon DEF StreamOK

\* responsesQueue loses its first item, which is not an update of the stream in session k.
ItemDropped(k, s) ==
  /\ responsesQueue # << >> /\ responsesQueue' = Tail(responsesQueue) /\ ~UpdateQueued(1, k, s)
  /\ sess'[k] = sess[k] /\ UNCHANGED <<streams, cookie, timeline, unapplied, log>> /\ ~TickOf(s) /\ ~TickOf(s)'

\* An update for another stream is done with.
LEMMA StreamDropped ==
  ASSUME ViewTypes, NEW k \in Session, NEW s \in Stream, ItemDropped(k, s), StreamOK(k, s)
  PROVE StreamOK(k, s)'
<1>a. PICK a, b : a \in Seq(SyncItem) /\ a = responsesQueue /\ b = responsesQueue' /\ a # << >> /\ b = Tail(a)
  BY Zenon DEF ViewTypes, ItemDropped
<1>3. /\ 1 \in DOMAIN a
      /\ \A i \in DOMAIN b : i + 1 \in DOMAIN a /\ b[i] = a[i + 1]
      /\ \A j \in DOMAIN a : j # 1 => j - 1 \in DOMAIN b /\ b[j - 1] = a[j]
      /\ \A i, j \in DOMAIN b : i < j => i + 1 < j + 1
  <2>1. DOMAIN a = 1 .. Len(a) /\ DOMAIN b = 1 .. (Len(a) - 1) /\ Len(a) \in Nat /\ 1 \in DOMAIN a
    BY <1>a
  <2>2. \A i \in DOMAIN b : i + 1 \in DOMAIN a /\ b[i] = a[i + 1]
    BY <1>a, <2>1
  <2>3. \A j \in DOMAIN a : j # 1 => j - 1 \in DOMAIN b /\ (j - 1) + 1 = j
    BY <2>1
  <2>4. \A i, j \in DOMAIN b : i < j => i + 1 < j + 1
    BY <2>1
  <2> QED BY <2>1, <2>2, <2>3, <2>4, Zenon
<1>c. /\ \A x : (Base(s, x)' <=> Base(s, x)) /\ (ViewUpTo(s, x)' <=> ViewUpTo(s, x))
      /\ sess'[k] = sess[k] /\ streams' = streams /\ cookie' = cookie /\ log' = log /\ ~UpdateQueued(1, k, s)
      /\ \A i : UpdateComing(i, k, s)' <=> UpdateComing(i, k, s)
  BY Zenon DEF ItemDropped, Base, ViewUpTo, UpdateComing, Had
<1>4. \A i \in DOMAIN b : UpdateQueued(i, k, s)' <=> UpdateQueued(i + 1, k, s)
  BY <1>a, <1>3, Zenon DEF UpdateQueued
<1>5. ASSUME NEW j \in DOMAIN a, UpdateQueued(j, k, s) PROVE \E i \in DOMAIN b : UpdateQueued(i, k, s)' /\ b[i] = a[j]
  <2>1. PICK i \in DOMAIN b : b[i] = a[j]
    BY <1>3, <1>5, <1>c, Zenon
  <2>2. UpdateQueued(i, k, s)'
    BY <1>a, <1>5, <2>1, Zenon DEF UpdateQueued
  <2> QED BY <2>1, <2>2, Zenon
<1>7. ASSUME NEW x, InPipe(k, s, x) PROVE InPipe(k, s, x)'
  <2>1. ASSUME NEW j \in DOMAIN a, UpdateQueued(j, k, s), a[j].to = x PROVE InPipe(k, s, x)'
    BY <1>a, <1>5, <2>1, Zenon DEF InPipe
  <2>2. ASSUME NEW j \in DOMAIN sess[k].queue, UpdateComing(j, k, s), sess[k].queue[j].to = x PROVE InPipe(k, s, x)'
    BY <1>c, <2>2, Zenon DEF InPipe
  <2> QED BY <1>a, <1>7, <2>1, <2>2, Zenon DEF InPipe
<1>8. \A x, y : ItemOK(k, s, x, y) => ItemOK(k, s, x, y)'
  BY <1>c, <1>7, Zenon DEF ItemOK
<1>9. ItemsOK(k, s)'
  <2>1. ASSUME NEW i \in DOMAIN b, UpdateQueued(i, k, s)' PROVE ItemOK(k, s, responsesQueue[i].from, responsesQueue[i].to)'
    <3>1. PICK x, y : x = b[i].from /\ y = b[i].to
      OBVIOUS
    <3>2. ItemOK(k, s, x, y)
      BY <1>a, <1>3, <1>4, <2>1, <3>1, Zenon DEF StreamOK, ItemsOK
    <3>3. ItemOK(k, s, x, y)'
      BY <1>8, <3>2, Zenon
    <3> QED BY <1>a, <3>1, <3>3, Zenon DEF ItemOK, ViewUpTo, Base, InPipe, Had
  <2>2. ASSUME NEW i \in DOMAIN sess[k].queue, UpdateComing(i, k, s) PROVE ItemOK(k, s, sess[k].queue[i].from, sess[k].queue[i].to)'
    <3>1. PICK x, y : x = sess[k].queue[i].from /\ y = sess[k].queue[i].to
      BY ZenonT(30)
    <3>2. ItemOK(k, s, x, y)
      BY <2>2, <3>1, Zenon DEF StreamOK, ItemsOK
    <3>3. ItemOK(k, s, x, y)'
      BY <1>8, <3>2, Zenon
    <3> QED BY <1>c, <3>1, <3>3, Zenon DEF ItemOK, ViewUpTo, Base, InPipe, Had
  <2> QED BY <1>a, <1>c, <2>1, <2>2, Zenon DEF ItemsOK
<1>10. Sorted(k, s)'
  <2>s. /\ \A i, j \in DOMAIN a : i < j /\ UpdateQueued(i, k, s) /\ UpdateQueued(j, k, s) => a[i].to <= a[j].to
        /\ \A i \in DOMAIN a, j \in DOMAIN sess[k].queue : UpdateQueued(i, k, s) /\ UpdateComing(j, k, s) => a[i].to <= sess[k].queue[j].to
        /\ \A i, j \in DOMAIN sess[k].queue : i < j /\ UpdateComing(i, k, s) /\ UpdateComing(j, k, s) => sess[k].queue[i].to <= sess[k].queue[j].to
    BY <1>a, Zenon DEF StreamOK, Sorted
  <2>1. ASSUME NEW i \in DOMAIN b, NEW j \in DOMAIN b, i < j, UpdateQueued(i, k, s)', UpdateQueued(j, k, s)' PROVE b[i].to <= b[j].to
    BY <1>3, <1>4, <2>s, <2>1, Zenon
  <2>2. ASSUME NEW i \in DOMAIN b, NEW j \in DOMAIN sess[k].queue, UpdateQueued(i, k, s)', UpdateComing(j, k, s) PROVE b[i].to <= sess[k].queue[j].to
    BY <1>3, <1>4, <2>s, <2>2, Zenon
  <2> QED BY <1>a, <1>c, <2>s, <2>1, <2>2, Zenon DEF Sorted
<1>11. SentOK(k, s)'
  <2>1. PICK x : x = sess[k].sent[s]
    OBVIOUS
  <2>2. x # -1 => /\ s \in streams /\ ViewUpTo(s, x) /\ x <= log[s]
                  /\ Base(s, x) \/ InPipe(k, s, x)
    BY <2>1, Zenon DEF StreamOK, SentOK
  <2>3. x # -1 => /\ s \in streams' /\ ViewUpTo(s, x)' /\ x <= log'[s]
                  /\ Base(s, x)' \/ InPipe(k, s, x)'
    BY <1>c, <1>7, <2>2, Zenon
  <2>4. sess'[k].sent[s] = x
    BY <1>c, <2>1, Zenon
  <2>5. sess'[k].sent[s] # -1 =>
          /\ s \in streams' /\ ViewUpTo(s, sess[k].sent[s])' /\ sess'[k].sent[s] <= log'[s]
          /\ Base(s, sess[k].sent[s])' \/ InPipe(k, s, sess[k].sent[s])'
    BY <2>3, <2>4, Zenon DEF ViewUpTo, Base, InPipe, Had
  <2>6. sess'[k].asked[s] # -1 => s \in streams' /\ sess'[k].asked[s] <= cookie'[s] /\ sess'[k].sent[s] = -1
    BY <1>c, Zenon DEF StreamOK, SentOK
  <2> QED BY <2>5, <2>6, Zenon DEF SentOK
<1> QED BY <1>9, <1>10, <1>11, Zenon DEF StreamOK

\* The first item of responsesQueue is an update of the stream, and is worked on now.
ItemAtWork(k, s) ==
  /\ responsesQueue # << >> /\ responsesQueue' = Tail(responsesQueue) /\ UpdateQueued(1, k, s)
  /\ sess'[k] = sess[k] /\ UNCHANGED <<streams, cookie, timeline, unapplied, log>> /\ ~TickOf(s) /\ tick' = responsesQueue[1]
  /\ ~responsesQueue[1].orphan

\* An update that is worked on counts as part of the view.
LEMMA StreamAtWork ==
  ASSUME ViewTypes, NEW k \in Session, NEW s \in Stream, ItemAtWork(k, s), StreamOK(k, s), cookie[s] <= log[s]
  PROVE StreamOK(k, s)' /\ TickOK(s)'
<1>a. PICK a, b : a \in Seq(SyncItem) /\ a = responsesQueue /\ b = responsesQueue' /\ a # << >> /\ b = Tail(a)
  BY Zenon DEF ViewTypes, ItemAtWork
<1>3. /\ 1 \in DOMAIN a
      /\ \A i \in DOMAIN b : i + 1 \in DOMAIN a /\ b[i] = a[i + 1] /\ 1 < i + 1
      /\ \A j \in DOMAIN a : j # 1 => j - 1 \in DOMAIN b /\ b[j - 1] = a[j] /\ 1 < j
      /\ \A i, j \in DOMAIN b : i < j => i + 1 < j + 1
  <2>1. DOMAIN a = 1 .. Len(a) /\ DOMAIN b = 1 .. (Len(a) - 1) /\ Len(a) \in Nat /\ 1 \in DOMAIN a
    BY <1>a
  <2>2. \A i \in DOMAIN b : i + 1 \in DOMAIN a /\ b[i] = a[i + 1] /\ 1 < i + 1
    BY <1>a, <2>1
  <2>3. \A j \in DOMAIN a : j # 1 => j - 1 \in DOMAIN b /\ (j - 1) + 1 = j /\ 1 < j
    BY <2>1
  <2>4. \A i, j \in DOMAIN b : i < j => i + 1 < j + 1
    BY <2>1
  <2> QED BY <2>1, <2>2, <2>3, <2>4, Zenon
<1>e. PICK e \in SyncItem : e = a[1]
  BY <1>3, <1>a
<1>f. /\ e.session = k /\ e.stream = s /\ tick' = e /\ ~e.orphan /\ e # NoItem /\ UpdateQueued(1, k, s)
      /\ sess'[k] = sess[k] /\ streams' = streams /\ cookie' = cookie /\ log' = log /\ ~TickOf(s)
      /\ timeline' = timeline /\ unapplied' = unapplied
  BY <1>a, <1>e, ItemIsNone, Zenon DEF ItemAtWork, UpdateQueued
<1>g. TickOf(s)'
  BY <1>f, Zenon DEF TickOf
<1>n. /\ \A i \in DOMAIN a : a[i].to \in Nat /\ a[i].from \in Nat
      /\ \A i \in DOMAIN sess[k].queue : UpdateComing(i, k, s) => sess[k].queue[i].from \in Nat /\ sess[k].queue[i].to \in Nat
      /\ cookie[s] \in Nat /\ log[s] \in Nat /\ sess[k].sent[s] \in Nat \cup {-1}
  BY <1>a, ItemNumbers, Zenon
<1>m. e.to \in Nat /\ e.from \in Nat
  BY <1>3, <1>e, <1>n, Zenon
<1>s. /\ \A i, j \in DOMAIN a : i < j /\ UpdateQueued(i, k, s) /\ UpdateQueued(j, k, s) => a[i].to <= a[j].to
      /\ \A i \in DOMAIN a, j \in DOMAIN sess[k].queue : UpdateQueued(i, k, s) /\ UpdateComing(j, k, s) => a[i].to <= sess[k].queue[j].to
      /\ \A i, j \in DOMAIN sess[k].queue : i < j /\ UpdateComing(i, k, s) /\ UpdateComing(j, k, s) => sess[k].queue[i].to <= sess[k].queue[j].to
  BY <1>a, Zenon DEF StreamOK, Sorted
<1>h. /\ \A j \in DOMAIN a : j # 1 /\ UpdateQueued(j, k, s) => e.to <= a[j].to
      /\ \A j \in DOMAIN sess[k].queue : UpdateComing(j, k, s) => e.to <= sess[k].queue[j].to
  BY <1>3, <1>e, <1>f, <1>s, Zenon
<1>4. \A i \in DOMAIN b : (UpdateQueued(i, k, s)' <=> UpdateQueued(i + 1, k, s)) /\ (UpdateQueued(i, k, s)' => e.to <= b[i].to)
  <2>1. \A i \in DOMAIN b : UpdateQueued(i, k, s)' <=> UpdateQueued(i + 1, k, s)
    BY <1>a, <1>3, Zenon DEF UpdateQueued
  <2> QED BY <1>3, <1>e, <1>f, <1>s, <2>1, Zenon
<1>5. ASSUME NEW j \in DOMAIN a, j # 1, UpdateQueued(j, k, s) PROVE \E i \in DOMAIN b : UpdateQueued(i, k, s)' /\ b[i] = a[j]
  <2>1. PICK i \in DOMAIN b : b[i] = a[j]
    BY <1>3, <1>5, Zenon
  <2>2. UpdateQueued(i, k, s)'
    BY <1>a, <1>5, <2>1, Zenon DEF UpdateQueued
  <2> QED BY <2>1, <2>2, Zenon
<1>c. \A i : UpdateComing(i, k, s)' <=> UpdateComing(i, k, s)
  BY <1>f, Zenon DEF UpdateComing
<1>w. ItemOK(k, s, e.from, e.to)
  BY <1>a, <1>3, <1>e, <1>f, Zenon DEF StreamOK, ItemsOK
<1>u. e.to <= sess[k].sent[s] /\ cookie[s] <= e.to
  BY <1>w, Zenon DEF ItemOK, ViewUpTo
<1>v. sess[k].sent[s] \in Nat /\ sess[k].sent[s] # -1
  BY <1>u, <1>m, <1>n
<1>x. s \in streams /\ sess[k].sent[s] <= log[s]
  BY <1>v, Zenon DEF StreamOK, SentOK
\* The first item begins where the view ends: what is behind it ends later.
<1>y. Had(s, e.from)
  <2>1. ASSUME e.from < e.to, InPipe(k, s, e.from) PROVE FALSE
    <3>1. \A x \in Nat : e.to <= x => e.from # x
      BY <1>m, <2>1
    <3>2. e.from # e.to
      BY <1>m, <2>1
    <3> QED BY <1>a, <1>e, <1>h, <1>n, <2>1, <3>1, <3>2, Zenon DEF InPipe
  <2> QED BY <1>f, <1>w, <2>1, Zenon DEF ItemOK, Base
<1>7. \A x \in Nat : Base(s, x) \/ InPipe(k, s, x) => Base(s, x)' \/ InPipe(k, s, x)'
  <2>1. \A x \in Nat : x <= e.to => Base(s, x)'
    BY <1>f, <1>g, Zenon DEF Base, Had
  <2>2. \A x \in Nat : Base(s, x) => Base(s, x)'
    BY <1>f, Zenon DEF Base, Had
  <2>3. e.to <= e.to
    BY <1>m
  <2>4. ASSUME NEW x \in Nat, InPipe(k, s, x) PROVE Base(s, x)' \/ InPipe(k, s, x)'
    <3>1. ASSUME NEW j \in DOMAIN a, UpdateQueued(j, k, s), a[j].to = x PROVE Base(s, x)' \/ InPipe(k, s, x)'
      <4>1. CASE j = 1
        BY <1>e, <2>1, <2>3, <3>1, <4>1, Zenon
      <4>2. CASE j # 1
        BY <1>a, <1>5, <3>1, <4>2, Zenon DEF InPipe
      <4> QED BY <4>1, <4>2, Zenon
    <3>2. ASSUME NEW j \in DOMAIN sess[k].queue, UpdateComing(j, k, s), sess[k].queue[j].to = x PROVE InPipe(k, s, x)'
      BY <1>f, <1>c, <3>2, Zenon DEF InPipe
    <3> QED BY <1>a, <2>4, <3>1, <3>2, Zenon DEF InPipe
  <2> QED BY <2>2, <2>4, Zenon
<1>8. \A x, y \in Nat : ItemOK(k, s, x, y) /\ e.to <= y => ItemOK(k, s, x, y)'
  <2>1. \A y : ViewUpTo(s, y) /\ e.to <= y => ViewUpTo(s, y)'
    BY <1>f, Zenon DEF ViewUpTo
  <2>2. \A x \in Nat : Base(s, x) => Base(s, x)'
    BY <1>f, Zenon DEF Base, Had
  <2> QED BY <1>f, <1>7, <2>1, <2>2, Zenon DEF ItemOK
<1>9. ItemsOK(k, s)'
  <2>1. ASSUME NEW i \in DOMAIN b, UpdateQueued(i, k, s)' PROVE ItemOK(k, s, responsesQueue[i].from, responsesQueue[i].to)'
    <3>1. PICK x \in Nat, y \in Nat : x = b[i].from /\ y = b[i].to
      BY <1>3, <1>n, Zenon
    <3>2. ItemOK(k, s, x, y) /\ e.to <= y
      BY <1>a, <1>3, <1>4, <2>1, <3>1, Zenon DEF StreamOK, ItemsOK
    <3>3. ItemOK(k, s, x, y)'
      BY <1>8, <3>2, Zenon
    <3> QED BY <1>a, <3>1, <3>3, Zenon DEF ItemOK, ViewUpTo, Base, InPipe, Had
  <2>2. ASSUME NEW i \in DOMAIN sess[k].queue, UpdateComing(i, k, s) PROVE ItemOK(k, s, sess[k].queue[i].from, sess[k].queue[i].to)'
    <3>1. PICK x \in Nat, y \in Nat : x = sess[k].queue[i].from /\ y = sess[k].queue[i].to
      BY <1>n, <2>2, Zenon
    <3>2. ItemOK(k, s, x, y) /\ e.to <= y
      BY <1>h, <2>2, <3>1, Zenon DEF StreamOK, ItemsOK
    <3>3. ItemOK(k, s, x, y)'
      BY <1>8, <3>2, Zenon
    <3> QED BY <1>f, <3>1, <3>3, Zenon DEF ItemOK, ViewUpTo, Base, InPipe, Had
  <2> QED BY <1>a, <1>c, <1>f, <2>1, <2>2, Zenon DEF ItemsOK
<1>10. Sorted(k, s)'
  <2>1. ASSUME NEW i \in DOMAIN b, NEW j \in DOMAIN b, i < j, UpdateQueued(i, k, s)', UpdateQueued(j, k, s)' PROVE b[i].to <= b[j].to
    BY <1>3, <1>4, <1>s, <2>1, Zenon
  <2>2. ASSUME NEW i \in DOMAIN b, NEW j \in DOMAIN sess[k].queue, UpdateQueued(i, k, s)', UpdateComing(j, k, s) PROVE b[i].to <= sess[k].queue[j].to
    BY <1>3, <1>4, <1>s, <2>2, Zenon
  <2> QED BY <1>a, <1>c, <1>f, <1>s, <2>1, <2>2, Zenon DEF Sorted
<1>11. SentOK(k, s)'
  <2>1. PICK x \in Nat : x = sess[k].sent[s]
    BY <1>v, Zenon
  <2>2. ViewUpTo(s, x) /\ (Base(s, x) \/ InPipe(k, s, x)) /\ sess[k].asked[s] = -1 /\ e.to <= x
    BY <1>u, <1>v, <2>1, Zenon DEF StreamOK, SentOK
  <2>3. ViewUpTo(s, x)' /\ (Base(s, x)' \/ InPipe(k, s, x)')
    BY <1>f, <1>7, <2>2, Zenon DEF ViewUpTo
  <2>5. ViewUpTo(s, sess[k].sent[s])' /\ (Base(s, sess[k].sent[s])' \/ InPipe(k, s, sess[k].sent[s])')
    BY <1>f, <2>1, <2>3, Zenon DEF ViewUpTo, Base, InPipe, Had
  <2> QED BY <1>f, <1>x, <2>2, <2>5, Zenon DEF SentOK
<1>12. TickOK(s)'
  <2>1. e.to <= log[s]
    BY <1>m, <1>n, <1>u, <1>v, <1>x
  <2> QED BY <1>f, <1>u, <1>x, <1>y, <2>1, Zenon DEF TickOK, Had
<1> QED BY <1>9, <1>10, <1>11, <1>12, Zenon DEF StreamOK

(***************************************************************************)
(* The steps.                                                              *)
(***************************************************************************)
Before == LoopTypes /\ LoopTypes' /\ UNCHANGED syncBound /\ OneStart /\ ViewBody /\ (Active => ChainOK)
After == ViewBody' /\ (Active' => ChainOK')

(***************************************************************************)
(* The steps of the node, and of calls, that leave the loop alone.         *)
(***************************************************************************)

\* The loop and what the client knows of its session.
StandsSame ==
  /\ UNCHANGED <<syncState, syncId, loops, nextSession>>
  /\ (breakTimers' > 0 => breakTimers > 0) /\ (breakTimers = 0 => breakTimers' = 0)
  /\ (responsesQueue = << >> => responsesQueue' = << >>)
  /\ \A k \in Session : sess[k] = NoSession => sess'[k] = NoSession

LEMMA StandsSameOK == ASSUME LoopStands, StandsSame PROVE LoopStands' /\ (Active' <=> Active)
<1>1. Active' <=> Active
  BY Zenon DEF Active, StandsSame
<1>2. LoopStands'
  BY Zenon DEF LoopStands, StandsSame
<1> QED BY <1>1, <1>2, Zenon

\* Steps of a session, with the client as it is.
SessionStep ==
  /\ StandsSame /\ UNCHANGED <<streams, cookie, timeline, unapplied, addCall, removeCall, responsesQueue, tick, log>>
  /\ sess' \in [Session -> SyncSession]
  /\ Active => \A k \in Session : k = loops[1].session => StartingOK(k)' /\ \A s \in Stream : StreamOK(k, s)'

LEMMA SessionStepOK == ASSUME Before, SessionStep PROVE After
<1>1. LoopStands' /\ (Active' <=> Active)
  BY StandsSameOK, Zenon DEF Before, ViewBody, SessionStep
<1>2. ViewTypes'
  BY Zenon DEF Before, ViewBody, ViewTypes, SessionStep, StandsSame
<1>3. QueueOK'
  BY Zenon DEF Before, ViewBody, QueueOK, SessionStep, StandsSame
<1>4. ASSUME NEW s \in Stream PROVE ViewOK(s)' /\ TickOK(s)'
  <2>1. ViewOK(s) /\ TickOK(s) /\ (TickOf(s)' <=> TickOf(s))
    BY Zenon DEF Before, ViewBody, TickOf, SessionStep
  <2> QED BY <2>1, Zenon DEF ViewOK, TickOK, SessionStep, StandsSame, Had
<1>5. Active => ChainOK'
  BY Zenon DEF SessionStep, StandsSame, ChainOK
<1> QED BY <1>1, <1>2, <1>3, <1>4, <1>5, Zenon DEF After, ViewBody

LEMMA QuietStepOK ==
  ASSUME Before, UNCHANGED <<stateVars, streamVars, callVars, queueVars, log, sess, nextSession>>,
         (breakTimers' > 0 => breakTimers > 0) /\ (breakTimers = 0 => breakTimers' = 0)
  PROVE After
<1>1. StandsSame /\ ClientSame /\ UNCHANGED <<streams, cookie, timeline, unapplied, addCall, removeCall, responsesQueue, tick, log, sess, syncState, loops>>
  BY Zenon DEF StandsSame, ClientSame, stateVars, streamVars, callVars, queueVars
<1>2. ViewTypes /\ sess' \in [Session -> SyncSession]
  BY <1>1, Zenon DEF Before, ViewBody, ViewTypes
<1>3. ASSUME Active, NEW k \in Session, k = loops[1].session PROVE StartingOK(k)' /\ \A s \in Stream : StreamOK(k, s)'
  <2>0. StartingOK(k) /\ \A s \in Stream : StreamOK(k, s)
    BY <1>3, Zenon DEF Before, ChainOK
  <2>1. StartingOK(k)'
    BY <1>1, <2>0, Zenon DEF StartingOK
  <2>2. ASSUME NEW s \in Stream PROVE StreamOK(k, s)'
    <3>1. UpdatesSame(k, s, 0)
      <4>1. \A i \in DOMAIN sess[k].queue : i \in Nat /\ i + 0 = i /\ i - 0 = i
        <5>1. sess[k].queue \in Seq(SyncResponse)
          BY <1>2, ItemNumbers, Zenon
        <5> QED BY <5>1
      <4> QED BY <1>1, <4>1, Zenon DEF UpdatesSame
    <3> QED BY <1>1, <1>2, <2>0, <3>1, StreamShifted, Zenon
  <2> QED BY <2>1, <2>2, Zenon
<1> QED BY <1>1, <1>2, <1>3, SessionStepOK, Zenon DEF SessionStep

LEMMA StutterOK == ASSUME Before, UNCHANGED syncVars PROVE After
  BY QuietStepOK, Zenon DEF syncVars, stopVars

LEMMA QuietActionsOK ==
  ASSUME Before, StopSyncDone \/ CancelSyncFails \/ SendPing \/ PingAnswered
  PROVE After
<1>1. CASE StopSyncDone
  <2>1. breakTimers' = (IF stopCall.syncId # 0 /\ breakTimers > 0 THEN breakTimers - 1 ELSE breakTimers) /\ breakTimers \in Nat
        /\ UNCHANGED <<stateVars, streamVars, callVars, queueVars, log, sess, nextSession>>
    BY <1>1, Zenon DEF StopSyncDone, Before, LoopTypes
  <2>2. (breakTimers' > 0 => breakTimers > 0) /\ (breakTimers = 0 => breakTimers' = 0)
    BY <2>1
  <2> QED BY <2>1, <2>2, QuietStepOK, Zenon
<1>2. CASE CancelSyncFails
  BY <1>2, QuietStepOK, Zenon DEF CancelSyncFails
<1>3. CASE SendPing \/ PingAnswered
  BY <1>3, QuietStepOK, Zenon DEF SendPing, PingAnswered, stopVars
<1> QED BY <1>1, <1>2, <1>3, Zenon

\* A session that is open is the one that the loop reads.
LEMMA OpenIsRead ==
  ASSUME LoopStands, NEW k \in Session, sess[k].open
  PROVE loops[1].pc = "next" /\ k = loops[1].session
<1>1. sess[k] # NoSession
  BY DEF NoSession
<1> QED BY <1>1, Zenon DEF LoopStands

\* The session k alone has changed.
SessionOnly(k) ==
  /\ k \in Session /\ sess[k].open /\ sess' \in [Session -> SyncSession] /\ \A j \in Session \ {k} : sess'[j] = sess[j]
  /\ UNCHANGED <<stateVars, streamVars, callVars, queueVars, log, nextSession, breakTimers>>

LEMMA SessionOnlyOK ==
  ASSUME Before, NEW k, SessionOnly(k),
         (Active => StartingOK(k) /\ \A s \in Stream : StreamOK(k, s)) => (Active => StartingOK(k)' /\ \A s \in Stream : StreamOK(k, s)')
  PROVE After
<1>1. k \in Session /\ k = loops[1].session
  BY OpenIsRead, Zenon DEF SessionOnly, Before, ViewBody
<1>2. Active => StartingOK(k)' /\ \A s \in Stream : StreamOK(k, s)'
  BY <1>1, Zenon DEF Before, ChainOK
<1>3. sess[k] # NoSession
  BY DEF NoSession, SessionOnly
<1>4. StandsSame
  BY <1>1, <1>3, Zenon DEF StandsSame, SessionOnly, stateVars, queueVars
<1> QED BY <1>1, <1>2, <1>4, SessionStepOK, Zenon DEF SessionStep, SessionOnly, streamVars, callVars, queueVars

LEMMA SessionOnlyClient == ASSUME NEW k, SessionOnly(k) PROVE ClientSame /\ UNCHANGED <<syncState, responsesQueue>>
  BY Zenon DEF SessionOnly, ClientSame, stateVars, streamVars, queueVars

LEMMA FirstStays ==
  ASSUME ViewTypes, NEW k \in Session, NEW e \in SyncResponse, sess'[k].queue = Append(sess[k].queue, e), StartingOK(k),
         UNCHANGED <<syncState, responsesQueue>>
  PROVE StartingOK(k)'
<1>1. PICK q, p : q \in Seq(SyncResponse) /\ q = sess[k].queue /\ p = sess'[k].queue /\ p = Append(q, e)
  <2>1. sess[k].queue \in Seq(SyncResponse)
    BY DEF ViewTypes, SyncSession
  <2> QED BY <2>1, Zenon
<1>2. q # << >> => p # << >> /\ p[1] = q[1]
  BY <1>1
<1> QED BY <1>1, <1>2, Zenon DEF StartingOK

\* A session that closes sends nothing more.
LEMMA SessionClosesOK ==
  ASSUME Before, NEW k, SessionOnly(k), sess'[k].asked = sess[k].asked, sess'[k].sent = sess[k].sent,
         sess'[k].queue = sess[k].queue \/ sess'[k].queue = Append(sess[k].queue, [op |-> "CLOSE"])
  PROVE After
<1>c. [op |-> "CLOSE"] \in SyncResponse /\ ~([op |-> "CLOSE"].op = "UPDATE")
  BY DEF SyncResponse
<1>k. ViewTypes /\ k \in Session /\ ClientSame /\ UNCHANGED <<syncState, responsesQueue>>
  BY SessionOnlyClient, Zenon DEF Before, ViewBody, SessionOnly
<1>1. ASSUME NEW s PROVE UpdatesSame(k, s, 0)
  <2>1. CASE sess'[k].queue = sess[k].queue
    <3>1. \A i \in DOMAIN sess[k].queue : i \in Nat /\ i + 0 = i /\ i - 0 = i
      <4>1. sess[k].queue \in Seq(SyncResponse)
        BY <1>k DEF ViewTypes, SyncSession
      <4> QED BY SMTT(30), Z3T(30), Z3T(30), <4>1
    <3> QED BY <2>1, <3>1, Zenon DEF UpdatesSame
  <2>2. CASE sess'[k].queue = Append(sess[k].queue, [op |-> "CLOSE"])
    BY <1>c, <1>k, <2>2, OthersAppended, Zenon
  <2> QED BY <2>1, <2>2, Zenon
<1>2. StartingOK(k) => StartingOK(k)'
  <2>1. CASE sess'[k].queue = sess[k].queue
    BY <1>k, <2>1, Zenon DEF StartingOK
  <2>2. CASE sess'[k].queue = Append(sess[k].queue, [op |-> "CLOSE"])
    BY <1>c, <1>k, <2>2, FirstStays, Zenon
  <2> QED BY <2>1, <2>2, Zenon
<1>3. ASSUME NEW s \in Stream, StreamOK(k, s) PROVE StreamOK(k, s)'
  <2>1. sess'[k].asked[s] = sess[k].asked[s] /\ sess'[k].sent[s] = sess[k].sent[s] /\ 0 \in {0, 1} /\ UpdatesSame(k, s, 0)
    BY <1>1, Zenon
  <2> QED BY <1>k, <1>3, <2>1, StreamShifted, Zenon
<1> QED BY <1>2, <1>3, SessionOnlyOK, Zenon

LEMMA CancelSyncOK == ASSUME Before, CancelSync PROVE After
<1>1. PICK k : k = stopCall.syncId
  OBVIOUS
<1>2. /\ UNCHANGED <<stateVars, streamVars, callVars, queueVars, log, nextSession, breakTimers>>
      /\ sess' = IF sess[k].open THEN [sess EXCEPT ![k].open = FALSE, ![k].queue = Append(@, [op |-> "CLOSE"])] ELSE sess
  BY <1>1, Zenon DEF CancelSync
<1>t. sess \in [Session -> SyncSession]
  BY Zenon DEF Before, ViewBody, ViewTypes
<1>3. CASE k \in Session /\ sess[k].open
  <2>1. sess[k] \in SyncSession /\ sess' = [sess EXCEPT ![k].open = FALSE, ![k].queue = Append(@, [op |-> "CLOSE"])]
    BY <1>t, <1>2, <1>3, Zenon
  <2>2. sess' = [sess EXCEPT ![k] = [sess[k] EXCEPT !.open = FALSE, !.queue = Append(sess[k].queue, [op |-> "CLOSE"])]]
    BY <1>t, <1>3, <2>1, Zenon
  <2> DEFINE r == [sess[k] EXCEPT !.open = FALSE, !.queue = Append(sess[k].queue, [op |-> "CLOSE"])]
  <2>3. r \in SyncSession /\ r.asked = sess[k].asked /\ r.sent = sess[k].sent /\ r.queue = Append(sess[k].queue, [op |-> "CLOSE"])
    <3>1. PICK p : p = Append(sess[k].queue, [op |-> "CLOSE"])
      BY Zenon
    <3>2. p \in Seq(SyncResponse)
      <4>1. [op |-> "CLOSE"] \in SyncResponse
        BY DEF SyncResponse
      <4>2. sess[k].queue \in Seq(SyncResponse)
        BY <2>1 DEF SyncSession
      <4> QED BY <3>1, <4>1, <4>2
    <3>3. r = [sess[k] EXCEPT !.open = FALSE, !.queue = p]
      BY <3>1, Zenon
    <3>4. r \in SyncSession /\ r.asked = sess[k].asked /\ r.sent = sess[k].sent /\ r.queue = p
      BY <2>1, <3>2, <3>3, Zenon DEF SyncSession
    <3> QED BY <3>1, <3>4, Zenon
  <2>4. sess' = [sess EXCEPT ![k] = r]
    BY <2>2, Zenon
  <2> HIDE DEF r
  <2>5. sess'[k] = r /\ sess' \in [Session -> SyncSession] /\ \A j \in Session \ {k} : sess'[j] = sess[j]
    BY <1>t, <1>3, <2>3, <2>4, Zenon
  <2>6. SessionOnly(k)
    BY <1>2, <1>3, <2>5, Zenon DEF SessionOnly
  <2> QED BY <2>3, <2>5, <2>6, SessionClosesOK, Zenon
<1>4. CASE ~(k \in Session /\ sess[k].open)
  <2>1. sess' = sess
    <3>1. CASE k \notin Session
      <4>1. DOMAIN sess = Session
        BY <1>t, Zenon
      <4> QED BY <1>t, <1>2, <3>1, <4>1
    <3>2. CASE ~sess[k].open
      BY <1>2, <3>2, Zenon
    <3> QED BY <1>4, <3>1, <3>2, Zenon
  <2>2. UNCHANGED <<stateVars, streamVars, callVars, queueVars, log, sess, nextSession, breakTimers>>
    BY <1>2, <2>1, Zenon
  <2> QED BY <2>2, QuietStepOK, Zenon
<1> QED BY <1>3, <1>4, Zenon

LEMMA SessionEndsOK == ASSUME Before, NEW k \in Session, SessionEnds(k) PROVE After
<1>2. /\ UNCHANGED nodeUnchanged /\ UNCHANGED log /\ sess[k].open
      /\ \E closing \in {<< >>, <<[op |-> "CLOSE"]>>} : sess' = [sess EXCEPT ![k].open = FALSE, ![k].queue = @ \o closing]
  BY Zenon DEF SessionEnds
<1>t. sess \in [Session -> SyncSession]
  BY Zenon DEF Before, ViewBody, ViewTypes
<1>1. PICK closing \in {<< >>, <<[op |-> "CLOSE"]>>} : sess' = [sess EXCEPT ![k].open = FALSE, ![k].queue = @ \o closing]
  BY <1>2, Zenon
<1>3. PICK c \in {TRUE, FALSE} : closing = IF c THEN <<[op |-> "CLOSE"]>> ELSE << >>
  BY <1>1
<1>4. sess' = [sess EXCEPT ![k] = [sess[k] EXCEPT !.open = FALSE, !.queue = sess[k].queue \o closing]]
  BY <1>t, <1>1, Zenon
<1> DEFINE r == [sess[k] EXCEPT !.open = FALSE, !.queue = sess[k].queue \o closing]
<1>5. /\ r.asked = sess[k].asked /\ r.sent = sess[k].sent /\ r.queue = sess[k].queue \o closing /\ r.open = FALSE
      /\ sess[k].queue \in Seq(SyncResponse) /\ (r.queue \in Seq(SyncResponse) => r \in SyncSession)
  <2>1. sess[k] \in SyncSession
    BY <1>t, Zenon
  <2> QED BY <2>1, Zenon DEF SyncSession
<1>6. sess[k].queue \o closing = sess[k].queue \/ sess[k].queue \o closing = Append(sess[k].queue, [op |-> "CLOSE"])
  <2>1. PICK q \in Seq(SyncResponse) : q = sess[k].queue
    BY <1>5, Zenon
  <2>2. q \o << >> = q
    OBVIOUS
  <2>3. q \o <<[op |-> "CLOSE"]>> = Append(q, [op |-> "CLOSE"])
    OBVIOUS
  <2> QED BY <1>1, <2>1, <2>2, <2>3, Zenon
<1>7. r.queue \in Seq(SyncResponse)
  <2>1. [op |-> "CLOSE"] \in SyncResponse
    BY DEF SyncResponse
  <2>2. \A q \in Seq(SyncResponse), e \in SyncResponse : Append(q, e) \in Seq(SyncResponse)
    OBVIOUS
  <2> HIDE DEF r
  <2> QED BY <1>5, <1>6, <2>1, <2>2, Zenon
<1>8. sess' = [sess EXCEPT ![k] = r]
  BY <1>4, Zenon
<1> HIDE DEF r
<1>9. sess'[k] = r /\ sess' \in [Session -> SyncSession] /\ \A j \in Session \ {k} : sess'[j] = sess[j]
  BY <1>t, <1>5, <1>7, <1>8, Zenon
<1>10. SessionOnly(k)
  BY <1>2, <1>9, Zenon DEF SessionOnly, nodeUnchanged, stopVars
<1> QED BY <1>5, <1>6, <1>9, <1>10, SessionClosesOK, Zenon

\* The session sends an update of s: what it has asked for and sent is as before for the
\* other streams.
Sends(k, s, e) ==
  /\ e \in SyncUpdate /\ e.stream = s /\ SessionOnly(k) /\ sess'[k].queue = Append(sess[k].queue, e)
  /\ \A t \in Stream \ {s} : sess'[k].asked[t] = sess[k].asked[t] /\ sess'[k].sent[t] = sess[k].sent[t]

\* The node sends an update.
LEMMA SendsOK ==
  ASSUME Before, NEW k, NEW s \in Stream, NEW e, Sends(k, s, e), Active /\ StreamOK(k, s) => NewUpdate(k, s, e)
  PROVE After
<1>k. ViewTypes /\ k \in Session /\ ClientSame /\ UNCHANGED <<syncState, responsesQueue>>
  BY SessionOnlyClient, Zenon DEF Before, ViewBody, SessionOnly, Sends
<1>e. e \in SyncResponse /\ e.stream = s /\ sess'[k].queue = Append(sess[k].queue, e)
  BY Zenon DEF Sends, SyncResponse
<1>1. StartingOK(k) => StartingOK(k)'
  BY <1>k, <1>e, FirstStays, Zenon
<1>2. ASSUME Active, NEW t \in Stream, StreamOK(k, t) PROVE StreamOK(k, t)'
  <2>1. CASE t = s
    BY <1>k, <1>2, <2>1, StreamAppended, Zenon
  <2>2. CASE t # s
    <3>1. UpdatesSame(k, t, 0) /\ 0 \in {0, 1}
      BY <1>k, <1>e, <2>2, OthersAppended, Zenon
    <3>2. sess'[k].asked[t] = sess[k].asked[t] /\ sess'[k].sent[t] = sess[k].sent[t]
      BY <2>2, Zenon DEF Sends
    <3> QED BY <1>k, <1>2, <3>1, <3>2, StreamShifted, Zenon
  <2> QED BY <2>1, <2>2, Zenon
<1> QED BY <1>1, <1>2, SessionOnlyOK, Zenon DEF Sends

\* The new state of the session, field by field.
SessionSet(k, s, e, x, y) ==
  /\ k \in Session /\ s \in Stream /\ e \in SyncUpdate /\ x \in Nat \cup {-1} /\ y \in Nat \cup {-1}
  /\ sess' = [sess EXCEPT ![k] = [sess[k] EXCEPT !.asked = [sess[k].asked EXCEPT ![s] = x], !.sent = [sess[k].sent EXCEPT ![s] = y],
                                                 !.queue = Append(sess[k].queue, e)]]

\* A session that sends an update, field by field.
LEMMA SendsFields ==
  ASSUME ViewTypes, NEW k, NEW s, NEW e, NEW x, NEW y, SessionSet(k, s, e, x, y)
  PROVE /\ sess' \in [Session -> SyncSession] /\ \A j \in Session \ {k} : sess'[j] = sess[j]
        /\ sess'[k].queue = Append(sess[k].queue, e) /\ sess'[k].asked[s] = x /\ sess'[k].sent[s] = y
        /\ \A t \in Stream \ {s} : sess'[k].asked[t] = sess[k].asked[t] /\ sess'[k].sent[t] = sess[k].sent[t]
<1>k. k \in Session /\ s \in Stream /\ e \in SyncUpdate /\ x \in Nat \cup {-1} /\ y \in Nat \cup {-1}
  BY Zenon DEF SessionSet
<1>1. sess[k] \in SyncSession /\ sess \in [Session -> SyncSession]
  BY <1>k, Zenon DEF ViewTypes
<1>2. PICK a, b, p : /\ a = [sess[k].asked EXCEPT ![s] = x] /\ b = [sess[k].sent EXCEPT ![s] = y]
                     /\ p = Append(sess[k].queue, e)
  BY Zenon
<1>3. sess[k].asked \in [Stream -> Nat \cup {-1}] /\ sess[k].sent \in [Stream -> Nat \cup {-1}] /\ sess[k].queue \in Seq(SyncResponse)
  BY <1>k, ItemNumbers, Zenon
<1>4. a \in [Stream -> Nat \cup {-1}] /\ b \in [Stream -> Nat \cup {-1}] /\ a[s] = x /\ b[s] = y
      /\ \A t \in Stream \ {s} : a[t] = sess[k].asked[t] /\ b[t] = sess[k].sent[t]
  BY <1>k, <1>2, <1>3, Zenon
<1>5. p \in Seq(SyncResponse)
  <2>1. e \in SyncResponse
    BY <1>k, Zenon DEF SyncResponse
  <2> QED BY <1>2, <1>3, <2>1
<1> DEFINE r == [sess[k] EXCEPT !.asked = a, !.sent = b, !.queue = p]
<1>6. sess' = [sess EXCEPT ![k] = r]
  BY <1>2, Zenon DEF SessionSet
<1>7. r \in SyncSession /\ r.asked = a /\ r.sent = b /\ r.queue = p
  BY <1>1, <1>4, <1>5, Zenon DEF SyncSession
<1> HIDE DEF r
<1>8. sess'[k] = r /\ sess' \in [Session -> SyncSession] /\ \A j \in Session \ {k} : sess'[j] = sess[j]
  BY <1>k, <1>1, <1>6, <1>7, Zenon
<1> QED BY <1>2, <1>4, <1>7, <1>8, Zenon

LEMMA SubscribeOK == ASSUME Before, NEW k \in Session, NEW s \in Stream, Subscribe(k, s) PROVE After
<1>t. ViewTypes /\ sess \in [Session -> SyncSession]
  BY Zenon DEF Before, ViewBody, ViewTypes
<1>n. sess[k].asked[s] \in Nat \cup {-1} /\ sess[k].sent[s] \in Nat \cup {-1} /\ log[s] \in Nat /\ cookie[s] \in Nat
  BY <1>t, ItemNumbers, Zenon
<1>b. sess[k].open /\ sess[k].asked[s] # -1 /\ UNCHANGED nodeUnchanged /\ UNCHANGED log
  BY Zenon DEF Subscribe
<1>1. PICK reset \in BOOLEAN :
       sess' = [sess EXCEPT ![k].asked[s] = -1, ![k].sent[s] = log[s],
                            ![k].queue = Append(@, [op |-> "UPDATE", stream |-> s,
                              from |-> sess[k].asked[s], to |-> log[s], reset |-> reset])]
  BY Zenon DEF Subscribe
<1>2. PICK e, c, n : /\ e = [op |-> "UPDATE", stream |-> s, from |-> c, to |-> n, reset |-> reset]
                     /\ c = sess[k].asked[s] /\ n = log[s]
  BY Zenon
<1>3. e \in SyncUpdate /\ e.stream = s /\ e.from = c /\ e.to = n /\ c \in Nat /\ n \in Nat /\ -1 \in Nat \cup {-1} /\ n \in Nat \cup {-1}
  BY <1>n, <1>b, <1>2 DEF SyncUpdate
<1>4. sess' = [sess EXCEPT ![k] = [sess[k] EXCEPT !.asked = [sess[k].asked EXCEPT ![s] = -1], !.sent = [sess[k].sent EXCEPT ![s] = n],
                                                  !.queue = Append(sess[k].queue, e)]]
  <2>1. sess' = [sess EXCEPT ![k].asked[s] = -1, ![k].sent[s] = n, ![k].queue = Append(@, e)]
    BY <1>1, <1>2, Zenon
  <2>2. sess[k] \in SyncSession
    BY <1>t, Zenon
  <2> QED BY <1>t, <2>1, <2>2, Zenon DEF SyncSession
<1>5. /\ sess' \in [Session -> SyncSession] /\ \A j \in Session \ {k} : sess'[j] = sess[j]
      /\ sess'[k].queue = Append(sess[k].queue, e) /\ sess'[k].asked[s] = -1 /\ sess'[k].sent[s] = n
      /\ \A t \in Stream \ {s} : sess'[k].asked[t] = sess[k].asked[t] /\ sess'[k].sent[t] = sess[k].sent[t]
  <2>1. PICK y : y = -1
    OBVIOUS
  <2>2. SessionSet(k, s, e, y, n)
    BY <1>3, <1>4, <2>1, Zenon DEF SessionSet
  <2> QED BY <1>t, <2>1, <2>2, SendsFields, Zenon
<1>6. Sends(k, s, e)
  BY <1>b, <1>3, <1>5, Zenon DEF Sends, SessionOnly, nodeUnchanged, stopVars
<1>7. ASSUME StreamOK(k, s) PROVE NewUpdate(k, s, e)
  <2>1. s \in streams /\ c <= cookie[s] /\ sess[k].sent[s] = -1
    BY <1>b, <1>2, <1>7, Zenon DEF StreamOK, SentOK
  <2>2. sess[k].sent[s] <= n /\ n <= log[s]
    BY <1>2, <1>3, <2>1
  <2>3. ViewUpTo(s, n) /\ Base(s, c)
    <3>1. cookie[s] <= log[s] /\ (TickOf(s) => tick.to <= log[s])
      BY Zenon DEF Before, ViewBody, ViewOK, TickOK, Had
    <3>2. Had(s, cookie[s]) /\ cookie[s] \in Nat /\ ViewTypes
      BY <2>1, Zenon DEF Before, ViewBody, ViewOK, ViewTypes
    <3>3. 1..c \subseteq 1..cookie[s]
      BY <1>3, <2>1, <3>2
    <3>4. Had(s, c)
      BY <3>2, <3>3, Zenon DEF Had
    <3> QED BY <1>2, <3>1, <3>4, Zenon DEF ViewUpTo, Base
  <2> QED BY <1>3, <1>5, <2>1, <2>2, <2>3, Zenon DEF NewUpdate
<1> QED BY <1>6, <1>7, SendsOK, Zenon

LEMMA SendUpdateOK == ASSUME Before, NEW k \in Session, NEW s \in Stream, SendUpdate(k, s) PROVE After
<1>t. ViewTypes /\ sess \in [Session -> SyncSession]
  BY Zenon DEF Before, ViewBody, ViewTypes
<1>n. sess[k].asked[s] \in Nat \cup {-1} /\ sess[k].sent[s] \in Nat \cup {-1} /\ log[s] \in Nat /\ cookie[s] \in Nat
  BY <1>t, ItemNumbers, Zenon
<1>b. /\ sess[k].open /\ sess[k].sent[s] \in 0..(log[s] - 1) /\ UNCHANGED nodeUnchanged /\ UNCHANGED log
      /\ sess' = [sess EXCEPT ![k].sent[s] = @ + 1,
                              ![k].queue = Append(@, [op |-> "UPDATE", stream |-> s,
                                from |-> sess[k].sent[s], to |-> sess[k].sent[s] + 1, reset |-> FALSE])]
  BY Zenon DEF SendUpdate
<1>2. PICK e, c, n, x : /\ e = [op |-> "UPDATE", stream |-> s, from |-> c, to |-> n, reset |-> FALSE]
                        /\ c = sess[k].sent[s] /\ n = sess[k].sent[s] + 1 /\ x = sess[k].asked[s]
  BY Zenon
<1>3. /\ e \in SyncUpdate /\ e.stream = s /\ e.from = c /\ e.to = n /\ c \in Nat /\ n \in Nat /\ n \in Nat \cup {-1} /\ x \in Nat \cup {-1}
      /\ c <= n /\ c < n /\ n <= log[s] /\ sess[k].sent[s] # -1
  BY SMTT(30), Z3T(30), <1>n, <1>b, <1>2 DEF SyncUpdate
<1>4. sess' = [sess EXCEPT ![k] = [sess[k] EXCEPT !.asked = [sess[k].asked EXCEPT ![s] = x], !.sent = [sess[k].sent EXCEPT ![s] = n],
                                                  !.queue = Append(sess[k].queue, e)]]
  <2>1. sess' = [sess EXCEPT ![k].sent[s] = n, ![k].queue = Append(@, e)]
    BY <1>b, <1>2, Zenon
  <2>2. sess[k] \in SyncSession
    BY <1>t, Zenon
  <2>3. [sess[k].asked EXCEPT ![s] = x] = sess[k].asked
    <3>1. sess[k].asked \in [Stream -> Nat \cup {-1}]
      BY <1>t, ItemNumbers, Zenon
    <3> QED BY <1>2, <3>1, Zenon
  <2> QED BY <1>t, <2>1, <2>2, <2>3, ZenonT(30) DEF SyncSession
<1>5. /\ sess' \in [Session -> SyncSession] /\ \A j \in Session \ {k} : sess'[j] = sess[j]
      /\ sess'[k].queue = Append(sess[k].queue, e) /\ sess'[k].asked[s] = x /\ sess'[k].sent[s] = n
      /\ \A t \in Stream \ {s} : sess'[k].asked[t] = sess[k].asked[t] /\ sess'[k].sent[t] = sess[k].sent[t]
  <2>1. SessionSet(k, s, e, x, n)
    BY <1>3, <1>4, Zenon DEF SessionSet
  <2> QED BY <1>t, <2>1, SendsFields, Zenon
<1>6. Sends(k, s, e)
  BY <1>b, <1>3, <1>5, Zenon DEF Sends, SessionOnly, nodeUnchanged, stopVars
<1>7. ASSUME StreamOK(k, s) PROVE NewUpdate(k, s, e)
  <2>1. s \in streams /\ x = -1 /\ ViewUpTo(s, c) /\ (Base(s, c) \/ InPipe(k, s, c))
    BY <1>2, <1>3, <1>7, Zenon DEF StreamOK, SentOK
  <2>2. ViewUpTo(s, n)
    <3>1. tick.to \in Nat \/ ~TickOf(s)
      <4>1. tick \in {NoItem} \cup SyncItem
        BY <1>t, Zenon DEF ViewTypes
      <4>2. TickOf(s) => tick \in SyncItem
        BY <4>1, Zenon DEF TickOf
      <4> QED BY <4>2 DEF SyncItem
    <3> QED BY <1>n, <1>3, <2>1, <3>1 DEF ViewUpTo
  <2>3. sess[k].sent[s] <= e.to
    BY <1>2, <1>3, Zenon
  <2> QED BY <1>3, <1>5, <2>1, <2>2, <2>3, Zenon DEF NewUpdate
<1> QED BY <1>6, <1>7, SendsOK, Zenon

(***************************************************************************)
(* Steps of the calls that add a stream.                                   *)
(***************************************************************************)
LEMMA StepOK ==
  ASSUME Before, StandsSame, ViewTypes', QueueOK', \A s \in Stream : ViewOK(s)' /\ TickOK(s)',
         Active => \A k \in Session : k = loops[1].session => StartingOK(k)' /\ \A s \in Stream : StreamOK(k, s)'
  PROVE After
<1>1. LoopStands' /\ (Active' <=> Active)
  BY StandsSameOK, Zenon DEF Before, ViewBody
<1>2. Active => ChainOK'
  BY Zenon DEF StandsSame, ChainOK
<1> QED BY <1>1, <1>2, Zenon DEF After, ViewBody

LEMMA StreamSame ==
  ASSUME ViewTypes, NEW k \in Session, NEW s \in Stream, ClientSame, sess'[k] = sess[k], StreamOK(k, s)
  PROVE StreamOK(k, s)'
<1>1. UpdatesSame(k, s, 0)
  <2>1. \A i \in DOMAIN sess[k].queue : i \in Nat /\ i + 0 = i /\ i - 0 = i
    <3>1. sess[k].queue \in Seq(SyncResponse)
      BY ItemNumbers, Zenon
    <3> QED BY <3>1
  <2> QED BY <2>1, Zenon DEF UpdatesSame
<1> QED BY <1>1, StreamShifted, Zenon

SyncCall == [pc : {"none", "init", "waiting", "rpc"}, syncId : {0} \cup Session, cookie : Nat]

\* The call that adds s goes on with its cookie, or ends.
CallStep(s, c) ==
  /\ s \in Stream /\ c \in SyncCall /\ addCall' = [addCall EXCEPT ![s] = c]
  /\ c.pc = "none" \/ (addCall[s].pc # "none" /\ c.cookie = addCall[s].cookie)
  /\ UNCHANGED <<stateVars, streamVars, removeCall, queueVars, stopVars, log, nextSession>>
  /\ sess' \in [Session -> SyncSession] /\ \A k \in Session : sess[k] = NoSession => sess'[k] = NoSession

LEMMA CallStepOK ==
  ASSUME Before, NEW s, NEW c, CallStep(s, c),
         Active => \A k \in Session : k = loops[1].session => StartingOK(k)' /\ \A t \in Stream : StreamOK(k, t)'
  PROVE After
<1>1. StandsSame /\ ClientSame
  BY Zenon DEF CallStep, StandsSame, ClientSame, stateVars, streamVars, queueVars, stopVars
<1>2. ViewTypes'
  <2>1. addCall \in [Stream -> SyncCall] /\ c \in SyncCall /\ s \in Stream
    BY Zenon DEF Before, ViewBody, ViewTypes, SyncCall, CallStep
  <2>2. addCall' \in [Stream -> SyncCall]
    BY <2>1, Zenon DEF CallStep
  <2> QED BY <2>2, Zenon DEF Before, ViewBody, ViewTypes, CallStep, SyncCall, stateVars, streamVars, queueVars
<1>3. QueueOK'
  BY <1>1, Zenon DEF Before, ViewBody, QueueOK, StandsSame, ClientSame
<1>4. ASSUME NEW t \in Stream PROVE ViewOK(t)' /\ TickOK(t)'
  <2>1. ViewOK(t) /\ TickOK(t) /\ (TickOf(t)' <=> TickOf(t)) /\ UNCHANGED <<streams, cookie, timeline, unapplied, log, tick, removeCall, loops>>
    BY Zenon DEF Before, ViewBody, TickOf, CallStep, stateVars, streamVars, queueVars
  <2>2. addCall'[t].pc # "none" => addCall[t].pc # "none" /\ addCall'[t].cookie = addCall[t].cookie
    <3>1. addCall'[t] = IF t = s THEN c ELSE addCall[t]
      BY Zenon DEF CallStep, Before, ViewBody, ViewTypes
    <3> QED BY <3>1, Zenon DEF CallStep
  <2> QED BY <2>1, <2>2, Zenon DEF ViewOK, TickOK, Had
<1> QED BY <1>1, <1>2, <1>3, <1>4, StepOK, Zenon

LEMMA QuietCallOK ==
  ASSUME Before, NEW s, NEW c, CallStep(s, c), sess' = sess
  PROVE After
<1>1. ClientSame /\ UNCHANGED <<syncState, responsesQueue>> /\ ViewTypes
  BY Zenon DEF CallStep, ClientSame, stateVars, streamVars, queueVars, Before, ViewBody
<1>2. ASSUME Active, NEW k \in Session, k = loops[1].session PROVE StartingOK(k)' /\ \A t \in Stream : StreamOK(k, t)'
  <2>0. StartingOK(k) /\ \A t \in Stream : StreamOK(k, t)
    BY <1>2, Zenon DEF Before, ChainOK
  <2>1. StartingOK(k)'
    BY <1>1, <2>0, Zenon DEF StartingOK
  <2>2. ASSUME NEW t \in Stream PROVE StreamOK(k, t)'
    BY <1>1, <2>0, StreamSame, Zenon
  <2> QED BY <2>1, <2>2, Zenon
<1> QED BY <1>2, CallStepOK, Zenon

LEMMA CallFields ==
  ASSUME Before, NEW s \in Stream
  PROVE /\ addCall \in [Stream -> SyncCall] /\ addCall[s] \in SyncCall /\ NoCall \in SyncCall /\ NoCall.pc = "none"
        /\ syncId \in {0} \cup Session /\ sess \in [Session -> SyncSession]
        /\ addCall[s].syncId \in {0} \cup Session /\ addCall[s].cookie \in Nat
        /\ LET w == [addCall[s] EXCEPT !.pc = "waiting"] IN w \in SyncCall /\ w.cookie = addCall[s].cookie
        /\ LET r == [addCall[s] EXCEPT !.pc = "rpc", !.syncId = syncId] IN r \in SyncCall /\ r.cookie = addCall[s].cookie
<1>1. addCall \in [Stream -> SyncCall] /\ addCall[s] \in SyncCall /\ syncId \in {0} \cup Session /\ sess \in [Session -> SyncSession]
  BY Zenon DEF Before, ViewBody, ViewTypes, SyncCall
<1> QED BY <1>1, Zenon DEF SyncCall, NoCall

LEMMA AddCallsOK ==
  ASSUME Before, NEW s \in Stream, AddStreamToSync(s) \/ AddWaitEnds(s) \/ AddRpcFails(s)
  PROVE After
<1>f. /\ addCall \in [Stream -> SyncCall] /\ addCall[s] \in SyncCall /\ NoCall \in SyncCall /\ NoCall.pc = "none" /\ sess \in [Session -> SyncSession]
      /\ LET w == [addCall[s] EXCEPT !.pc = "waiting"] IN w \in SyncCall /\ w.cookie = addCall[s].cookie
      /\ LET r == [addCall[s] EXCEPT !.pc = "rpc", !.syncId = syncId] IN r \in SyncCall /\ r.cookie = addCall[s].cookie
  BY CallFields, Zenon
<1>1. addCall[s].pc # "none" /\ UNCHANGED <<stateVars, streamVars, removeCall, queueVars, stopVars, log, sess, nextSession>>
  BY DEF AddStreamToSync, AddWaitEnds, AddRpcFails
<1>2. PICK w, r : w = [addCall[s] EXCEPT !.pc = "waiting"] /\ r = [addCall[s] EXCEPT !.pc = "rpc", !.syncId = syncId]
  BY Zenon
<1>3. \E c \in {NoCall, w, r} : addCall' = [addCall EXCEPT ![s] = c]
  <2>1. CASE AddStreamToSync(s)
    <3>1. addCall' = [addCall EXCEPT ![s] =
             CASE syncState \in {"Starting", "Retrying"} -> w [] syncState = "Syncing" -> r [] OTHER -> NoCall]
      BY <2>1, <1>2, Zenon DEF AddStreamToSync
    <3> QED BY <3>1, Zenon
  <2>2. CASE AddWaitEnds(s)
    <3>1. addCall' = [addCall EXCEPT ![s] = IF syncState = "Syncing" THEN r ELSE NoCall]
      BY <2>2, <1>2, Zenon DEF AddWaitEnds
    <3> QED BY <3>1, Zenon
  <2>3. CASE AddRpcFails(s)
    BY <2>3, Zenon DEF AddRpcFails
  <2> QED BY <2>1, <2>2, <2>3, Zenon
<1>4. PICK c \in {NoCall, w, r} : addCall' = [addCall EXCEPT ![s] = c]
  BY <1>3, Zenon
<1>5. c \in SyncCall /\ (c.pc = "none" \/ c.cookie = addCall[s].cookie)
  BY <1>f, <1>2, <1>4, Zenon
<1>6. CallStep(s, c) /\ sess' = sess
  BY <1>f, <1>1, <1>4, <1>5, Zenon DEF CallStep
<1> QED BY <1>6, QuietCallOK, Zenon

\* The node is asked for a stream that the session does not have.
LEMMA StreamAsked ==
  ASSUME ViewTypes, NEW k \in Session, NEW s \in Stream, ClientSame, sess'[k].queue = sess[k].queue, sess'[k].sent[s] = sess[k].sent[s],
         sess[k].sent[s] = -1, s \in streams, sess'[k].asked[s] <= cookie[s], StreamOK(k, s)
  PROVE StreamOK(k, s)'
<1>1. /\ \A i \in DOMAIN responsesQueue : ~UpdateQueued(i, k, s)
      /\ \A i \in DOMAIN sess[k].queue : ~UpdateComing(i, k, s)
  BY NoItems, Zenon DEF StreamOK
<1>2. \A i : (UpdateQueued(i, k, s)' <=> UpdateQueued(i, k, s)) /\ (UpdateComing(i, k, s)' <=> UpdateComing(i, k, s))
  BY Zenon DEF UpdateQueued, UpdateComing, ClientSame
<1>3. SentOK(k, s)'
  BY Zenon DEF SentOK, ClientSame
<1> QED BY <1>1, <1>2, <1>3, Zenon DEF StreamOK, ItemsOK, Sorted, ClientSame

LEMMA AddRpcOK == ASSUME Before, NEW s \in Stream, AddRpc(s) PROVE After
<1>f. /\ addCall \in [Stream -> SyncCall] /\ addCall[s] \in SyncCall /\ NoCall \in SyncCall /\ NoCall.pc = "none" /\ sess \in [Session -> SyncSession]
      /\ addCall[s].syncId \in {0} \cup Session /\ addCall[s].cookie \in Nat
  BY CallFields, Zenon
<1>1. PICK k, c : k = addCall[s].syncId /\ c = addCall[s].cookie
  OBVIOUS
<1>2. /\ addCall[s].pc = "rpc" /\ addCall' = [addCall EXCEPT ![s] = NoCall]
      /\ sess' = IF k # 0 /\ sess[k].open /\ sess[k].asked[s] = -1 /\ sess[k].sent[s] = -1
                 THEN [sess EXCEPT ![k].asked[s] = c] ELSE sess
      /\ UNCHANGED <<stateVars, streamVars, removeCall, queueVars, stopVars, log, nextSession>>
  BY <1>1, Zenon DEF AddRpc
<1>3. CASE k # 0 /\ sess[k].open /\ sess[k].asked[s] = -1 /\ sess[k].sent[s] = -1
  <2>k. k \in Session /\ sess[k] \in SyncSession
    BY <1>f, <1>1, <1>3, Zenon
  <2>1. sess' = [sess EXCEPT ![k] = [sess[k] EXCEPT !.asked = [sess[k].asked EXCEPT ![s] = c]]]
    BY <1>f, <1>2, <1>3, <2>k
  <2> DEFINE a == [sess[k].asked EXCEPT ![s] = c]
  <2>2. a \in [Stream -> Nat \cup {-1}] /\ a[s] = c /\ \A t \in Stream \ {s} : a[t] = sess[k].asked[t]
    <3>1. sess[k].asked \in [Stream -> Nat \cup {-1}] /\ c \in Nat \cup {-1}
      BY SMTT(30), Z3T(30), <1>f, <1>1, <2>k DEF SyncSession
    <3> QED BY <3>1, Zenon
  <2> HIDE DEF a
  <2> DEFINE r == [sess[k] EXCEPT !.asked = a]
  <2>3. r \in SyncSession /\ r.asked = a /\ r.sent = sess[k].sent /\ r.queue = sess[k].queue
    BY ZenonT(30), <2>k, <2>2 DEF SyncSession
  <2>4. sess' = [sess EXCEPT ![k] = r]
    BY <2>1, Zenon DEF a
  <2> HIDE DEF r
  <2>5. sess'[k] = r /\ sess' \in [Session -> SyncSession] /\ \A j \in Session \ {k} : sess'[j] = sess[j]
    BY <1>f, <2>k, <2>3, <2>4, ZenonT(30)
  <2>6. loops[1].pc = "next" /\ k = loops[1].session /\ sess[k] # NoSession
    <3>1. loops[1].pc = "next" /\ k = loops[1].session
      BY <1>3, <2>k, OpenIsRead, Zenon DEF Before, ViewBody
    <3> QED BY <1>3, <3>1 DEF NoSession
  <2>7. CallStep(s, NoCall)
    BY <1>f, <1>2, <2>5, <2>6, Zenon DEF CallStep
  <2>8. s \in streams /\ c <= cookie[s]
    BY <1>1, <1>2, <2>6 DEF Before, ViewBody, ViewOK, Had
  <2>9. ClientSame /\ UNCHANGED <<syncState, responsesQueue>> /\ ViewTypes
    BY <1>2, Zenon DEF ClientSame, stateVars, streamVars, queueVars, Before, ViewBody
  <2>10. ASSUME Active PROVE StartingOK(k)' /\ \A t \in Stream : StreamOK(k, t)'
    <3>0. StartingOK(k) /\ \A t \in Stream : StreamOK(k, t)
      BY <2>10, <2>6, <2>k, Zenon DEF Before, ChainOK
    <3>1. StartingOK(k)'
      BY <2>3, <2>5, <2>9, <3>0, Zenon DEF StartingOK
    <3>2. ASSUME NEW t \in Stream PROVE StreamOK(k, t)'
      <4>0. sess'[k].queue = sess[k].queue /\ sess'[k].sent[t] = sess[k].sent[t]
        BY <2>3, <2>5, Zenon
      <4>1. CASE t = s
        <5>1. sess'[k].asked[s] = c /\ sess[k].sent[s] = -1
          BY <1>3, <2>2, <2>3, <2>5, Zenon
        <5> QED BY <2>8, <2>9, <2>k, <3>0, <4>0, <4>1, <5>1, StreamAsked, Zenon
      <4>2. CASE t # s
        <5>1. sess'[k].asked[t] = sess[k].asked[t]
          BY <2>2, <2>3, <2>5, <4>2, Zenon
        <5>2. UpdatesSame(k, t, 0) /\ 0 \in {0, 1}
          <6>1. \A i \in DOMAIN sess[k].queue : i \in Nat /\ i + 0 = i /\ i - 0 = i
            <7>1. sess[k].queue \in Seq(SyncResponse)
              BY <2>9, <2>k, ItemNumbers, Zenon
            <7> QED BY <7>1
          <6> QED BY <4>0, <6>1, Zenon DEF UpdatesSame
        <5> QED BY <2>9, <2>k, <3>0, <4>0, <5>1, <5>2, StreamShifted, Zenon
      <4> QED BY <4>1, <4>2, Zenon
    <3> QED BY <3>1, <3>2, Zenon
  <2> QED BY <2>6, <2>7, <2>10, CallStepOK, Zenon
<1>4. CASE ~(k # 0 /\ sess[k].open /\ sess[k].asked[s] = -1 /\ sess[k].sent[s] = -1)
  <2>1. CallStep(s, NoCall) /\ sess' = sess
    BY <1>f, <1>2, <1>4, Zenon DEF CallStep
  <2> QED BY <2>1, QuietCallOK, Zenon
<1> QED BY <1>3, <1>4, Zenon

(***************************************************************************)
(* Steps by which views grow.                                              *)
(***************************************************************************)
GrowStep ==
  /\ UNCHANGED <<syncState, syncId, loops, nextSession, breakTimers, responsesQueue, sess, removeCall>>
  /\ streams' \subseteq Stream /\ cookie' \in [Stream -> Nat] /\ timeline' \in [Stream -> SUBSET Nat] /\ unapplied' \in [Stream -> SUBSET Nat] /\ addCall' \in [Stream -> SyncCall]
  /\ tick' \in {NoItem} \cup SyncItem /\ log' \in [Stream -> Nat]
  /\ \A s \in Stream : s \notin streams \/ ViewGrows(s)
  /\ \A s \in Stream : ViewOK(s)' /\ TickOK(s)'

LEMMA GrowStepOK == ASSUME Before, GrowStep PROVE After
<1>1. StandsSame
  BY Zenon DEF GrowStep, StandsSame
<1>2. ViewTypes'
  BY Zenon DEF Before, ViewBody, ViewTypes, GrowStep, SyncCall
<1>3. QueueOK'
  BY Zenon DEF Before, ViewBody, QueueOK, GrowStep
<1>4. ASSUME Active, NEW k \in Session, k = loops[1].session PROVE StartingOK(k)' /\ \A s \in Stream : StreamOK(k, s)'
  <2>0. StartingOK(k) /\ (\A s \in Stream : StreamOK(k, s)) /\ ViewTypes /\ responsesQueue' = responsesQueue /\ sess'[k] = sess[k]
    BY <1>4, Zenon DEF Before, ViewBody, ChainOK, GrowStep
  <2>1. StartingOK(k)'
    BY <2>0, Zenon DEF StartingOK, GrowStep
  <2>2. ASSUME NEW s \in Stream PROVE StreamOK(k, s)'
    <3>1. CASE s \notin streams
      BY <2>0, <3>1, StreamUnknown, Zenon
    <3>2. CASE ViewGrows(s)
      <4>1. cookie'[s] \in Nat /\ log'[s] \in Nat
        BY Zenon DEF GrowStep
      <4> QED BY <2>0, <3>2, <4>1, StreamKept, Zenon
    <3> QED BY <3>1, <3>2, Zenon DEF GrowStep
  <2> QED BY <2>1, <2>2, Zenon
<1> QED BY <1>1, <1>2, <1>3, <1>4, StepOK, Zenon DEF GrowStep

\* A view that is as it was, with as many events on the node or more.
LEMMA ViewSame ==
  ASSUME ViewTypes, NEW s \in Stream, log'[s] \in Nat, log[s] <= log'[s], streams \subseteq streams', cookie'[s] = cookie[s],
         timeline'[s] = timeline[s], unapplied'[s] = unapplied[s], tick' = tick
  PROVE ViewGrows(s)
<1>1. (TickOf(s)' <=> TickOf(s)) /\ cookie[s] \in Nat
  BY Zenon DEF TickOf, ViewTypes
<1>2. cookie[s] <= cookie'[s]
  BY <1>1
<1> QED BY <1>1, <1>2, Zenon DEF ViewGrows, Base, ViewUpTo, Had

LEMMA InitStreamOK == ASSUME Before, NEW s \in Stream, InitStream(s) PROVE After
<1>t. ViewTypes /\ \A t \in Stream : ViewOK(t) /\ TickOK(t)
  BY Zenon DEF Before, ViewBody
<1>1. PICK c \in 1..log[s] :
        /\ streams' = streams \cup {s} /\ cookie' = [cookie EXCEPT ![s] = c] /\ timeline' = [timeline EXCEPT ![s] = 1..c]
        /\ addCall' = [addCall EXCEPT ![s] = [pc |-> "init", syncId |-> 0, cookie |-> c]]
  BY Zenon DEF InitStream
<1>2. s \notin streams /\ UNCHANGED <<unapplied, stateVars, removeCall, queueVars, stopVars, log, sess, nextSession>>
  BY Zenon DEF InitStream
<1>n. /\ streams \subseteq Stream /\ cookie \in [Stream -> Nat] /\ timeline \in [Stream -> SUBSET Nat] /\ unapplied \in [Stream -> SUBSET Nat] /\ addCall \in [Stream -> SyncCall]
      /\ log \in [Stream -> Nat] /\ tick \in {NoItem} \cup SyncItem
  BY <1>t, Zenon DEF ViewTypes, SyncCall
<1>3. PICK e : e = [pc |-> "init", syncId |-> 0, cookie |-> c]
  BY Zenon
<1>4. c \in Nat /\ c <= log[s] /\ 1..c \in SUBSET Nat /\ e \in SyncCall /\ e.cookie = c /\ c <= c
  BY <1>1, <1>3, <1>n DEF SyncCall
<1>5. /\ streams' \subseteq Stream /\ cookie' \in [Stream -> Nat] /\ timeline' \in [Stream -> SUBSET Nat] /\ unapplied' \in [Stream -> SUBSET Nat] /\ addCall' \in [Stream -> SyncCall]
      /\ cookie'[s] = c /\ timeline'[s] = 1..c /\ addCall'[s] = e /\ s \in streams'
      /\ \A t \in Stream \ {s} : cookie'[t] = cookie[t] /\ timeline'[t] = timeline[t] /\ addCall'[t] = addCall[t] /\ (t \in streams' <=> t \in streams)
  BY <1>1, <1>2, <1>3, <1>4, <1>n, Zenon
<1>6. ASSUME NEW t \in Stream PROVE (t \notin streams \/ ViewGrows(t)) /\ ViewOK(t)' /\ TickOK(t)'
  <2>0. ViewOK(t) /\ TickOK(t) /\ (TickOf(t)' <=> TickOf(t)) /\ removeCall' = removeCall /\ log' = log /\ tick' = tick /\ loops' = loops
    BY <1>2, <1>t, Zenon DEF TickOf, queueVars, stateVars
  <2>1. CASE t = s
    <3>1. ~TickOf(s)
      BY <1>2, <2>0, <2>1, Zenon DEF TickOK, Had
    <3>2. TickOK(s)'
      BY <2>0, <2>1, <3>1, Zenon DEF TickOK, Had
    <3>3. ViewOK(s)'
      BY <1>4, <1>5, <2>0, <2>1, Zenon DEF ViewOK, Had
    <3> QED BY <1>2, <2>1, <3>2, <3>3, Zenon
  <2>2. CASE t # s
    <3>1. /\ log'[t] \in Nat /\ log[t] <= log'[t] /\ streams \subseteq streams' /\ cookie'[t] = cookie[t]
          /\ timeline'[t] = timeline[t] /\ unapplied'[t] = unapplied[t]
      <4>1. log'[t] = log[t] /\ log[t] \in Nat
        BY <2>0, <1>n, Zenon
      <4>2. log[t] <= log'[t]
        BY <4>1
      <4> QED BY <1>1, <1>2, <1>5, <2>2, <4>1, <4>2, Zenon
    <3>2. ViewGrows(t)
      BY <1>t, <2>0, <3>1, ViewSame, Zenon
    <3>3. TickOK(t)' /\ ViewOK(t)'
      BY <1>2, <1>5, <2>0, <2>2, Zenon DEF TickOK, ViewOK, Had
    <3> QED BY <3>2, <3>3, Zenon
  <2> QED BY <2>1, <2>2, Zenon
<1> QED BY <1>2, <1>5, <1>6, <1>n, GrowStepOK, Zenon DEF GrowStep, stateVars, queueVars, stopVars

LEMMA AddEventOK == ASSUME Before, NEW s \in Stream, AddEvent(s) PROVE After
<1>t. ViewTypes /\ \A t \in Stream : ViewOK(t) /\ TickOK(t)
  BY Zenon DEF Before, ViewBody
<1>1. log' = [log EXCEPT ![s] = @ + 1] /\ UNCHANGED <<stateVars, streamVars, callVars, queueVars, stopVars, sess, nextSession>>
  BY Zenon DEF AddEvent, nodeUnchanged
<1>n. /\ streams \subseteq Stream /\ cookie \in [Stream -> Nat] /\ timeline \in [Stream -> SUBSET Nat] /\ unapplied \in [Stream -> SUBSET Nat] /\ addCall \in [Stream -> SyncCall]
      /\ log \in [Stream -> Nat] /\ tick \in {NoItem} \cup SyncItem
  BY <1>t, Zenon DEF ViewTypes, SyncCall
<1>2. log' \in [Stream -> Nat] /\ \A t \in Stream : log'[t] \in Nat /\ log[t] <= log'[t]
  BY <1>1, <1>n
<1>3. UNCHANGED <<syncState, syncId, loops, nextSession, breakTimers, responsesQueue, sess, removeCall, streams, cookie, timeline, unapplied, addCall, tick>>
  BY <1>1, Zenon DEF stateVars, streamVars, callVars, queueVars, stopVars
<1>4. ASSUME NEW t \in Stream PROVE (t \notin streams \/ ViewGrows(t)) /\ ViewOK(t)' /\ TickOK(t)'
  <2>0. ViewOK(t) /\ TickOK(t) /\ (TickOf(t)' <=> TickOf(t)) /\ tick' = tick /\ streams \subseteq streams' /\ cookie'[t] = cookie[t]
        /\ timeline'[t] = timeline[t] /\ unapplied'[t] = unapplied[t]
    BY <1>3, <1>t, Zenon DEF TickOf
  <2>1. ViewGrows(t)
    BY <1>t, <1>2, <2>0, ViewSame, Zenon
  <2>2. cookie[t] \in Nat /\ log[t] \in Nat /\ (TickOf(t) => tick.to \in Nat)
    <3>1. TickOf(t) => tick \in SyncItem
      BY <1>n, Zenon DEF TickOf
    <3>2. TickOf(t) => tick.to \in Nat
      BY <3>1 DEF SyncItem
    <3> QED BY <1>n, <3>2, Zenon
  <2>3. cookie[t] <= log'[t] /\ (TickOf(t) => tick.to <= log'[t])
    <3>1. cookie[t] <= log[t] /\ (TickOf(t) => tick.to <= log[t])
      BY <2>0, Zenon DEF ViewOK, TickOK, Had
    <3>2. log'[t] \in Nat /\ log[t] <= log'[t]
      BY <1>2, Zenon
    <3> QED BY <2>2, <3>1, <3>2
  <2>4. ViewOK(t)' /\ TickOK(t)'
    BY <1>3, <2>0, <2>3, Zenon DEF ViewOK, TickOK, Had
  <2> QED BY <2>1, <2>4, Zenon
<1> QED BY <1>2, <1>3, <1>4, <1>n, GrowStepOK, Zenon DEF GrowStep

\* The update at work reaches the view, be it by appendEvents or by a reset, or its error is logged.
LEMMA OnUpdateOK == ASSUME Before, OnUpdate PROVE After
<1>t. ViewTypes /\ \A t \in Stream : ViewOK(t) /\ TickOK(t)
  BY Zenon DEF Before, ViewBody
<1>n. /\ streams \subseteq Stream /\ cookie \in [Stream -> Nat] /\ timeline \in [Stream -> SUBSET Nat] /\ unapplied \in [Stream -> SUBSET Nat] /\ addCall \in [Stream -> SyncCall]
      /\ log \in [Stream -> Nat] /\ tick \in {NoItem} \cup SyncItem
  BY <1>t, Zenon DEF ViewTypes, SyncCall
<1>1. tick # NoItem /\ tick' = NoItem /\ UNCHANGED <<stateVars, streams, removeCall, responsesQueue, stopVars, log, sess, nextSession>>
  BY Zenon DEF OnUpdate
<1>2. UNCHANGED <<syncState, syncId, loops, nextSession, breakTimers, responsesQueue, sess, removeCall, streams, log>>
  BY <1>1, Zenon DEF stateVars, stopVars
<1>3. \A t : TickOK(t)' /\ ~TickOf(t)'
  BY <1>1, Zenon DEF TickOK, TickOf, Had
<1>4. log' \in [Stream -> Nat] /\ tick' \in {NoItem} \cup SyncItem /\ streams' \subseteq Stream /\ \A t \in Stream : log'[t] \in Nat /\ log[t] <= log'[t]
  <2>1. \A t \in Stream : log[t] \in Nat /\ log[t] <= log[t]
    BY <1>n
  <2> QED BY <1>n, <1>1, <1>2, <2>1, Zenon
<1>5. CASE tick.orphan
  <2>1. UNCHANGED <<cookie, timeline, unapplied, addCall>>
    BY <1>5, Zenon DEF OnUpdate
  <2>2. ASSUME NEW t \in Stream PROVE (t \notin streams \/ ViewGrows(t)) /\ ViewOK(t)'
    <3>1. ~TickOf(t) /\ ViewOK(t)
      BY <1>5, <1>t, Zenon DEF TickOf
    <3>2. cookie[t] <= cookie'[t]
      BY <2>1, <1>n
    <3>3. ViewGrows(t)
      BY <1>2, <1>3, <1>4, <2>1, <3>1, <3>2, Zenon DEF ViewGrows, Base, ViewUpTo, Had
    <3>4. ViewOK(t)'
      BY <1>2, <2>1, <3>1, Zenon DEF ViewOK, Had
    <3> QED BY <3>3, <3>4, Zenon
  <2> QED BY <1>2, <1>3, <1>4, <1>n, <2>1, <2>2, GrowStepOK, Zenon DEF GrowStep
<1>6. CASE ~tick.orphan
  <2>1. PICK s, n, f, g : s = tick.stream /\ n = tick.to /\ f = tick.from /\ g = (IF tick.reset THEN 1..n ELSE (f + 1)..n)
    OBVIOUS
  <2>2. s \in Stream /\ n \in Nat /\ f \in Nat /\ TickOf(s)
    <3>1. tick \in SyncItem
      BY <1>1, <1>n, Zenon
    <3>2. s \in Stream /\ n \in Nat /\ f \in Nat
      BY SMTT(30), Z3T(30), <2>1, <3>1 DEF SyncItem
    <3> QED BY <1>1, <1>6, <2>1, <3>2, Zenon DEF TickOf
  <2>3. PICK t0, u0, c0 : t0 = timeline[s] /\ u0 = unapplied[s] /\ c0 = cookie[s]
    OBVIOUS
  <2>4. /\ s \in streams /\ c0 <= n /\ n <= log[s] /\ t0 \subseteq 1..c0 /\ 1..f \subseteq t0 \cup u0
        /\ c0 \in Nat /\ t0 \in SUBSET Nat /\ u0 \in SUBSET Nat /\ log[s] \in Nat
    BY <1>n, <1>t, <2>1, <2>2, <2>3, Zenon DEF TickOK, ViewOK, Had
  <2>5. g \in SUBSET Nat /\ g \subseteq 1..n /\ 1..n \subseteq t0 \cup u0 \cup g /\ t0 \subseteq 1..n
    <3>1. (f + 1)..n \subseteq 1..n /\ 1..n \in SUBSET Nat /\ t0 \subseteq 1..n /\ 1..n \subseteq 1..f \cup (f + 1)..n
      BY <2>2, <2>4
    <3>2. CASE tick.reset
      BY <2>1, <3>1, <3>2, Zenon
    <3>3. CASE ~tick.reset
      BY <2>1, <2>4, <3>1, <3>3, Zenon
    <3> QED BY <3>2, <3>3, Zenon
  \* Applied or not, what the update brings counts as had.
  <2>6. PICK v, u, m, c :
          /\ c \in SyncCall /\ cookie' = [cookie EXCEPT ![s] = m] /\ timeline' = [timeline EXCEPT ![s] = v]
          /\ unapplied' = [unapplied EXCEPT ![s] = u] /\ addCall' = [addCall EXCEPT ![s] = c]
          /\ v \subseteq 1..m /\ u \in SUBSET Nat /\ t0 \cup u0 \cup g \subseteq v \cup u
          /\ m \in {n, c0} /\ c.pc = addCall[s].pc /\ (c.cookie = m \/ c.cookie = addCall[s].cookie)
    <3>a. addCall[s] \in SyncCall
      BY <1>n, <2>2, Zenon
    <3>1. CASE /\ cookie' = [cookie EXCEPT ![s] = n]
               /\ timeline' = [timeline EXCEPT ![s] = IF tick.reset THEN g ELSE @ \cup g]
               /\ unapplied' = [unapplied EXCEPT ![s] = @ \ g]
               /\ addCall' = [addCall EXCEPT ![s].cookie = IF addCall[s].pc = "init" THEN n ELSE @]
      <4>1. PICK v, c : /\ v = (IF tick.reset THEN g ELSE t0 \cup g)
                        /\ c = [addCall[s] EXCEPT !.cookie = IF addCall[s].pc = "init" THEN n ELSE addCall[s].cookie]
        BY Zenon
      <4>2. c \in SyncCall /\ c.pc = addCall[s].pc /\ (c.cookie = n \/ c.cookie = addCall[s].cookie)
        BY <2>2, <3>a, <4>1 DEF SyncCall
      <4>3. addCall' = [addCall EXCEPT ![s] = c] /\ timeline' = [timeline EXCEPT ![s] = v]
            /\ unapplied' = [unapplied EXCEPT ![s] = u0 \ g]
        BY <2>3, <3>1, <4>1, Zenon
      <4>4. v \subseteq 1..n /\ u0 \ g \in SUBSET Nat /\ t0 \cup u0 \cup g \subseteq v \cup (u0 \ g)
        <5>1. tick.reset => t0 \subseteq g
          BY <2>1, <2>5, Zenon
        <5> QED BY <2>4, <2>5, <4>1, <5>1, Zenon
      <4> WITNESS v, u0 \ g, n, c
      <4> QED BY <3>1, <4>2, <4>3, <4>4, Zenon
    <3>2. CASE /\ unapplied' = [unapplied EXCEPT ![s] = @ \cup (g \ timeline[s])]
               /\ UNCHANGED <<cookie, timeline, addCall>>
      <4>1. cookie' = [cookie EXCEPT ![s] = c0] /\ timeline' = [timeline EXCEPT ![s] = t0] /\ addCall' = [addCall EXCEPT ![s] = addCall[s]]
            /\ unapplied' = [unapplied EXCEPT ![s] = u0 \cup (g \ t0)]
        BY <1>n, <2>3, <3>2, Zenon
      <4>2. t0 \subseteq 1..c0 /\ u0 \cup (g \ t0) \in SUBSET Nat /\ t0 \cup u0 \cup g \subseteq t0 \cup (u0 \cup (g \ t0))
        BY <2>4, <2>5, Zenon
      <4> QED BY <3>a, <4>1, <4>2, Zenon
    <3> QED BY <1>6, <2>1, <3>1, <3>2, Zenon DEF OnUpdate
  <2>7. m \in Nat /\ c0 <= m /\ m <= n /\ 1..m \subseteq 1..n /\ v \in SUBSET Nat
    BY <2>2, <2>4, <2>6
  <2>9. /\ cookie' \in [Stream -> Nat] /\ timeline' \in [Stream -> SUBSET Nat] /\ unapplied' \in [Stream -> SUBSET Nat]
        /\ addCall' \in [Stream -> SyncCall] /\ cookie'[s] = m /\ timeline'[s] = v /\ unapplied'[s] = u /\ addCall'[s] = c
        /\ \A t \in Stream \ {s} : /\ cookie'[t] = cookie[t] /\ timeline'[t] = timeline[t] /\ unapplied'[t] = unapplied[t]
                                   /\ addCall'[t] = addCall[t]
    <3>1. cookie' \in [Stream -> Nat] /\ cookie'[s] = m /\ \A t \in Stream \ {s} : cookie'[t] = cookie[t]
      BY <1>n, <2>2, <2>6, <2>7, Zenon
    <3>2. timeline' \in [Stream -> SUBSET Nat] /\ timeline'[s] = v /\ \A t \in Stream \ {s} : timeline'[t] = timeline[t]
      BY <1>n, <2>2, <2>6, <2>7, Zenon
    <3>3. unapplied' \in [Stream -> SUBSET Nat] /\ unapplied'[s] = u /\ \A t \in Stream \ {s} : unapplied'[t] = unapplied[t]
      BY <1>n, <2>2, <2>6, Zenon
    <3>4. addCall' \in [Stream -> SyncCall] /\ addCall'[s] = c /\ \A t \in Stream \ {s} : addCall'[t] = addCall[t]
      BY <1>n, <2>2, <2>6, Zenon
    <3> QED BY <3>1, <3>2, <3>3, <3>4, Zenon
  <2>10. ASSUME NEW t \in Stream PROVE ViewGrows(t) /\ ViewOK(t)'
    <3>0. ViewOK(t) /\ cookie[t] \in Nat
      BY <1>t, <1>n, Zenon
    <3>1. CASE t # s
      <4>1. /\ ~TickOf(t) /\ cookie'[t] = cookie[t] /\ timeline'[t] = timeline[t] /\ unapplied'[t] = unapplied[t]
            /\ addCall'[t] = addCall[t]
        BY <2>1, <2>9, <3>1, Zenon DEF TickOf
      <4>2. cookie[t] <= cookie'[t]
        BY <4>1, <3>0
      <4>3. ViewGrows(t)
        BY <1>2, <1>3, <1>4, <4>1, <4>2, Zenon DEF ViewGrows, Base, ViewUpTo, Had
      <4>4. ViewOK(t)'
        BY <1>2, <3>0, <4>1, Zenon DEF ViewOK, Had
      <4> QED BY <4>3, <4>4, Zenon
    <3>2. CASE t = s
      <4>1. 1..n \subseteq v \cup u /\ t0 \cup u0 \subseteq v \cup u
        BY <2>5, <2>6, Zenon
      <4>2. ASSUME NEW x \in Nat PROVE (Base(s, x) => Base(s, x)') /\ (ViewUpTo(s, x) => ViewUpTo(s, x)')
        <5>1. (x <= n => 1..x \subseteq 1..n) /\ (n <= x => m <= x)
          BY <2>2, <2>7
        <5>2. Base(s, x) => 1..x \subseteq v \cup u
          BY <2>1, <2>3, <4>1, <5>1, Zenon DEF Base, Had
        <5>3. ViewUpTo(s, x) => m <= x
          BY <2>1, <2>2, <5>1, Zenon DEF ViewUpTo
        <5> QED BY <1>3, <2>9, <5>2, <5>3, Zenon DEF Base, ViewUpTo, Had
      <4>3. ViewGrows(s)
        BY <1>2, <1>4, <2>2, <2>3, <2>7, <2>9, <4>2, Zenon DEF ViewGrows
      <4>4. addCall[s].pc # "none" /\ loops[1].pc # "done" => c.cookie <= m
        <5>1. addCall[s].pc # "none" /\ loops[1].pc # "done" => addCall[s].cookie <= c0
          BY <2>3, <3>0, <3>2, Zenon DEF ViewOK
        <5>2. addCall[s].cookie \in Nat
          <6>1. addCall[s] \in SyncCall
            BY <1>n, <2>2, Zenon
          <6> QED BY <6>1 DEF SyncCall
        <5>3. m <= m /\ (addCall[s].cookie <= c0 => addCall[s].cookie <= m)
          BY <2>4, <2>7, <5>2
        <5> QED BY <2>6, <5>1, <5>3, Zenon
      <4>5. m <= log[s] /\ 1..m \subseteq v \cup u
        <5>1. m <= log[s]
          BY <2>2, <2>4, <2>7
        <5> QED BY <2>7, <4>1, <5>1, Zenon
      <4>6. ViewOK(s)'
        BY <1>2, <2>4, <2>6, <2>9, <3>0, <3>2, <4>4, <4>5, ZenonT(30) DEF ViewOK, Had
      <4> QED BY <3>2, <4>3, <4>6, Zenon
    <3> QED BY <3>1, <3>2, Zenon
  <2> QED BY <1>2, <1>3, <1>4, <2>9, <2>10, GrowStepOK, Zenon DEF GrowStep
<1> QED BY <1>5, <1>6, Zenon

LEMMA SyncingIsNext ==
  ASSUME LoopTypes, LoopStands, syncState = "Syncing"
  PROVE loops[1].pc = "next" /\ loops[1].session \in Session /\ syncId = loops[1].session
<1>1. loops[1].pc \in {"none", "next", "retryWait", "done"}
  <2>1. 1 \in Loop
    BY SyncAssumption DEF Loop
  <2>2. loops[1] \in LoopState
    BY <2>1, Zenon DEF LoopTypes
  <2> QED BY <2>2 DEF LoopState
<1> QED BY <1>1 DEF LoopStands

\* The next update is worked on, unless it is from a session that is over.
LEMMA TickStepOK == ASSUME Before, Tick PROVE After
<1>t. ViewTypes /\ LoopStands /\ QueueOK /\ LoopTypes /\ \A t \in Stream : ViewOK(t) /\ TickOK(t)
  BY Zenon DEF Before, ViewBody
<1>a. PICK a, b, e : a \in Seq(SyncItem) /\ a = responsesQueue /\ b = Tail(a) /\ e = Head(a)
  BY <1>t, Zenon DEF ViewTypes
<1>1. /\ tick = NoItem /\ a # << >> /\ responsesQueue' = b
      /\ tick' = IF e.session = syncId /\ syncState \in {"Syncing", "Canceling"} /\ e.stream \in streams THEN e ELSE NoItem
      /\ UNCHANGED <<stateVars, streamVars, callVars, stopVars, log, sess, nextSession>>
  BY <1>a, Zenon DEF Tick
<1>2. UNCHANGED <<syncState, syncId, loops, nextSession, breakTimers, sess, addCall, removeCall, streams, cookie, timeline, unapplied, log>>
  BY <1>1, Zenon DEF stateVars, stopVars, streamVars, callVars
<1>3. e = a[1] /\ e \in SyncItem /\ 1 \in DOMAIN a /\ b \in Seq(SyncItem) /\ \A i \in DOMAIN b : i + 1 \in DOMAIN a /\ b[i] = a[i + 1]
  BY <1>a, <1>1, QueueTail, Zenon
<1>4. StandsSame
  BY <1>a, <1>1, <1>2, Zenon DEF StandsSame
<1>5. ViewTypes'
  BY <1>1, <1>2, <1>3, <1>t, Zenon DEF ViewTypes
<1>6. QueueOK'
  BY <1>a, <1>1, <1>2, <1>3, <1>t, Zenon DEF QueueOK
<1>7. ASSUME NEW t \in Stream PROVE ViewOK(t)' /\ ~TickOf(t)
  BY <1>1, <1>2, <1>t, Zenon DEF ViewOK, TickOf, Had
<1>8. ASSUME NEW k \in Session, StartingOK(k) PROVE StartingOK(k)'
  BY <1>8, <1>a, <1>1, <1>2, <1>3, ZenonT(30) DEF StartingOK
<1>9. ASSUME NEW k \in Session, NEW t \in Stream, StreamOK(k, t), ~UpdateQueued(1, k, t), ~TickOf(t)' PROVE StreamOK(k, t)'
  <2>1. ItemDropped(k, t)
    BY <1>a, <1>1, <1>2, <1>7, <1>9, Zenon DEF ItemDropped
  <2> QED BY <1>t, <1>9, <2>1, StreamDropped, Zenon
<1>10. CASE e.session = syncId /\ syncState \in {"Syncing", "Canceling"} /\ e.stream \in streams
  <2>1. PICK k, s : k = loops[1].session /\ s = e.stream
    OBVIOUS
  <2>2. syncState = "Syncing" /\ k \in Session /\ e.session = k /\ Active /\ s \in Stream
    <3>1. syncState # "Canceling"
      BY <1>a, <1>1, <1>t, Zenon DEF LoopStands
    <3>2. syncState = "Syncing"
      BY <1>10, <3>1, Zenon
    <3> QED BY <1>10, <1>t, <2>1, <3>2, SyncingIsNext, Zenon DEF Active, ViewTypes
  <2>3. StartingOK(k) /\ \A t \in Stream : StreamOK(k, t)
    BY <2>1, <2>2, Zenon DEF Before, ChainOK
  <2>4. tick' = e
    BY <1>1, <1>10, Zenon
  <2>5. StreamOK(k, s)' /\ TickOK(s)'
    <3>1. UpdateQueued(1, k, s) /\ ~responsesQueue[1].orphan
      BY <1>a, <1>3, <1>t, <2>1, <2>2, Zenon DEF UpdateQueued, QueueOK
    <3>2. ItemAtWork(k, s)
      BY <1>a, <1>1, <1>2, <1>3, <1>7, <2>2, <2>4, <3>1, Zenon DEF ItemAtWork
    <3>3. cookie[s] <= log[s]
      BY <1>t, <2>2, Zenon DEF ViewOK, Had
    <3> QED BY <1>t, <2>2, <2>3, <3>2, <3>3, StreamAtWork, Zenon
  <2>6. ASSUME NEW t \in Stream, t # s PROVE StreamOK(k, t)' /\ TickOK(t)'
    <3>1. ~TickOf(t)'
      BY <2>1, <2>4, <2>6, Zenon DEF TickOf
    <3>2. ~UpdateQueued(1, k, t)
      BY <1>a, <1>3, <2>1, <2>6, Zenon DEF UpdateQueued
    <3> QED BY <1>9, <2>2, <2>3, <3>1, <3>2, Zenon DEF TickOK, Had
  <2> QED BY <1>4, <1>5, <1>6, <1>7, <1>8, <2>1, <2>2, <2>3, <2>5, <2>6, StepOK, Zenon
<1>11. CASE ~(e.session = syncId /\ syncState \in {"Syncing", "Canceling"} /\ e.stream \in streams)
  <2>1. \A t : ~TickOf(t)' /\ TickOK(t)'
    BY <1>1, <1>11, Zenon DEF TickOf, TickOK, Had
  <2>2. ASSUME Active, NEW k \in Session, k = loops[1].session PROVE StartingOK(k)' /\ \A t \in Stream : StreamOK(k, t)'
    <3>1. StartingOK(k) /\ \A t \in Stream : StreamOK(k, t)
      BY <2>2, Zenon DEF Before, ChainOK
    <3>2. ASSUME NEW t \in Stream PROVE ~UpdateQueued(1, k, t)
      <4>1. SUFFICES ASSUME UpdateQueued(1, k, t) PROVE FALSE
        OBVIOUS
      <4>2. e.session = k /\ e.stream = t
        BY <1>a, <1>3, <4>1, Zenon DEF UpdateQueued
      <4>3. syncState # "Starting"
        BY <1>a, <1>3, <3>1, <4>2, Zenon DEF StartingOK
      <4>4. syncState = "Syncing"
        BY <2>2, <4>3, Zenon DEF Active
      <4>5. t \notin streams
        BY <1>11, <1>t, <2>2, <4>2, <4>4, SyncingIsNext, Zenon
      <4>6. sess[k].sent[t] = -1 /\ ItemsOK(k, t)
        BY <3>1, <4>5, Zenon DEF StreamOK, SentOK
      <4> QED BY <1>a, <1>3, <1>t, <4>1, <4>6, NoItems, Zenon
    <3> QED BY <1>8, <1>9, <2>1, <3>1, <3>2, Zenon
  <2> QED BY <1>4, <1>5, <1>6, <1>7, <2>1, <2>2, StepOK, Zenon
<1> QED BY <1>10, <1>11, Zenon

(***************************************************************************)
(* Steps of the loop.                                                      *)
(***************************************************************************)
(***************************************************************************)
(* The steps of the loop.                                                  *)
(***************************************************************************)

\* Once the loop has left its session, no session is left.
LEMMA LeftNone == ASSUME LoopStands, NEW k \in Session PROVE Left(1)[k] = NoSession
<1>1. Left(1)[k] = IF k = loops[1].session THEN NoSession ELSE sess[k]
  BY Zenon DEF Left
<1> QED BY <1>1, Zenon DEF LoopStands

LEMMA LeftType == Left(1) \in [Session -> SyncSession] <=> \A k \in Session : Left(1)[k] \in SyncSession
<1>1. PICK f : f = [k \in Session |-> IF k = loops[1].session THEN NoSession ELSE sess[k]]
  BY Zenon
<1>2. Left(1) = f /\ (f \in [Session -> SyncSession] <=> \A k \in Session : f[k] \in SyncSession)
  BY <1>1, Zenon DEF Left
<1> QED BY <1>2, Zenon

\* Views, calls and the update at work are as they were, and no loop has just ended.
LEMMA ViewsSameOK ==
  ASSUME Before, UNCHANGED <<streams, cookie, timeline, unapplied, callVars, tick, log>>, loops[1].pc # "done", NEW s \in Stream
  PROVE ViewOK(s)' /\ TickOK(s)'
<1>1. ViewOK(s) /\ TickOK(s) /\ (TickOf(s)' <=> TickOf(s)) /\ UNCHANGED <<addCall, removeCall>>
  BY Zenon DEF Before, ViewBody, TickOf, callVars
<1> QED BY <1>1, Zenon DEF ViewOK, TickOK, Had

LEMMA NoSessionType == NoSession \in SyncSession
  BY DEF NoSession, SyncSession

LEMMA LoopRecord ==
  ASSUME LoopTypes, NEW x, loops' = [loops EXCEPT ![1] = x]
  PROVE loops'[1] = x /\ \A l \in Loop \ {1} : loops'[l] = loops[l]
  BY SyncConstants, Zenon DEF LoopTypes

\* The loop leaves its session and waits.
LEMMA RetryOK ==
  ASSUME Before, syncState' = "Retrying", syncId' \in {0} \cup Session, loops' = [loops EXCEPT ![1] = [pc |-> "retryWait", session |-> 0]],
         sess' = Left(1), breakTimers' = 0, loops[1].pc # "done", UNCHANGED <<streamVars, tick, nextSession, callVars, responsesQueue, log>>
  PROVE After
<1>t. ViewTypes /\ LoopStands /\ QueueOK /\ LoopTypes
  BY Zenon DEF Before, ViewBody
<1>u. UNCHANGED <<streams, cookie, timeline, unapplied, addCall, removeCall>>
  BY Zenon DEF streamVars, callVars
<1>1. loops'[1].pc = "retryWait" /\ \A l \in Loop \ {1} : loops'[l] = loops[l]
  <2>1. loops'[1] = [pc |-> "retryWait", session |-> 0] /\ \A l \in Loop \ {1} : loops'[l] = loops[l]
    BY <1>t, LoopRecord, Zenon
  <2> QED BY <2>1
<1>2. \A k \in Session : sess'[k] = NoSession
  BY <1>t, LeftNone, Zenon
<1>3. sess' \in [Session -> SyncSession]
  BY <1>2, LeftType, NoSessionType, Zenon
<1>4. ViewTypes'
  BY <1>t, <1>u, <1>3, Zenon DEF ViewTypes
<1>5. LoopStands'
  <2>1. ~(breakTimers' > 0)
    OBVIOUS
  <2> QED BY SMTT(30), Z3T(30), Z3T(30), <1>t, <1>1, <1>2, <2>1 DEF LoopStands
<1>6. QueueOK'
  BY <1>t, Zenon DEF QueueOK
<1>7. ~Active'
  BY <1>1 DEF Active
<1> QED BY <1>4, <1>5, <1>6, <1>7, <1>u, ViewsSameOK, Zenon DEF After, ViewBody

\* The loop ends.
LEMMA FinalOK ==
  ASSUME Before, NEW w, Finally(1, "Canceling", w), responsesQueue' \in Seq(SyncItem), QueueOK', UNCHANGED <<callVars, log>>
  PROVE After
<1>t. ViewTypes /\ LoopStands /\ LoopTypes /\ UNCHANGED <<addCall, removeCall>> /\ \A s \in Stream : ViewOK(s)
  BY Zenon DEF Before, ViewBody, callVars
<1>0. "NotSyncing" \in stateConstraints["Canceling"]
  BY SyncStates DEF SyncState
<1>1. /\ loops' = [loops EXCEPT ![1] = [pc |-> "done", session |-> 0]] /\ sess' = Left(1) /\ UNCHANGED nextSession
      /\ syncState' = "NotSyncing" /\ syncId' = 0
      /\ streams' = {} /\ cookie' = [s \in Stream |-> 0] /\ timeline' = [s \in Stream |-> {}] /\ unapplied' = [s \in Stream |-> {}]
      /\ tick' = IF tick = NoItem THEN NoItem ELSE [tick EXCEPT !.orphan = TRUE]
  BY <1>0, Zenon DEF Finally
<1>2. loops'[1].pc = "done" /\ \A l \in Loop \ {1} : loops'[l] = loops[l]
  <2>1. loops'[1] = [pc |-> "done", session |-> 0] /\ \A l \in Loop \ {1} : loops'[l] = loops[l]
    BY <1>t, <1>1, LoopRecord, Zenon
  <2> QED BY <2>1
<1>3. \A k \in Session : sess'[k] = NoSession
  BY <1>t, <1>1, LeftNone, Zenon
<1>4. sess' \in [Session -> SyncSession]
  BY <1>1, <1>3, LeftType, NoSessionType, Zenon
<1>5. tick' \in {NoItem} \cup SyncItem /\ (tick' = NoItem \/ tick'.orphan)
  <2>1. CASE tick = NoItem
    BY <1>1, <2>1, Zenon
  <2>2. CASE tick # NoItem
    <3>1. tick \in SyncItem /\ tick' = [tick EXCEPT !.orphan = TRUE]
      BY <1>t, <1>1, <2>2, Zenon DEF ViewTypes
    <3>2. tick' \in SyncItem /\ tick'.orphan = TRUE
      BY <3>1, Zenon DEF SyncItem
    <3> QED BY <3>2
  <2> QED BY <2>1, <2>2, Zenon
<1>6. 0 \in Nat /\ (\A s \in Stream : cookie'[s] = 0) /\ cookie' \in [Stream -> Nat] /\ timeline' \in [Stream -> SUBSET Nat] /\ unapplied' \in [Stream -> SUBSET Nat]
  BY <1>1
<1>7. ViewTypes'
  BY <1>t, <1>1, <1>4, <1>5, <1>6, Zenon DEF ViewTypes
<1>8. LoopStands'
  BY SMTT(30), Z3T(30), Z3T(30), <1>t, <1>1, <1>2, <1>3 DEF LoopStands
<1>9. ASSUME NEW s \in Stream PROVE ViewOK(s)' /\ TickOK(s)'
  <2>1. cookie'[s] <= log'[s] /\ s \notin streams'
    <3>1. log'[s] \in Nat /\ cookie'[s] = 0
      BY <1>6, <1>t, Zenon DEF ViewTypes
    <3> QED BY <1>1, <3>1
  <2>2. ~TickOf(s)'
    BY <1>5, Zenon DEF TickOf
  <2>3. timeline'[s] \subseteq 1..cookie'[s]
    BY <1>1, Zenon
  <2> QED BY <1>t, <1>2, <2>1, <2>2, <2>3, Zenon DEF ViewOK, TickOK
<1>10. ~Active'
  BY <1>2 DEF Active
<1> QED BY <1>7, <1>8, <1>9, <1>10, Zenon DEF After, ViewBody

\* The loop opens the next session, with the cookies of the views.
LEMMA OpenOK ==
  ASSUME Before, NEW st, st \in {"Starting", "Retrying"}, NEW pt, OpenSession(1, st, pt), loops[1].pc # "done", breakTimers' = 0,
         UNCHANGED <<callVars, responsesQueue, log>>
  PROVE After
<1>t. ViewTypes /\ LoopStands /\ QueueOK /\ LoopTypes
  BY Zenon DEF Before, ViewBody
<1>1. PICK k, new, q : /\ k = nextSession /\ q = <<[op |-> "NEW"]>>
                       /\ new = [open |-> TRUE, asked |-> [s \in Stream |-> IF s \in streams THEN cookie[s] ELSE -1],
                                 sent |-> [s \in Stream |-> -1], queue |-> q]
  BY Zenon
<1>2. /\ k \in Session /\ syncState' = "Starting" /\ syncId' = 0 /\ sess' = [Left(1) EXCEPT ![k] = new] /\ nextSession' = k + 1
      /\ loops' = [loops EXCEPT ![1] = [pc |-> "next", session |-> k]] /\ UNCHANGED <<streams, cookie, timeline, unapplied, tick>>
  BY <1>1, Zenon DEF OpenSession, streamVars
<1>u. UNCHANGED <<addCall, removeCall>>
  BY Zenon DEF callVars
<1>3. q \in Seq(SyncResponse) /\ q # << >> /\ q[1].op = "NEW" /\ \A i \in DOMAIN q : q[i].op # "UPDATE"
  BY <1>1 DEF SyncResponse
<1>4. /\ new.queue = q /\ new \in SyncSession /\ (\A s \in Stream : new.sent[s] = -1)
      /\ \A s \in Stream : new.asked[s] # -1 => s \in streams /\ new.asked[s] = cookie[s]
  <2>1. PICK a, b : a = [s \in Stream |-> IF s \in streams THEN cookie[s] ELSE -1] /\ b = [s \in Stream |-> -1]
    BY Zenon
  <2>2. /\ a \in [Stream -> Nat \cup {-1}] /\ b \in [Stream -> Nat \cup {-1}] /\ (\A s \in Stream : b[s] = -1)
        /\ \A s \in Stream : a[s] # -1 => s \in streams /\ a[s] = cookie[s]
    BY <1>t, <2>1 DEF ViewTypes
  <2>3. new = [open |-> TRUE, asked |-> a, sent |-> b, queue |-> q]
    BY <1>1, <2>1, Zenon
  <2>4. new.queue = q /\ new \in SyncSession /\ new.sent = b /\ new.asked = a
    BY <1>3, <2>2, <2>3 DEF SyncSession
  <2> QED BY <2>2, <2>4, Zenon
<1>5. sess' \in [Session -> SyncSession] /\ sess'[k] = new /\ \A j \in Session \ {k} : sess'[j] = NoSession
  <2>1. Left(1) \in [Session -> SyncSession] /\ \A j \in Session : Left(1)[j] = NoSession
    BY <1>t, LeftNone, LeftType, NoSessionType, Zenon
  <2> QED BY <1>2, <1>4, <2>1, Zenon
<1>6. loops'[1].pc = "next" /\ loops'[1].session = k /\ \A l \in Loop \ {1} : loops'[l] = loops[l]
  <2>1. loops'[1] = [pc |-> "next", session |-> k] /\ \A l \in Loop \ {1} : loops'[l] = loops[l]
    BY <1>t, <1>2, LoopRecord, Zenon
  <2> QED BY <2>1
<1>7. /\ nextSession' \in Nat /\ k < nextSession' /\ \A x \in Session : x < k => x < nextSession'
      /\ \A x \in Session : x < k => x # k
  <2>1. k \in Nat /\ Session \subseteq Nat
    BY <1>2, SyncConstants DEF Session
  <2> QED BY SMTT(30), Z3T(30), Z3T(30), <1>2, <2>1
<1>8. ViewTypes'
  <2>1. syncId' \in {0} \cup Session
    BY <1>2, ZenonT(30)
  <2> QED BY <1>t, <1>2, <1>5, <1>7, <1>u, <2>1, Zenon DEF ViewTypes
<1>9. LoopStands'
  <2>1. ~(breakTimers' > 0)
    OBVIOUS
  <2> QED BY SMTT(30), Z3T(30), Z3T(30), <1>t, <1>2, <1>5, <1>6, <1>7, <2>1 DEF LoopStands
<1>10. \A i \in DOMAIN responsesQueue : responsesQueue[i].session \in Session /\ responsesQueue[i].session < k
  <2>1. \A i \in DOMAIN responsesQueue : responsesQueue[i] \in SyncItem
    BY <1>t DEF ViewTypes
  <2>2. \A i \in DOMAIN responsesQueue : responsesQueue[i].session \in Session
    BY <2>1 DEF SyncItem
  <2> QED BY <1>t, <1>1, <2>2, Zenon DEF QueueOK
<1>11. QueueOK'
  BY <1>t, <1>7, <1>10, Zenon DEF QueueOK
<1>12. StartingOK(k)'
  BY <1>3, <1>4, <1>5, <1>7, <1>10, Zenon DEF StartingOK
<1>13. ASSUME NEW s \in Stream PROVE StreamOK(k, s)'
  <2>1. /\ \A i \in DOMAIN responsesQueue' : ~UpdateQueued(i, k, s)'
        /\ \A i \in DOMAIN sess'[k].queue : ~UpdateComing(i, k, s)'
    <3>1. \A i \in DOMAIN responsesQueue' : ~UpdateQueued(i, k, s)'
      BY <1>7, <1>10, Zenon DEF UpdateQueued
    <3>2. \A i \in DOMAIN sess'[k].queue : ~UpdateComing(i, k, s)'
      BY <1>3, <1>4, <1>5, Zenon DEF UpdateComing
    <3> QED BY <3>1, <3>2, Zenon
  <2>2. SentOK(k, s)'
    <3>1. cookie[s] \in Nat /\ cookie[s] <= cookie[s]
      BY <1>t DEF ViewTypes
    <3>2. sess'[k].sent[s] = -1 /\ (sess'[k].asked[s] # -1 => s \in streams' /\ sess'[k].asked[s] <= cookie'[s])
      BY <1>2, <1>4, <1>5, <3>1, Zenon
    <3> QED BY <3>2, Zenon DEF SentOK
  <2> QED BY <2>1, <2>2, Zenon DEF StreamOK, ItemsOK, Sorted
<1>14. ChainOK'
  BY <1>6, <1>12, <1>13, Zenon DEF ChainOK
<1>15. ASSUME NEW s \in Stream PROVE ViewOK(s)' /\ TickOK(s)'
  BY <1>2, ViewsSameOK, Zenon
<1> QED BY <1>8, <1>9, <1>11, <1>14, <1>15, Zenon DEF After, ViewBody

\* The loop takes the first response of its session, and reads on.
Pops(k, st, id) ==
  /\ k = loops[1].session /\ loops[1].pc = "next" /\ sess[k].queue # << >>
  /\ st \in {"Starting", "Syncing"} /\ syncState' = st /\ syncId' = id
  /\ sess' = [sess EXCEPT ![k].queue = Tail(@)]
  /\ UNCHANGED <<loops, streamVars, tick, nextSession, callVars, log, breakTimers>>

\* The session without its first response.
LEMMA PopFields ==
  ASSUME ViewTypes, LoopStands, NEW k, NEW st, NEW id, Pops(k, st, id)
  PROVE /\ k \in Session /\ sess' \in [Session -> SyncSession] /\ sess'[k].queue = Tail(sess[k].queue)
        /\ sess'[k].asked = sess[k].asked /\ sess'[k].sent = sess[k].sent /\ \A j \in Session \ {k} : sess'[j] = sess[j]
<1>1. k \in Session /\ sess \in [Session -> SyncSession] /\ sess[k] \in SyncSession
  BY Zenon DEF Pops, LoopStands, ViewTypes
<1>2. PICK p : p = Tail(sess[k].queue)
  BY Zenon
<1>3. p \in Seq(SyncResponse)
  <2>1. sess[k].queue \in Seq(SyncResponse) /\ sess[k].queue # << >>
    BY <1>1 DEF SyncSession, Pops
  <2> QED BY <1>2, <2>1, QueueTail, Zenon
<1> DEFINE r == [sess[k] EXCEPT !.queue = p]
<1>4. sess' = [sess EXCEPT ![k] = r]
  BY <1>2, Zenon DEF Pops
<1>5. r \in SyncSession /\ r.queue = p /\ r.asked = sess[k].asked /\ r.sent = sess[k].sent
  BY <1>1, <1>3, Zenon DEF SyncSession
<1> HIDE DEF r
<1>6. sess'[k] = r /\ sess' \in [Session -> SyncSession] /\ \A j \in Session \ {k} : sess'[j] = sess[j]
  BY <1>1, <1>4, <1>5, Zenon
<1> QED BY <1>1, <1>2, <1>5, <1>6, Zenon

LEMMA PopStands ==
  ASSUME Before, NEW k, NEW st, NEW id, Pops(k, st, id), st = "Syncing" => id = k, st = "Starting" => id = 0, breakTimers = 0,
         responsesQueue' \in Seq(SyncItem), QueueOK', StartingOK(k)', \A s \in Stream : StreamOK(k, s)'
  PROVE After
<1>t. ViewTypes /\ LoopStands /\ LoopTypes
  BY Zenon DEF Before, ViewBody
<1>1. /\ k \in Session /\ sess' \in [Session -> SyncSession] /\ \A j \in Session \ {k} : sess'[j] = sess[j]
  BY <1>t, PopFields, Zenon
<1>2. /\ k = loops[1].session /\ loops[1].pc = "next" /\ st \in {"Starting", "Syncing"} /\ syncState' = st /\ syncId' = id
      /\ UNCHANGED <<loops, streams, cookie, timeline, unapplied, addCall, removeCall, callVars, tick, nextSession, log, breakTimers>>
  BY Zenon DEF Pops, streamVars, callVars
<1>3. ViewTypes'
  BY <1>t, <1>1, <1>2, ZenonT(30) DEF ViewTypes
<1>4. LoopStands'
  <2>1. ~(breakTimers' > 0)
    BY <1>2
  <2>2. /\ loops'[1].pc = "next" /\ syncState' \in {"Starting", "Syncing"} /\ loops'[1].session = k /\ k < nextSession'
        /\ (syncState' = "Syncing" => syncId' = k) /\ (syncState' = "Starting" => syncId' = 0)
        /\ (\A l \in Loop \ {1} : loops'[l].pc = "none") /\ \A j \in Session : j # k => sess'[j] = NoSession
    BY <1>t, <1>1, <1>2, Zenon DEF LoopStands
  <2> QED BY SMTT(30), Z3T(30), Z3T(30), <1>1, <2>1, <2>2 DEF LoopStands
<1>5. ChainOK'
  BY <1>2, Zenon DEF ChainOK
<1>6. ASSUME NEW s \in Stream PROVE ViewOK(s)' /\ TickOK(s)'
  <2>1. loops[1].pc # "done"
    BY <1>2
  <2> QED BY <1>2, <2>1, ViewsSameOK, Zenon
<1> QED BY <1>3, <1>4, <1>5, <1>6, Zenon DEF After, ViewBody

\* syncStarted: the first response is SYNC_NEW.
LEMMA PopNewOK ==
  ASSUME Before, NEW k, NEW st, NEW id, Pops(k, st, id), st = "Syncing", id = k, syncState \in {"Starting", "Syncing"},
         sess[k].queue[1].op # "UPDATE", responsesQueue' = responsesQueue
  PROVE After
<1>t. ViewTypes /\ LoopStands /\ QueueOK /\ LoopTypes
  BY Zenon DEF Before, ViewBody
<1>1. /\ k \in Session /\ sess'[k].queue = Tail(sess[k].queue) /\ sess'[k].asked = sess[k].asked /\ sess'[k].sent = sess[k].sent
  BY <1>t, PopFields, Zenon
<1>2. /\ k = loops[1].session /\ loops[1].pc = "next" /\ sess[k].queue # << >> /\ syncState' = "Syncing" /\ ClientSame /\ nextSession' = nextSession
  BY Zenon DEF Pops, ClientSame, streamVars
<1>3. \A s \in Stream : StreamOK(k, s)
  BY <1>1, <1>2, Zenon DEF Before, Active, ChainOK
<1>4. ASSUME NEW s \in Stream PROVE StreamOK(k, s)'
  <2>1. UpdatesSame(k, s, 1)
    BY <1>t, <1>1, <1>2, OtherPopped, Zenon
  <2>2. sess'[k].asked[s] = sess[k].asked[s] /\ sess'[k].sent[s] = sess[k].sent[s] /\ 1 \in {0, 1}
    BY <1>1, Zenon
  <2> QED BY <1>t, <1>1, <1>2, <1>3, <2>1, <2>2, StreamShifted, Zenon
<1>5. StartingOK(k)'
  BY <1>2 DEF StartingOK
<1>6. breakTimers = 0
  <2>1. breakTimers \in Nat /\ ~(breakTimers > 0)
    BY <1>t DEF LoopTypes, LoopStands
  <2> QED BY SMTT(30), Z3T(30), Z3T(30), <2>1
<1>7. QueueOK'
  BY <1>t, <1>2, Zenon DEF QueueOK
<1>8. responsesQueue' \in Seq(SyncItem) /\ st # "Starting"
  BY <1>t DEF ViewTypes
<1> QED BY <1>4, <1>5, <1>6, <1>7, <1>8, PopStands, Zenon

ItemOf(k, r) ==
  [session |-> k, stream |-> r.stream, from |-> r.from, to |-> r.to, reset |-> r.reset, orphan |-> FALSE]

\* An update goes into responsesQueue.
LEMMA QueuedOK ==
  ASSUME ViewTypes, QueueOK, NEW k \in Session, k < nextSession, nextSession' = nextSession, sess[k].queue # << >>,
         sess[k].queue[1].op = "UPDATE", responsesQueue' = Append(responsesQueue, ItemOf(k, sess[k].queue[1]))
  PROVE responsesQueue' \in Seq(SyncItem) /\ QueueOK'
<1>1. PICK e : e = ItemOf(k, sess[k].queue[1])
  OBVIOUS
<1>2. e \in SyncItem /\ ~e.orphan /\ e.session = k
  <2>1. PICK q \in Seq(SyncResponse) : q = sess[k].queue
    BY DEF ViewTypes, SyncSession
  <2>2. q[1] \in SyncResponse /\ q[1].op = "UPDATE"
    BY <2>1, QueueTail, ZenonT(30)
  <2>3. PICK r \in SyncUpdate : r = q[1]
    BY <2>2 DEF SyncResponse
  <2>4. e = ItemOf(k, r)
    BY <1>1, <2>1, <2>3, Zenon
  <2> QED BY <2>3, <2>4 DEF SyncUpdate, SyncItem, ItemOf
<1>3. PICK a, b : a \in Seq(SyncItem) /\ a = responsesQueue /\ b = responsesQueue' /\ b = Append(a, e)
  BY <1>1, Zenon DEF ViewTypes
<1>4. b \in Seq(SyncItem) /\ \A i \in DOMAIN b : b[i] = e \/ (i \in DOMAIN a /\ b[i] = a[i])
  BY <1>2, <1>3
<1> QED BY ZenonT(30), <1>2, <1>3, <1>4, Zenon DEF QueueOK

LEMMA PopUpdateOK ==
  ASSUME Before, NEW k, NEW st, NEW id, Pops(k, st, id), st = syncState, id = syncId,
         sess[k].queue[1].op = "UPDATE", responsesQueue' = Append(responsesQueue, ItemOf(k, sess[k].queue[1]))
  PROVE After
<1>t. ViewTypes /\ LoopStands /\ QueueOK /\ LoopTypes
  BY Zenon DEF Before, ViewBody
<1>1. /\ k \in Session /\ sess'[k].queue = Tail(sess[k].queue) /\ sess'[k].asked = sess[k].asked /\ sess'[k].sent = sess[k].sent
  BY <1>t, PopFields, Zenon
<1>2. /\ k = loops[1].session /\ loops[1].pc = "next" /\ sess[k].queue # << >> /\ nextSession' = nextSession /\ st \in {"Starting", "Syncing"}
      /\ syncState' = st /\ UNCHANGED <<tick, streams, cookie, timeline, unapplied, log>>
  BY Zenon DEF Pops, streamVars
<1>3. StartingOK(k) /\ \A s \in Stream : StreamOK(k, s)
  BY <1>1, <1>2, Zenon DEF Before, Active, ChainOK
<1>4. st = "Syncing" /\ id = k
  <2>1. st # "Starting"
    BY <1>3 DEF StartingOK
  <2> QED BY <1>2, <1>t, <2>1, ZenonT(30) DEF LoopStands
<1>5. UpdateTaken(k)
  BY <1>1, <1>2, Zenon DEF UpdateTaken, ItemOf
<1>6. \A s \in Stream : StreamOK(k, s)'
  BY <1>t, <1>1, <1>3, <1>5, StreamTaken, ZenonT(30)
<1>7. StartingOK(k)' /\ st # "Starting"
  BY <1>2, <1>4 DEF StartingOK
<1>8. breakTimers = 0
  <2>1. breakTimers \in Nat /\ ~(breakTimers > 0)
    BY <1>t, <1>4 DEF LoopTypes, LoopStands
  <2> QED BY SMTT(30), Z3T(30), Z3T(30), <2>1
<1>9. responsesQueue' \in Seq(SyncItem) /\ QueueOK'
  <2>1. k < nextSession
    BY <1>t, <1>2, Zenon DEF LoopStands
  <2> QED BY <1>t, <1>1, <1>2, <2>1, QueuedOK, Zenon
<1> QED BY <1>4, <1>6, <1>7, <1>8, <1>9, PopStands, Zenon

(***************************************************************************)
(* The actions of the loop.                                                *)
(***************************************************************************)
\* With one start there is one loop.
LEMMA OneLoopOnly ==
  ASSUME Before, NEW l \in Loop, loops[l].pc # "none" \/ l <= syncBound.starts
  PROVE l = 1
<1>1. CASE loops[l].pc # "none"
  BY <1>1, Zenon DEF Before, ViewBody, LoopStands
<1>2. CASE l <= syncBound.starts
  <2>1. l \in 1..MaxStarts /\ syncBound.starts = 1
    BY DEF Before, OneStart, Loop
  <2> QED BY SMTT(30), Z3T(30), Z3T(30), <1>2, <2>1, SyncConstants
<1> QED BY <1>1, <1>2, Zenon

LEMMA StartSyncStreamsOK == ASSUME Before, NEW l \in Loop, StartSyncStreams(l) PROVE After
<1>t. ViewTypes /\ LoopStands /\ QueueOK /\ LoopTypes
  BY Zenon DEF Before, ViewBody
<1>1. l = 1 /\ loops[1].pc = "none"
  BY OneLoopOnly, Zenon DEF StartSyncStreams
<1>2. syncState = "NotSyncing" /\ breakTimers = 0
  BY <1>t, <1>1, Zenon DEF LoopStands
<1>3. "Starting" \in stateConstraints[syncState]
  BY <1>2, SyncStates DEF SyncState
<1>4. NextIteration(1, "Starting", pingTimer) /\ UNCHANGED <<callVars, responsesQueue, breakTimers, log>>
  BY <1>1, <1>3, Zenon DEF StartSyncStreams, stopVars
<1>5. OpenSession(1, "Starting", pingTimer)
  BY <1>4 DEF NextIteration
<1>6. loops[1].pc # "done"
  BY <1>1
<1> QED BY <1>2, <1>4, <1>5, <1>6, OpenOK, Zenon

\* A loop that finds the state Canceling ends.
LEMMA CanceledOK ==
  ASSUME Before, NEW pt, NextIteration(1, "Canceling", pt), responsesQueue' \in Seq(SyncItem), nextSession' = nextSession => QueueOK',
         UNCHANGED <<callVars, log>>
  PROVE After
<1>1. Finally(1, "Canceling", waiter)
  BY DEF NextIteration
<1>2. QueueOK'
  BY <1>1, Zenon DEF Finally
<1> QED BY <1>1, <1>2, FinalOK, Zenon

LEMMA QueueKept ==
  ASSUME Before, responsesQueue' = responsesQueue
  PROVE responsesQueue' \in Seq(SyncItem) /\ (nextSession' = nextSession => QueueOK')
  BY Zenon DEF Before, ViewBody, ViewTypes, QueueOK

\* Where the loop stands while it reads.
LEMMA NextStands ==
  ASSUME Before, loops[1].pc = "next"
  PROVE /\ syncState \in {"Starting", "Syncing", "Canceling"} /\ loops[1].session \in Session /\ loops[1].session < nextSession
        /\ (syncState = "Syncing" => syncId = loops[1].session) /\ (syncState = "Starting" => syncId = 0)
        /\ (syncState # "Canceling" => breakTimers = 0) /\ syncId \in {0} \cup Session /\ loops[1].pc # "done"
<1>1. LoopStands /\ ViewTypes /\ LoopTypes
  BY Zenon DEF Before, ViewBody
<1>2. /\ syncState \in {"Starting", "Syncing", "Canceling"} /\ loops[1].session \in Session /\ loops[1].session < nextSession
      /\ (syncState = "Syncing" => syncId = loops[1].session) /\ (syncState = "Starting" => syncId = 0)
      /\ syncId \in {0} \cup Session
  BY <1>1, Zenon DEF LoopStands, ViewTypes
<1>3. syncState # "Canceling" => breakTimers = 0
  <2>1. breakTimers \in Nat /\ (breakTimers > 0 => syncState \in {"Canceling", "NotSyncing"})
    BY <1>1, Zenon DEF LoopTypes, LoopStands
  <2> QED BY <1>2, <2>1
<1>4. loops[1].pc # "done"
  OBVIOUS
<1> QED BY <1>2, <1>3, <1>4, Zenon

LEMMA AttemptRetryOK ==
  ASSUME Before, AttemptRetry(1), loops[1].pc = "next", UNCHANGED <<callVars, responsesQueue, log, breakTimers>>
  PROVE After
<1>1. /\ syncState \in {"Starting", "Syncing", "Canceling"} /\ (syncState # "Canceling" => breakTimers = 0)
      /\ syncId \in {0} \cup Session /\ loops[1].pc # "done"
  BY NextStands, Zenon
<1>2. "Retrying" \in stateConstraints[syncState] <=> syncState \in {"Starting", "Syncing", "Retrying"}
  BY SyncStates, Zenon DEF Before, LoopTypes
<1>3. CASE syncState \in {"Starting", "Syncing"}
  <2>1. "Retrying" \in stateConstraints[syncState]
    BY <1>2, <1>3, Zenon
  <2>2. /\ syncState' = "Retrying" /\ syncId' = IF syncState = "Retrying" THEN syncId ELSE 0
        /\ loops' = [loops EXCEPT ![1] = [pc |-> "retryWait", session |-> 0]]
        /\ sess' = Left(1) /\ UNCHANGED <<streamVars, tick, nextSession>>
    BY <2>1, Zenon DEF AttemptRetry
  <2>3. syncId' \in {0} \cup Session /\ breakTimers' = 0
    BY <1>1, <1>3, <2>2
  <2> QED BY <1>1, <2>2, <2>3, RetryOK, Zenon
<1>4. CASE syncState = "Canceling"
  <2>1. "Retrying" \notin stateConstraints[syncState]
    BY <1>2, <1>4
  <2>2. NextIteration(1, "Canceling", FALSE)
    BY <1>4, <2>1, Zenon DEF AttemptRetry
  <2> QED BY <2>2, QueueKept, CanceledOK, Zenon
<1> QED BY <1>1, <1>3, <1>4, Zenon

LEMMA SyncStartedOK == ASSUME Before, SyncStarted(1) PROVE After
<1>1. PICK k, accepted : k = loops[1].session /\ accepted = (syncId = 0 /\ "Syncing" \in stateConstraints[syncState])
  OBVIOUS
<1>2. /\ loops[1].pc = "next" /\ sess[k].queue # << >> /\ Head(sess[k].queue).op = "NEW"
      /\ NextResponse(1, IF accepted THEN "Syncing" ELSE syncState, IF accepted THEN k ELSE syncId, pingTimer \/ accepted)
      /\ UNCHANGED <<callVars, responsesQueue, breakTimers, log>>
  BY <1>1, Zenon DEF SyncStarted, stopVars
<1>3. /\ syncState \in {"Starting", "Syncing", "Canceling"} /\ k \in Session
      /\ (syncState = "Syncing" => syncId = k) /\ (syncState = "Starting" => syncId = 0)
  BY <1>1, <1>2, NextStands, Zenon
<1>4. "Syncing" \in stateConstraints[syncState] <=> syncState \in {"Starting", "Retrying"}
  BY SyncStates, Zenon DEF Before, LoopTypes
<1>5. CASE syncState = "Canceling"
  <2>1. ~accepted
    BY <1>1, <1>4, <1>5, Zenon
  <2>2. NextResponse(1, "Canceling", syncId, pingTimer \/ accepted)
    BY <1>2, <1>5, <2>1
  <2>3. NextIteration(1, "Canceling", pingTimer \/ accepted)
    BY <2>2 DEF NextResponse
  <2>4. PICK pt : pt = (pingTimer \/ accepted)
    OBVIOUS
  <2> QED BY <1>2, <2>3, <2>4, QueueKept, CanceledOK, Zenon
<1>6. CASE syncState \in {"Starting", "Syncing"}
  <2>1. (accepted <=> syncState = "Starting")
    <3>1. 0 \notin Session
      BY SyncConstants, Zenon
    <3> QED BY <1>1, <1>3, <1>4, <1>6, <3>1, Zenon
  <2>2. PICK st, id, pt : /\ st = (IF accepted THEN "Syncing" ELSE syncState) /\ id = (IF accepted THEN k ELSE syncId)
                          /\ pt = (pingTimer \/ accepted)
    OBVIOUS
  <2>3. st = "Syncing" /\ id = k
    BY SMTT(30), Z3T(30), Z3T(30), <1>3, <1>6, <2>1, <2>2
  <2>4. NextResponse(1, st, id, pt)
    BY <1>2, <2>2, Zenon
  <2>5. /\ syncState' = st /\ syncId' = id /\ sess' = [sess EXCEPT ![k].queue = Tail(@)]
        /\ UNCHANGED <<loops, streamVars, tick, nextSession>>
    BY <1>1, <2>3, <2>4 DEF NextResponse
  <2>6. Pops(k, st, id)
    BY <1>1, <1>2, <2>3, <2>5, Zenon DEF Pops
  <2>7. sess[k].queue[1].op # "UPDATE"
    <3>1. Head(sess[k].queue) = sess[k].queue[1]
      <4>1. sess[k].queue \in Seq(SyncResponse)
        BY <1>3 DEF Before, ViewBody, ViewTypes, SyncSession
      <4> QED BY SMTT(30), Z3T(30), Z3T(30), <1>2, <4>1
    <3> QED BY SMTT(30), Z3T(30), <1>2, <3>1
  <2> QED BY <1>2, <1>6, <2>3, <2>6, <2>7, PopNewOK, Zenon
<1> QED BY <1>3, <1>5, <1>6, Zenon

LEMMA SyncClosedOK == ASSUME Before, SyncClosed(1) PROVE After
<1>1. /\ loops[1].pc = "next" /\ UNCHANGED <<callVars, responsesQueue, breakTimers, log>>
      /\ \/ syncState = "Canceling" /\ NextResponse(1, "Canceling", syncId, FALSE)
         \/ syncState \in {"Starting", "Syncing"} /\ NextResponse(1, "Retrying", syncId, FALSE)
         \/ syncState = "NotSyncing" \/ syncState = "Retrying"
  BY Zenon DEF SyncClosed, stopVars
<1>2. /\ syncState \in {"Starting", "Syncing", "Canceling"} /\ (syncState # "Canceling" => breakTimers = 0) /\ loops[1].pc # "done"
  BY <1>1, NextStands, Zenon
<1>3. CASE syncState = "Canceling"
  <2>1. NextIteration(1, "Canceling", FALSE)
    BY <1>1, <1>3, Zenon DEF NextResponse
  <2> QED BY <1>1, <2>1, QueueKept, CanceledOK, Zenon
<1>4. CASE syncState \in {"Starting", "Syncing"}
  <2>1. OpenSession(1, "Retrying", FALSE)
    BY <1>1, <1>4, Zenon DEF NextResponse, NextIteration
  <2>2. breakTimers' = 0
    BY <1>1, <1>2, <1>4
  <2> QED BY <1>1, <1>2, <2>1, <2>2, OpenOK, Zenon
<1> QED BY <1>2, <1>3, <1>4, Zenon

LEMMA GotUpdateOK == ASSUME Before, GotUpdate(1) PROVE After
<1>1. PICK k : k = loops[1].session
  OBVIOUS
<1>2. /\ loops[1].pc = "next" /\ sess[k].queue # << >> /\ Head(sess[k].queue).op = "UPDATE"
      /\ responsesQueue' = Append(responsesQueue, ItemOf(k, Head(sess[k].queue)))
      /\ NextResponse(1, syncState, syncId, pingTimer) /\ UNCHANGED <<callVars, breakTimers, log>>
  BY <1>1, Zenon DEF GotUpdate, stopVars, ItemOf
<1>3. /\ syncState \in {"Starting", "Syncing", "Canceling"} /\ k \in Session /\ k < nextSession
  BY <1>1, <1>2, NextStands, Zenon
<1>4. Head(sess[k].queue) = sess[k].queue[1]
  <2>1. sess[k].queue \in Seq(SyncResponse)
    BY <1>3 DEF Before, ViewBody, ViewTypes, SyncSession
  <2> QED BY SMTT(30), Z3T(30), Z3T(30), <1>2, <2>1
<1>5. CASE syncState = "Canceling"
  <2>1. NextIteration(1, "Canceling", pingTimer)
    BY <1>2, <1>5 DEF NextResponse
  <2>2. nextSession' = nextSession
    BY <2>1 DEF NextIteration, Finally
  <2>3. responsesQueue' \in Seq(SyncItem) /\ QueueOK'
    BY <1>2, <1>3, <1>4, <2>2, QueuedOK, Zenon DEF Before, ViewBody
  <2> QED BY <1>2, <2>1, <2>3, CanceledOK, Zenon
<1>6. CASE syncState \in {"Starting", "Syncing"}
  <2>1. /\ syncState' = syncState /\ syncId' = syncId /\ sess' = [sess EXCEPT ![k].queue = Tail(@)]
        /\ UNCHANGED <<loops, streamVars, tick, nextSession>>
    BY <1>1, <1>2, <1>6 DEF NextResponse
  <2>2. PICK st, id : st = syncState /\ id = syncId
    OBVIOUS
  <2>3. Pops(k, st, id)
    BY <1>1, <1>2, <1>6, <2>1, <2>2, Zenon DEF Pops
  <2> QED BY <1>2, <1>4, <2>2, <2>3, PopUpdateOK, ZenonT(30)
<1> QED BY <1>3, <1>5, <1>6, Zenon

LEMMA RetryWaitEndsOK == ASSUME Before, RetryWaitEnds(1) PROVE After
<1>1. /\ loops[1].pc = "retryWait" /\ NextIteration(1, syncState, pingTimer) /\ UNCHANGED <<callVars, responsesQueue, breakTimers, log>>
  BY Zenon DEF RetryWaitEnds, stopVars
<1>2. LoopStands /\ LoopTypes
  BY Zenon DEF Before, ViewBody
<1>3. syncState \in {"Retrying", "Canceling"} /\ loops[1].pc # "done"
  BY <1>1, <1>2 DEF LoopStands
<1>4. CASE syncState = "Canceling"
  BY <1>1, <1>4, QueueKept, CanceledOK, Zenon
<1>5. CASE syncState = "Retrying"
  <2>1. OpenSession(1, "Retrying", pingTimer)
    BY <1>1, <1>5 DEF NextIteration
  <2>2. breakTimers' = 0
    <3>1. breakTimers \in Nat /\ ~(breakTimers > 0) /\ breakTimers' = breakTimers
      BY SMTT(30), Z3T(30), Z3T(30), <1>1, <1>2, <1>5 DEF LoopTypes, LoopStands
    <3> QED BY SMTT(30), Z3T(30), Z3T(30), <3>1
  <2> QED BY <1>1, <1>3, <2>1, <2>2, OpenOK, Zenon
<1> QED BY <1>3, <1>4, <1>5, Zenon

LEMMA LoopStepOK == ASSUME Before, NEW l \in Loop, LoopStep(l) PROVE After
<1>1. loops[l].pc \in {"next", "retryWait"}
  BY Zenon DEF LoopStep, SyncStarted, SyncClosed, GotUpdate, SessionFailed, RetryWaitEnds
<1>2. loops[l].pc # "none"
  BY <1>1
<1>3. l = 1
  BY <1>2, OneLoopOnly, Zenon
<1>4. SyncStarted(1) \/ SyncClosed(1) \/ GotUpdate(1) \/ SessionFailed(1) \/ RetryWaitEnds(1)
  BY <1>3, Zenon DEF LoopStep
<1>5. CASE SessionFailed(1)
  <2>1. loops[1].pc = "next" /\ AttemptRetry(1) /\ UNCHANGED <<callVars, responsesQueue, log, breakTimers>>
    BY <1>5, Zenon DEF SessionFailed, stopVars
  <2> QED BY <2>1, AttemptRetryOK, Zenon
<1> QED BY <1>4, <1>5, SyncStartedOK, SyncClosedOK, GotUpdateOK, RetryWaitEndsOK, Zenon

LEMMA StopSyncOK == ASSUME Before, StopSync PROVE After
<1>t. ViewTypes /\ LoopStands /\ LoopTypes /\ LoopTypes'
  BY Zenon DEF Before, ViewBody
<1>1. responsesQueue' = << >> /\ UNCHANGED <<syncId, loops, waiter, streamVars, callVars, tick, log, sess, nextSession>>
  BY Zenon DEF StopSync
<1>2. UNCHANGED <<syncId, loops, streams, cookie, timeline, unapplied, addCall, removeCall, callVars, tick, log, sess, nextSession>>
  BY <1>1, Zenon DEF streamVars, callVars
<1>3. syncState' = "Canceling" /\ syncState # "NotSyncing"
  <2>1. "Canceling" \in stateConstraints[syncState] <=> syncState \in {"Starting", "Syncing", "Retrying"}
    BY <1>t, SyncStates, Zenon DEF LoopTypes
  <2>2. syncState \in SyncState
    BY <1>t, Zenon DEF LoopTypes
  <2>3. ("Canceling" \in stateConstraints[syncState] /\ syncState' = "Canceling")
        \/ ("Canceling" \notin stateConstraints[syncState] /\ syncState # "NotSyncing" /\ syncState' = syncState)
    BY Zenon DEF StopSync
  <2> QED BY <2>1, <2>2, <2>3 DEF SyncState
<1>4. loops[1].pc # "done" /\ loops[1].pc # "none"
  BY <1>t, <1>3, Zenon DEF LoopStands
<1>5. ViewTypes'
  <2>1. responsesQueue' \in Seq(SyncItem)
    BY <1>1
  <2> QED BY <1>t, <1>2, <2>1, Zenon DEF ViewTypes
<1>6. LoopStands'
  BY <1>t, <1>1, <1>2, <1>3, <1>4, Zenon DEF LoopStands
<1>7. QueueOK' /\ ~Active'
  BY <1>1, <1>3 DEF QueueOK, Active
<1> QED BY <1>2, <1>4, <1>5, <1>6, <1>7, ViewsSameOK, Zenon DEF After, ViewBody

LEMMA WaiterIsOne == ASSUME Before, Awaiting PROVE waiter = 1 /\ loops[1].pc = "next"
<1>1. waiter \in Loop /\ loops[waiter].pc = "next"
  BY Zenon DEF Awaiting, Before, LoopTypes
<1>2. PICK w \in Loop : w = waiter
  BY <1>1, Zenon
<1>3. loops[w].pc # "none"
  BY <1>1, <1>2
<1>4. w = 1
  BY <1>3, OneLoopOnly, Zenon
<1> QED BY <1>1, <1>2, <1>4, Zenon

LEMMA BreakTimeoutOK == ASSUME Before, BreakTimeout PROVE After
<1>t. ViewTypes /\ LoopStands /\ LoopTypes
  BY Zenon DEF Before, ViewBody
<1>1. breakTimers > 0 /\ breakTimers' = breakTimers - 1 /\ UNCHANGED <<syncLoop, callVars, responsesQueue, log>>
  BY Zenon DEF BreakTimeout
<1>2. CASE Awaiting /\ Finally(waiter, syncState, 0)
  <2>1. waiter = 1 /\ loops[1].pc = "next"
    BY <1>2, WaiterIsOne, Zenon
  <2>2. syncState = "Canceling"
    BY <1>t, <1>1, <2>1 DEF LoopStands
  <2>3. Finally(1, "Canceling", 0)
    BY <1>2, <2>1, <2>2, Zenon
  <2>4. nextSession' = nextSession
    BY <2>3, Zenon DEF Finally
  <2> QED BY <1>1, <2>3, <2>4, QueueKept, FinalOK, Zenon
<1>3. CASE UNCHANGED <<syncState, syncId, loops, waiter, streamVars, tick, pingTimer, sess, nextSession>>
  <2>1. (breakTimers' > 0 => breakTimers > 0) /\ (breakTimers = 0 => breakTimers' = 0)
    BY <1>1
  <2> QED BY <1>1, <1>3, <2>1, QuietStepOK, Zenon DEF stateVars, queueVars
<1> QED BY <1>2, <1>3, Zenon DEF BreakTimeout

LEMMA PingFailsOK == ASSUME Before, PingFails PROVE After
<1>1. UNCHANGED <<syncLoop, callVars, responsesQueue, breakTimers, log>>
  BY Zenon DEF PingFails, stopVars
<1>2. CASE Awaiting /\ AttemptRetry(waiter)
  <2>1. waiter = 1 /\ loops[1].pc = "next"
    BY <1>2, WaiterIsOne, Zenon
  <2>2. AttemptRetry(1)
    BY <1>2, <2>1, Zenon
  <2> QED BY <1>1, <2>1, <2>2, AttemptRetryOK, Zenon
<1>3. CASE UNCHANGED <<syncState, syncId, loops, waiter, streamVars, tick, pingTimer, sess, nextSession>>
  BY <1>1, <1>3, QuietStepOK, Zenon DEF stateVars, queueVars
<1> QED BY <1>2, <1>3, Zenon DEF PingFails

\* Nobody leaves a stream.
LEMMA NoRemove ==
  ASSUME Before, NEW s \in Stream
  PROVE ~(RemoveStreamFromSync(s) \/ RemoveWaitEnds(s) \/ RemoveRpc(s) \/ RemoveRpcFails(s))
<1>1. removeCall[s] = NoCall /\ ~syncBound.leave
  BY Zenon DEF Before, ViewBody, ViewOK, OneStart, Had
<1> QED BY <1>1 DEF RemoveStreamFromSync, RemoveWaitEnds, RemoveRpc, RemoveRpcFails, Removed, NoCall

\* ViewInv is inductive relative to LoopInv.
LEMMA ViewNextInv == LoopInv /\ LoopInv' /\ ViewInv /\ [SyncNext]_<<syncVars, syncBound>> => ViewInv'
<1> SUFFICES ASSUME LoopInv, LoopInv', ViewInv, [SyncNext]_<<syncVars, syncBound>> PROVE ViewInv'
  OBVIOUS
<1>1. UNCHANGED syncBound
  BY Zenon DEF SyncNext
<1>2. CASE ~OneStart
  BY <1>1, <1>2, Zenon DEF ViewInv, OneStart
<1>3. CASE OneStart
  <2>1. Before
    BY <1>1, <1>3, Zenon DEF Before, LoopInv, ViewInv, ViewBody, Active
  <2>2. After
    <3>1. CASE UNCHANGED <<syncVars, syncBound>>
      BY <2>1, <3>1, StutterOK, Zenon
    <3>2. CASE SyncNext
      <4>1. CASE \E l \in Loop : StartSyncStreams(l) \/ LoopStep(l)
        BY <2>1, <4>1, StartSyncStreamsOK, LoopStepOK, Zenon
      <4>2. CASE StopSync \/ CancelSync \/ CancelSyncFails \/ StopSyncDone \/ BreakTimeout
        BY <2>1, <4>2, StopSyncOK, CancelSyncOK, QuietActionsOK, BreakTimeoutOK, Zenon
      <4>3. ASSUME NEW s \in Stream,
                   \/ InitStream(s) \/ AddStreamToSync(s) \/ AddWaitEnds(s)
                   \/ AddRpc(s) \/ AddRpcFails(s)
                   \/ RemoveStreamFromSync(s) \/ RemoveWaitEnds(s)
                   \/ RemoveRpc(s) \/ RemoveRpcFails(s)
                   \/ AddEvent(s) \/ \E k \in Session : Subscribe(k, s) \/ SendUpdate(k, s)
            PROVE After
        BY <2>1, <4>3, InitStreamOK, AddCallsOK, AddRpcOK, NoRemove, AddEventOK, SubscribeOK, SendUpdateOK, Zenon
      <4>4. CASE Tick \/ OnUpdate
        BY <2>1, <4>4, TickStepOK, OnUpdateOK, Zenon
      <4>5. CASE SendPing \/ PingAnswered \/ PingFails
        BY <2>1, <4>5, QuietActionsOK, PingFailsOK, Zenon
      <4>6. CASE \E k \in Session : SessionEnds(k)
        BY <2>1, <4>6, SessionEndsOK, Zenon
      <4> QED BY <3>2, <4>1, <4>2, <4>3, <4>4, <4>5, <4>6, Zenon DEF SyncNext
    <3> QED BY <3>1, <3>2, Zenon
  <2> QED BY <2>2, Zenon DEF ViewInv, After, ViewBody, Active, ChainOK
<1> QED BY <1>2, <1>3, Zenon

LEMMA ViewComplete == ViewInv => NothingMissed
<1> SUFFICES ASSUME ViewInv, OneStart, NEW s \in streams PROVE 1..cookie[s] \subseteq timeline[s] \cup unapplied[s]
  BY Zenon DEF NothingMissed, OneStart
<1>1. s \in Stream
  BY Zenon DEF ViewInv, ViewTypes
<1> QED BY <1>1, Zenon DEF ViewInv, ViewOK, Had

\* A view has every event up to its cookie but those of updates that onUpdate failed to apply, as long as
\* no stream is left and sync is started once: for every number of streams, events and sessions, however sessions break and are opened again, and
\* however updates of an old session meet those of a new one (createSyncLoop, onUpdate, tick).
THEOREM NothingIsMissed == SyncSpec => []NothingMissed
<1>1. SyncInit => LoopInv /\ ViewInv
  BY LoopInitInv, ViewInitInv, Zenon
<1>2. LoopInv /\ ViewInv /\ [SyncNext]_<<syncVars, syncBound>> => LoopInv' /\ ViewInv'
  BY LoopNextInv, ViewNextInv, Zenon
<1>3. LoopInv /\ ViewInv => NothingMissed
  BY ViewComplete, Zenon
<1> QED BY <1>1, <1>2, <1>3, PTL DEF SyncSpec
==============================================================================
