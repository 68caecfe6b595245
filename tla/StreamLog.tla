----------------------------- MODULE StreamLog -----------------------------
(***************************************************************************)
(* What a stream promises its clients, without views, storage or registry: *)
(* a log of events that only grows, a prefix of it sealed in miniblocks    *)
(* that only grows, and acknowledgements for events of the log only.       *)
(***************************************************************************)
EXTENDS Naturals, Sequences

CONSTANT Event

VARIABLES log, sealed, acked

Init == log = << >> /\ sealed = 0 /\ acked = {}

\* An event becomes visible, acknowledged to its sender or not.
AppendEvent(e) ==
  /\ \A i \in DOMAIN log : log[i] # e
  /\ log' = Append(log, e)
  /\ acked' \in {acked, acked \cup {e}}
  /\ UNCHANGED sealed

\* A miniblock takes the events that follow the sealed ones.
Seal(n) ==
  /\ sealed' = n
  /\ UNCHANGED <<log, acked>>

Next ==
  \/ \E e \in Event : AppendEvent(e)
  \/ \E n \in (sealed + 1)..Len(log) : Seal(n)

Spec == Init /\ [][Next]_<<log, sealed, acked>>
=============================================================================
