------------------------------ MODULE EventLog ------------------------------
(* What the event pipeline promises its readers: occupancy events are numbered
   in the order the counter publishes them, and the persistent history is an
   in-order, at-most-once record of some of them.  Losing an event is allowed
   (the queue is bounded, a handler may fail, a process may end); reordering,
   duplicating or inventing one is not, and an accepted event does not stay
   undecided for ever. *)
EXTENDS Naturals, Sequences

CONSTANT MaxEvents          \* bound: events published in a behaviour

VARIABLES published,        \* number of the last event offered
          pending,          \* accepted, neither recorded nor discarded yet
          history           \* the record, oldest first

logVars == <<published, pending, history>>

LogInit == published = 0 /\ pending = <<>> /\ history = <<>>

Accept == /\ published < MaxEvents
          /\ published' = published + 1
          /\ pending' = Append(pending, published + 1)
          /\ UNCHANGED history

Refuse == /\ published < MaxEvents
          /\ published' = published + 1
          /\ UNCHANGED <<pending, history>>

Record == /\ pending /= <<>>
          /\ history' = Append(history, Head(pending))
          /\ pending' = Tail(pending)
          /\ UNCHANGED published

Discard == /\ pending /= <<>>
           /\ pending' = Tail(pending)
           /\ UNCHANGED <<published, history>>

Forget == /\ pending' = <<>>
          /\ UNCHANGED <<published, history>>

LogNext == Accept \/ Refuse \/ Record \/ Discard \/ Forget

LogSafe == LogInit /\ [][LogNext]_logVars

(* Some accepted event is always decided in the end. *)
LogSpec == LogSafe /\ WF_logVars(Record \/ Discard \/ Forget)
=============================================================================
