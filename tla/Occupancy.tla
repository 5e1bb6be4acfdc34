----------------------------- MODULE Occupancy -----------------------------
(* What both counters, the real one and the mock, promise about a monitored
   region (app/state.py, BaseCounter): the region is entered and left in turn,
   every entry and every leave is published once, at the time it happens, and
   the occupied time of the day is the sum of the stays that ended on it.  A
   new day starts its sum at zero and does not end the stay; a restart of the
   process begins with an empty region. *)
EXTENDS Integers, Sequences

VARIABLES time,             \* the clock
          occupied, since,  \* is somebody in, and since when
          total,            \* occupied time of the day
          day,              \* the day the counter believes in
          emitted           \* the events published since the last restart

occupancyVars == <<time, occupied, since, total, day, emitted>>

Nobody == -1

OccupancyInit == /\ time = 0
                 /\ occupied = FALSE /\ since = Nobody
                 /\ total = 0
                 /\ day = 0
                 /\ emitted = <<>>

Pass == /\ time' = time + 1
        /\ UNCHANGED <<occupied, since, total, day, emitted>>

Publish(kind) ==
  emitted' = Append(emitted, [kind |-> kind, at |-> time, day |-> day])

Enter == /\ ~occupied
         /\ occupied' = TRUE /\ since' = time
         /\ Publish("enter_region")
         /\ UNCHANGED <<time, total, day>>

Leave == /\ occupied
         /\ occupied' = FALSE /\ since' = Nobody
         /\ total' = total + (time - since)
         /\ Publish("leave_region")
         /\ UNCHANGED <<time, day>>

NewDay == /\ day' /= day
          /\ total' = 0
          /\ UNCHANGED <<time, occupied, since, emitted>>

Restart == /\ occupied' = FALSE /\ since' = Nobody
           /\ total' = 0
           /\ emitted' = <<>>
           /\ UNCHANGED time

OccupancyNext == Pass \/ Enter \/ Leave \/ NewDay \/ Restart

OccupancySpec == OccupancyInit /\ [][OccupancyNext]_occupancyVars
=============================================================================
