--------------------------- MODULE EventPipeline ---------------------------
(* The asynchronous event path of the service:

     counter thread   _append_event: in-memory list, then put_nowait
     event_queue      queue.Queue(maxsize = QueueCap)
     EventWorker      get -> LPUSH -> LTRIM -> INSERT, one message at a time
     main thread      lifespan: event_worker.start ... event_worker.stop

   Redis and MySQL outlive the process; everything else dies with it.  An
   event is represented by its publication number: its region, kind and count
   never influence the control of this path.  Every call to Redis or MySQL may
   raise, and then it may or may not have taken effect on the server. *)
EXTENDS Naturals, Sequences

CONSTANTS QueueCap,         \* event_queue maxsize               (1000)
          CacheCap,         \* entries LTRIM leaves in Redis      (100)
          MemoryCap,        \* entries the counter keeps          (100)
          MaxEvents         \* bound: events published in a behaviour

ASSUME PipelineAssumption == /\ QueueCap \in Nat \ {0}
                             /\ CacheCap \in Nat \ {0}
                             /\ MemoryCap \in Nat \ {0}
                             /\ MaxEvents \in Nat

VARIABLES published,        \* number of the last event published
          memory,           \* counter.events, oldest first
          queue,            \* event_queue
          phase,            \* the process, as main.lifespan drives it
          running,          \* EventWorker._running
          wpc,              \* where the worker thread is
          msg,              \* the message the worker holds
          redis,            \* list occupancy:events, newest first
          db,               \* rows of occupancy_events, by id
          undisturbed       \* history: no drop, no exception, no process end
                            \* has touched an event so far

vars == <<published, memory, queue, phase, running, wpc, msg, redis, db,
          undisturbed>>

Phases == {"down", "serving", "stopping"}
WorkerPCs == {"none", "start", "check", "get", "push", "trim", "save", "exited"}
Holding == wpc \in {"push", "trim", "save"}

-----------------------------------------------------------------------------
FirstOf(s, n) == SubSeq(s, 1, IF Len(s) < n THEN Len(s) ELSE n)

LastOf(s, n) == SubSeq(s, IF Len(s) < n THEN 1 ELSE Len(s) - n + 1, Len(s))

(* Accepted and not decided yet: what the worker holds, then the queue. *)
Pending == (IF Holding THEN <<msg>> ELSE <<>>) \o queue

Init == /\ published = 0
        /\ memory = <<>>
        /\ queue = <<>>
        /\ phase = "down"
        /\ running = FALSE
        /\ wpc = "none"
        /\ msg = 0
        /\ redis = <<>>
        /\ db = <<>>
        /\ undisturbed = TRUE

-----------------------------------------------------------------------------
(* The main thread. *)

(* A process comes up: module state is new, lifespan starts the worker thread
   (which has not run yet) and then the counter. *)
Boot == /\ phase = "down"
        /\ phase' = "serving"
        /\ running' = FALSE
        /\ wpc' = "start"
        /\ UNCHANGED <<published, memory, queue, msg, redis, db, undisturbed>>

(* EventWorker.stop clears the flag and then waits for the thread ... *)
Stop == /\ phase = "serving"
        /\ phase' = "stopping"
        /\ running' = FALSE
        /\ UNCHANGED <<published, memory, queue, wpc, msg, redis, db, undisturbed>>

(* The process ends: the daemon thread, the queue and the list are gone. *)
ProcessEnds == /\ phase' = "down"
               /\ running' = FALSE
               /\ wpc' = "none"
               /\ msg' = 0
               /\ queue' = <<>>
               /\ memory' = <<>>
               /\ undisturbed' = (undisturbed /\ Pending = <<>>)
               /\ UNCHANGED <<published, redis, db>>

(* ... for at most 2 s: the process goes down whether or not it has exited. *)
Exit == phase = "stopping" /\ ProcessEnds

Crash == phase /= "down" /\ ProcessEnds

-----------------------------------------------------------------------------
(* The counter thread.  It may still publish while the worker is being
   stopped: counter.stop gives up waiting for it after 2 s. *)

\* Mutant: put without a bound.
EnqueueUnbounded(m) == queue' = Append(queue, m) /\ UNCHANGED undisturbed

Enqueue(m) == IF Len(queue) < QueueCap
                THEN queue' = Append(queue, m) /\ UNCHANGED undisturbed
                ELSE undisturbed' = FALSE /\ UNCHANGED queue

Publish == /\ phase /= "down"
           /\ published < MaxEvents
           /\ published' = published + 1
           /\ memory' = LastOf(Append(memory, published + 1), MemoryCap)
           /\ Enqueue(published + 1)
           /\ UNCHANGED <<phase, running, wpc, msg, redis, db>>

(* _reset_daily_if_needed on a new day: the list of the day starts empty. *)
DayReset == /\ phase /= "down"
            /\ memory' = <<>>
            /\ UNCHANGED <<published, queue, phase, running, wpc, msg, redis, db,
                           undisturbed>>

-----------------------------------------------------------------------------
(* The worker thread: EventWorker._run and, inside it, _handle_event. *)

WorkerStart == /\ wpc = "start"
               /\ running' = TRUE
               /\ wpc' = "check"
               /\ UNCHANGED <<published, memory, queue, phase, msg, redis, db,
                              undisturbed>>

WorkerCheck == /\ wpc = "check"
               /\ wpc' = IF running THEN "get" ELSE "exited"
               /\ UNCHANGED <<published, memory, queue, phase, running, msg,
                              redis, db, undisturbed>>

\* Mutant: a worker that sees the stop flag after get leaves with the message.
WorkerGetThenLeave == /\ wpc = "get"
                      /\ queue /= <<>>
                      /\ queue' = Tail(queue)
                      /\ IF running THEN msg' = Head(queue) /\ wpc' = "push"
                                    ELSE wpc' = "exited" /\ UNCHANGED msg
                      /\ UNCHANGED <<published, memory, phase, running, redis,
                                     db, undisturbed>>

WorkerGet == /\ wpc = "get"
             /\ queue /= <<>>
             /\ msg' = Head(queue)
             /\ queue' = Tail(queue)
             /\ wpc' = "push"
             /\ UNCHANGED <<published, memory, phase, running, redis, db,
                            undisturbed>>

WorkerTimeout == /\ wpc = "get"
                 /\ queue = <<>>
                 /\ wpc' = "check"
                 /\ UNCHANGED <<published, memory, queue, phase, running, msg,
                                redis, db, undisturbed>>

Pushed == <<msg>> \o redis

\* Mutant: LTRIM from the wrong end.
TrimmedOldest == LastOf(redis, CacheCap)
Trimmed == FirstOf(redis, CacheCap)
Saved == Append(db, msg)

PushOk == /\ wpc = "push"
          /\ redis' = Pushed
          /\ wpc' = "trim"
          /\ UNCHANGED <<published, memory, queue, phase, running, msg, db,
                         undisturbed>>

TrimOk == /\ wpc = "trim"
          /\ redis' = Trimmed
          /\ wpc' = "save"
          /\ UNCHANGED <<published, memory, queue, phase, running, msg, db,
                         undisturbed>>

SaveOk == /\ wpc = "save"
          /\ db' = Saved
          /\ wpc' = "check"
          /\ msg' = 0
          /\ UNCHANGED <<published, memory, queue, phase, running, redis,
                         undisturbed>>

\* Mutant: a failed message is tried again at once.
HandlerRaisesRetry == /\ wpc' = "push"
                      /\ undisturbed' = FALSE
                      /\ UNCHANGED <<published, memory, queue, phase, running, msg>>

(* The except clause of _run logs and goes on with the next message. *)
HandlerRaises == /\ wpc' = "check"
                 /\ msg' = 0
                 /\ undisturbed' = FALSE
                 /\ UNCHANGED <<published, memory, queue, phase, running>>

PushRaises == /\ wpc = "push"
              /\ HandlerRaises
              /\ redis' \in {redis, Pushed}
              /\ UNCHANGED db

TrimRaises == /\ wpc = "trim"
              /\ HandlerRaises
              /\ redis' \in {redis, Trimmed}
              /\ UNCHANGED db

\* Mutant: an INSERT that raised is sent again.
SaveRaisesTwice == /\ wpc = "save"
                   /\ HandlerRaises
                   /\ db' \in {db, Saved, Append(Saved, msg)}
                   /\ UNCHANGED redis

SaveRaises == /\ wpc = "save"
              /\ HandlerRaises
              /\ db' \in {db, Saved}
              /\ UNCHANGED redis

Worker == \/ WorkerStart \/ WorkerCheck \/ WorkerGet \/ WorkerTimeout
          \/ PushOk \/ TrimOk \/ SaveOk
          \/ PushRaises \/ TrimRaises \/ SaveRaises

Next == \/ Boot \/ Stop \/ Exit \/ Crash
        \/ Publish \/ DayReset
        \/ Worker

(* The interpreter schedules a runnable thread in the end, every call to a
   store returns or raises, and join and the exit after it take bounded time. *)
Fairness == WF_vars(Worker) /\ WF_vars(Exit)

Spec == Init /\ [][Next]_vars
FairSpec == Spec /\ Fairness

-----------------------------------------------------------------------------
(* Type invariant; the three bounded containers respect their bounds.  Redis
   may exceed CacheCap: a failed LTRIM leaves one entry too many. *)
TypeOK == /\ published \in 0..MaxEvents
          /\ memory \in Seq(Nat) /\ Len(memory) <= MemoryCap
          /\ queue \in Seq(Nat) /\ Len(queue) <= QueueCap
          /\ phase \in Phases
          /\ running \in BOOLEAN
          /\ wpc \in WorkerPCs
          /\ msg \in Nat
          /\ redis \in Seq(Nat)
          /\ db \in Seq(Nat)
          /\ undisturbed \in BOOLEAN

Increasing(s) == \A i, j \in 1..Len(s) : i < j => s[i] < s[j]
Decreasing(s) == \A i, j \in 1..Len(s) : i < j => s[i] > s[j]
Has(s, x) == \E i \in 1..Len(s) : s[i] = x

(* The history table (save_event) records every event at most once and in the
   order the counter published them, whatever fails and however often the
   process is stopped, killed and started again. *)
HistoryInOrder == Increasing(db)

(* So does the Redis list of GET /api/events, newest first (LPUSH). *)
CacheInOrder == Decreasing(redis)

(* An event of the history is missing from the Redis list only because LTRIM
   dropped it in favour of CacheCap newer ones: LPUSH comes before INSERT. *)
CacheCoversHistory ==
  \A i \in 1..Len(db) :
     \/ Has(redis, db[i])
     \/ Len(redis) >= CacheCap /\ \A k \in 1..Len(redis) : redis[k] > db[i]

(* The in-memory list, which serves GET /api/events when Redis does not, is
   always the newest events without a gap. *)
MemoryIsNewest ==
  \A k \in 1..Len(memory) : memory[k] = published - Len(memory) + k

(* As long as the queue never overflows, no handler raises and no process ends
   with work left, no event is lost: the history and what is still pending are
   all the events published, in order. *)
UndisturbedIsComplete ==
  undisturbed => db \o Pending = [i \in 1..published |-> i]

(* How many steps of its own the worker is from recording or discarding the oldest
   pending event, and from its end once _running is FALSE. *)
StepsToVerdict(pc) ==
  CASE pc = "start" -> 6
    [] pc = "check" -> 5
    [] pc = "get" -> 4
    [] pc = "push" -> 3
    [] pc = "trim" -> 2
    [] pc = "save" -> 1
    [] OTHER -> 0

StepsToExit(pc) ==
  CASE pc = "get" -> 5
    [] pc = "push" -> 4
    [] pc = "trim" -> 3
    [] pc = "save" -> 2
    [] pc = "check" -> 1
    [] OTHER -> 0

(* Unless it is told to stop, each step of the worker brings the oldest pending event
   nearer to its verdict or gives it, whatever the stores answer, and the other
   threads only add events behind it: six steps at most, five per event after the
   first. *)
PendingAdvances ==
  [][Pending /= <<>> /\ wpc \notin {"none", "exited"} /\ phase' /= "down" =>
       \/ wpc = "check" /\ ~running
       \/ wpc' = wpc /\ Pending' \in {Pending, Append(Pending, published')}
       \/ wpc' /= wpc /\ Pending' = Tail(Pending)
       \/ Pending' = Pending /\ StepsToVerdict(wpc') < StepsToVerdict(wpc)]_vars

(* A worker that sees _running FALSE handles the message it holds, one more at most,
   and ends: five steps, however long the queue is. *)
StopAdvances ==
  [][~running /\ wpc \notin {"start", "none"} =>
       ~running' /\ (wpc' \in {wpc, "none"} \/ StepsToExit(wpc') < StepsToExit(wpc))]_vars

(* The pipeline is a log in the sense of EventLog: accepted events are recorded
   or discarded one by one from the front, or forgotten with the process. *)
Log == INSTANCE EventLog WITH pending <- Pending, history <- db
ImplementsEventLog == Log!LogSpec
=============================================================================
