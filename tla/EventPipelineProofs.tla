----------------------- MODULE EventPipelineProofs -----------------------
(* Proofs about EventPipeline for every queue capacity, cache and memory size
   and number of events: its type invariant, the order of the history, of the
   Redis list and of the in-memory list, the inclusion of the history in the
   Redis list up to trimming, and the safety part of the refinement of
   EventLog. *)
EXTENDS EventPipeline, SequenceTheorems, TLAPS

-----------------------------------------------------------------------------
(* Sequence operators. *)

(* A prefix of at most n entries. *)
LEMMA FirstOfFact ==
  ASSUME NEW s \in Seq(Nat), NEW n \in Nat
  PROVE  /\ FirstOf(s, n) \in Seq(Nat)
         /\ Len(FirstOf(s, n)) = IF Len(s) < n THEN Len(s) ELSE n
         /\ \A i \in 1..Len(FirstOf(s, n)) : FirstOf(s, n)[i] = s[i]
<1> DEFINE k == IF Len(s) < n THEN Len(s) ELSE n
<1>1. k \in Int /\ 1 \in Int /\ k >= 0 /\ k <= Len(s)
  OBVIOUS
<1>2. \A i \in 1..k : s[i] \in Nat
  BY <1>1
<1>3. FirstOf(s, n) = SubSeq(s, 1, k)
  BY DEF FirstOf
<1> HIDE DEF k
<1>4. /\ SubSeq(s, 1, k) \in Seq(Nat)
      /\ Len(SubSeq(s, 1, k)) = IF 1 <= k THEN k - 1 + 1 ELSE 0
      /\ \A i \in 1..(k - 1 + 1) : SubSeq(s, 1, k)[i] = s[1 + i - 1]
  BY <1>1, <1>2, SubSeqProperties
<1>5. k = IF Len(s) < n THEN Len(s) ELSE n
  BY DEF k
<1>6. Len(SubSeq(s, 1, k)) = k
  BY <1>1, <1>4
<1>7. \A i \in 1..k : SubSeq(s, 1, k)[i] = s[i]
  <2> TAKE i \in 1..k
  <2>1. i \in 1..(k - 1 + 1) /\ 1 + i - 1 = i
    BY <1>1
  <2> QED BY <2>1, <1>4
<1> QED BY <1>3, <1>4, <1>5, <1>6, <1>7

(* A suffix of at most n entries. *)
LEMMA LastOfFact ==
  ASSUME NEW s \in Seq(Nat), NEW n \in Nat \ {0}
  PROVE  /\ LastOf(s, n) \in Seq(Nat)
         /\ Len(LastOf(s, n)) = IF Len(s) < n THEN Len(s) ELSE n
         /\ \A i \in 1..Len(LastOf(s, n)) :
               LastOf(s, n)[i] = s[Len(s) - Len(LastOf(s, n)) + i]
<1> DEFINE k == IF Len(s) < n THEN 1 ELSE Len(s) - n + 1
           l == Len(s)
<1>1. k \in Int /\ k >= 1 /\ k <= l + 1 /\ l \in Nat
  OBVIOUS
<1>2. \A i \in k..l : s[i] \in Nat
  BY <1>1
<1>3. LastOf(s, n) = SubSeq(s, k, l)
  BY DEF LastOf
<1>4. l - k + 1 = IF Len(s) < n THEN Len(s) ELSE n
  BY <1>1
<1> HIDE DEF k, l
<1>5. /\ SubSeq(s, k, l) \in Seq(Nat)
      /\ Len(SubSeq(s, k, l)) = IF k <= l THEN l - k + 1 ELSE 0
      /\ \A i \in 1..(l - k + 1) : SubSeq(s, k, l)[i] = s[k + i - 1]
  BY <1>1, <1>2, SubSeqProperties
<1>6. Len(SubSeq(s, k, l)) = l - k + 1
  BY <1>1, <1>5
<1>7. \A i \in 1..(l - k + 1) : SubSeq(s, k, l)[i] = s[l - (l - k + 1) + i]
  <2> TAKE i \in 1..(l - k + 1)
  <2>1. k + i - 1 = l - (l - k + 1) + i
    BY <1>1
  <2> QED BY <2>1, <1>5
<1>8. l = Len(s)
  BY DEF l
<1> QED BY <1>3, <1>4, <1>5, <1>6, <1>7, <1>8

(* One more entry at the end. *)
LEMMA AppendFact ==
  ASSUME NEW s \in Seq(Nat), NEW x \in Nat
  PROVE  /\ Append(s, x) \in Seq(Nat)
         /\ Len(Append(s, x)) = Len(s) + 1
         /\ \A i \in 1..(Len(s) + 1) :
               Append(s, x)[i] = IF i = Len(s) + 1 THEN x ELSE s[i]
  OBVIOUS

-----------------------------------------------------------------------------
(* Type correctness. *)

LEMMA TypeInit == Init => TypeOK
<1> SUFFICES ASSUME Init PROVE TypeOK
  OBVIOUS
<1> USE PipelineAssumption DEF PipelineAssumption, Init
<1>1. running \in BOOLEAN /\ undisturbed \in BOOLEAN
  OBVIOUS
<1>2. msg \in Nat /\ published \in 0..MaxEvents
  OBVIOUS
<1>3. phase \in Phases /\ wpc \in WorkerPCs
  BY DEF Phases, WorkerPCs
<1>4. redis \in Seq(Nat) /\ db \in Seq(Nat)
  OBVIOUS
<1>5. memory \in Seq(Nat) /\ Len(memory) <= MemoryCap
  OBVIOUS
<1>6. queue \in Seq(Nat) /\ Len(queue) <= QueueCap
  OBVIOUS
<1> QED BY <1>1, <1>2, <1>3, <1>4, <1>5, <1>6 DEF TypeOK

LEMMA TypeStep == TypeOK /\ [Next]_vars => TypeOK'
<1> SUFFICES ASSUME TypeOK, [Next]_vars PROVE TypeOK'
  OBVIOUS
<1> USE PipelineAssumption DEF PipelineAssumption, TypeOK, Phases, WorkerPCs
<1>1. CASE Boot BY <1>1 DEF Boot
<1>2. CASE Stop BY <1>2 DEF Stop
<1>3. ASSUME ProcessEnds PROVE TypeOK'
  <2>1. undisturbed' \in BOOLEAN /\ running' \in BOOLEAN
    BY <1>3 DEF ProcessEnds
  <2>2. published' \in 0..MaxEvents /\ msg' \in Nat
    BY <1>3 DEF ProcessEnds
  <2>3. phase' \in Phases /\ wpc' \in WorkerPCs
    BY <1>3 DEF ProcessEnds
  <2>4. redis' \in Seq(Nat) /\ db' \in Seq(Nat)
    BY <1>3 DEF ProcessEnds
  <2>5. memory' \in Seq(Nat) /\ Len(memory') <= MemoryCap
    BY <1>3 DEF ProcessEnds
  <2>6. queue' \in Seq(Nat) /\ Len(queue') <= QueueCap
    BY <1>3 DEF ProcessEnds
  <2> QED BY <2>1, <2>2, <2>3, <2>4, <2>5, <2>6
<1>4. CASE Exit \/ Crash BY <1>3, <1>4 DEF Exit, Crash
<1>5. CASE Publish
  <2> DEFINE longer == Append(memory, published + 1)
  <2>1. /\ published' = published + 1
        /\ published < MaxEvents
        /\ memory' = LastOf(longer, MemoryCap)
        /\ UNCHANGED <<phase, running, wpc, msg, redis, db>>
    BY <1>5 DEF Publish
  <2>2. longer \in Seq(Nat)
    OBVIOUS
  <2>3. memory' \in Seq(Nat) /\ Len(memory') <= MemoryCap
    <3> HIDE DEF longer
    <3> QED BY <2>1, <2>2, LastOfFact
  <2>4. queue' \in Seq(Nat) /\ Len(queue') <= QueueCap
    <3>1. \/ Len(queue) < QueueCap /\ queue' = Append(queue, published + 1)
          \/ queue' = queue
      BY <1>5 DEF Publish, Enqueue
    <3>2. published + 1 \in Nat
      OBVIOUS
    <3>3. /\ Append(queue, published + 1) \in Seq(Nat)
          /\ Len(Append(queue, published + 1)) = Len(queue) + 1
      BY <3>2, AppendFact
    <3>4. CASE queue' = queue
      BY <3>4
    <3>5. CASE Len(queue) < QueueCap /\ queue' = Append(queue, published + 1)
      BY <3>3, <3>5
    <3> QED BY <3>1, <3>4, <3>5
  <2>5. undisturbed' \in BOOLEAN
    BY <1>5 DEF Publish, Enqueue
  <2> HIDE DEF longer
  <2> QED BY <2>1, <2>3, <2>4, <2>5
<1>6. CASE DayReset BY <1>6 DEF DayReset
<1>7. CASE WorkerStart BY <1>7 DEF WorkerStart
<1>8. CASE WorkerCheck BY <1>8 DEF WorkerCheck
<1>9. CASE WorkerGet BY <1>9 DEF WorkerGet
<1>10. CASE WorkerTimeout BY <1>10 DEF WorkerTimeout
<1>11. Pushed \in Seq(Nat) /\ Saved \in Seq(Nat) /\ Trimmed \in Seq(Nat)
  BY FirstOfFact DEF Pushed, Saved, Trimmed
<1>12. CASE PushOk BY <1>11, <1>12 DEF PushOk
<1>13. CASE TrimOk BY <1>11, <1>13 DEF TrimOk
<1>14. CASE SaveOk BY <1>11, <1>14 DEF SaveOk
<1>15. CASE PushRaises BY <1>11, <1>15 DEF PushRaises, HandlerRaises
<1>16. CASE TrimRaises BY <1>11, <1>16 DEF TrimRaises, HandlerRaises
<1>17. CASE SaveRaises BY <1>11, <1>17 DEF SaveRaises, HandlerRaises
<1>18. CASE UNCHANGED vars BY <1>18 DEF vars
<1> QED
  BY <1>1, <1>2, <1>4, <1>5, <1>6, <1>7, <1>8, <1>9, <1>10, <1>12,
     <1>13, <1>14, <1>15, <1>16, <1>17, <1>18 DEF Next, Worker

(* Every container keeps its type and bound, in every behaviour. *)
THEOREM TypeCorrect == Spec => []TypeOK
  BY TypeInit, TypeStep, PTL DEF Spec

-----------------------------------------------------------------------------
(* The inductive invariant.  Publication numbers grow along

     db  <  msg  <  queue  <=  published        redis  <=  msg  <  queue

   and the parts below say so element by element. *)

QueueOrder == /\ Increasing(queue)
              /\ \A i \in 1..Len(queue) : queue[i] <= published
              /\ Holding => /\ msg <= published
                            /\ \A i \in 1..Len(queue) : msg < queue[i]

HistoryOrder == /\ Increasing(db)
                /\ \A i \in 1..Len(db) :
                      /\ db[i] <= published
                      /\ Holding => db[i] < msg
                      /\ \A j \in 1..Len(queue) : db[i] < queue[j]

CacheOrder == /\ Decreasing(redis)
              /\ \A i \in 1..Len(redis) :
                    /\ redis[i] <= published
                    /\ wpc = "push" => redis[i] < msg
                    /\ \A j \in 1..Len(queue) : redis[i] < queue[j]
              /\ wpc \in {"trim", "save"} => Len(redis) > 0 /\ redis[1] = msg

IInv == /\ TypeOK
        /\ QueueOrder
        /\ HistoryOrder
        /\ CacheOrder
        /\ CacheCoversHistory
        /\ MemoryIsNewest

LEMMA IInit == Init => IInv
<1> SUFFICES ASSUME Init PROVE IInv
  OBVIOUS
<1>1. TypeOK
  BY TypeInit
<1>2. /\ memory = <<>> /\ queue = <<>> /\ redis = <<>> /\ db = <<>>
      /\ wpc = "none"
  BY DEF Init
<1> QED
  BY <1>1, <1>2 DEF IInv, QueueOrder, HistoryOrder, CacheOrder,
     CacheCoversHistory, MemoryIsNewest, Increasing, Decreasing, Holding

(* What each step does to the four sequences, stripped of control: the order
   proofs below only look at these facts. *)

LEMMA PublishOrder ==
  ASSUME IInv, TypeOK', Publish
  PROVE  IInv'
<1>1. /\ published' = published + 1
      /\ published \in Nat
      /\ UNCHANGED <<wpc, msg, redis, db>>
      /\ memory' = LastOf(Append(memory, published + 1), MemoryCap)
      /\ queue' = Append(queue, published + 1) \/ queue' = queue
  BY DEF Publish, Enqueue, IInv, TypeOK
<1>2. /\ memory \in Seq(Nat) /\ queue \in Seq(Nat) /\ redis \in Seq(Nat)
      /\ db \in Seq(Nat) /\ msg \in Nat /\ MemoryCap \in Nat \ {0}
  BY PipelineAssumption DEF IInv, TypeOK, PipelineAssumption
<1>3. /\ queue' \in Seq(Nat)
      /\ \A j \in 1..Len(queue') :
            \/ j = Len(queue) + 1 /\ queue'[j] = published + 1
            \/ j \in 1..Len(queue) /\ queue'[j] = queue[j]
  <2> DEFINE q == Append(queue, published + 1)
  <2>1. /\ q \in Seq(Nat)
        /\ Len(q) = Len(queue) + 1
        /\ \A i \in 1..(Len(queue) + 1) :
              q[i] = IF i = Len(queue) + 1 THEN published + 1 ELSE queue[i]
    <3>1. published + 1 \in Nat
      BY <1>1
    <3> QED BY <1>2, <3>1, AppendFact
  <2>2. queue' = q \/ queue' = queue
    BY <1>1
  <2>3. Len(queue) \in Nat
    BY <1>2
  <2> HIDE DEF q
  <2>4. CASE queue' = q
    BY <1>2, <2>1, <2>3, <2>4
  <2>5. CASE queue' = queue
    BY <1>2, <2>3, <2>5
  <2> QED BY <2>2, <2>4, <2>5
<1>4. QueueOrder'
  <2>1. Increasing(queue')
    <3> SUFFICES ASSUME NEW i \in 1..Len(queue'), NEW j \in 1..Len(queue'), i < j
                 PROVE  queue'[i] < queue'[j]
      BY DEF Increasing
    <3>0. i \in Nat /\ j \in Nat /\ Len(queue) \in Nat
      BY <1>2, <1>3
    <3>1. i \in 1..Len(queue) /\ queue'[i] = queue[i]
      <4>1. i /= Len(queue) + 1
        BY <1>3, <3>0
      <4> QED BY <1>3, <4>1
    <3>2. CASE j \in 1..Len(queue) /\ queue'[j] = queue[j]
      BY <3>1, <3>2 DEF IInv, QueueOrder, Increasing
    <3>3. CASE queue'[j] = published + 1
      <4>1. queue[i] \in Nat /\ queue[i] <= published
        BY <1>2, <3>1 DEF IInv, QueueOrder
      <4> QED BY <1>1, <3>1, <3>3, <4>1
    <3> QED BY <1>3, <3>2, <3>3
  <2>2. \A i \in 1..Len(queue') : queue'[i] <= published'
    BY <1>1, <1>2, <1>3 DEF IInv, QueueOrder
  <2>3. Holding' => /\ msg' <= published'
                    /\ \A i \in 1..Len(queue') : msg' < queue'[i]
    BY <1>1, <1>2, <1>3 DEF IInv, QueueOrder, Holding
  <2> QED BY <2>1, <2>2, <2>3 DEF QueueOrder
<1>5. HistoryOrder'
  <2>1. \A i \in 1..Len(db) : db[i] \in Nat /\ db[i] <= published
    BY <1>2 DEF IInv, HistoryOrder
  <2>2. \A i \in 1..Len(db), j \in 1..Len(queue') : db[i] < queue'[j]
    BY <1>1, <1>2, <1>3, <2>1 DEF IInv, HistoryOrder
  <2>3. \A i \in 1..Len(db) : db[i] <= published'
    BY <1>1, <2>1
  <2> QED BY <1>1, <2>2, <2>3 DEF IInv, HistoryOrder, Increasing, Holding
<1>6. CacheOrder'
  <2>1. \A i \in 1..Len(redis) : redis[i] \in Nat /\ redis[i] <= published
    BY <1>2 DEF IInv, CacheOrder
  <2>2. \A i \in 1..Len(redis), j \in 1..Len(queue') : redis[i] < queue'[j]
    BY <1>1, <1>2, <1>3, <2>1 DEF IInv, CacheOrder
  <2>3. \A i \in 1..Len(redis) : redis[i] <= published'
    BY <1>1, <2>1
  <2> QED BY <1>1, <2>2, <2>3 DEF IInv, CacheOrder, Decreasing
<1>7. CacheCoversHistory'
  BY <1>1 DEF IInv, CacheCoversHistory, Has
<1>8. MemoryIsNewest'
  <2> DEFINE longer == Append(memory, published + 1)
  <2>1. /\ longer \in Seq(Nat)
        /\ Len(longer) = Len(memory) + 1
        /\ \A k \in 1..Len(longer) : longer[k] = published' - Len(longer) + k
    <3>1. /\ longer \in Seq(Nat)
          /\ Len(longer) = Len(memory) + 1
          /\ \A i \in 1..(Len(memory) + 1) :
                longer[i] = IF i = Len(memory) + 1 THEN published + 1 ELSE memory[i]
      <4>1. published + 1 \in Nat
        BY <1>1
      <4> QED BY <1>2, <4>1, AppendFact
    <3>2. \A i \in 1..Len(memory) : memory[i] = published - Len(memory) + i
      BY DEF IInv, MemoryIsNewest
    <3>3. Len(memory) \in Nat
      BY <1>2
    <3> HIDE DEF longer
    <3> SUFFICES ASSUME NEW k \in 1..Len(longer)
                 PROVE  longer[k] = published' - Len(longer) + k
      BY <3>1
    <3>4. CASE k = Len(memory) + 1
      BY <1>1, <3>1, <3>3, <3>4
    <3>5. CASE k \in 1..Len(memory)
      <4>1. longer[k] = memory[k] /\ memory[k] = published - Len(memory) + k
        BY <3>1, <3>2, <3>3, <3>5
      <4> QED BY <1>1, <3>1, <3>3, <4>1
    <3> QED BY <3>1, <3>3, <3>4, <3>5
  <2>2. memory' = LastOf(longer, MemoryCap)
    BY <1>1
  <2> HIDE DEF longer
  <2>3. /\ Len(memory') = IF Len(longer) < MemoryCap THEN Len(longer) ELSE MemoryCap
        /\ memory' \in Seq(Nat)
        /\ \A i \in 1..Len(memory') :
              memory'[i] = longer[Len(longer) - Len(memory') + i]
    BY <1>2, <2>1, <2>2, LastOfFact
  <2>4. ASSUME NEW i \in 1..Len(memory')
        PROVE  memory'[i] = published' - Len(memory') + i
    <3> DEFINE k == Len(longer) - Len(memory') + i
    <3>1. k \in 1..Len(longer)
      BY <1>2, <2>1, <2>3
    <3>2. memory'[i] = longer[k] /\ longer[k] = published' - Len(longer) + k
      BY <2>1, <2>3, <3>1
    <3>3. Len(longer) \in Nat /\ Len(memory') \in Nat /\ published' \in Nat
      BY <1>1, <2>1, <2>3
    <3> QED BY <3>2, <3>3
  <2> QED BY <2>4 DEF MemoryIsNewest
<1> QED BY <1>4, <1>5, <1>6, <1>7, <1>8 DEF IInv

LEMMA EndOrder ==
  ASSUME IInv, TypeOK', ProcessEnds
  PROVE  IInv'
<1>1. /\ UNCHANGED <<published, redis, db>>
      /\ queue' = <<>> /\ memory' = <<>> /\ wpc' = "none"
  BY DEF ProcessEnds
<1>2. QueueOrder'
  BY <1>1 DEF QueueOrder, Increasing, Holding
<1>3. HistoryOrder'
  BY <1>1 DEF IInv, HistoryOrder, Increasing, Holding
<1>4. CacheOrder'
  BY <1>1 DEF IInv, CacheOrder, Decreasing
<1>5. CacheCoversHistory'
  BY <1>1 DEF IInv, CacheCoversHistory, Has
<1>6. MemoryIsNewest'
  BY <1>1 DEF MemoryIsNewest
<1> QED BY <1>2, <1>3, <1>4, <1>5, <1>6 DEF IInv

LEMMA GetOrder ==
  ASSUME IInv, TypeOK', WorkerGet
  PROVE  IInv'
<1>1. /\ UNCHANGED <<published, memory, redis, db>>
      /\ queue /= <<>> /\ msg' = Head(queue) /\ queue' = Tail(queue)
      /\ wpc' = "push"
  BY DEF WorkerGet
<1>2. /\ queue \in Seq(Nat) /\ redis \in Seq(Nat) /\ db \in Seq(Nat)
      /\ published \in Nat
  BY DEF IInv, TypeOK
<1>3. /\ Len(queue) > 0 /\ msg' = queue[1]
      /\ Len(queue') = Len(queue) - 1
      /\ \A i \in 1..Len(queue') : queue'[i] = queue[i + 1] /\ i + 1 \in 1..Len(queue)
  BY <1>1, <1>2
<1>4. Len(queue) \in Nat /\ Len(queue') \in Nat
  BY <1>2, <1>3
<1>5. QueueOrder'
  BY <1>1, <1>2, <1>3, <1>4 DEF IInv, QueueOrder, Increasing, Holding
<1>6. HistoryOrder'
  BY <1>1, <1>2, <1>3, <1>4 DEF IInv, HistoryOrder, Increasing, Holding
<1>7. CacheOrder'
  BY <1>1, <1>2, <1>3, <1>4 DEF IInv, CacheOrder, Decreasing
<1>8. CacheCoversHistory'
  BY <1>1 DEF IInv, CacheCoversHistory, Has
<1>9. MemoryIsNewest'
  BY <1>1 DEF IInv, MemoryIsNewest
<1> QED BY <1>5, <1>6, <1>7, <1>8, <1>9 DEF IInv

(* The steps that move nothing but control, or empty the in-memory list. *)
LEMMA QuietOrder ==
  ASSUME IInv, TypeOK',
         UNCHANGED <<published, queue, redis, db>>,
         memory' = memory \/ memory' = <<>>,
         wpc' \notin {"push", "trim", "save"} \/ UNCHANGED <<wpc, msg>>
  PROVE  IInv'
<1>1. QueueOrder'
  BY DEF IInv, QueueOrder, Increasing, Holding
<1>2. HistoryOrder'
  BY DEF IInv, HistoryOrder, Increasing, Holding
<1>3. CacheOrder'
  BY DEF IInv, CacheOrder, Decreasing
<1>4. CacheCoversHistory'
  BY DEF IInv, CacheCoversHistory, Has
<1>5. MemoryIsNewest'
  BY DEF IInv, MemoryIsNewest
<1> QED BY <1>1, <1>2, <1>3, <1>4, <1>5 DEF IInv

(* LPUSH, answered or not. *)
LEMMA PushOrder ==
  ASSUME IInv, TypeOK', wpc = "push", redis' = Pushed,
         UNCHANGED <<published, memory, queue, db>>,
         (wpc' = "trim" /\ msg' = msg) \/ wpc' = "check"
  PROVE  IInv'
<1>1. /\ redis \in Seq(Nat) /\ db \in Seq(Nat) /\ queue \in Seq(Nat)
      /\ msg \in Nat /\ Len(redis) \in Nat
  BY DEF IInv, TypeOK
<1>2. /\ redis' \in Seq(Nat)
      /\ Len(redis') = Len(redis) + 1
      /\ redis'[1] = msg
      /\ \A i \in 1..Len(redis) : redis'[i + 1] = redis[i] /\ i + 1 \in 1..Len(redis')
      /\ \A i \in 1..Len(redis') :
            \/ i = 1 /\ redis'[i] = msg
            \/ i - 1 \in 1..Len(redis) /\ redis'[i] = redis[i - 1]
  <2>1. /\ <<msg>> \in Seq(Nat) /\ Len(<<msg>>) = 1 /\ <<msg>>[1] = msg
    BY <1>1
  <2>2. /\ <<msg>> \o redis \in Seq(Nat)
        /\ Len(<<msg>> \o redis) = Len(<<msg>>) + Len(redis)
        /\ \A i \in 1..(Len(<<msg>>) + Len(redis)) :
              (<<msg>> \o redis)[i] =
                 IF i <= Len(<<msg>>) THEN <<msg>>[i] ELSE redis[i - Len(<<msg>>)]
    BY <1>1, <2>1, ConcatProperties
  <2>3. /\ redis' \in Seq(Nat)
        /\ Len(redis') = 1 + Len(redis)
        /\ \A i \in 1..(1 + Len(redis)) :
              redis'[i] = IF i <= 1 THEN msg ELSE redis[i - 1]
    <3>1. \A i \in 1..(1 + Len(redis)) : i <= 1 => i = 1
      BY <1>1
    <3> QED BY <2>1, <2>2, <3>1 DEF Pushed
  <2> QED BY <1>1, <2>3
<1>3. QueueOrder'
  BY DEF IInv, QueueOrder, Increasing, Holding
<1>4. HistoryOrder'
  BY DEF IInv, HistoryOrder, Increasing, Holding
<1>5. CacheOrder'
  <2>1. /\ msg <= published
        /\ \A i \in 1..Len(queue) : msg < queue[i]
    BY DEF IInv, QueueOrder, Holding
  <2>2. \A i \in 1..Len(redis) : redis[i] < msg
    BY DEF IInv, CacheOrder
  <2>3. Decreasing(redis')
    <3> SUFFICES ASSUME NEW i \in 1..Len(redis'), NEW j \in 1..Len(redis'), i < j
                 PROVE  redis'[i] > redis'[j]
      BY DEF Decreasing
    <3>1. j - 1 \in 1..Len(redis) /\ redis'[j] = redis[j - 1]
      <4>1. j /= 1
        BY <1>1, <1>2
      <4> QED BY <1>2, <4>1
    <3>2. CASE redis'[i] = msg
      BY <1>1, <2>2, <3>1, <3>2
    <3>3. CASE i - 1 \in 1..Len(redis) /\ redis'[i] = redis[i - 1]
      <4>1. i - 1 < j - 1
        BY <1>1, <1>2
      <4> QED BY <3>1, <3>3, <4>1 DEF IInv, CacheOrder, Decreasing
    <3> QED BY <1>2, <3>2, <3>3
  <2>4. \A i \in 1..Len(redis') :
           redis'[i] <= published' /\ \A j \in 1..Len(queue') : redis'[i] < queue'[j]
    BY <1>2, <2>1 DEF IInv, CacheOrder
  <2>5. wpc' \in {"trim", "save"} => Len(redis') > 0 /\ redis'[1] = msg'
    BY <1>1, <1>2
  <2> QED BY <2>3, <2>4, <2>5 DEF CacheOrder
<1>6. CacheCoversHistory'
  <2> SUFFICES ASSUME NEW i \in 1..Len(db)
               PROVE  \/ Has(redis', db[i])
                      \/ /\ Len(redis') >= CacheCap
                         /\ \A k \in 1..Len(redis') : redis'[k] > db[i]
    BY DEF CacheCoversHistory
  <2>1. db[i] < msg /\ db[i] \in Nat
    BY <1>1 DEF IInv, HistoryOrder, Holding
  <2>2. CASE Has(redis, db[i])
    <3>1. PICK k \in 1..Len(redis) : redis[k] = db[i]
      BY <2>2 DEF Has
    <3>2. k + 1 \in 1..Len(redis') /\ redis'[k + 1] = db[i]
      BY <1>2, <3>1
    <3> QED BY <3>2 DEF Has
  <2>3. CASE Len(redis) >= CacheCap /\ \A k \in 1..Len(redis) : redis[k] > db[i]
    <3>1. Len(redis') >= CacheCap
      BY <1>1, <1>2, <2>3, PipelineAssumption DEF PipelineAssumption
    <3>2. \A k \in 1..Len(redis') : redis'[k] > db[i]
      BY <1>1, <1>2, <2>1, <2>3
    <3> QED BY <3>1, <3>2
  <2> QED BY <2>2, <2>3 DEF IInv, CacheCoversHistory
<1>7. MemoryIsNewest'
  BY DEF IInv, MemoryIsNewest
<1> QED BY <1>3, <1>4, <1>5, <1>6, <1>7 DEF IInv

(* LTRIM, answered or not. *)
LEMMA TrimOrder ==
  ASSUME IInv, TypeOK', wpc = "trim", redis' = Trimmed,
         UNCHANGED <<published, memory, queue, db>>,
         (wpc' = "save" /\ msg' = msg) \/ wpc' = "check"
  PROVE  IInv'
<1>1. /\ redis \in Seq(Nat) /\ db \in Seq(Nat) /\ queue \in Seq(Nat)
      /\ msg \in Nat /\ Len(redis) \in Nat /\ CacheCap \in Nat \ {0}
  BY PipelineAssumption DEF IInv, TypeOK, PipelineAssumption
<1>2. /\ redis' \in Seq(Nat)
      /\ Len(redis') = IF Len(redis) < CacheCap THEN Len(redis) ELSE CacheCap
      /\ \A i \in 1..Len(redis') : redis'[i] = redis[i]
  BY <1>1, FirstOfFact DEF Trimmed
<1>3. \A i \in 1..Len(redis') : i \in 1..Len(redis)
  BY <1>1, <1>2
<1>4. QueueOrder'
  BY DEF IInv, QueueOrder, Increasing, Holding
<1>5. HistoryOrder'
  BY DEF IInv, HistoryOrder, Increasing, Holding
<1>6. CacheOrder'
  <2>1. Len(redis) > 0 /\ redis[1] = msg
    BY DEF IInv, CacheOrder
  <2>2. Len(redis') > 0 /\ redis'[1] = msg
    BY <1>1, <1>2, <2>1
  <2>3. Decreasing(redis')
    BY <1>2, <1>3 DEF IInv, CacheOrder, Decreasing
  <2> QED BY <1>2, <1>3, <2>2, <2>3 DEF IInv, CacheOrder
<1>7. CacheCoversHistory'
  <2> SUFFICES ASSUME NEW i \in 1..Len(db)
               PROVE  \/ Has(redis', db[i])
                      \/ /\ Len(redis') >= CacheCap
                         /\ \A k \in 1..Len(redis') : redis'[k] > db[i]
    BY DEF CacheCoversHistory
  <2>1. CASE Has(redis, db[i])
    <3>1. PICK k \in 1..Len(redis) : redis[k] = db[i]
      BY <2>1 DEF Has
    <3>2. CASE k <= Len(redis')
      <4>1. k \in 1..Len(redis') /\ redis'[k] = db[i]
        BY <1>1, <1>2, <3>1, <3>2
      <4> QED BY <4>1 DEF Has
    <3>3. CASE k > Len(redis')
      <4>1. Len(redis') = CacheCap
        BY <1>1, <1>2, <3>3
      <4>2. ASSUME NEW l \in 1..Len(redis') PROVE redis'[l] > db[i]
        <5>1. l < k /\ l \in 1..Len(redis)
          BY <1>1, <1>2, <3>3
        <5>2. redis[l] > redis[k]
          BY <5>1 DEF IInv, CacheOrder, Decreasing
        <5> QED BY <1>2, <3>1, <5>2
      <4> QED BY <1>1, <4>1, <4>2
    <3> QED BY <1>1, <1>2, <3>2, <3>3
  <2>2. CASE Len(redis) >= CacheCap /\ \A k \in 1..Len(redis) : redis[k] > db[i]
    <3>1. Len(redis') >= CacheCap
      BY <1>1, <1>2, <2>2
    <3>2. \A k \in 1..Len(redis') : redis'[k] > db[i]
      BY <1>2, <1>3, <2>2
    <3> QED BY <3>1, <3>2
  <2> QED BY <2>1, <2>2 DEF IInv, CacheCoversHistory
<1>8. MemoryIsNewest'
  BY DEF IInv, MemoryIsNewest
<1> QED BY <1>4, <1>5, <1>6, <1>7, <1>8 DEF IInv

(* INSERT, committed with or without an answer. *)
LEMMA SaveOrder ==
  ASSUME IInv, TypeOK', wpc = "save", db' = Saved, wpc' = "check",
         UNCHANGED <<published, memory, queue, redis>>
  PROVE  IInv'
<1>1. /\ redis \in Seq(Nat) /\ db \in Seq(Nat) /\ queue \in Seq(Nat)
      /\ msg \in Nat /\ Len(db) \in Nat
  BY DEF IInv, TypeOK
<1>2. /\ Len(db') = Len(db) + 1
      /\ \A i \in 1..(Len(db) + 1) : db'[i] = IF i = Len(db) + 1 THEN msg ELSE db[i]
  BY <1>1, AppendFact DEF Saved
<1>3. \A i \in 1..Len(db') :
         \/ i = Len(db) + 1 /\ db'[i] = msg
         \/ i \in 1..Len(db) /\ db'[i] = db[i]
  BY <1>1, <1>2
<1>4. /\ msg <= published
      /\ \A i \in 1..Len(queue) : msg < queue[i]
      /\ \A i \in 1..Len(db) : db[i] < msg
  BY DEF IInv, QueueOrder, HistoryOrder, Holding
<1>5. QueueOrder'
  BY DEF IInv, QueueOrder, Increasing, Holding
<1>6. HistoryOrder'
  <2>1. Increasing(db')
    <3> SUFFICES ASSUME NEW i \in 1..Len(db'), NEW j \in 1..Len(db'), i < j
                 PROVE  db'[i] < db'[j]
      BY DEF Increasing
    <3>1. i \in 1..Len(db) /\ db'[i] = db[i]
      <4>1. i /= Len(db) + 1
        BY <1>1, <1>2
      <4> QED BY <1>3, <4>1
    <3>2. CASE db'[j] = msg
      BY <1>4, <3>1, <3>2
    <3>3. CASE j \in 1..Len(db) /\ db'[j] = db[j]
      BY <3>1, <3>3 DEF IInv, HistoryOrder, Increasing
    <3> QED BY <1>3, <3>2, <3>3
  <2>2. \A i \in 1..Len(db') :
           db'[i] <= published' /\ \A j \in 1..Len(queue') : db'[i] < queue'[j]
    BY <1>3, <1>4 DEF IInv, HistoryOrder
  <2> QED BY <2>1, <2>2 DEF HistoryOrder, Holding
<1>7. CacheOrder'
  BY DEF IInv, CacheOrder, Decreasing
<1>8. CacheCoversHistory'
  <2>1. Has(redis, msg)
    <3>1. Len(redis) > 0 /\ redis[1] = msg /\ Len(redis) \in Nat
      BY <1>1 DEF IInv, CacheOrder
    <3> QED BY <3>1 DEF Has
  <2> SUFFICES ASSUME NEW i \in 1..Len(db')
               PROVE  \/ Has(redis, db'[i])
                      \/ /\ Len(redis) >= CacheCap
                         /\ \A k \in 1..Len(redis) : redis[k] > db'[i]
    BY DEF CacheCoversHistory, Has
  <2>2. CASE db'[i] = msg
    BY <2>1, <2>2
  <2>3. CASE i \in 1..Len(db) /\ db'[i] = db[i]
    BY <2>3 DEF IInv, CacheCoversHistory
  <2> QED BY <1>3, <2>2, <2>3
<1>9. MemoryIsNewest'
  BY DEF IInv, MemoryIsNewest
<1> QED BY <1>5, <1>6, <1>7, <1>8, <1>9 DEF IInv

LEMMA IStep == IInv /\ [Next]_vars => IInv'
<1> SUFFICES ASSUME IInv, [Next]_vars PROVE IInv'
  OBVIOUS
<1>1. TypeOK'
  BY TypeStep DEF IInv
<1>2. CASE Boot
  BY <1>1, <1>2, QuietOrder DEF Boot
<1>3. CASE Stop
  BY <1>1, <1>3, QuietOrder DEF Stop
<1>4. CASE Exit \/ Crash
  BY <1>1, <1>4, EndOrder DEF Exit, Crash
<1>5. CASE Publish
  BY <1>1, <1>5, PublishOrder
<1>6. CASE DayReset
  BY <1>1, <1>6, QuietOrder DEF DayReset
<1>7. CASE WorkerStart
  BY <1>1, <1>7, QuietOrder DEF WorkerStart
<1>8. CASE WorkerCheck
  BY <1>1, <1>8, QuietOrder DEF WorkerCheck
<1>9. CASE WorkerGet
  BY <1>1, <1>9, GetOrder
<1>10. CASE WorkerTimeout
  BY <1>1, <1>10, QuietOrder DEF WorkerTimeout
<1>11. CASE PushOk
  BY <1>1, <1>11, PushOrder DEF PushOk
<1>12. CASE TrimOk
  BY <1>1, <1>12, TrimOrder DEF TrimOk
<1>13. CASE SaveOk
  BY <1>1, <1>13, SaveOrder DEF SaveOk
<1>14. CASE PushRaises
  <2>1. CASE redis' = redis
    BY <1>1, <1>14, <2>1, QuietOrder DEF PushRaises, HandlerRaises
  <2>2. CASE redis' = Pushed
    BY <1>1, <1>14, <2>2, PushOrder DEF PushRaises, HandlerRaises
  <2> QED BY <1>14, <2>1, <2>2 DEF PushRaises
<1>15. CASE TrimRaises
  <2>1. CASE redis' = redis
    BY <1>1, <1>15, <2>1, QuietOrder DEF TrimRaises, HandlerRaises
  <2>2. CASE redis' = Trimmed
    BY <1>1, <1>15, <2>2, TrimOrder DEF TrimRaises, HandlerRaises
  <2> QED BY <1>15, <2>1, <2>2 DEF TrimRaises
<1>16. CASE SaveRaises
  <2>1. CASE db' = db
    BY <1>1, <1>16, <2>1, QuietOrder DEF SaveRaises, HandlerRaises
  <2>2. CASE db' = Saved
    BY <1>1, <1>16, <2>2, SaveOrder DEF SaveRaises, HandlerRaises
  <2> QED BY <1>16, <2>1, <2>2 DEF SaveRaises
<1>17. CASE UNCHANGED vars
  BY <1>1, <1>17, QuietOrder DEF vars
<1> QED
  BY <1>2, <1>3, <1>4, <1>5, <1>6, <1>7, <1>8, <1>9, <1>10, <1>11, <1>12,
     <1>13, <1>14, <1>15, <1>16, <1>17 DEF Next, Worker

LEMMA Inductive == Spec => []IInv
  BY IInit, IStep, PTL DEF Spec

(* occupancy_events records each event at most once, in publication order,
   for any capacity and through any failures and restarts. *)
THEOREM HistoryInOrderAlways == Spec => []HistoryInOrder
<1>1. IInv => HistoryInOrder
  BY DEF IInv, HistoryOrder, HistoryInOrder
<1> QED BY <1>1, Inductive, PTL

(* The Redis list is strictly newest first. *)
THEOREM CacheInOrderAlways == Spec => []CacheInOrder
<1>1. IInv => CacheInOrder
  BY DEF IInv, CacheOrder, CacheInOrder
<1> QED BY <1>1, Inductive, PTL

(* An event of the history leaves the Redis list only by trimming. *)
THEOREM CacheCoversHistoryAlways == Spec => []CacheCoversHistory
<1>1. IInv => CacheCoversHistory
  BY DEF IInv
<1> QED BY <1>1, Inductive, PTL

(* The in-memory list is always the newest events without a gap. *)
THEOREM MemoryIsNewestAlways == Spec => []MemoryIsNewest
<1>1. IInv => MemoryIsNewest
  BY DEF IInv
<1> QED BY <1>1, Inductive, PTL

-----------------------------------------------------------------------------
(* Nothing is lost while nothing goes wrong.  Element by element: the history
   is 1..n, the worker holds n + 1, the queue goes on from there. *)

Held == IF Holding THEN 1 ELSE 0

Complete == /\ published = Len(db) + Held + Len(queue)
            /\ \A i \in 1..Len(db) : db[i] = i
            /\ Holding => msg = Len(db) + 1
            /\ \A j \in 1..Len(queue) : queue[j] = Len(db) + Held + j

DownIsQuiet == phase = "down" => wpc = "none"

CompleteInv == TypeOK /\ DownIsQuiet /\ (undisturbed => Complete)

LEMMA CompleteInit == Init => CompleteInv
<1> SUFFICES ASSUME Init PROVE CompleteInv
  OBVIOUS
<1>1. published = 0 /\ queue = <<>> /\ db = <<>> /\ wpc = "none"
  BY DEF Init
<1>2. Complete /\ DownIsQuiet
  BY <1>1 DEF Complete, DownIsQuiet, Held, Holding
<1> QED BY <1>2, TypeInit DEF CompleteInv

LEMMA DownIsQuietStep == TypeOK /\ DownIsQuiet /\ [Next]_vars => DownIsQuiet'
<1> SUFFICES ASSUME TypeOK, DownIsQuiet, [Next]_vars, phase' = "down"
             PROVE  wpc' = "none"
  BY DEF DownIsQuiet
<1> USE DEF Next, Worker, vars, Boot, Stop, Publish, DayReset, WorkerStart,
    WorkerCheck, WorkerGet, WorkerTimeout, PushOk, TrimOk, SaveOk, PushRaises,
    TrimRaises, SaveRaises, HandlerRaises
<1>1. CASE phase /= "down"
  <2>1. Exit \/ Crash
    BY <1>1
  <2> QED BY <2>1 DEF Exit, Crash, ProcessEnds
<1>2. CASE phase = "down"
  BY <1>2 DEF DownIsQuiet, Exit, Crash
<1> QED BY <1>1, <1>2

(* A step that moves nothing but control. *)
LEMMA QuietComplete ==
  ASSUME CompleteInv, undisturbed, UNCHANGED <<published, queue, db>>,
         Holding' <=> Holding, Holding => msg' = msg
  PROVE  Complete'
  BY DEF CompleteInv, Complete, Held

LEMMA PendingEmpty ==
  ASSUME TypeOK, Pending = <<>>
  PROVE  ~Holding /\ queue = <<>>
<1>1. <<msg>> \in Seq(Nat) /\ queue \in Seq(Nat) /\ <<>> \in Seq(Nat)
  BY DEF TypeOK
<1>2. CASE Holding
  <2>1. <<msg>> \o queue = <<>>
    BY <1>2 DEF Pending
  <2>2. <<msg>> = <<>>
    BY <1>1, <2>1, ConcatEqualIffEmpty
  <2> QED BY <2>2
<1>3. CASE ~Holding
  BY <1>1, <1>3, ConcatEmptySeq DEF Pending
<1> QED BY <1>2, <1>3

LEMMA CompleteStep == CompleteInv /\ [Next]_vars => CompleteInv'
<1> SUFFICES ASSUME CompleteInv, [Next]_vars, undisturbed' PROVE Complete'
  BY TypeStep, DownIsQuietStep DEF CompleteInv
<1>1. /\ queue \in Seq(Nat) /\ db \in Seq(Nat) /\ msg \in Nat
      /\ published \in Nat /\ Len(db) \in Nat /\ Len(queue) \in Nat
  BY DEF CompleteInv, TypeOK
<1>2. undisturbed
  BY DEF Next, Worker, vars, Boot, Stop, Exit, Crash, ProcessEnds, Publish,
     Enqueue, DayReset, WorkerStart, WorkerCheck, WorkerGet, WorkerTimeout,
     PushOk, TrimOk, SaveOk, PushRaises, TrimRaises, SaveRaises, HandlerRaises
<1>3. Complete
  BY <1>2 DEF CompleteInv
<1>4. CASE Boot
  BY <1>2, <1>4, QuietComplete DEF CompleteInv, DownIsQuiet, Boot, Holding
<1>5. CASE Stop \/ DayReset \/ UNCHANGED vars
  BY <1>2, <1>5, QuietComplete DEF Stop, DayReset, vars, Holding
<1>6. CASE WorkerStart \/ WorkerCheck \/ WorkerTimeout
  <2>1. ~Holding /\ ~Holding' /\ UNCHANGED <<published, queue, db>>
    BY <1>6 DEF WorkerStart, WorkerCheck, WorkerTimeout, Holding
  <2> QED BY <1>2, <2>1, QuietComplete
<1>7. CASE PushOk \/ TrimOk
  <2>1. Holding /\ Holding' /\ UNCHANGED <<published, queue, db, msg>>
    BY <1>7 DEF PushOk, TrimOk, Holding
  <2> QED BY <1>2, <2>1, QuietComplete
<1>8. CASE Exit \/ Crash
  <2>1. Pending = <<>>
    BY <1>8 DEF Exit, Crash, ProcessEnds
  <2>2. ~Holding /\ queue = <<>>
    BY <2>1, PendingEmpty DEF CompleteInv
  <2>3. ~Holding' /\ queue' = queue /\ UNCHANGED <<published, db>>
    BY <1>8, <2>2 DEF Exit, Crash, ProcessEnds, Holding
  <2> QED BY <1>2, <2>2, <2>3, QuietComplete
<1>9. CASE Publish
  <2>1. /\ published' = published + 1 /\ queue' = Append(queue, published + 1)
        /\ UNCHANGED <<db, msg, wpc>>
    BY <1>9 DEF Publish, Enqueue
  <2>2. /\ Len(queue') = Len(queue) + 1
        /\ \A i \in 1..(Len(queue) + 1) :
              queue'[i] = IF i = Len(queue) + 1 THEN published + 1 ELSE queue[i]
    <3>1. published + 1 \in Nat
      BY <1>1
    <3> QED BY <1>1, <2>1, <3>1, AppendFact
  <2>3. Held' = Held /\ (Holding' <=> Holding) /\ Held \in Nat
    BY <2>1 DEF Held, Holding
  <2>4. \A j \in 1..Len(queue') : queue'[j] = Len(db') + Held' + j
    <3> SUFFICES ASSUME NEW j \in 1..Len(queue')
                 PROVE  queue'[j] = Len(db) + Held + j
      BY <2>1, <2>3
    <3>1. CASE j = Len(queue) + 1
      BY <1>1, <1>3, <2>1, <2>2, <2>3, <3>1 DEF Complete
    <3>2. CASE j \in 1..Len(queue)
      BY <1>1, <1>3, <2>2, <3>2 DEF Complete
    <3> QED BY <1>1, <2>2, <3>1, <3>2
  <2>5. published' = Len(db') + Held' + Len(queue')
    BY <1>1, <1>3, <2>1, <2>2, <2>3 DEF Complete
  <2> QED BY <1>3, <2>1, <2>3, <2>4, <2>5 DEF Complete
<1>10. CASE WorkerGet
  <2>1. /\ ~Holding /\ Holding' /\ UNCHANGED <<published, db>>
        /\ queue /= <<>> /\ msg' = Head(queue) /\ queue' = Tail(queue)
    BY <1>10 DEF WorkerGet, Holding
  <2>2. /\ Len(queue) > 0 /\ msg' = queue[1] /\ Len(queue') = Len(queue) - 1
        /\ \A j \in 1..Len(queue') : queue'[j] = queue[j + 1] /\ j + 1 \in 1..Len(queue)
    BY <1>1, <2>1
  <2>3. Held = 0 /\ Held' = 1
    BY <2>1 DEF Held
  <2>4. msg' = Len(db') + 1
    BY <1>1, <1>3, <2>1, <2>2, <2>3 DEF Complete
  <2>5. \A j \in 1..Len(queue') : queue'[j] = Len(db') + Held' + j
    BY <1>1, <1>3, <2>1, <2>2, <2>3 DEF Complete
  <2>6. published' = Len(db') + Held' + Len(queue')
    BY <1>1, <1>3, <2>1, <2>2, <2>3 DEF Complete
  <2> QED BY <1>3, <2>1, <2>4, <2>5, <2>6 DEF Complete
<1>11. CASE SaveOk
  <2>1. /\ Holding /\ ~Holding' /\ UNCHANGED <<published, queue>>
        /\ db' = Append(db, msg)
    BY <1>11 DEF SaveOk, Saved, Holding
  <2>2. /\ Len(db') = Len(db) + 1
        /\ \A i \in 1..(Len(db) + 1) :
              db'[i] = IF i = Len(db) + 1 THEN msg ELSE db[i]
    BY <1>1, <2>1, AppendFact
  <2>3. Held = 1 /\ Held' = 0 /\ msg = Len(db) + 1
    BY <1>3, <2>1 DEF Complete, Held
  <2>4. \A i \in 1..Len(db') : db'[i] = i
    <3> SUFFICES ASSUME NEW i \in 1..Len(db') PROVE db'[i] = i
      OBVIOUS
    <3>1. CASE i = Len(db) + 1
      BY <2>2, <2>3, <3>1
    <3>2. CASE i \in 1..Len(db)
      BY <1>1, <1>3, <2>2, <3>2 DEF Complete
    <3> QED BY <1>1, <2>2, <3>1, <3>2
  <2>5. \A j \in 1..Len(queue') : queue'[j] = Len(db') + Held' + j
    BY <1>1, <1>3, <2>1, <2>2, <2>3 DEF Complete
  <2>6. published' = Len(db') + Held' + Len(queue')
    BY <1>1, <1>3, <2>1, <2>2, <2>3 DEF Complete
  <2> QED BY <2>1, <2>4, <2>5, <2>6 DEF Complete
<1>12. CASE PushRaises \/ TrimRaises \/ SaveRaises
  BY <1>12 DEF PushRaises, TrimRaises, SaveRaises, HandlerRaises
<1> QED
  BY <1>4, <1>5, <1>6, <1>7, <1>8, <1>9, <1>10, <1>11, <1>12 DEF Next, Worker

(* Without an overflow, an exception or a process ending with work left, the
   history followed by the pending events is every event published. *)
THEOREM UndisturbedIsCompleteAlways == Spec => []UndisturbedIsComplete
<1>1. CompleteInv => UndisturbedIsComplete
  <2> SUFFICES ASSUME CompleteInv, undisturbed
               PROVE  db \o Pending = [i \in 1..published |-> i]
    BY DEF UndisturbedIsComplete
  <2>1. Complete
    BY DEF CompleteInv
  <2>2. /\ queue \in Seq(Nat) /\ db \in Seq(Nat) /\ msg \in Nat
        /\ published \in Nat /\ Len(db) \in Nat /\ Len(queue) \in Nat
    BY DEF CompleteInv, TypeOK
  <2>3. /\ Pending \in Seq(Nat) /\ Len(Pending) = Held + Len(queue)
        /\ \A j \in 1..Len(Pending) : Pending[j] = Len(db) + j
    <3>1. CASE Holding
      <4>1. <<msg>> \in Seq(Nat) /\ Len(<<msg>>) = 1 /\ <<msg>>[1] = msg
        BY <2>2
      <4>2. Pending = <<msg>> \o queue /\ Held = 1 /\ msg = Len(db) + 1
        BY <2>1, <3>1 DEF Pending, Held, Complete
      <4>3. /\ Pending \in Seq(Nat) /\ Len(Pending) = 1 + Len(queue)
            /\ \A j \in 1..(1 + Len(queue)) :
                  Pending[j] = IF j <= 1 THEN <<msg>>[j] ELSE queue[j - 1]
        BY <2>2, <4>1, <4>2, ConcatProperties
      <4>4. ASSUME NEW j \in 1..Len(Pending) PROVE Pending[j] = Len(db) + j
        <5>1. CASE j = 1
          BY <2>2, <4>1, <4>2, <4>3, <5>1
        <5>2. CASE j > 1
          <6>1. Pending[j] = queue[j - 1] /\ j - 1 \in 1..Len(queue)
            BY <2>2, <4>3, <5>2
          <6> QED BY <2>1, <2>2, <4>2, <6>1 DEF Complete
        <5> QED BY <2>2, <4>3, <5>1, <5>2
      <4> QED BY <4>2, <4>3, <4>4
    <3>2. CASE ~Holding
      <4>1. Pending = queue /\ Held = 0
        BY <2>2, <3>2, ConcatEmptySeq DEF Pending, Held
      <4> QED BY <2>1, <2>2, <4>1 DEF Complete
    <3> QED BY <3>1, <3>2
  <2>4. Held \in Nat
    BY DEF Held
  <2> DEFINE whole == db \o Pending
             ids == [i \in 1..published |-> i]
  <2>5. /\ whole \in Seq(Nat) /\ Len(whole) = Len(db) + Len(Pending)
        /\ \A i \in 1..(Len(db) + Len(Pending)) :
              whole[i] = IF i <= Len(db) THEN db[i] ELSE Pending[i - Len(db)]
    <3>1. db \in Seq(Nat) /\ Pending \in Seq(Nat)
      BY <2>2, <2>3
    <3> QED BY <3>1, ConcatProperties
  <2>6. ids \in Seq(Nat) /\ Len(ids) = published /\ \A i \in 1..published : ids[i] = i
    BY <2>2
  <2>7. Len(whole) = published
    BY <2>1, <2>2, <2>3, <2>4, <2>5 DEF Complete
  <2>8. ASSUME NEW i \in 1..Len(whole) PROVE whole[i] = ids[i]
    <3> HIDE DEF whole, ids
    <3>1. CASE i <= Len(db)
      <4>1. i \in 1..Len(db) /\ i \in 1..(Len(db) + Len(Pending)) /\ i \in 1..published
        BY <2>2, <2>5, <2>7, <3>1
      <4>2. whole[i] = db[i] /\ ids[i] = i
        BY <2>5, <2>6, <3>1, <4>1
      <4> QED BY <2>1, <4>1, <4>2 DEF Complete
    <3>2. CASE i > Len(db)
      <4>1. i - Len(db) \in 1..Len(Pending) /\ whole[i] = Pending[i - Len(db)]
        BY <2>2, <2>3, <2>4, <2>5, <3>2
      <4>2. Pending[i - Len(db)] = Len(db) + (i - Len(db))
        BY <2>3, <4>1
      <4> QED BY <2>2, <2>6, <2>7, <4>1, <4>2
    <3> QED BY <2>2, <2>5, <3>1, <3>2
  <2> HIDE DEF whole, ids
  <2>9. whole = ids
    BY <2>5, <2>6, <2>7, <2>8, SeqEqual
  <2> QED BY <2>9 DEF whole, ids
<1>2. Spec => []CompleteInv
  BY CompleteInit, CompleteStep, PTL DEF Spec
<1> QED BY <1>1, <1>2, PTL

-----------------------------------------------------------------------------
(* The pipeline implements EventLog (its safety part). *)

LEMMA ConsFact ==
  ASSUME NEW m \in Nat, NEW q \in Seq(Nat)
  PROVE  /\ <<m>> \o q \in Seq(Nat)
         /\ Len(<<m>> \o q) = Len(q) + 1
         /\ (<<m>> \o q)[1] = m
         /\ \A i \in 1..Len(q) : (<<m>> \o q)[i + 1] = q[i]
<1> DEFINE s == <<m>> \o q
<1>1. <<m>> \in Seq(Nat) /\ Len(<<m>>) = 1 /\ <<m>>[1] = m /\ Len(q) \in Nat
  OBVIOUS
<1>2. /\ s \in Seq(Nat) /\ Len(s) = 1 + Len(q)
      /\ \A i \in 1..(1 + Len(q)) : s[i] = IF i <= 1 THEN <<m>>[i] ELSE q[i - 1]
  BY <1>1, ConcatProperties
<1> HIDE DEF s
<1>3. s[1] = m
  BY <1>1, <1>2
<1>4. ASSUME NEW i \in 1..Len(q) PROVE s[i + 1] = q[i]
  <2>1. i + 1 \in 1..(1 + Len(q)) /\ ~(i + 1 <= 1) /\ (i + 1) - 1 = i
    BY <1>1
  <2> QED BY <1>2, <2>1
<1> QED BY <1>1, <1>2, <1>3, <1>4 DEF s

LEMMA ConsHeadTail ==
  ASSUME NEW m \in Nat, NEW q \in Seq(Nat)
  PROVE  <<m>> \o q /= <<>> /\ Head(<<m>> \o q) = m /\ Tail(<<m>> \o q) = q
<1> DEFINE s == <<m>> \o q
<1>1. /\ s \in Seq(Nat) /\ Len(s) = Len(q) + 1 /\ s[1] = m
      /\ \A i \in 1..Len(q) : s[i + 1] = q[i]
  BY ConsFact
<1>2. Len(q) \in Nat
  OBVIOUS
<1> HIDE DEF s
<1>3. s /= <<>> /\ Head(s) = m
  BY <1>1, <1>2
<1>4. /\ Tail(s) \in Seq(Nat) /\ Len(Tail(s)) = Len(q)
      /\ \A i \in 1..Len(q) : Tail(s)[i] = q[i]
  <2>1. /\ Tail(s) \in Seq(Nat) /\ Len(Tail(s)) = Len(s) - 1
        /\ \A i \in 1..Len(Tail(s)) : Tail(s)[i] = s[i + 1]
    BY <1>1, <1>3, HeadTailProperties
  <2> QED BY <1>1, <1>2, <2>1
<1>5. Tail(s) = q
  BY <1>4, SeqEqual
<1> QED BY <1>3, <1>5 DEF s

LEMMA ConsAppend ==
  ASSUME NEW m \in Nat, NEW q \in Seq(Nat), NEW x \in Nat
  PROVE  <<m>> \o Append(q, x) = Append(<<m>> \o q, x)
<1> DEFINE s == <<m>> \o Append(q, x)
           t == Append(<<m>> \o q, x)
<1>1. Len(q) \in Nat
  OBVIOUS
<1>2. /\ Append(q, x) \in Seq(Nat) /\ Len(Append(q, x)) = Len(q) + 1
      /\ \A i \in 1..(Len(q) + 1) : Append(q, x)[i] = IF i = Len(q) + 1 THEN x ELSE q[i]
  BY AppendFact
<1>3. /\ s \in Seq(Nat) /\ Len(s) = Len(q) + 2 /\ s[1] = m
      /\ \A i \in 1..(Len(q) + 1) : s[i + 1] = Append(q, x)[i]
  <2>1. /\ s \in Seq(Nat) /\ Len(s) = Len(Append(q, x)) + 1 /\ s[1] = m
        /\ \A i \in 1..Len(Append(q, x)) : s[i + 1] = Append(q, x)[i]
    BY <1>2, ConsFact
  <2> HIDE DEF s
  <2> QED BY <1>1, <1>2, <2>1
<1>4. /\ <<m>> \o q \in Seq(Nat) /\ Len(<<m>> \o q) = Len(q) + 1
      /\ (<<m>> \o q)[1] = m
      /\ \A i \in 1..Len(q) : (<<m>> \o q)[i + 1] = q[i]
  BY ConsFact
<1>5. /\ t \in Seq(Nat) /\ Len(t) = Len(<<m>> \o q) + 1
      /\ \A i \in 1..(Len(<<m>> \o q) + 1) :
            t[i] = IF i = Len(<<m>> \o q) + 1 THEN x ELSE (<<m>> \o q)[i]
  BY <1>4, AppendFact
<1>6. ASSUME NEW i \in 1..Len(s) PROVE s[i] = t[i]
  <2> HIDE DEF s, t
  <2>1. CASE i = 1
    <3>1. s[1] = m /\ t[1] = (<<m>> \o q)[1]
      BY <1>1, <1>3, <1>4, <1>5
    <3> QED BY <1>4, <2>1, <3>1
  <2>2. CASE i = Len(q) + 2
    <3>1. s[i] = Append(q, x)[Len(q) + 1]
      <4>1. Len(q) + 1 \in 1..(Len(q) + 1) /\ i = (Len(q) + 1) + 1
        BY <1>1, <2>2
      <4> QED BY <1>3, <4>1
    <3>2. Append(q, x)[Len(q) + 1] = x
      BY <1>1, <1>2
    <3>3. t[i] = x
      BY <1>1, <1>4, <1>5, <2>2
    <3> QED BY <3>1, <3>2, <3>3
  <2>3. CASE i \in 2..(Len(q) + 1)
    <3> DEFINE j == i - 1
    <3>1. j \in 1..Len(q) /\ i = j + 1 /\ j \in 1..(Len(q) + 1) /\ j /= Len(q) + 1
      BY <1>1, <2>3
    <3>2. s[i] = Append(q, x)[j] /\ Append(q, x)[j] = q[j]
      BY <1>2, <1>3, <3>1
    <3>3. t[i] = (<<m>> \o q)[i]
      BY <1>1, <1>4, <1>5, <2>3
    <3>4. (<<m>> \o q)[i] = q[j]
      BY <1>4, <3>1
    <3> QED BY <3>2, <3>3, <3>4
  <2> QED BY <1>1, <1>3, <2>1, <2>2, <2>3
<1>7. Len(s) = Len(t)
  BY <1>1, <1>3, <1>4, <1>5
<1> HIDE DEF s, t
<1>8. s = t
  BY <1>3, <1>5, <1>6, <1>7, SeqEqual
<1> QED BY <1>8 DEF s, t

LEMMA ConsOfTail ==
  ASSUME NEW q \in Seq(Nat), q /= <<>>
  PROVE  <<Head(q)>> \o Tail(q) = q
<1>1. /\ Head(q) \in Nat /\ Tail(q) \in Seq(Nat) /\ Len(Tail(q)) = Len(q) - 1
      /\ \A i \in 1..Len(Tail(q)) : Tail(q)[i] = q[i + 1]
  BY HeadTailProperties
<1>2. Len(q) \in Nat \ {0} /\ Head(q) = q[1]
  BY EmptySeq
<1> DEFINE s == <<Head(q)>> \o Tail(q)
<1>3. /\ s \in Seq(Nat) /\ Len(s) = Len(Tail(q)) + 1 /\ s[1] = Head(q)
      /\ \A i \in 1..Len(Tail(q)) : s[i + 1] = Tail(q)[i]
  BY <1>1, ConsFact
<1>4. Len(s) = Len(q)
  BY <1>1, <1>2, <1>3
<1>5. ASSUME NEW i \in 1..Len(s) PROVE s[i] = q[i]
  <2> HIDE DEF s
  <2>1. CASE i = 1
    BY <1>2, <1>3, <2>1
  <2>2. CASE i > 1
    <3> DEFINE j == i - 1
    <3>1. j \in 1..Len(Tail(q)) /\ i = j + 1
      BY <1>1, <1>2, <1>4, <2>2
    <3> QED BY <1>1, <1>3, <3>1
  <2> QED BY <1>2, <1>4, <2>1, <2>2
<1> HIDE DEF s
<1>6. s = q
  BY <1>3, <1>4, <1>5, SeqEqual
<1> QED BY <1>6 DEF s

LEMMA LogStep ==
  TypeOK /\ DownIsQuiet /\ [Next]_vars => [Log!LogNext]_(Log!logVars)
<1> SUFFICES ASSUME TypeOK, DownIsQuiet, [Next]_vars
             PROVE  Log!LogNext \/ UNCHANGED <<published, Pending, db>>
  BY DEF Log!logVars
<1>1. queue \in Seq(Nat) /\ msg \in Nat /\ published \in Nat
  BY DEF TypeOK
<1>2. Pending = IF Holding THEN <<msg>> \o queue ELSE queue
  BY <1>1, ConcatEmptySeq DEF Pending
<1>3. ASSUME UNCHANGED <<published, queue, db, msg>>, Holding' <=> Holding
      PROVE  UNCHANGED <<published, Pending, db>>
  BY <1>3 DEF Pending
<1>4. ASSUME UNCHANGED <<published, queue, db>>, ~Holding, ~Holding'
      PROVE  UNCHANGED <<published, Pending, db>>
  BY <1>4 DEF Pending
<1>5. CASE Boot
  <2>1. ~Holding /\ ~Holding' /\ UNCHANGED <<published, queue, db>>
    BY <1>5 DEF Boot, DownIsQuiet, Holding
  <2> QED BY <1>4, <2>1
<1>6. CASE Stop \/ DayReset \/ PushOk \/ TrimOk \/ UNCHANGED vars
  <2>1. UNCHANGED <<published, queue, db, msg>> /\ (Holding' <=> Holding)
    BY <1>6 DEF Stop, DayReset, PushOk, TrimOk, vars, Holding
  <2> QED BY <1>3, <2>1
<1>7. CASE WorkerStart \/ WorkerCheck \/ WorkerTimeout
  <2>1. ~Holding /\ ~Holding' /\ UNCHANGED <<published, queue, db>>
    BY <1>7 DEF WorkerStart, WorkerCheck, WorkerTimeout, Holding
  <2> QED BY <1>4, <2>1
<1>8. CASE Exit \/ Crash
  <2>1. ~Holding' /\ queue' = <<>> /\ UNCHANGED <<published, db>>
    BY <1>8 DEF Exit, Crash, ProcessEnds, Holding
  <2>2. Pending' = <<>>
    BY <2>1 DEF Pending
  <2> QED BY <2>1, <2>2 DEF Log!LogNext, Log!Forget
<1>9. CASE Publish
  <2>1. /\ published < MaxEvents /\ published' = published + 1
        /\ published + 1 \in Nat
        /\ UNCHANGED <<db, msg, wpc>> /\ (Holding' <=> Holding)
    BY <1>1, <1>9 DEF Publish, Holding
  <2>2. queue' = Append(queue, published + 1) \/ queue' = queue
    BY <1>9 DEF Publish, Enqueue
  <2>3. CASE queue' = queue
    <3>1. Pending' = Pending
      BY <2>1, <2>3 DEF Pending
    <3> QED BY <2>1, <3>1 DEF Log!LogNext, Log!Refuse
  <2>4. CASE queue' = Append(queue, published + 1)
    <3>1. queue' \in Seq(Nat)
      BY <1>1, <2>1, <2>4, AppendFact
    <3>2. Pending' = IF Holding THEN <<msg>> \o queue' ELSE queue'
      BY <2>1, <3>1, ConcatEmptySeq DEF Pending
    <3>3. Pending' = Append(Pending, published + 1)
      BY <1>1, <1>2, <2>1, <2>4, <3>2, ConsAppend
    <3> QED BY <2>1, <3>3 DEF Log!LogNext, Log!Accept
  <2> QED BY <2>2, <2>3, <2>4
<1>10. CASE WorkerGet
  <2>1. /\ ~Holding /\ Holding' /\ UNCHANGED <<published, db>>
        /\ queue /= <<>> /\ msg' = Head(queue) /\ queue' = Tail(queue)
    BY <1>10 DEF WorkerGet, Holding
  <2>2. Pending' = <<Head(queue)>> \o Tail(queue)
    BY <2>1 DEF Pending
  <2>3. Pending' = Pending
    BY <1>1, <1>2, <2>1, <2>2, ConsOfTail
  <2> QED BY <2>1, <2>3
<1>11. ASSUME Holding, ~Holding', queue' = queue
       PROVE  /\ Pending /= <<>> /\ Head(Pending) = msg
              /\ Pending' = Tail(Pending)
  <2>1. Pending' = queue
    BY <1>1, <1>11, ConcatEmptySeq DEF Pending
  <2> QED BY <1>1, <1>2, <1>11, <2>1, ConsHeadTail
<1>12. CASE SaveOk \/ PushRaises \/ TrimRaises \/ SaveRaises
  <2>1. /\ Holding /\ ~Holding' /\ UNCHANGED <<published, queue>>
        /\ db' = db \/ db' = Append(db, msg)
    BY <1>12 DEF SaveOk, PushRaises, TrimRaises, SaveRaises, HandlerRaises,
       Saved, Holding
  <2>2. CASE db' = db
    BY <1>11, <2>1, <2>2 DEF Log!LogNext, Log!Discard
  <2>3. CASE db' = Append(db, msg)
    BY <1>11, <2>1, <2>3 DEF Log!LogNext, Log!Record
  <2> QED BY <2>1, <2>2, <2>3
<1> QED
  BY <1>5, <1>6, <1>7, <1>8, <1>9, <1>10, <1>12 DEF Next, Worker

(* Every behaviour of the pipeline, seen through what is pending and what the
   history holds, is one of the lossy in-order log. *)
THEOREM PipelineImplementsLog == Spec => Log!LogSafe
<1>1. Init => Log!LogInit
  BY DEF Init, Log!LogInit, Pending, Holding
<1>2. TypeOK /\ DownIsQuiet /\ [Next]_vars => (TypeOK /\ DownIsQuiet)'
  BY TypeStep, DownIsQuietStep
<1>3. Init => TypeOK /\ DownIsQuiet
  BY TypeInit DEF Init, DownIsQuiet
<1> QED BY <1>1, <1>2, <1>3, LogStep, PTL DEF Spec, Log!LogSafe

-----------------------------------------------------------------------------
(* The safe part of delivery: what keeps the oldest pending event, or the end of the
   worker, from moving away.  EventLog's fairness rests on it. *)

LEMMA StepsFrom ==
  /\ StepsToVerdict("start") = 6 /\ StepsToVerdict("check") = 5
  /\ StepsToVerdict("get") = 4 /\ StepsToVerdict("push") = 3
  /\ StepsToVerdict("trim") = 2 /\ StepsToVerdict("save") = 1
  /\ StepsToExit("get") = 5 /\ StepsToExit("push") = 4
  /\ StepsToExit("trim") = 3 /\ StepsToExit("save") = 2
  /\ StepsToExit("check") = 1 /\ StepsToExit("exited") = 0
<1>1. /\ StepsToVerdict("start") = 6 /\ StepsToVerdict("check") = 5
      /\ StepsToVerdict("get") = 4 /\ StepsToVerdict("push") = 3
      /\ StepsToVerdict("trim") = 2 /\ StepsToVerdict("save") = 1
  BY DEF StepsToVerdict
<1>2. /\ StepsToExit("get") = 5 /\ StepsToExit("push") = 4
      /\ StepsToExit("trim") = 3 /\ StepsToExit("save") = 2
      /\ StepsToExit("check") = 1 /\ StepsToExit("exited") = 0
  BY DEF StepsToExit
<1> QED BY <1>1, <1>2

LEMMA PendingAdvancesStep ==
  ASSUME TypeOK, DownIsQuiet, [Next]_vars,
         Pending /= <<>>, wpc \notin {"none", "exited"}, phase' /= "down"
  PROVE  \/ wpc = "check" /\ ~running
         \/ wpc' = wpc /\ Pending' \in {Pending, Append(Pending, published')}
         \/ wpc' /= wpc /\ Pending' = Tail(Pending)
         \/ Pending' = Pending /\ StepsToVerdict(wpc') < StepsToVerdict(wpc)
<1>1. queue \in Seq(Nat) /\ msg \in Nat /\ published \in Nat
  BY DEF TypeOK
<1>2. Pending = IF Holding THEN <<msg>> \o queue ELSE queue
  BY <1>1, ConcatEmptySeq DEF Pending
<1>3. CASE Stop \/ DayReset \/ UNCHANGED vars
  <2>1. wpc' = wpc /\ UNCHANGED <<queue, msg>> /\ (Holding' <=> Holding)
    BY <1>3 DEF Stop, DayReset, vars, Holding
  <2>2. Pending' = Pending
    BY <2>1 DEF Pending
  <2> QED BY <2>1, <2>2
<1>4. CASE Boot
  BY <1>4 DEF Boot, DownIsQuiet
<1>5. CASE Exit \/ Crash
  BY <1>5 DEF Exit, Crash, ProcessEnds
<1>6. CASE Publish
  <2>1. /\ published' = published + 1 /\ published + 1 \in Nat
        /\ wpc' = wpc /\ msg' = msg /\ (Holding' <=> Holding)
    BY <1>1, <1>6 DEF Publish, Holding
  <2>2. queue' = Append(queue, published') \/ queue' = queue
    BY <1>6 DEF Publish, Enqueue
  <2>3. CASE queue' = queue
    <3>1. Pending' = Pending
      BY <2>1, <2>3 DEF Pending
    <3> QED BY <2>1, <3>1
  <2>4. CASE queue' = Append(queue, published')
    <3>1. queue' \in Seq(Nat)
      BY <1>1, <2>1, <2>4, AppendFact
    <3>2. Pending' = IF Holding THEN <<msg>> \o queue' ELSE queue'
      BY <2>1, <3>1, ConcatEmptySeq DEF Pending
    <3>3. Pending' = Append(Pending, published')
      BY <1>1, <1>2, <2>1, <2>4, <3>2, ConsAppend
    <3> QED BY <2>1, <3>3
  <2> QED BY <2>2, <2>3, <2>4
<1>7. CASE WorkerStart \/ WorkerCheck
  <2>1. /\ ~Holding /\ UNCHANGED <<queue, msg>>
        /\ \/ wpc = "start" /\ wpc' = "check"
           \/ wpc = "check" /\ running /\ wpc' = "get"
           \/ wpc = "check" /\ ~running
    BY <1>7 DEF WorkerStart, WorkerCheck, Holding
  <2>2. CASE wpc' \in {"check", "get"}
    <3>1. Pending' = Pending
      BY <2>1, <2>2 DEF Pending, Holding
    <3> QED BY <2>1, <3>1, StepsFrom
  <2> QED BY <2>1, <2>2
<1>8. CASE WorkerGet
  <2>1. /\ ~Holding /\ Holding' /\ wpc = "get" /\ wpc' = "push"
        /\ queue /= <<>> /\ msg' = Head(queue) /\ queue' = Tail(queue)
    BY <1>8 DEF WorkerGet, Holding
  <2>2. Pending' = <<Head(queue)>> \o Tail(queue)
    BY <2>1 DEF Pending
  <2>3. Pending' = Pending
    BY <1>1, <1>2, <2>1, <2>2, ConsOfTail
  <2> QED BY <2>1, <2>3, StepsFrom
<1>9. CASE WorkerTimeout
  <2>1. ~Holding /\ queue = <<>>
    BY <1>9 DEF WorkerTimeout, Holding
  <2> QED BY <1>2, <2>1
<1>10. CASE PushOk \/ TrimOk
  <2>1. /\ Holding /\ Holding' /\ UNCHANGED <<queue, msg>>
        /\ \/ wpc = "push" /\ wpc' = "trim"
           \/ wpc = "trim" /\ wpc' = "save"
    BY <1>10 DEF PushOk, TrimOk, Holding
  <2>2. Pending' = Pending
    BY <2>1 DEF Pending
  <2> QED BY <2>1, <2>2, StepsFrom
<1>11. CASE SaveOk \/ PushRaises \/ TrimRaises \/ SaveRaises
  <2>1. Holding /\ ~Holding' /\ queue' = queue
    BY <1>11 DEF SaveOk, PushRaises, TrimRaises, SaveRaises, HandlerRaises,
       Holding
  <2>2. Pending' = queue
    BY <1>1, <2>1, ConcatEmptySeq DEF Pending
  <2>3. Pending' = Tail(Pending)
    BY <1>1, <1>2, <2>1, <2>2, ConsHeadTail
  <2>4. wpc' /= wpc
    BY <2>1 DEF Holding
  <2> QED BY <2>3, <2>4
<1> QED
  BY <1>3, <1>4, <1>5, <1>6, <1>7, <1>8, <1>9, <1>10, <1>11 DEF Next, Worker

(* The oldest pending event is decided within six steps of the worker, whatever the
   stores answer and the counter publishes meanwhile, unless the worker is told to
   stop or the process ends. *)
THEOREM PendingAdvancesAlways == Spec => PendingAdvances
<1>1. TypeOK /\ DownIsQuiet /\ [Next]_vars =>
        [Pending /= <<>> /\ wpc \notin {"none", "exited"} /\ phase' /= "down" =>
           \/ wpc = "check" /\ ~running
           \/ wpc' = wpc /\ Pending' \in {Pending, Append(Pending, published')}
           \/ wpc' /= wpc /\ Pending' = Tail(Pending)
           \/ Pending' = Pending /\ StepsToVerdict(wpc') < StepsToVerdict(wpc)]_vars
  BY PendingAdvancesStep
<1>2. TypeOK /\ DownIsQuiet /\ [Next]_vars => (TypeOK /\ DownIsQuiet)'
  BY TypeStep, DownIsQuietStep
<1>3. Init => TypeOK /\ DownIsQuiet
  BY TypeInit DEF Init, DownIsQuiet
<1> QED BY <1>1, <1>2, <1>3, PTL DEF Spec, PendingAdvances

LEMMA StopAdvancesStep ==
  ASSUME DownIsQuiet, [Next]_vars, ~running, wpc \notin {"start", "none"}
  PROVE  ~running' /\ (wpc' \in {wpc, "none"} \/ StepsToExit(wpc') < StepsToExit(wpc))
<1>1. CASE Stop \/ Publish \/ DayReset \/ UNCHANGED vars
  <2>1. CASE Stop
    BY <2>1, Zenon DEF Stop
  <2>2. CASE Publish
    BY <2>2, Zenon DEF Publish
  <2>3. CASE DayReset
    BY <2>3, Zenon DEF DayReset
  <2>4. CASE UNCHANGED vars
    BY <2>4, Zenon DEF vars
  <2> QED BY <1>1, <2>1, <2>2, <2>3, <2>4
<1>2. CASE Boot
  BY <1>2 DEF Boot, DownIsQuiet
<1>3. CASE Exit \/ Crash
  BY <1>3, Zenon DEF Exit, Crash, ProcessEnds
<1>4. CASE Worker
  <2>1. ~running'
    BY <1>4, Zenon DEF Worker, WorkerStart, WorkerCheck, WorkerGet, WorkerTimeout,
       PushOk, TrimOk, SaveOk, PushRaises, TrimRaises, SaveRaises, HandlerRaises
  <2>2. \/ wpc = "check" /\ wpc' = "exited"
        \/ wpc = "get" /\ wpc' \in {"push", "check"}
        \/ wpc = "push" /\ wpc' \in {"trim", "check"}
        \/ wpc = "trim" /\ wpc' \in {"save", "check"}
        \/ wpc = "save" /\ wpc' = "check"
    BY <1>4 DEF Worker, WorkerStart, WorkerCheck, WorkerGet, WorkerTimeout,
       PushOk, TrimOk, SaveOk, PushRaises, TrimRaises, SaveRaises, HandlerRaises
  <2>3. StepsToExit(wpc') < StepsToExit(wpc)
    BY <2>2, StepsFrom
  <2> QED BY <2>1, <2>3
<1> QED BY <1>1, <1>2, <1>3, <1>4 DEF Next

(* A worker that sees the stop flag is done after five steps and one more message at
   most, and nothing sets the flag back. *)
THEOREM StopAdvancesAlways == Spec => StopAdvances
<1>1. DownIsQuiet /\ [Next]_vars =>
        [~running /\ wpc \notin {"start", "none"} =>
           ~running' /\ (wpc' \in {wpc, "none"} \/ StepsToExit(wpc') < StepsToExit(wpc))]_vars
  BY StopAdvancesStep
<1>2. TypeOK /\ DownIsQuiet /\ [Next]_vars => (TypeOK /\ DownIsQuiet)'
  BY TypeStep, DownIsQuietStep
<1>3. Init => TypeOK /\ DownIsQuiet
  BY TypeInit DEF Init, DownIsQuiet
<1> QED BY <1>1, <1>2, <1>3, PTL DEF Spec, StopAdvances
=============================================================================
