-------------------------- MODULE LoadLadderProofs --------------------------
(* For any plans, limits, results of JMeter and any number of faults: no monitor
   outlives its stage, and the load rises on passed stages only.

   That the monitor is gone is not inductive: it has to be known, too, that the
   process id is on record by the time JMeter runs, that stop_monitor.ps1 has read
   it before it waits, and that nothing is alive once it removes the files. *)
EXTENDS LoadLadder, TLAPS

Tracked == Alive /\ ~orphaned

PidRecorded == pc \in {"load", "stop", "post"} /\ Tracked => pidFile
PidRead == pc \in {"stop", "post"} /\ script = "wait" /\ Tracked => known
GoneBeforeFiles == pc \in {"stop", "post"} /\ script = "files" => ~Tracked
ScriptAtRest == pc \notin {"stop", "post"} => script = "flag"
OrphansComeLast == orphaned => pc \in {"post", "ended"}
FailureStops == failed => pc \in {"stop", "post", "ended"}
JmeterPassed == pc = "resource" => ~JmeterTripped(jtl)

Stopping == /\ MonitorEndsWithStage /\ PidRecorded /\ PidRead /\ GoneBeforeFiles
            /\ ScriptAtRest /\ OrphansComeLast

IInv == TypeOK /\ Stopping /\ FailureStops /\ JmeterPassed

-----------------------------------------------------------------------------
(* Lemmas about the breakers. *)

(* A rounded error rate below the limit is an exact one below it. *)
LEMMA ErrorRateBelow ==
  ASSUME LadderAssumption, NEW j, j.n \in Nat \ {0}, j.failed \in Nat,
         ErrorRate(j) < 100 * MaxErrorRate
  PROVE  100 * j.failed < MaxErrorRate * j.n
  <1> DEFINE n == j.n
             f == j.failed
             M == MaxErrorRate
             a == 20000 * f + n
             d == 2 * n
             q == a \div d
  <1>1. n \in Nat \ {0} /\ f \in Nat /\ M \in Nat /\ q < 100 * M
    BY DEF LadderAssumption, ErrorRate
  <1> HIDE DEF n, f, M
  <1>2. a \in Nat /\ d \in Nat \ {0}
    BY <1>1
  <1> HIDE DEF a, d
  <1>3. q \in Int /\ a < d * (q + 1)
    BY <1>2
  <1> HIDE DEF q
  <1>4. q + 1 <= 100 * M
    BY <1>1, <1>3
  <1>5. n * (q + 1) <= n * (100 * M)
    BY <1>1, <1>3, <1>4
  <1>6. d * (q + 1) = 2 * (n * (q + 1))
    BY <1>1, <1>3 DEF d
  <1>7. n * (100 * M) = 100 * (M * n)
    BY <1>1
  <1>8. M * n \in Nat /\ n * (q + 1) \in Int
    BY <1>1, <1>3
  <1>9. a < 200 * (M * n)
    BY <1>2, <1>3, <1>5, <1>6, <1>7, <1>8
  <1>10. 100 * f < M * n
    BY <1>1, <1>8, <1>9 DEF a
  <1> QED
    BY <1>10 DEF f, M, n

(* The neighbours between which the 95th percentile lies are both slow when the
   slow samples but one are a twentieth of the others. *)
LEMMA PercentileSlow ==
  ASSUME LadderAssumption, NEW j, j \in [n : Nat, slow : Nat, failed : Nat],
         j.n > 0, 20 * (j.slow - 1) >= j.n - 1
  PROVE  Percentile(j) = 100 * SlowMs
  <1> DEFINE idx == 95 * (j.n - 1)
             lower == idx \div 100
             upper == IF lower + 1 < j.n THEN lower + 1 ELSE lower
             r == idx % 100
  <1>1. idx \in Nat /\ j.n \in Nat /\ j.slow \in Nat
    OBVIOUS
  <1>2. 100 * (j.n - j.slow) <= idx
    BY <1>1
  <1> HIDE DEF idx
  <1>3. lower \in Nat /\ r \in 0..99 /\ j.n - j.slow <= lower
    BY <1>1, <1>2
  <1> HIDE DEF lower, r
  <1>4. Elapsed(j, lower) = SlowMs /\ Elapsed(j, upper) = SlowMs
    BY <1>1, <1>3 DEF Elapsed
  <1>5. SlowMs \in Nat
    BY DEF LadderAssumption
  <1>6. Percentile(j) = Elapsed(j, lower) * (100 - r) + Elapsed(j, upper) * r
    BY DEF Percentile, lower, r, idx
  <1>7. SlowMs * (100 - r) + SlowMs * r = 100 * SlowMs
    BY <1>3, <1>5
  <1> QED
    BY <1>4, <1>6, <1>7

(* What the breaker for JMeter guarantees of a result it lets pass. *)
LEMMA JmeterOk ==
  ASSUME LadderAssumption, NEW j, j \in [n : Nat, slow : Nat, failed : Nat],
         ~JmeterTripped(j)
  PROVE  /\ j.n >= MinSamples
         /\ 100 * j.failed < MaxErrorRate * j.n
         /\ SlowMs >= MaxP95 => 20 * (j.slow - 1) < j.n - 1
  <1>1. /\ j.n \in Nat \ {0} /\ j.slow \in Nat /\ j.failed \in Nat
        /\ MinSamples \in Nat /\ MaxErrorRate \in Nat /\ MaxP95 \in Nat
        /\ SlowMs \in Nat
    BY DEF JmeterTripped, LadderAssumption
  <1>2. j.n >= MinSamples
    BY <1>1 DEF JmeterTripped
  <1>3. 100 * j.failed < MaxErrorRate * j.n
    <2>1. ErrorRate(j) \in Int /\ ~(ErrorRate(j) >= 100 * MaxErrorRate)
      BY <1>1 DEF JmeterTripped, ErrorRate
    <2>2. ErrorRate(j) < 100 * MaxErrorRate
      BY <1>1, <2>1
    <2> QED
      BY <1>1, <2>2, ErrorRateBelow
  <1>4. ASSUME SlowMs >= MaxP95, ~(20 * (j.slow - 1) < j.n - 1) PROVE FALSE
    <2>1. Percentile(j) = 100 * SlowMs
      <3>1. j.n > 0 /\ 20 * (j.slow - 1) >= j.n - 1
        BY <1>1, <1>4
      <3> QED
        BY <3>1, PercentileSlow
    <2>2. ~(Percentile(j) >= 100 * MaxP95)
      BY DEF JmeterTripped
    <2> QED
      BY <1>1, <1>4, <2>1, <2>2
  <1> QED
    BY <1>2, <1>3, <1>4

-----------------------------------------------------------------------------
LEMMA ConstantTypes ==
  ASSUME LadderAssumption
  PROVE  /\ Plans \in Seq(Nat \ {0}) /\ Len(Plans) \in Nat \ {0}
         /\ \A l \in 1..Len(Plans) : Plans[l] \in Nat \ {0}
         /\ WaitSeconds \in Nat /\ MaxFaults \in Nat
         /\ Jtls \subseteq [n : Nat, slow : Nat, failed : Nat]
  BY DEF LadderAssumption

(* Where the ladder goes after a breaker. *)
LEMMA StageStep ==
  ASSUME LadderAssumption, ladder \in 1..Len(Plans), plan \in 1..Plans[ladder],
         NextLadder \/ NextPlan
  PROVE  /\ ladder' \in 1..Len(Plans) /\ plan' \in 1..Plans[ladder']
         /\ pc' \in {"start", "post"}
  BY ConstantTypes DEF NextLadder, NextPlan, stage

(* TypeOK in parts, which the steps change independently. *)
StageOK == ladder \in 1..Len(Plans) /\ plan \in 1..Plans[ladder]
ModesOK ==
  /\ pc \in {"start", "record", "load", "stop", "jmeter", "resource", "post", "ended"}
  /\ script \in {"flag", "wait", "files"}
  /\ mon \in {"none", "begin", "open", "sample", "check", "ended"}
FlagsOK == /\ known \in BOOLEAN /\ flag \in BOOLEAN /\ pidFile \in BOOLEAN
           /\ failed \in BOOLEAN /\ orphaned \in BOOLEAN
CountersOK == waited \in 0..WaitSeconds /\ faults \in 0..MaxFaults
FilesOK == /\ file \in [exists : BOOLEAN, rows : SUBSET Rows]
           /\ jtl \in Jtls \cup {NoJtl}

LEMMA TypeParts == TypeOK <=> StageOK /\ ModesOK /\ FlagsOK /\ CountersOK /\ FilesOK
  <1>1. {known, flag, pidFile, failed, orphaned} \subseteq BOOLEAN <=> FlagsOK
    BY Zenon DEF FlagsOK
  <1> QED
    BY <1>1 DEF TypeOK, StageOK, ModesOK, CountersOK, FilesOK

LEMMA StageAndModesStep ==
  ASSUME LadderAssumption, StageOK, ModesOK, [Next]_vars
  PROVE  StageOK' /\ ModesOK'
  <1> USE DEF StageOK, ModesOK, stage, stopping, files
  <1>1. CASE StartProcess \/ WritePid \/ RunJmeter
    BY <1>1 DEF StartProcess, WritePid, RunJmeter
  <1>2. CASE CheckJmeter
    BY <1>2, StageStep DEF CheckJmeter
  <1>3. CASE CheckResource
    BY <1>3, StageStep DEF CheckResource
  <1>4. CASE BreakerFails \/ Abort
    BY <1>4 DEF BreakerFails, Abort
  <1>5. CASE StopMonitor
    BY <1>5 DEF StopMonitor, SetFlag, WaitForMonitor, KillLateMonitor, RemoveFiles
  <1>6. CASE Monitor \/ MonitorCrashes
    BY <1>6 DEF Monitor, MonitorBegins, MonitorOpens, MonitorSamples, MonitorChecks,
       MonitorCrashes
  <1>7. CASE UNCHANGED vars
    BY <1>7 DEF vars
  <1> QED
    BY <1>1, <1>2, <1>3, <1>4, <1>5, <1>6, <1>7 DEF Next, Pipeline

LEMMA FlagsStep ==
  ASSUME FlagsOK, [Next]_vars
  PROVE  FlagsOK'
  <1> USE DEF FlagsOK, stage, stopping, files
  <1>1. CASE StartProcess \/ RunJmeter
    BY <1>1, Zenon DEF StartProcess, RunJmeter
  <1>2. CASE WritePid
    BY <1>2, Zenon DEF WritePid
  <1>3. CASE CheckJmeter \/ CheckResource
    BY <1>3 DEF CheckJmeter, CheckResource
  <1>4. CASE BreakerFails
    BY <1>4 DEF BreakerFails
  <1>5. CASE Abort
    BY <1>5, Zenon DEF Abort
  <1>6. CASE SetFlag
    BY <1>6, Zenon DEF SetFlag
  <1>7. CASE WaitForMonitor \/ KillLateMonitor \/ RemoveFiles
    BY <1>7 DEF WaitForMonitor, KillLateMonitor, RemoveFiles
  <1>8. CASE Monitor \/ MonitorCrashes
    BY <1>8 DEF Monitor, MonitorBegins, MonitorOpens, MonitorSamples, MonitorChecks,
       MonitorCrashes
  <1>9. CASE UNCHANGED vars
    BY <1>9 DEF vars
  <1> QED
    BY <1>1, <1>2, <1>3, <1>4, <1>5, <1>6, <1>7, <1>8, <1>9
       DEF Next, Pipeline, StopMonitor

LEMMA CountersStep ==
  ASSUME LadderAssumption, CountersOK, [Next]_vars
  PROVE  CountersOK'
  <1> USE ConstantTypes DEF CountersOK, stage, stopping, files, Fault
  <1>1. CASE StartProcess \/ WritePid \/ RunJmeter
    BY <1>1 DEF StartProcess, WritePid, RunJmeter
  <1>2. CASE CheckJmeter \/ CheckResource \/ BreakerFails \/ Abort
    BY <1>2 DEF CheckJmeter, CheckResource, BreakerFails, Abort
  <1>3. CASE StopMonitor
    BY <1>3 DEF StopMonitor, SetFlag, WaitForMonitor, KillLateMonitor, RemoveFiles
  <1>4. CASE Monitor \/ MonitorCrashes
    BY <1>4 DEF Monitor, MonitorBegins, MonitorOpens, MonitorSamples, MonitorChecks,
       MonitorCrashes
  <1>5. CASE UNCHANGED vars
    BY <1>5 DEF vars
  <1> QED
    BY <1>1, <1>2, <1>3, <1>4, <1>5 DEF Next, Pipeline

LEMMA FilesStep ==
  ASSUME FilesOK, [Next]_vars
  PROVE  FilesOK'
  <1> USE DEF FilesOK, stage, stopping, files
  <1>1. CASE StartProcess
    BY <1>1 DEF StartProcess, NoFile
  <1>2. CASE WritePid \/ RunJmeter
    BY <1>2 DEF WritePid, RunJmeter
  <1>3. CASE CheckJmeter \/ CheckResource \/ BreakerFails \/ Abort
    BY <1>3 DEF CheckJmeter, CheckResource, BreakerFails, Abort
  <1>4. CASE StopMonitor
    BY <1>4 DEF StopMonitor, SetFlag, WaitForMonitor, KillLateMonitor, RemoveFiles
  <1>5. CASE MonitorBegins \/ MonitorChecks \/ MonitorCrashes
    BY <1>5 DEF MonitorBegins, MonitorChecks, MonitorCrashes
  <1>6. CASE MonitorOpens
    BY <1>6 DEF MonitorOpens
  <1>7. CASE MonitorSamples
    <2>1. PICK r \in Rows : file' = [file EXCEPT !.rows = @ \cup {r}]
      BY <1>7 DEF MonitorSamples
    <2>2. UNCHANGED jtl
      BY <1>7 DEF MonitorSamples
    <2> QED
      BY <2>1, <2>2
  <1>8. CASE UNCHANGED vars
    BY <1>8 DEF vars
  <1> QED
    BY <1>1, <1>2, <1>3, <1>4, <1>5, <1>6, <1>7, <1>8 DEF Next, Pipeline, Monitor

LEMMA InitIInv == LadderAssumption /\ Init => IInv
  <1> SUFFICES ASSUME LadderAssumption, Init PROVE IInv
    OBVIOUS
  <1>1. TypeOK
    <2>1. file \in [exists : BOOLEAN, rows : SUBSET Rows]
      BY DEF Init, NoFile
    <2>2. ladder \in 1..Len(Plans) /\ plan \in 1..Plans[ladder]
      BY ConstantTypes DEF Init
    <2>3. FlagsOK
      BY Zenon DEF Init, FlagsOK
    <2>4. ModesOK /\ CountersOK /\ FilesOK
      BY <2>1, ConstantTypes DEF Init, ModesOK, CountersOK, FilesOK
    <2> QED
      BY <2>2, <2>3, <2>4, TypeParts DEF StageOK
  <1>2. Stopping
    BY DEF Init, Stopping, MonitorEndsWithStage, PidRecorded, PidRead,
       GoneBeforeFiles, ScriptAtRest, OrphansComeLast, Tracked, Alive
  <1>3. FailureStops /\ JmeterPassed
    BY DEF Init, FailureStops, JmeterPassed
  <1> QED
    BY <1>1, <1>2, <1>3 DEF IInv

LEMMA TypeStep == LadderAssumption /\ TypeOK /\ [Next]_vars => TypeOK'
  <1> SUFFICES ASSUME LadderAssumption, TypeOK, [Next]_vars PROVE TypeOK'
    OBVIOUS
  <1>1. StageOK /\ ModesOK /\ FlagsOK /\ CountersOK /\ FilesOK
    BY TypeParts
  <1>2. StageOK' /\ ModesOK' /\ FlagsOK' /\ CountersOK' /\ FilesOK'
    BY <1>1, StageAndModesStep, FlagsStep, CountersStep, FilesStep
  <1>3. TypeOK' <=> StageOK' /\ ModesOK' /\ FlagsOK' /\ CountersOK' /\ FilesOK'
    BY TypeParts, PTL
  <1> QED
    BY <1>2, <1>3

-----------------------------------------------------------------------------
LEMMA StoppingStep ==
  ASSUME LadderAssumption, TypeOK, Stopping, [Next]_vars
  PROVE  Stopping'
  <1>0. ModesOK /\ FlagsOK
    BY TypeParts
  <1>a. ladder \in 1..Len(Plans) /\ plan \in 1..Plans[ladder]
    BY DEF TypeOK
  <1> USE <1>0 DEF ModesOK, FlagsOK, Stopping, MonitorEndsWithStage, PidRecorded, PidRead,
       GoneBeforeFiles, ScriptAtRest, OrphansComeLast, Tracked, Alive, stage,
       stopping, files
  <1>1. CASE StartProcess
    BY <1>1 DEF StartProcess
  <1>2. CASE WritePid
    BY <1>2 DEF WritePid
  <1>3. CASE RunJmeter
    BY <1>3 DEF RunJmeter
  <1>4. CASE CheckJmeter
    BY <1>a, <1>4, StageStep DEF CheckJmeter
  <1>5. CASE CheckResource
    BY <1>a, <1>5, StageStep DEF CheckResource
  <1>6. CASE BreakerFails
    BY <1>6 DEF BreakerFails
  <1>7. CASE Abort
    BY <1>7 DEF Abort
  <1>8. CASE SetFlag \/ RemoveFiles
    BY <1>8 DEF SetFlag, RemoveFiles
  <1>9. CASE WaitForMonitor \/ KillLateMonitor
    BY <1>9 DEF WaitForMonitor, KillLateMonitor
  <1>10. CASE Monitor \/ MonitorCrashes
    BY <1>10 DEF Monitor, MonitorBegins, MonitorOpens, MonitorSamples, MonitorChecks,
       MonitorCrashes
  <1>11. CASE UNCHANGED vars
    BY <1>11 DEF vars
  <1> QED
    BY <1>1, <1>2, <1>3, <1>4, <1>5, <1>6, <1>7, <1>8, <1>9, <1>10, <1>11
       DEF Next, Pipeline, StopMonitor

LEMMA FailureStep ==
  ASSUME LadderAssumption, TypeOK, Stopping, FailureStops, [Next]_vars
  PROVE  FailureStops'
  <1>0. /\ pc \in {"start", "record", "load", "stop", "jmeter", "resource", "post",
                   "ended"}
        /\ failed \in BOOLEAN
        /\ ladder \in 1..Len(Plans) /\ plan \in 1..Plans[ladder]
    BY DEF TypeOK
  <1> USE <1>0 DEF FailureStops, stage, stopping, files
  <1>1. CASE StartProcess \/ WritePid \/ RunJmeter
    BY <1>1 DEF StartProcess, WritePid, RunJmeter
  <1>2. CASE CheckJmeter \/ CheckResource
    BY <1>2, StageStep DEF CheckJmeter, CheckResource
  <1>3. CASE BreakerFails \/ Abort
    BY <1>3 DEF BreakerFails, Abort
  <1>4. CASE StopMonitor
    BY <1>4 DEF StopMonitor, SetFlag, WaitForMonitor, KillLateMonitor, RemoveFiles
  <1>5. CASE Monitor \/ MonitorCrashes
    BY <1>5 DEF Monitor, MonitorBegins, MonitorOpens, MonitorSamples, MonitorChecks,
       MonitorCrashes
  <1>6. CASE UNCHANGED vars
    BY <1>6 DEF vars
  <1> QED
    BY <1>1, <1>2, <1>3, <1>4, <1>5, <1>6 DEF Next, Pipeline

(* Only the breaker for JMeter leads to the one for the resources, and nobody
   writes the result in between. *)
LEMMA JmeterStep ==
  ASSUME LadderAssumption, TypeOK, JmeterPassed, [Next]_vars
  PROVE  JmeterPassed'
  <1>0. ladder \in 1..Len(Plans) /\ plan \in 1..Plans[ladder]
    BY DEF TypeOK
  <1>1. pc' = "resource" => jtl' = jtl /\ (pc = "resource" \/ ~JmeterTripped(jtl))
    <2> USE <1>0 DEF stage, stopping, files
    <2>1. CASE StartProcess \/ WritePid \/ RunJmeter
      BY <2>1 DEF StartProcess, WritePid, RunJmeter
    <2>2. CASE CheckJmeter \/ CheckResource
      BY <2>2, StageStep DEF CheckJmeter, CheckResource
    <2>3. CASE BreakerFails \/ Abort
      BY <2>3 DEF BreakerFails, Abort
    <2>4. CASE StopMonitor
      BY <2>4 DEF StopMonitor, SetFlag, WaitForMonitor, KillLateMonitor, RemoveFiles
    <2>5. CASE Monitor \/ MonitorCrashes
      BY <2>5 DEF Monitor, MonitorBegins, MonitorOpens, MonitorSamples,
         MonitorChecks, MonitorCrashes
    <2>6. CASE UNCHANGED vars
      BY <2>6 DEF vars
    <2> QED
      BY <2>1, <2>2, <2>3, <2>4, <2>5, <2>6 DEF Next, Pipeline
  <1>2. jtl' = jtl => JmeterTripped(jtl)' = JmeterTripped(jtl)
    BY DEF JmeterTripped, ErrorRate, Percentile, Elapsed
  <1> QED
    BY <1>1, <1>2 DEF JmeterPassed

LEMMA StepIInv == LadderAssumption /\ IInv /\ [Next]_vars => IInv'
  BY TypeStep, StoppingStep, FailureStep, JmeterStep DEF IInv

-----------------------------------------------------------------------------
(* Every reachable state is well typed. *)
THEOREM TypeCorrect == Spec => []TypeOK
  <1>1. IInv => TypeOK
    BY DEF IInv
  <1> QED
    BY <1>1, InitIInv, StepIInv, LadderAssumption, PTL DEF Spec

(* No monitor outlives its stage (stop_monitor.ps1, the finally clause of
   runLoadStage and the post section of the Jenkinsfile). *)
THEOREM MonitorEndsWithStageAlways == Spec => []MonitorEndsWithStage
  <1>1. IInv => MonitorEndsWithStage
    BY DEF IInv, Stopping
  <1> QED
    BY <1>1, InitIInv, StepIInv, LadderAssumption, PTL DEF Spec

(* The next plan of a ladder starts after a stage that has passed, only: the two
   breakers of the Jenkinsfile, with their rounding and their interpolation. *)
THEOREM LoadRisesOnPassAlways == Spec => LoadRisesOnPass
  <1>1. ASSUME LadderAssumption, IInv, [Next]_vars, ladder' = ladder, plan' /= plan
        PROVE  Healthy /\ ~Alive /\ ~failed
    <2>0. /\ ladder \in 1..Len(Plans) /\ plan \in 1..Plans[ladder]
          /\ jtl \in [n : Nat, slow : Nat, failed : Nat]
      BY <1>1, ConstantTypes DEF IInv, TypeOK, NoJtl
    <2>1. ladder \in Int
      BY <2>0
    <2>2. CheckResource /\ ~ResourceTripped(file.rows)
      <3> USE <1>1, <2>1 DEF stage, stopping, files
      <3>1. CASE CheckJmeter
        BY <3>1 DEF CheckJmeter, NextLadder
      <3>2. CASE CheckResource
        BY <3>2 DEF CheckResource, NextLadder
      <3>3. CASE StartProcess \/ WritePid \/ RunJmeter \/ BreakerFails \/ Abort
        BY <3>3 DEF StartProcess, WritePid, RunJmeter, BreakerFails, Abort
      <3>4. CASE StopMonitor
        BY <3>4 DEF StopMonitor, SetFlag, WaitForMonitor, KillLateMonitor, RemoveFiles
      <3>5. CASE Monitor \/ MonitorCrashes
        BY <3>5 DEF Monitor, MonitorBegins, MonitorOpens, MonitorSamples,
           MonitorChecks, MonitorCrashes
      <3>6. CASE UNCHANGED vars
        BY <3>6 DEF vars
      <3> QED
        BY <3>1, <3>2, <3>3, <3>4, <3>5, <3>6 DEF Next, Pipeline
    <2>3. pc = "resource" /\ file.exists
      BY <2>2 DEF CheckResource
    <2>4. ~Alive /\ ~failed /\ ~JmeterTripped(jtl)
      BY <1>1, <2>3 DEF IInv, Stopping, MonitorEndsWithStage, OrphansComeLast,
         FailureStops, JmeterPassed
    <2>5. file.rows /= {} /\ \A r \in file.rows, metric \in Metrics : r[metric] < Limit[metric]
      <3>1. \A r \in file.rows, metric \in Metrics :
               r[metric] \in Nat /\ Limit[metric] \in Nat
        BY <1>1 DEF IInv, TypeOK, LadderAssumption
      <3> QED
        BY <2>2, <3>1 DEF ResourceTripped
    <2> QED
      BY <1>1, <2>0, <2>3, <2>4, <2>5, JmeterOk DEF Healthy
  <1>2. LadderAssumption /\ IInv /\ [Next]_vars
          => [ladder' = ladder /\ plan' /= plan => Healthy /\ ~Alive /\ ~failed]_vars
    BY <1>1
  <1> QED
    BY <1>2, InitIInv, StepIInv, LadderAssumption, PTL DEF Spec, LoadRisesOnPass

-----------------------------------------------------------------------------
(* The build goes on: the safe part of BuildEnds. *)

LEMMA Places ==
  /\ Place("start") = 1 /\ Place("record") = 2 /\ Place("load") = 3
  /\ Place("stop") = 4 /\ Place("jmeter") = 5 /\ Place("resource") = 6
  /\ Place("post") = 7 /\ Place("ended") = 8
  /\ ScriptPlace("flag") = 1 /\ ScriptPlace("wait") = 2 /\ ScriptPlace("files") = 3
  <1>1. /\ Place("start") = 1 /\ Place("record") = 2 /\ Place("load") = 3
        /\ Place("stop") = 4 /\ Place("jmeter") = 5 /\ Place("resource") = 6
        /\ Place("post") = 7 /\ Place("ended") = 8
    BY DEF Place
  <1>2. /\ ScriptPlace("flag") = 1 /\ ScriptPlace("wait") = 2
        /\ ScriptPlace("files") = 3
    BY DEF ScriptPlace
  <1> QED
    BY <1>1, <1>2

LaterStage == ladder' > ladder \/ (ladder' = ladder /\ plan' > plan)
OnInStage == UNCHANGED stage /\ Place(pc') > Place(pc)
OnInScript == /\ UNCHANGED <<stage, pc>>
              /\ \/ ScriptPlace(script') > ScriptPlace(script)
                 \/ UNCHANGED script /\ waited' = waited + 1

LEMMA AdvanceStep ==
  ASSUME LadderAssumption, TypeOK, [Next]_vars
  PROVE  \/ UNCHANGED vars
         \/ (Monitor \/ MonitorCrashes) /\ UNCHANGED <<stage, pc, stopping>>
         \/ LaterStage \/ OnInStage \/ OnInScript
  <1>0. /\ ladder \in Int /\ plan \in Int
        /\ pc \in {"start", "record", "load", "stop", "jmeter", "resource", "post",
                   "ended"}
    BY DEF TypeOK
  <1>1. CASE Monitor \/ MonitorCrashes
    BY <1>1 DEF Monitor, MonitorBegins, MonitorOpens, MonitorSamples, MonitorChecks,
       MonitorCrashes
  <1>2. CASE StartProcess \/ WritePid \/ RunJmeter \/ BreakerFails
    <2>1. UNCHANGED stage
      BY <1>2 DEF StartProcess, WritePid, RunJmeter, BreakerFails
    <2>2. \/ pc = "start" /\ pc' = "record"
          \/ pc = "record" /\ pc' = "load"
          \/ pc = "load" /\ pc' = "stop"
          \/ pc \in {"jmeter", "resource"} /\ pc' = "post"
      BY <1>2 DEF StartProcess, WritePid, RunJmeter, BreakerFails
    <2> QED
      BY <2>1, <2>2, Places DEF OnInStage
  <1>3. ASSUME NextLadder \/ NextPlan, pc \in {"jmeter", "resource"}
        PROVE  LaterStage \/ OnInStage
    <2>1. \/ LaterStage
          \/ UNCHANGED stage /\ pc' = "post"
      BY <1>0, <1>3 DEF NextLadder, NextPlan, stage, LaterStage
    <2> QED
      BY <1>3, <2>1, Places DEF OnInStage
  <1>4. CASE CheckJmeter
    <2>1. pc = "jmeter" /\ (NextLadder \/ (pc' = "resource" /\ UNCHANGED stage))
      BY <1>4 DEF CheckJmeter
    <2> QED
      BY <1>3, <2>1, Places DEF OnInStage
  <1>5. CASE CheckResource
    BY <1>3, <1>5 DEF CheckResource
  <1>6. CASE Abort
    <2>1. /\ UNCHANGED stage /\ pc /= "ended"
          /\ pc' = CASE pc = "load" -> "stop" [] pc = "post" -> "ended" [] OTHER -> "post"
      BY <1>6 DEF Abort
    <2>2. \/ pc = "load" /\ pc' = "stop"
          \/ pc = "post" /\ pc' = "ended"
          \/ pc \in {"start", "record", "stop", "jmeter", "resource"} /\ pc' = "post"
      BY <1>0, <2>1
    <2> QED
      BY <2>1, <2>2, Places DEF OnInStage
  <1>7. CASE SetFlag \/ WaitForMonitor \/ KillLateMonitor
    <2>1. UNCHANGED <<stage, pc>>
      BY <1>7 DEF SetFlag, WaitForMonitor, KillLateMonitor
    <2>2. \/ script = "flag" /\ script' = "wait"
          \/ script' = script /\ waited' = waited + 1
          \/ script = "wait" /\ script' = "files"
      BY <1>7 DEF SetFlag, WaitForMonitor, KillLateMonitor
    <2> QED
      BY <2>1, <2>2, Places DEF OnInScript
  <1>8. CASE RemoveFiles
    <2>1. UNCHANGED stage
      BY <1>8 DEF RemoveFiles
    <2>2. \/ pc = "post" /\ pc' = "ended"
          \/ pc = "stop" /\ pc' \in {"post", "jmeter"}
      BY <1>8 DEF RemoveFiles
    <2> QED
      BY <2>1, <2>2, Places DEF OnInStage
  <1> QED
    BY <1>1, <1>2, <1>4, <1>5, <1>6, <1>7, <1>8 DEF Next, Pipeline, StopMonitor

(* The build never goes back: not to an earlier plan or ladder, nor in a stage, nor in
   the script, whatever the monitor does and whichever steps fail. *)
THEOREM BuildAdvancesAlways == Spec => BuildAdvances
  <1>1. LadderAssumption /\ IInv /\ [Next]_vars =>
          [\/ (Monitor \/ MonitorCrashes) /\ UNCHANGED <<stage, pc, stopping>>
           \/ ladder' > ladder
           \/ ladder' = ladder /\ plan' > plan
           \/ UNCHANGED stage /\ Place(pc') > Place(pc)
           \/ /\ UNCHANGED <<stage, pc>>
              /\ \/ ScriptPlace(script') > ScriptPlace(script)
                 \/ UNCHANGED script /\ waited' = waited + 1]_vars
    BY AdvanceStep DEF IInv, LaterStage, OnInStage, OnInScript
  <1> QED
    BY <1>1, InitIInv, StepIInv, LadderAssumption, PTL DEF Spec, BuildAdvances
=============================================================================
