----------------------------- MODULE LoadLadder -----------------------------
(* The load ladders of the Jenkinsfile: each stage starts a resource monitor
   (scripts/monitor_resources.py) as a process of its own, runs JMeter, stops the
   monitor through a flag file, a wait and a kill (scripts/ci/stop_monitor.ps1),
   and lets two breakers (scripts/check_*_breaker.py) decide from the files of the
   stage whether the ladder goes on with more threads.

   One build runs at a time (disableConcurrentBuilds), after the files of earlier
   ones were cleaned.  A result file of JMeter is represented by the number of its
   samples, of the slow and of the failed ones; a resource file by the set of its
   rows; summaries, reports and the backend are left out. *)
EXTENDS Integers, Sequences, FiniteSets

CONSTANTS Plans,            \* number of plans of each ladder
          WaitSeconds,      \* how long stop_monitor.ps1 waits for the monitor
          MinSamples, MaxErrorRate, MaxP95,  \* limits: percent, milliseconds
          FastMs, SlowMs,   \* elapsed times of the samples
          Jtls,             \* results of JMeter
          Metrics, Limit,   \* what a resource row measures, and the limits
          Rows,             \* resource rows the monitor can write
          MaxFaults         \* bound: failures and aborts

ASSUME LadderAssumption ==
  /\ Plans \in Seq(Nat \ {0}) /\ Plans /= <<>>
  /\ {WaitSeconds, MinSamples, MaxErrorRate, MaxP95, FastMs, SlowMs, MaxFaults}
       \subseteq Nat
  /\ MinSamples > 0 /\ FastMs <= SlowMs
  /\ Jtls \subseteq [n : Nat, slow : Nat, failed : Nat]
  /\ \A j \in Jtls : j.slow <= j.n /\ j.failed <= j.n
  /\ Limit \in [Metrics -> Nat] /\ Rows \subseteq [Metrics -> Nat]

VARIABLES ladder, plan,     \* the stage
          pc,               \* where the pipeline is
          script,           \* where stop_monitor.ps1 is
          known, waited,    \* its $monitorProcessId is set; seconds it has waited
          mon,              \* the monitor of the stage
          flag, pidFile,    \* monitor.stop exists; monitor.pid names the monitor
          file,             \* <label>_resources.csv
          jtl,              \* <label>.jtl
          failed,           \* the build has failed or was aborted
          faults,
          orphaned          \* history: an abort hit before monitor.pid was written,
                            \* or in the last stop_monitor of the build

stage == <<ladder, plan>>
stopping == <<script, known, waited>>
files == <<flag, pidFile, file, jtl>>
vars == <<stage, pc, stopping, mon, files, failed, faults, orphaned>>

NoFile == [exists |-> FALSE, rows |-> {}]
NoJtl == [n |-> 0, slow |-> 0, failed |-> 0]

Fault == faults < MaxFaults /\ faults' = faults + 1

Alive == mon \notin {"none", "ended"}

-----------------------------------------------------------------------------
(* check_jmeter_breaker.py.  Times and rates are in hundredths, so rounding to two
   decimals makes a time no different and a rate the nearest integer; halves, which
   Python may round either way, are rounded up and never meet a limit. *)

(* The i-th of the sorted elapsed times, counted from 0. *)
Elapsed(j, i) == IF i < j.n - j.slow THEN FastMs ELSE SlowMs

\* Mutant: the 90th percentile.
PercentileNinety(j) ==
  LET idx == 90 * (j.n - 1)
      lower == idx \div 100
      upper == IF lower + 1 < j.n THEN lower + 1 ELSE lower
  IN  Elapsed(j, lower) * (100 - (idx % 100)) + Elapsed(j, upper) * (idx % 100)

(* percentile(elapsed_values, 0.95), linear between two neighbours. *)
Percentile(j) ==
  LET idx == 95 * (j.n - 1)
      lower == idx \div 100
      upper == IF lower + 1 < j.n THEN lower + 1 ELSE lower
  IN  Elapsed(j, lower) * (100 - (idx % 100)) + Elapsed(j, upper) * (idx % 100)

ErrorRate(j) == (20000 * j.failed + j.n) \div (2 * j.n)

JmeterTripped(j) == \/ j.n = 0
                    \/ j.n < MinSamples
                    \/ ErrorRate(j) >= 100 * MaxErrorRate
                    \/ Percentile(j) >= 100 * MaxP95

(* check_resource_breaker.py: no row at all, or a maximum at its limit. *)
ResourceTripped(rows) == \/ rows = {}
                         \/ \E r \in rows, metric \in Metrics : r[metric] >= Limit[metric]

-----------------------------------------------------------------------------
Init == /\ ladder = 1 /\ plan = 1
        /\ pc = "start"
        /\ script = "flag" /\ known = FALSE /\ waited = 0
        /\ mon = "none"
        /\ flag \in BOOLEAN /\ pidFile = FALSE
        /\ file = NoFile /\ jtl = NoJtl
        /\ failed = FALSE /\ faults = 0 /\ orphaned = FALSE

-----------------------------------------------------------------------------
(* runLoadStage and runScenarioLadder. *)

(* start_monitor.ps1 removes the flag and starts the process, or fails to ... *)
StartProcess == /\ pc = "start"
                /\ flag' = FALSE
                /\ \/ mon' = "begin" /\ UNCHANGED faults
                   \/ mon' = "none" /\ Fault
                /\ file' = NoFile /\ jtl' = NoJtl
                /\ pc' = "record"
                /\ UNCHANGED <<stage, stopping, pidFile, failed, orphaned>>

(* ... and writes the process id it has, or none. *)
WritePid == /\ pc = "record"
            /\ pidFile' = (mon /= "none")
            /\ pc' = "load"
            /\ UNCHANGED <<stage, stopping, mon, flag, file, jtl, failed, faults,
                           orphaned>>

(* The report directory is cleaned and JMeter runs; the finally clause stops the
   monitor in either case. *)
RunJmeter == /\ pc = "load"
             /\ \/ jtl' \in Jtls /\ UNCHANGED <<failed, faults>>
                \/ Fault /\ failed' = TRUE /\ UNCHANGED jtl
             /\ pc' = "stop"
             /\ UNCHANGED <<stage, stopping, mon, flag, pidFile, file, orphaned>>

NextLadder == /\ IF ladder < Len(Plans)
                   THEN ladder' = ladder + 1 /\ plan' = 1 /\ pc' = "start"
                   ELSE pc' = "post" /\ UNCHANGED stage

NextPlan == IF plan < Plans[ladder]
              THEN plan' = plan + 1 /\ pc' = "start" /\ UNCHANGED ladder
              ELSE NextLadder

(* Exit status 2: the rest of the ladder is skipped. *)
CheckJmeter == /\ pc = "jmeter"
               /\ IF JmeterTripped(jtl) THEN NextLadder
                  ELSE pc' = "resource" /\ UNCHANGED stage
               /\ UNCHANGED <<stopping, mon, files, failed, faults, orphaned>>

CheckResource == /\ pc = "resource" /\ file.exists
                 /\ IF ResourceTripped(file.rows) THEN NextLadder ELSE NextPlan
                 /\ UNCHANGED <<stopping, mon, files, failed, faults, orphaned>>

(* Any other status is an error: the resource file does not exist, or a file cannot
   be read or written. *)
BreakerFails == /\ pc \in {"jmeter", "resource"}
                /\ IF pc = "resource" /\ ~file.exists THEN UNCHANGED faults ELSE Fault
                /\ failed' = TRUE /\ pc' = "post"
                /\ UNCHANGED <<stage, stopping, mon, files, orphaned>>

(* The build is aborted: the finally clause and the post section still run, unless
   it is the latter that is interrupted. *)
Abort == /\ pc /= "ended" /\ Fault
         /\ failed' = TRUE
         /\ pc' = CASE pc = "load" -> "stop" [] pc = "post" -> "ended" [] OTHER -> "post"
         /\ script' = "flag"
         /\ orphaned' = (orphaned \/ (pc \in {"record", "post"} /\ Alive))
         /\ UNCHANGED <<stage, known, waited, mon, files>>

-----------------------------------------------------------------------------
(* stop_monitor.ps1, at the end of a stage and of the build. *)

SetFlag == /\ pc \in {"stop", "post"} /\ script = "flag"
           /\ flag' = TRUE
           /\ known' = pidFile /\ waited' = 0
           /\ script' = "wait"
           /\ UNCHANGED <<stage, pc, mon, pidFile, file, jtl, failed, faults, orphaned>>

WaitForMonitor == /\ pc \in {"stop", "post"} /\ script = "wait"
                  /\ known /\ Alive /\ waited < WaitSeconds
                  /\ waited' = waited + 1
                  /\ UNCHANGED <<stage, pc, script, known, mon, files, failed, faults,
                                 orphaned>>

\* Mutant: the monitor is waited for, and not killed when it is late.
StopWaitingOnly == /\ pc \in {"stop", "post"} /\ script = "wait"
                   /\ ~known \/ ~Alive \/ waited = WaitSeconds
                   /\ script' = "files"
                   /\ UNCHANGED <<stage, pc, known, waited, mon, files, failed, faults,
                                  orphaned>>

\* Mutant: the wait ends when the monitor does.
StopWaitingWithoutLimit == /\ pc \in {"stop", "post"} /\ script = "wait"
                           /\ ~known \/ ~Alive
                           /\ script' = "files"
                           /\ UNCHANGED <<stage, pc, known, waited, mon, files, failed,
                                          faults, orphaned>>

KillLateMonitor == /\ pc \in {"stop", "post"} /\ script = "wait"
                   /\ ~known \/ ~Alive \/ waited = WaitSeconds
                   /\ mon' = IF known /\ Alive THEN "ended" ELSE mon
                   /\ script' = "files"
                   /\ UNCHANGED <<stage, pc, known, waited, files, failed, faults,
                                  orphaned>>

RemoveFiles == /\ pc \in {"stop", "post"} /\ script = "files"
               /\ pidFile' = FALSE /\ flag' = FALSE
               /\ script' = "flag"
               /\ pc' = IF pc = "post" THEN "ended" ELSE IF failed THEN "post" ELSE "jmeter"
               /\ UNCHANGED <<stage, known, waited, mon, file, jtl, failed, faults,
                              orphaned>>

-----------------------------------------------------------------------------
(* monitor_resources.py. *)

(* A flag that is there already is removed, whomever it was meant for. *)
MonitorBegins == /\ mon = "begin"
                 /\ flag' = FALSE /\ mon' = "open"
                 /\ UNCHANGED <<stage, pc, stopping, pidFile, file, jtl, failed, faults,
                                orphaned>>

MonitorOpens == /\ mon = "open"
                /\ file' = [exists |-> TRUE, rows |-> {}]
                /\ mon' = "sample"
                /\ UNCHANGED <<stage, pc, stopping, flag, pidFile, jtl, failed, faults,
                               orphaned>>

MonitorSamples == /\ mon = "sample"
                  /\ \E r \in Rows : file' = [file EXCEPT !.rows = @ \cup {r}]
                  /\ mon' = "check"
                  /\ UNCHANGED <<stage, pc, stopping, flag, pidFile, jtl, failed, faults,
                                 orphaned>>

(* ... until the flag is there; the summary is written on the way out. *)
MonitorChecks == /\ mon = "check"
                 /\ mon' = IF flag THEN "ended" ELSE "sample"
                 /\ UNCHANGED <<stage, pc, stopping, files, failed, faults, orphaned>>

MonitorCrashes == /\ Alive /\ Fault
                  /\ mon' = "ended"
                  /\ UNCHANGED <<stage, pc, stopping, files, failed, orphaned>>

-----------------------------------------------------------------------------
StopMonitor == SetFlag \/ WaitForMonitor \/ KillLateMonitor \/ RemoveFiles
Pipeline == \/ StartProcess \/ WritePid \/ RunJmeter
            \/ StopMonitor
            \/ CheckJmeter \/ CheckResource \/ BreakerFails
Monitor == MonitorBegins \/ MonitorOpens \/ MonitorSamples \/ MonitorChecks

Next == Pipeline \/ Abort \/ Monitor \/ MonitorCrashes

Spec == Init /\ [][Next]_vars

(* JMeter has a duration and scripts end.  Nothing is assumed of the monitor. *)
FairSpec == Spec /\ WF_vars(Pipeline)

-----------------------------------------------------------------------------
TypeOK ==
  /\ ladder \in 1..Len(Plans) /\ plan \in 1..Plans[ladder]
  /\ pc \in {"start", "record", "load", "stop", "jmeter", "resource", "post", "ended"}
  /\ script \in {"flag", "wait", "files"}
  /\ waited \in 0..WaitSeconds /\ faults \in 0..MaxFaults
  /\ {known, flag, pidFile, failed, orphaned} \subseteq BOOLEAN
  /\ mon \in {"none", "begin", "open", "sample", "check", "ended"}
  /\ file \in [exists : BOOLEAN, rows : SUBSET Rows]
  /\ jtl \in Jtls \cup {NoJtl}

(* No monitor outlives its stage: when a breaker reads the files, the next stage
   starts or the build ends, it is gone, however slowly it has started, and also if
   JMeter failed, the build was aborted, or the monitor has removed the flag that was
   meant for it.  Only an abort between Start-Process and Out-File, or one of the
   last stop_monitor, leaves a monitor behind. *)
MonitorEndsWithStage ==
  Alive /\ ~orphaned => pc \in {"record", "load", "stop", "post"}

(* What a stage has to show before its ladder goes on: enough samples, an exact
   error rate below the limit, of the slow samples all but one fewer than a twentieth
   of the others, and at least one resource row and none at a limit. *)
Healthy ==
  /\ jtl.n >= MinSamples
  /\ 100 * jtl.failed < MaxErrorRate * jtl.n
  /\ SlowMs >= MaxP95 => 20 * (jtl.slow - 1) < jtl.n - 1
  /\ file.exists /\ file.rows /= {}
  /\ \A r \in file.rows, metric \in Metrics : r[metric] < Limit[metric]

(* The load rises on passed stages only (docs/TEST_CASES.md, section 5): neither a
   failure of any step, nor a monitor without rows, nor rounding or interpolation
   lets the next plan of a ladder start. *)
LoadRisesOnPass == [][ladder' = ladder /\ plan' /= plan => Healthy /\ ~Alive /\ ~failed]_vars

(* The order of the steps of a stage, and of stop_monitor.ps1 in it. *)
Place(p) == CASE p = "start" -> 1 [] p = "record" -> 2 [] p = "load" -> 3
              [] p = "stop" -> 4 [] p = "jmeter" -> 5 [] p = "resource" -> 6
              [] p = "post" -> 7 [] OTHER -> 8
ScriptPlace(p) == CASE p = "flag" -> 1 [] p = "wait" -> 2 [] OTHER -> 3

(* No step of the build is taken twice: each one goes to a later plan or ladder, on in
   the stage or on in the script, whatever fails or is aborted; a second of the wait,
   which TypeOK bounds, is the only repetition.  The monitor does not change where the
   build is. *)
BuildAdvances ==
  [][\/ (Monitor \/ MonitorCrashes) /\ UNCHANGED <<stage, pc, stopping>>
     \/ ladder' > ladder
     \/ ladder' = ladder /\ plan' > plan
     \/ UNCHANGED stage /\ Place(pc') > Place(pc)
     \/ /\ UNCHANGED <<stage, pc>>
        /\ \/ ScriptPlace(script') > ScriptPlace(script)
           \/ UNCHANGED script /\ waited' = waited + 1]_vars

(* The build comes to its end, whatever the monitor does: the wait is bounded. *)
BuildEnds == <>(pc = "ended")
=============================================================================
