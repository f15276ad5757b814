-------------------------- MODULE HostToolsProofs --------------------------
(***************************************************************************)
(* The host's tools.                                                       *)
(*                                                                         *)
(* LifecycleBudget, for every total, every set of caps and both modes:     *)
(* FullWindows.  RunMonitor: PassWithinLimits.                             *)
(*                                                                         *)
(* VmControl, for every number of polls: one authorisation starts the      *)
(* machine at most once and executes in it at most once (OneRun); what     *)
(* main and the recovery report of the machine is so (ResultIsTrue); and a *)
(* recovery ends with the machine seen off or after a forced stop that had *)
(* its full time (RecoveryForces).                                         *)
(*                                                                         *)
(* Clarification, for every number of commits upstream and with either     *)
(* screen: evidence that validates agrees with GitHub (EvidenceTruth), and *)
(* there is at most one public write.  LicenseReview, for every list of    *)
(* commits, every assignment of packages, files, expressions and texts:    *)
(* PublishedIsAdmitted and PassIsComplete.                                 *)
(***************************************************************************)
EXTENDS LifecycleBudget, RunMonitor, VmControl, Clarification, LicenseReview, TLAPS

(***************************************************************************)
(* The budget.  FullWindows says what a stage is given; that the stage     *)
(* after it is given as much depends on how far from the absolute deadline *)
(* it was given it.  Fitted adds that: each deadline leaves the tail of    *)
(* the stage free.                                                         *)
(***************************************************************************)
Fitted ==
    /\ stage \in {"init", "start", "readiness", "active", "guestClean", "stop",
                  "hostClean", "persist", "output", "done"}
    /\ since \in Int
    /\ until \in Int
    /\ stage = "init" => until = since + caps["init"] /\ until <= Absolute - TailInit
    /\ stage = "start" => until = since + caps["start"] /\ until <= Absolute - TailStart
    /\ stage = "readiness" => until = since + caps["readiness"] /\ until <= Absolute - TailReadiness
    /\ stage = "active" => until = since + caps["active"] /\ until <= Absolute - TailActive
    /\ stage = "guestClean" => until = since + caps["shutdown"] /\ until <= Absolute - TailShutdown
    /\ stage = "stop" => until + Reserve >= since + caps["shutdown"] /\ until <= Absolute - TailShutdown
    /\ stage = "hostClean" =>
          /\ until <= Absolute - TailShutdown
          /\ since <= IF Mode = "init" THEN until - Reserve ELSE until + caps["reap"]
    /\ stage = "persist" => until = since + caps["persist"] /\ until <= Absolute - TailPersist
    /\ stage = "output" => until = since + caps["output"] /\ until <= Absolute
    /\ stage = "done" => since <= Absolute

\* The caps are natural numbers, and so are the sums of them.
LEMMA CapsAreNumbers ==
    /\ caps["init"] \in Nat /\ caps["start"] \in Nat /\ caps["readiness"] \in Nat
    /\ caps["active"] \in Nat /\ caps["watchdog_cleanup"] \in Nat
    /\ caps["watchdog_report"] \in Nat /\ caps["shutdown"] \in Nat
    /\ caps["persist"] \in Nat /\ caps["output"] \in Nat /\ caps["reap"] \in Nat
    /\ Reserve \in Nat /\ Absolute \in Int
BY BudgetAssumption DEF Caps, Absolute

\* The differences between the tails: what each stage takes out of the one
\* around it.
LEMMA Tails ==
    /\ TailPersist \in Int /\ TailShutdown \in Int /\ TailActive \in Int
    /\ TailReadiness \in Int /\ TailStart \in Int /\ TailInit \in Int
    /\ TailShutdown = TailPersist + caps["persist"] + caps["reap"]
    /\ TailActive = TailShutdown + caps["shutdown"] + caps["watchdog_cleanup"]
                    + caps["watchdog_report"] + 3 * caps["reap"]
    /\ TailReadiness = TailActive + caps["active"] + caps["reap"]
    /\ TailStart = TailReadiness + caps["readiness"] + caps["reap"]
    /\ TailInit = TailStart + caps["start"] + caps["reap"]
    /\ TailPersist = caps["output"] + caps["reap"]
    /\ caps["init"] + TailInit <= Absolute
BY CapsAreNumbers, BudgetAssumption
   DEF TailPersist, TailShutdown, TailActive, TailReadiness, TailStart, TailInit, Worst, Absolute

\* The earlier of two instants, when the second is not the later one.
LEMMA EarlierSecond ==
    ASSUME NEW a \in Int, NEW b \in Int, b <= a
    PROVE  Earlier(a, b) = b
BY DEF Earlier

\* A deadline is the full cap when the tail leaves room for it.
LEMMA FullDeadline ==
    ASSUME NEW cap \in Int, NEW tail \in Int, NEW t \in Int, t + cap <= Absolute - tail
    PROVE  Deadline(cap, tail, t) = t + cap
BY DEF Deadline, Earlier

\* A stop that begins early enough gets all of its window.
LEMMA UnwoundFits ==
    ASSUME NEW t \in Int, t + caps["shutdown"] <= Absolute - TailShutdown, Unwound(t)
    PROVE  Fitted'
<1>1. Deadline(caps["shutdown"], TailShutdown, t) = t + caps["shutdown"]
  <2> caps["shutdown"] \in Int /\ TailShutdown \in Int
    BY CapsAreNumbers, Tails
  <2> QED BY FullDeadline
<1>2. stage' = "guestClean" /\ since' = t /\ until' = t + caps["shutdown"]
  BY <1>1, Zenon DEF Unwound, Enter
<1> QED BY <1>2, CapsAreNumbers, Tails DEF Fitted

\* The first stage fits because the total covers the worst case.
LEMMA InitFitted == Init => Fitted
<1> SUFFICES ASSUME Init PROVE Fitted OBVIOUS
<1>1. Deadline(caps["init"], TailInit, 0) = 0 + caps["init"]
  <2> caps["init"] \in Int /\ TailInit \in Int /\ 0 + caps["init"] <= Absolute - TailInit
    BY CapsAreNumbers, Tails
  <2> QED BY FullDeadline
<1>2. until = 0 + caps["init"]
  BY <1>1, Zenon DEF Init
<1> QED BY <1>2, CapsAreNumbers, Tails DEF Init, Fitted

\* Every step leaves room for the stage it enters.
LEMMA NextFitted == Fitted /\ [Next]_vars => Fitted'
<1> SUFFICES ASSUME Fitted, [Next]_vars PROVE Fitted' OBVIOUS
<1> USE CapsAreNumbers, Tails
<1>1. CASE InitEnds
  <2>1. PICK t \in since..until :
           Enter("start", t, Deadline(caps["start"], TailStart, t)) \/ Unwound(t)
    BY <1>1 DEF InitEnds
  <2>2. t \in Int /\ t <= Absolute - TailInit
    BY <1>1, <2>1 DEF InitEnds, Fitted
  <2>3. CASE Enter("start", t, Deadline(caps["start"], TailStart, t))
    <3>1. Deadline(caps["start"], TailStart, t) = t + caps["start"]
      <4> caps["start"] \in Int /\ TailStart \in Int /\ t + caps["start"] <= Absolute - TailStart
        BY <2>2
      <4> QED BY <2>2, FullDeadline
    <3>2. stage' = "start" /\ since' = t /\ until' = t + caps["start"]
      BY <2>3, <3>1, Zenon DEF Enter
    <3> QED BY <3>2, <2>2 DEF Fitted
  <2>4. CASE Unwound(t)
    BY <2>2, <2>4, UnwoundFits
  <2> QED BY <2>1, <2>3, <2>4
<1>2. CASE StartEnds
  <2>1. PICK t \in since..(until + caps["reap"]) :
           Enter("readiness", t, Deadline(caps["readiness"], TailReadiness, t)) \/ Unwound(t)
    BY <1>2 DEF StartEnds
  <2>2. t \in Int /\ t <= Absolute - TailStart + caps["reap"]
    BY <1>2, <2>1 DEF StartEnds, Fitted
  <2>3. CASE Enter("readiness", t, Deadline(caps["readiness"], TailReadiness, t))
    <3>1. Deadline(caps["readiness"], TailReadiness, t) = t + caps["readiness"]
      <4> caps["readiness"] \in Int /\ TailReadiness \in Int /\ t + caps["readiness"] <= Absolute - TailReadiness
        BY <2>2
      <4> QED BY <2>2, FullDeadline
    <3>2. stage' = "readiness" /\ since' = t /\ until' = t + caps["readiness"]
      BY <2>3, <3>1, Zenon DEF Enter
    <3> QED BY <3>2, <2>2 DEF Fitted
  <2>4. CASE Unwound(t)
    BY <2>2, <2>4, UnwoundFits
  <2> QED BY <2>1, <2>3, <2>4
<1>3. CASE ReadinessEnds
  <2>1. PICK t \in since..(until + caps["reap"]) :
           Enter("active", t, Deadline(caps["active"], TailActive, t)) \/ Unwound(t)
    BY <1>3 DEF ReadinessEnds
  <2>2. t \in Int /\ t <= Absolute - TailReadiness + caps["reap"]
    BY <1>3, <2>1 DEF ReadinessEnds, Fitted
  <2>3. CASE Enter("active", t, Deadline(caps["active"], TailActive, t))
    <3>1. Deadline(caps["active"], TailActive, t) = t + caps["active"]
      <4> caps["active"] \in Int /\ TailActive \in Int /\ t + caps["active"] <= Absolute - TailActive
        BY <2>2
      <4> QED BY <2>2, FullDeadline
    <3>2. stage' = "active" /\ since' = t /\ until' = t + caps["active"]
      BY <2>3, <3>1, Zenon DEF Enter
    <3> QED BY <3>2, <2>2 DEF Fitted
  <2>4. CASE Unwound(t)
    BY <2>2, <2>4, UnwoundFits
  <2> QED BY <2>1, <2>3, <2>4
<1>4. CASE ActiveEnds
  <2>1. PICK t \in since..(HostUntil + 2 * caps["reap"]) : Unwound(t)
    BY <1>4 DEF ActiveEnds
  <2>2. HostUntil \in Int /\ HostUntil <= Absolute - TailShutdown - caps["shutdown"] - 2 * caps["reap"]
    BY DEF HostUntil, Earlier, Fitted
  <2>3. t \in Int /\ t + caps["shutdown"] <= Absolute - TailShutdown
    BY <2>1, <2>2 DEF Fitted
  <2> QED BY <2>1, <2>3, UnwoundFits
<1>5. CASE GuestCleanEnds
  <2>1. PICK t \in since..Earlier(since + Reserve, until - 2 * Reserve) : Enter("stop", t, until)
    BY <1>5 DEF GuestCleanEnds
  <2>2. t \in Int /\ t <= since + Reserve
    BY <2>1 DEF Earlier, Fitted
  <2> QED BY <1>5, <2>1, <2>2 DEF GuestCleanEnds, Enter, Fitted
<1>6. CASE StopEnds
  <2>1. PICK t \in since..Later(since, StopUntil + caps["reap"]) : Enter("hostClean", t, until)
    BY <1>6 DEF StopEnds
  <2>2. since + 3 * Reserve <= until
    BY <1>6, BudgetAssumption DEF StopEnds, Fitted
  <2>3. t \in Int /\ t <= IF Mode = "init" THEN until - Reserve ELSE until + caps["reap"]
    BY <2>1, <2>2, BudgetAssumption DEF Later, StopUntil, Fitted
  <2> QED BY <1>6, <2>1, <2>3 DEF StopEnds, Enter, Fitted
<1>7. CASE HostCleanEnds
  <2>1. PICK t \in since..(IF Mode = "init" THEN Later(since, until) ELSE since) :
           Enter("persist", t, Deadline(caps["persist"], TailPersist, t))
    BY <1>7 DEF HostCleanEnds
  <2>2. t \in Int /\ t <= Absolute - TailShutdown + caps["reap"]
    BY <1>7, <2>1 DEF HostCleanEnds, Later, Fitted
  <2>3. Deadline(caps["persist"], TailPersist, t) = t + caps["persist"]
    <3> caps["persist"] \in Int /\ TailPersist \in Int /\ t + caps["persist"] <= Absolute - TailPersist
      BY <2>2
    <3> QED BY <2>2, FullDeadline
  <2>4. stage' = "persist" /\ since' = t /\ until' = t + caps["persist"]
    BY <2>1, <2>3, Zenon DEF Enter
  <2> QED BY <2>2, <2>4 DEF Fitted
<1>8. CASE PersistEnds
  <2>1. PICK t \in since..(until + caps["reap"]) :
           Enter("output", t, Earlier(Absolute, t + caps["output"]))
    BY <1>8 DEF PersistEnds
  <2>2. t \in Int /\ t + caps["output"] <= Absolute
    BY <1>8, <2>1 DEF PersistEnds, Fitted
  <2>3. Earlier(Absolute, t + caps["output"]) = t + caps["output"]
    <3> Absolute \in Int /\ t + caps["output"] \in Int
      BY <2>2
    <3> QED BY <2>2, EarlierSecond
  <2>4. stage' = "output" /\ since' = t /\ until' = t + caps["output"]
    BY <2>1, <2>3, Zenon DEF Enter
  <2> QED BY <2>2, <2>4 DEF Fitted
<1>9. CASE OutputEnds
  BY <1>9 DEF OutputEnds, Enter, Fitted
<1>10. CASE UNCHANGED vars
  BY <1>10 DEF vars, Fitted
<1> QED BY <1>1, <1>2, <1>3, <1>4, <1>5, <1>6, <1>7, <1>8, <1>9, <1>10 DEF Next

\* What fits has its full window.
LEMMA FittedIsFull == Fitted => FullWindows
<1> SUFFICES ASSUME Fitted PROVE FullWindows OBVIOUS
<1> USE CapsAreNumbers, Tails
<1>1. stage = "active" =>
        HostUntil = until + caps["watchdog_cleanup"] + caps["reap"] + caps["watchdog_report"]
  <2> SUFFICES ASSUME stage = "active"
               PROVE  HostUntil = until + caps["watchdog_cleanup"] + caps["reap"] + caps["watchdog_report"]
    OBVIOUS
  <2> DEFINE mine == until + caps["watchdog_cleanup"] + caps["reap"] + caps["watchdog_report"]
             last == Absolute - TailShutdown - caps["shutdown"] - 2 * caps["reap"]
  <2>1. mine \in Int /\ last \in Int /\ mine <= last
    BY DEF Fitted
  <2>2. HostUntil = Earlier(last, mine)
    BY Zenon DEF HostUntil
  <2>3. Earlier(last, mine) = mine
    <3> HIDE DEF mine, last
    <3> QED BY <2>1, EarlierSecond
  <2> QED BY <2>2, <2>3
<1>2. stage = "stop" =>
        StopUntil >= since + caps["shutdown"] - (IF Mode = "init" THEN 2 * Reserve + caps["reap"] ELSE 0)
  BY BudgetAssumption DEF Fitted, StopUntil
<1>3. stage \in {"init", "start", "readiness", "active", "persist", "output"} =>
        until = since + caps[stage]
  BY DEF Fitted
<1> QED BY <1>1, <1>2, <1>3 DEF Fitted, FullWindows

\* For every budget the constructor accepts, no stage of the lifecycle is
\* ever short of time and the result is out before the absolute deadline.
THEOREM BudgetsSuffice == Spec => []FullWindows
<1>1. Init => Fitted
  BY InitFitted
<1>2. Fitted /\ [Next]_vars => Fitted'
  BY NextFitted
<1>3. Fitted => FullWindows
  BY FittedIsFull
<1> QED BY <1>1, <1>2, <1>3, PTL DEF Spec

----------------------------------------------------------------------------
(***************************************************************************)
(* The monitor.  PassWithinLimits speaks of a run that has passed; what it *)
(* rests on is how a monitor can be gone: it was asked to stop and had     *)
(* measured nothing against the run, or it has signalled the runner, which *)
(* then fails or dies.                                                     *)
(***************************************************************************)
Halted ==
    /\ asked => runner \notin {"work", "cleanup"}
    /\ monitor = "last" => asked /\ ~seen
    /\ monitor \in {"measure", "snapshot", "trigger", "last", "error"} => trigger = "none"
    /\ monitor = "gone" => /\ runner # "work"
                           /\ runner = "killed" \/ ~ok \/ (~seen /\ trigger = "none")
    /\ runner \in {"passed", "stopped"} => monitor = "gone"
    /\ runner = "passed" => ok

LEMMA InitHalted == MonitorInit => Halted
BY DEF MonitorInit, Halted

\* A monitor that measures and writes, without ending.
LEMMA MonitorHalted ==
  ASSUME Halted, Measure \/ WriteSnapshot \/ WriteTrigger \/ WriteLast \/ RecordError
  PROVE  Halted'
<1>1. CASE Measure
  <2>1. monitor' = "last" => asked /\ ~seen'
    BY <1>1, Zenon DEF Measure
  <2>q. QED BY <1>1, <2>1 DEF Measure, Halted
<1>2. CASE WriteSnapshot  BY <1>2 DEF WriteSnapshot, Halted
<1>3. CASE WriteTrigger  BY <1>3 DEF WriteTrigger, Halted
<1>4. CASE WriteLast  BY <1>4 DEF WriteLast, Halted
<1>5. CASE RecordError  BY <1>5 DEF RecordError, Halted
<1>q. QED BY <1>1, <1>2, <1>3, <1>4, <1>5

\* SIGTERM fails a run that is at work and kills one that is cleaning up.
LEMMA SignalHalted ==
  ASSUME Halted, SignalRunner
  PROVE  Halted'
<1>0. monitor = "signal" /\ monitor' = "gone" /\ UNCHANGED <<asked, seen, trigger>>  BY DEF SignalRunner
<1>1. runner \notin {"passed", "stopped"}  BY <1>0 DEF Halted
<1>2. CASE runner = "work"
  <2>1. runner' = "cleanup"  BY <1>2 DEF SignalRunner, Ended
  <2>2. ~ok'  BY <1>2, Zenon DEF SignalRunner
  <2>q. QED BY <1>0, <1>2, <2>1, <2>2 DEF Halted
<1>3. CASE runner # "work"
  <2>1. runner' = "killed"  BY <1>1, <1>3 DEF SignalRunner, Ended
  <2>q. QED BY <1>0, <2>1 DEF Halted
<1>q. QED BY <1>2, <1>3

\* The runner reads what the monitor left only once it is gone.
LEMMA RunnerHalted ==
  ASSUME Halted, LimitReached \/ WorkEnds \/ StopMonitor \/ Finish \/ UNCHANGED monitorVars
  PROVE  Halted'
<1>1. CASE LimitReached  BY <1>1 DEF LimitReached, Halted
<1>2. CASE WorkEnds  BY <1>2 DEF WorkEnds, Halted
<1>3. CASE StopMonitor  BY <1>3 DEF StopMonitor, Halted
<1>4. CASE Finish  BY <1>4 DEF Finish, MonitorStopped, Halted
<1>5. CASE UNCHANGED monitorVars  BY <1>5 DEF monitorVars, Halted
<1>q. QED BY <1>1, <1>2, <1>3, <1>4, <1>5

\* Whichever writes of the monitor fail and whenever a limit is reached, a run
\* whose manifest says PASS was within its limits at every measurement, and no
\* trigger file contradicts it.
THEOREM PassesAreWithinLimits == MonitorSpec => []PassWithinLimits
<1>1. Halted /\ [MonitorNext]_monitorVars => Halted'
  BY MonitorHalted, SignalHalted, RunnerHalted DEF MonitorNext, Monitor, Cleanup
<1>2. Halted => PassWithinLimits  BY DEF Halted, PassWithinLimits
<1>q. QED BY InitHalted, <1>1, <1>2, PTL DEF MonitorSpec

----------------------------------------------------------------------------
(***************************************************************************)
(* The UTM control.  One authorisation is one start: who has claimed it,   *)
(* and the direction in which its owner goes through the places.           *)
(***************************************************************************)
Places ==
    {"unclaimed", "baseline", "start", "started?", "boot", "details", "grace", "poll", "forced", "list",
     "config", "reported", "dead"}

RunType ==
    [at : Places, errors : BOOLEAN, started : BOOLEAN, forced : BOOLEAN, verified : BOOLEAN,
     stopped : BOOLEAN, same : BOOLEAN, elapsed : Nat, polls : Nat, passed : BOOLEAN]

MachineType == [on : BOOLEAN, booting : BOOLEAN, stopping : BOOLEAN, starts : Nat,
                 ran : [Cases -> Nat]]

CollectorType ==
    [at : {"idle", "begin", "waiting", "verified", "failed", "killed"},
     adapter : {"none", "sent", "executed", "refused", "killed"},
     case : Cases]

Types ==
    /\ attempt \in BOOLEAN
    /\ run \in RunType
    /\ machine \in MachineType
    /\ collector \in [Collectors -> CollectorType]
    /\ collector["child"].case = "details"

\* attempt.json is what stands between two claims: without it nobody is past
\* the claim, and nothing is started before the place where main starts it.
Claimed ==
    /\ ~attempt => run.at = "unclaimed"
    /\ run.at \in {"unclaimed", "baseline", "start"} => machine.starts = 0
    /\ machine.starts <= 1

\* The evidence directory of a case is what stands between two executions of
\* it: without it no adapter of that case was sent, and of those sent at most
\* one has not yet executed, and then none has before.
Directed ==
    /\ \A k \in Cases : k \notin gathered => machine.ran[k] = 0
    /\ \A c \in Collectors :
          collector[c].adapter = "sent" => collector[c].case \in gathered /\ machine.ran[collector[c].case] = 0
    /\ \A c \in Collectors : collector[c].at = "idle" => collector[c].adapter = "none"
    /\ \A c, d \in Collectors :
          /\ collector[c].adapter = "sent" /\ collector[d].adapter = "sent"
          /\ collector[c].case = collector[d].case
          => c = d
    /\ \A k \in Cases : machine.ran[k] <= 1

IInv == Types /\ Claimed /\ Directed

\* The smaller of two numbers, as main and the recovery clip their waits.
LEMMA MinPair ==
  ASSUME NEW a \in Nat, NEW b \in Nat
  PROVE  /\ Min({a, b}) \in Nat
         /\ Min({a, b}) = IF a <= b THEN a ELSE b
<1>1. \E x \in {a, b} : \A y \in {a, b} : x <= y  OBVIOUS
<1>2. Min({a, b}) \in {a, b} /\ \A y \in {a, b} : Min({a, b}) <= y  BY <1>1 DEF Min
<1>q. QED BY <1>2

\* Before read_operation nothing is claimed and nothing runs.
LEMMA InitIInv == VmInit => IInv
<1> SUFFICES ASSUME VmInit  PROVE IInv  OBVIOUS
<1>1. run \in RunType /\ run.at = "unclaimed"  BY DEF VmInit, Unclaimed, RunType, Places
<1>2. machine \in MachineType /\ machine.starts = 0 /\ \A k \in Cases : machine.ran[k] = 0
  BY DEF VmInit, MachineType
<1>3. /\ collector \in [Collectors -> CollectorType] /\ collector["child"].case = "details"
      /\ \A c \in Collectors : collector[c].adapter = "none"
  BY DEF VmInit, CollectorType, Cases, Collectors
<1>4. attempt = FALSE  BY DEF VmInit
<1>5. Types  BY <1>1, <1>2, <1>3, <1>4, Zenon DEF Types
<1>6. Claimed  BY <1>1, <1>2 DEF Claimed
<1>7. Directed  BY <1>2, <1>3 DEF Directed
<1>q. QED BY <1>5, <1>6, <1>7 DEF IInv

\* A step that touches neither the claim, nor a start, nor a collector.
LEMMA Kept ==
  ASSUME IInv, run' \in RunType, machine' \in MachineType,
         UNCHANGED <<attempt, gathered, collector>>,
         machine'.starts = machine.starts, machine'.ran = machine.ran,
         run'.at \in {"unclaimed", "baseline", "start"} => run'.at = run.at \/ (run.at = "baseline" /\ attempt),
         run.at # "unclaimed" \/ run' = run
  PROVE  IInv'
BY DEF IInv, Types, Claimed, Directed

\* An exception in main's try block leads to the shutdown or to the report.
LEMMA FailedType ==
  ASSUME NEW r \in RunType
  PROVE  Failed(r) \in RunType /\ Failed(r).at \in {"grace", "config"}
<1>1. r.started \in BOOLEAN  BY DEF RunType
<1>2. CASE r.started = TRUE  BY <1>2 DEF Failed, RunType, Places
<1>3. CASE r.started = FALSE  BY <1>3 DEF Failed, RunType, Places
<1>q. QED BY <1>1, <1>2, <1>3

\* The steps of main that change only its own place and flags.
LEMMA MainSteps ==
  ASSUME IInv,
         Baseline \/ StatusAfterStart \/ Verify \/ ListAfter \/ Report \/ ControllerDies
           \/ StatusAfterForce \/ ShutdownStatus
  PROVE  IInv'
<1> USE DEF IInv, Types
<1>a. run \in RunType /\ machine \in MachineType  OBVIOUS
<1>0. attempt \/ run.at = "unclaimed"  BY DEF Claimed
<1>1. CASE Baseline
  <2>1. PICK reading \in Reading, listed \in BOOLEAN :
          LET read == [run EXCEPT !.stopped = reading = "stopped"]
          IN  run' = IF listed /\ reading = "stopped" THEN [read EXCEPT !.at = "start"] ELSE Failed(read)
    BY <1>1 DEF Baseline
  <2>2. [run EXCEPT !.stopped = reading = "stopped"] \in RunType  BY <1>a DEF RunType
  <2>3. run' \in RunType /\ run'.at \in {"start", "grace", "config"}
    <3>1. ASSUME NEW q \in RunType
          PROVE  [q EXCEPT !.at = "start"] \in RunType /\ [q EXCEPT !.at = "start"].at = "start"
      BY DEF RunType, Places
    <3>q. QED BY <2>1, <2>2, <3>1, FailedType, Zenon
  <2>4. run.at = "baseline" /\ UNCHANGED <<attempt, gathered, collector, machine>>  BY <1>1 DEF Baseline, Keep
  <2>q. QED BY <1>0, <1>a, <2>3, <2>4, Kept
<1>2. CASE StatusAfterStart
  BY <1>0, <1>2, <1>a, Kept DEF StatusAfterStart, Failed, Keep, RunType, Places
<1>3. CASE Verify
  BY <1>0, <1>3, <1>a, Kept DEF Verify, Failed, Keep, RunType, Places
<1>4. CASE ListAfter
  BY <1>0, <1>4, <1>a, Kept DEF ListAfter, Keep, RunType, Places, MachineType
<1>5. CASE Report
  BY <1>0, <1>5, <1>a, Kept DEF Report, Passes, Keep, RunType, Places
<1>6. CASE ControllerDies
  BY <1>0, <1>6, <1>a, Kept DEF ControllerDies, Unclaimed, Keep, RunType, Places
<1>7. CASE StatusAfterForce
  BY <1>0, <1>7, <1>a, Kept DEF StatusAfterForce, Keep, RunType, Places
<1>8. CASE ShutdownStatus
  <2>1. PICK reading \in Reading, took \in {0, 15} :
          LET polled == [run EXCEPT !.polls = @ + 1, !.errors = @ \/ reading = "none"]
          IN  run' = IF reading = "stopped" THEN [polled EXCEPT !.stopped = TRUE, !.elapsed = 0, !.polls = 0, !.at = "list"]
                     ELSE [polled EXCEPT !.elapsed = PollEnds(took)]
    BY <1>8 DEF ShutdownStatus
  <2>2. run.elapsed + took + 30 \in Nat  BY <1>a, <2>1 DEF RunType
  <2>3. PollEnds(took) \in Nat  BY <2>2, MinPair DEF PollEnds
  <2>4. run' \in RunType /\ run'.at \in {"poll", "list"}
    <3>1. run.at = "poll"  BY <1>8 DEF ShutdownStatus
    <3>2. CASE reading = "stopped"  BY <1>a, <2>1, <3>2 DEF RunType, Places
    <3>3. CASE reading # "stopped"  
      <4>1. (run.errors \/ reading = "none") \in BOOLEAN  BY <1>a, Zenon DEF RunType
      <4>2. run' = [run EXCEPT !.polls = run.polls + 1, !.errors = (run.errors \/ reading = "none"), !.elapsed = PollEnds(took)]
        BY <2>1, <3>3
      <4>3. ASSUME NEW errors \in BOOLEAN, NEW elapsed \in Nat, NEW polls \in Nat
            PROVE  LET q == [run EXCEPT !.polls = polls, !.errors = errors, !.elapsed = elapsed]
                   IN  q \in RunType /\ q.at = "poll"
        BY <1>a, <3>1 DEF RunType
      <4>4. run.polls + 1 \in Nat  BY <1>a DEF RunType
      <4>q. QED BY <2>3, <4>1, <4>2, <4>3, <4>4, Zenon
    <3>q. QED BY <3>2, <3>3
  <2>5. run.at = "poll" /\ UNCHANGED <<attempt, gathered, collector, machine>>  BY <1>8 DEF ShutdownStatus, Keep
  <2>q. QED BY <1>a, <2>4, <2>5, Kept
<1>q. QED BY <1>1, <1>2, <1>3, <1>4, <1>5, <1>6, <1>7, <1>8

\* UTM acting by itself, and the requests to stop it: no start, no execution.
LEMMA MachineSteps ==
  ASSUME IInv, MachineBoots \/ MachineStops \/ ShutdownRequest \/ ShutdownForce
  PROVE  IInv'
<1> USE DEF IInv, Types
<1>a. run \in RunType /\ machine \in MachineType  OBVIOUS
<1>1. CASE MachineBoots  BY <1>1, <1>a, Kept DEF MachineBoots, MachineType
<1>2. CASE MachineStops  BY <1>2, <1>a, Kept DEF MachineStops, MachineType
<1>b. ASSUME NEW force \in BOOLEAN, machine' \in AfterStop(force)
      PROVE  machine' \in MachineType /\ machine'.starts = machine.starts /\ machine'.ran = machine.ran
  BY <1>a, <1>b DEF AfterStop, MachineType
<1>3. CASE ShutdownRequest
  <2>1. run' \in RunType /\ run'.at = "poll"  BY <1>3, <1>a DEF ShutdownRequest, RunType, Places
  <2>2. machine' \in AfterStop(FALSE) /\ run.at = "grace" /\ UNCHANGED <<attempt, gathered, collector>>
    BY <1>3 DEF ShutdownRequest, Keep
  <2>q. QED BY <1>a, <1>b, <2>1, <2>2, Kept
<1>4. CASE ShutdownForce
  <2>0. PICK answered \in BOOLEAN :
          run' = [run EXCEPT !.forced = TRUE, !.errors = @ \/ ~answered, !.elapsed = 0, !.polls = 0, !.at = "forced"]
    BY <1>4 DEF ShutdownForce
  <2>a. (run.errors \/ ~answered) \in BOOLEAN  BY Zenon
  <2>1. run' \in RunType /\ run'.at = "forced"  BY <1>a, <2>0, <2>a DEF RunType, Places
  <2>2. machine' \in AfterStop(TRUE) /\ run.at = "poll" /\ UNCHANGED <<attempt, gathered, collector>>
    BY <1>4 DEF ShutdownForce, Keep
  <2>q. QED BY <1>a, <1>b, <2>1, <2>2, Kept
<1>q. QED BY <1>1, <1>2, <1>3, <1>4

\* The recovery touches nothing but the machine's power.
LEMMA RecoverySteps ==
  ASSUME IInv, Recovering
  PROVE  IInv'
<1> USE DEF IInv, Types
<1>a. run \in RunType /\ machine \in MachineType  OBVIOUS
<1>1. CASE RecoveryBegins  BY <1>1, <1>a, Kept DEF RecoveryBegins, RecoveryKeep
<1>2. CASE Observe  BY <1>2, <1>a, Kept DEF Observe, RecoveryKeep
<1>3. CASE RecoveryRequest  BY <1>3, <1>a, Kept DEF RecoveryRequest, RecoveryKeep, AfterStop, MachineType
<1>4. CASE RecoveryForce  BY <1>4, <1>a, Kept DEF RecoveryForce, RecoveryKeep, AfterStop, MachineType
<1>5. CASE RecoveryGivesUp  BY <1>5, <1>a, Kept DEF RecoveryGivesUp, RecoveryKeep
<1>q. QED BY <1>1, <1>2, <1>3, <1>4, <1>5 DEF Recovering

\* attempt.json is created exclusively, and main passes its start once.
LEMMA ClaimSteps ==
  ASSUME IInv, (\E c \in Controllers : Look(c) \/ Claim(c)) \/ Start
  PROVE  IInv'
<1> USE DEF IInv, Types
<1>a. run \in RunType /\ machine \in MachineType  OBVIOUS
<1>1. CASE \E c \in Controllers : Look(c)  BY <1>1, <1>a, Kept DEF Look
<1>2. CASE \E c \in Controllers : Claim(c)
  BY <1>2, <1>a DEF Claim, Claimed, Directed, RunType, Places
<1>3. CASE Start
  <2>0. PICK effect \in {"now", "later", "never"}, answered \in BOOLEAN :
          LET tried == [run EXCEPT !.started = TRUE]
          IN  /\ machine' = Started(effect)
              /\ run' = IF answered THEN [tried EXCEPT !.at = "started?"] ELSE Failed(tried)
    BY <1>3 DEF Start
  <2>a. [run EXCEPT !.started = TRUE] \in RunType  BY <1>a DEF RunType
  <2>1. run' \in RunType /\ run'.at \notin {"unclaimed", "baseline", "start"}
    BY <2>0, <2>a, FailedType DEF RunType, Places
  <2>b. run.at = "start"  BY <1>3 DEF Start
  <2>c. (effect = "now") \in BOOLEAN /\ (effect = "later") \in BOOLEAN  BY Zenon
  <2>2. machine' \in MachineType /\ machine'.starts = 1 /\ machine'.ran = machine.ran
    <3>1. machine.starts = 0  BY <2>b DEF Claimed
    <3>2. machine' = [machine EXCEPT !.starts = 1, !.on = (effect = "now"), !.booting = (effect = "later")]
      BY <2>0, <3>1 DEF Started
    <3>3. ASSUME NEW on \in BOOLEAN, NEW booting \in BOOLEAN
          PROVE  LET m == [machine EXCEPT !.starts = 1, !.on = on, !.booting = booting]
                 IN  m \in MachineType /\ m.starts = 1 /\ m.ran = machine.ran
      BY <1>a DEF MachineType
    <3>q. QED BY <2>c, <3>2, <3>3, Zenon
  <2>3. attempt /\ attempt'  BY <1>3 DEF Start, Keep, Claimed
  <2>q. QED BY <1>3, <2>1, <2>2, <2>3 DEF Start, Keep, Claimed, Directed
<1>q. QED BY <1>1, <1>2, <1>3

\* The evidence directory is created exclusively, before the adapter is sent.
LEMMA BeginSteps ==
  ASSUME IInv, NEW c \in Collectors, CollectorBegins(c)
  PROVE  IInv'
<1> USE DEF IInv, Types
<1>a. /\ run \in RunType /\ machine \in MachineType /\ collector \in [Collectors -> CollectorType]
      /\ collector["child"].case = "details" /\ "child" \in Collectors /\ collector[c].case \in Cases
  BY DEF Collectors, CollectorType
<1>b. UNCHANGED <<attempt, run, machine>>  BY DEF CollectorBegins
<1>1. CASE /\ collector[c].case \notin gathered /\ gathered' = gathered \cup {collector[c].case}
           /\ collector' = [collector EXCEPT ![c].at = "waiting", ![c].adapter = "sent"]
  <2>1. /\ collector' \in [Collectors -> CollectorType]
        /\ \A d \in Collectors : collector'[d].case = collector[d].case
        /\ \A d \in Collectors : d # c => collector'[d].adapter = collector[d].adapter
        /\ \A d \in Collectors : collector'[d].at = "idle" => collector[d].at = "idle" /\ d # c
    BY <1>a, <1>1 DEF CollectorType
  <2>2. \A d \in Collectors : collector[d].adapter = "sent" => collector[d].case # collector[c].case
    BY <1>1 DEF Directed
  <2>3. machine.ran[collector[c].case] = 0  BY <1>a, <1>1 DEF Directed
  <2>4. Types'  BY <1>a, <1>b, <2>1, Zenon DEF Types
  <2>5. Claimed'  BY <1>b DEF Claimed
  <2>6. Directed'  BY <1>1, <1>b, <2>1, <2>2, <2>3 DEF Directed
  <2>q. QED BY <2>4, <2>5, <2>6
<1>2. CASE collector' = [collector EXCEPT ![c].at = "failed"] /\ UNCHANGED gathered
  <2>1. /\ collector' \in [Collectors -> CollectorType]
        /\ \A d \in Collectors : collector'[d].case = collector[d].case /\ collector'[d].adapter = collector[d].adapter
        /\ \A d \in Collectors : collector'[d].at = "idle" => collector[d].at = "idle"
    BY <1>a, <1>2 DEF CollectorType
  <2>4. Types'  BY <1>a, <1>b, <2>1, Zenon DEF Types
  <2>5. Claimed'  BY <1>b DEF Claimed
  <2>6. Directed'  BY <1>2, <1>b, <2>1 DEF Directed
  <2>q. QED BY <2>4, <2>5, <2>6
<1>q. QED BY <1>1, <1>2 DEF CollectorBegins, MayCollect

\* An adapter executes its own case, and is then no longer sent.
LEMMA ExecuteSteps ==
  ASSUME IInv, NEW c \in Collectors, AdapterExecutes(c)
  PROVE  IInv'
<1> USE DEF IInv, Types
<1>a. /\ run \in RunType /\ machine \in MachineType /\ collector \in [Collectors -> CollectorType]
      /\ collector["child"].case = "details" /\ "child" \in Collectors /\ machine.ran \in [Cases -> Nat]
  BY DEF Collectors, MachineType
<1>b. UNCHANGED <<attempt, run, gathered>>  BY DEF AdapterExecutes
<1>k. PICK k \in Cases : k = collector[c].case  BY <1>a DEF CollectorType
<1>0. collector[c].adapter = "sent" /\ k \in gathered /\ machine.ran[k] = 0
  BY <1>k DEF AdapterExecutes, Directed
<1>1. /\ machine' \in MachineType /\ machine'.starts = machine.starts
      /\ machine'.ran[k] <= 1 /\ \A l \in Cases : l # k => machine'.ran[l] = machine.ran[l]
  BY <1>a, <1>k, <1>0 DEF AdapterExecutes, MachineType
<1>2. /\ collector' \in [Collectors -> CollectorType] /\ collector'[c].adapter # "sent"
      /\ \A d \in Collectors : collector'[d].case = collector[d].case
      /\ \A d \in Collectors : d # c => collector'[d].adapter = collector[d].adapter
      /\ \A d \in Collectors : collector'[d].at = collector[d].at
  BY <1>a DEF AdapterExecutes, CollectorType
<1>3. \A d \in Collectors : collector'[d].adapter = "sent" => collector[d].adapter = "sent" /\ collector[d].case # k
  BY <1>k, <1>0, <1>2 DEF Directed
<1>4. Types'  BY <1>a, <1>b, <1>1, <1>2, Zenon DEF Types
<1>5. Claimed'  BY <1>b, <1>1 DEF Claimed
<1>6. Directed'
  <2>1. \A l \in Cases : l \notin gathered' => machine'.ran[l] = 0  BY <1>b, <1>0, <1>1 DEF Directed
  <2>2. \A d \in Collectors :
          collector'[d].adapter = "sent" => collector'[d].case \in gathered' /\ machine'.ran[collector'[d].case] = 0
    BY <1>a, <1>b, <1>1, <1>2, <1>3 DEF Directed, CollectorType
  <2>3. \A d, e \in Collectors :
          /\ collector'[d].adapter = "sent" /\ collector'[e].adapter = "sent"
          /\ collector'[d].case = collector'[e].case
          => d = e
    BY <1>2, <1>3 DEF Directed
  <2>4. \A l \in Cases : machine'.ran[l] <= 1  BY <1>1 DEF Directed
  <2>5. \A d \in Collectors : collector'[d].at = "idle" => collector'[d].adapter = "none"
    BY <1>0, <1>2 DEF Directed
  <2>q. QED BY <2>1, <2>2, <2>3, <2>4, <2>5 DEF Directed
<1>q. QED BY <1>4, <1>5, <1>6

\* The other steps of the collectors, and main's that start and give up its own.
LEMMA CollectorSteps ==
  ASSUME IInv, Collecting \/ Collect \/ CollectTimesOut
  PROVE  IInv'
<1> USE DEF IInv, Types
<1>a. /\ run \in RunType /\ machine \in MachineType /\ collector \in [Collectors -> CollectorType]
      /\ collector["child"].case = "details"
  OBVIOUS
<1>b. "child" \in Collectors /\ "hand" \in Collectors /\ "child" # "hand"  BY DEF Collectors
<1>1. CASE HandCollects
  <2>1. PICK k \in Cases : collector' = [collector EXCEPT !["hand"].at = "begin", !["hand"].case = k]
    BY <1>1 DEF HandCollects
  <2>2. /\ collector' \in [Collectors -> CollectorType] /\ collector'["child"].case = "details"
        /\ \A c \in Collectors : collector'[c].adapter = collector[c].adapter
        /\ \A c \in Collectors : c # "hand" => collector'[c].case = collector[c].case /\ collector'[c].at = collector[c].at
    BY <1>a, <1>b, <2>1 DEF CollectorType
  <2>3. UNCHANGED <<attempt, run, gathered, machine>>  BY <1>1 DEF HandCollects
  <2>4. collector["hand"].adapter = "none"  BY <1>1, <1>b DEF HandCollects, Directed
  <2>5. Types'  BY <1>a, <2>2, <2>3, Zenon DEF Types
  <2>6. Claimed'  BY <2>3 DEF Claimed
  <2>7. Directed'  BY <2>2, <2>3, <2>4 DEF Directed
  <2>q. QED BY <2>5, <2>6, <2>7
<1>k. ASSUME attempt, attempt' = attempt, UNCHANGED <<gathered, machine>>, run' \in RunType,
             run'.at \notin {"unclaimed", "baseline", "start"}, collector' \in [Collectors -> CollectorType],
             \A c \in Collectors : collector'[c].adapter = collector[c].adapter /\ collector'[c].case = collector[c].case,
             \A c \in Collectors : collector'[c].at = "idle" => collector[c].at = "idle"
      PROVE  IInv'
  <2>1. Types'  BY <1>a, <1>b, <1>k, Zenon DEF Types
  <2>2. Claimed'  BY <1>k DEF Claimed
  <2>3. Directed'  BY <1>k DEF Directed
  <2>q. QED BY <2>1, <2>2, <2>3
<1>2. CASE Collect
  <2>1. run' \in RunType /\ run'.at \notin {"unclaimed", "baseline", "start"}
    BY <1>2, <1>a, FailedType DEF Collect, RunType, Places
  <2>2. /\ collector' \in [Collectors -> CollectorType]
        /\ \A c \in Collectors : collector'[c].adapter = collector[c].adapter /\ collector'[c].case = collector[c].case
        /\ \A c \in Collectors : collector'[c].at = "idle" => collector[c].at = "idle"
    BY <1>2, <1>a, <1>b DEF Collect, CollectorType
  <2>3. attempt  BY <1>2 DEF Collect, Claimed
  <2>q. QED BY <1>2, <1>k, <2>1, <2>2, <2>3 DEF Collect
<1>3. CASE CollectTimesOut
  <2>1. run' \in RunType /\ run'.at \notin {"unclaimed", "baseline", "start"}
    BY <1>3, <1>a, FailedType DEF CollectTimesOut, RunType, Places
  <2>2. /\ collector' \in [Collectors -> CollectorType]
        /\ \A c \in Collectors : collector'[c].adapter = collector[c].adapter /\ collector'[c].case = collector[c].case
        /\ \A c \in Collectors : collector'[c].at = "idle" => collector[c].at = "idle"
    BY <1>3, <1>a, <1>b DEF CollectTimesOut, CollectorType
  <2>3. attempt  BY <1>3 DEF CollectTimesOut, Claimed
  <2>q. QED BY <1>3, <1>k, <2>1, <2>2, <2>3 DEF CollectTimesOut
<1>4. CASE \E c \in Collectors : CollectorBegins(c)  BY <1>4, BeginSteps
<1>5. CASE \E c \in Collectors : AdapterExecutes(c)  BY <1>5, ExecuteSteps
<1>6. ASSUME NEW c \in Collectors, CollectorEnds(c) \/ CollectorTimesOut(c)  PROVE IInv'
  <2>1. /\ collector' \in [Collectors -> CollectorType]
        /\ \A d \in Collectors : collector'[d].adapter = "sent" => collector[d].adapter = "sent"
        /\ \A d \in Collectors : collector'[d].case = collector[d].case
        /\ \A d \in Collectors : collector'[d].at = "idle" => collector[d].at = "idle" /\ collector'[d].adapter = collector[d].adapter
    BY <1>6, <1>a DEF CollectorEnds, CollectorTimesOut, CollectorType
  <2>2. UNCHANGED <<attempt, run, gathered, machine>>  BY <1>6 DEF CollectorEnds, CollectorTimesOut
  <2>3. Types'  BY <1>a, <1>b, <2>1, <2>2, Zenon DEF Types
  <2>4. Claimed'  BY <2>2 DEF Claimed
  <2>5. Directed'  BY <2>1, <2>2 DEF Directed
  <2>q. QED BY <2>3, <2>4, <2>5
<1>q. QED BY <1>1, <1>2, <1>3, <1>4, <1>5, <1>6 DEF Collecting

LEMMA StepIInv == IInv /\ [VmNext]_vmVars => IInv'
<1> SUFFICES ASSUME IInv, [VmNext]_vmVars  PROVE IInv'  OBVIOUS
<1>1. CASE VmNext
  BY <1>1, MainSteps, MachineSteps, RecoverySteps, ClaimSteps, CollectorSteps DEF VmNext, Controller
<1>2. CASE UNCHANGED vmVars  BY <1>2 DEF vmVars, IInv, Types, Claimed, Directed
<1>q. QED BY <1>1, <1>2

\* However two invocations of main, a collector run by hand, orphaned adapters,
\* timeouts and a SIGKILL interleave, one authorisation of the UTM control
\* starts the machine at most once and executes the program of a case in it at
\* most once.
THEOREM OneRunPerAuthorisation == VmSpec => []OneRun
<1>1. IInv => OneRun  BY DEF IInv, Claimed, Directed, OneRun
<1>q. QED BY <1>1, InitIInv, StepIInv, PTL DEF VmSpec

----------------------------------------------------------------------------
(***************************************************************************)
(* What is reported of the machine's power.                                *)
(***************************************************************************)

\* The machine can only be on, or on its way, after main's start; nothing is
\* on its way once main has waited; and what was seen off after that stays off.
Power ==
    /\ machine.on \/ machine.booting => machine.starts = 1
    /\ run.started => machine.starts = 1
    /\ run.at \in {"started?", "boot", "details", "grace", "poll", "forced", "list"} => run.started
    /\ run.at \in {"details", "poll", "forced", "list", "config", "reported"} => ~machine.booting
    /\ run.at \in {"list", "config", "reported"} /\ run.stopped => ~machine.on

\* What a pass is made of: a verified collection is an execution of main's own
\* collector, which no later step of main begins again.
Evidence ==
    /\ \A c \in Collectors : collector[c].adapter = "executed" \/ collector[c].at = "verified" =>
          machine.ran[collector[c].case] = 1
    /\ run.verified => /\ run.at \in {"grace", "poll", "forced", "list", "config", "reported"}
                       /\ run.started /\ collector["child"].at = "verified"
    /\ run.passed => run.at = "reported" /\ run.verified /\ run.stopped /\ ~run.forced

RecoveryType ==
    [at : {"none", "first", "request", "graceful", "force", "last", "ended"}, clock : Nat,
     until : Nat, seen : BOOLEAN, stopped : BOOLEAN, forced : BOOLEAN, left : Nat]

\* How late each place of the recovery can be reached: the polite phase is over
\* at 100 and one observation of 5 seconds may be under way when it ends, so
\* that after one more the forced stop has 10 seconds left.
Clock ==
    /\ recovery \in RecoveryType
    /\ recovery.clock <= RecoveryDeadline /\ recovery.until <= 100
    /\ recovery.at \in {"none", "first"} => recovery.clock = 0
    /\ recovery.at = "request" => recovery.clock <= 5
    /\ recovery.at = "graceful" => recovery.clock <= 105
    /\ recovery.at = "force" => recovery.clock <= 110
    /\ recovery.at = "last" => recovery.forced
    /\ recovery.forced => recovery.left >= 10
    /\ recovery.at = "ended" /\ recovery.seen => recovery.stopped \/ recovery.forced

TruthInv == Power /\ Evidence

LEMMA InitClock == VmInit => Clock
<1> SUFFICES ASSUME VmInit  PROVE Clock  OBVIOUS
<1>1. recovery \in RecoveryType  BY DEF VmInit, RecoveryType
<1>q. QED BY <1>1 DEF VmInit, Clock, RecoveryDeadline

\* A call takes no time, or at most its limit and never past the deadline.
LEMMA DurationBound ==
  ASSUME NEW limit \in Nat, NEW t \in Nat, t <= RecoveryDeadline, NEW took \in Durations(limit, t)
  PROVE  took \in Nat /\ took <= limit /\ t + took <= RecoveryDeadline
<1>1. RecoveryDeadline - t \in Nat  BY DEF RecoveryDeadline
<1>2. took = 0 \/ took = Min({limit, RecoveryDeadline - t})  BY DEF Durations
<1>3. Min({limit, RecoveryDeadline - t}) = IF limit <= RecoveryDeadline - t THEN limit ELSE RecoveryDeadline - t
  BY <1>1, MinPair
<1>q. QED BY <1>1, <1>2, <1>3 DEF RecoveryDeadline

\* Where an observation that sees the machine running leads, and how late.
LEMMA OnwardBound ==
  ASSUME Clock, Looking, NEW t \in Nat, t <= recovery.clock + 5, t < RecoveryDeadline
  PROVE  /\ Onward(t).at \in {"request", "graceful", "force", "last"}
         /\ Onward(t).clock \in Nat /\ Onward(t).clock <= RecoveryDeadline
         /\ Onward(t).at = "request" => Onward(t).clock <= 5
         /\ Onward(t).at = "graceful" => Onward(t).clock <= 105
         /\ Onward(t).at = "force" => Onward(t).clock <= 110
         /\ Onward(t).at = "last" => recovery.at = "last"
<1>a. recovery.until \in Nat /\ recovery.until <= 100 /\ recovery.clock \in Nat  BY DEF Clock, RecoveryType
<1>b. t + 5 \in Nat /\ t + 2 \in Nat /\ 120 \in Nat  OBVIOUS
<1>c. RecoveryDeadline = 120  BY DEF RecoveryDeadline
<1>1. CASE recovery.at = "first"
  <2>1. Onward(t) = [at |-> "request", clock |-> t]  BY <1>1 DEF Onward
  <2>q. QED BY <1>1, <1>a, <1>c, <2>1 DEF Clock
<1>2. CASE recovery.at = "graceful" /\ recovery.clock < recovery.until
  <2>1. Onward(t) = [at |-> "graceful", clock |-> IF t < recovery.until THEN Min({t + 5, recovery.until}) ELSE t]
    BY <1>2, <1>a DEF Onward
  <2>2. Min({t + 5, recovery.until}) = IF t + 5 <= recovery.until THEN t + 5 ELSE recovery.until
    BY <1>a, <1>b, MinPair
  <2>3. t <= 105  BY <1>2, <1>a
  <2>q. QED BY <1>2, <1>a, <1>b, <1>c, <2>1, <2>2, <2>3
<1>3. CASE recovery.at = "graceful" /\ recovery.clock >= recovery.until
  <2>1. Onward(t) = [at |-> "force", clock |-> t]  BY <1>3, <1>a DEF Onward
  <2>q. QED BY <1>3, <1>a, <1>c, <2>1 DEF Clock
<1>4. CASE recovery.at = "last"
  <2>1. Onward(t) = [at |-> "last", clock |-> Min({t + 2, 120})]  BY <1>4, <1>c DEF Onward
  <2>2. Min({t + 2, 120}) = IF t + 2 <= 120 THEN t + 2 ELSE 120  BY <1>b, MinPair
  <2>q. QED BY <1>4, <1>b, <1>c, <2>1, <2>2
<1>q. QED BY <1>1, <1>2, <1>3, <1>4 DEF Looking

\* What outlives a call of the recovery.
LEMMA ReturnedType ==
  ASSUME recovery \in RecoveryType
  PROVE  /\ Returned \in RecoveryType
         /\ Returned.at = "ended" /\ Returned.clock = 0 /\ Returned.until = 0
         /\ Returned.seen = recovery.seen /\ Returned.stopped = recovery.stopped
         /\ Returned.forced = recovery.forced /\ Returned.left = recovery.left
BY DEF Returned, RecoveryType

\* An observation ends the recovery, sees the machine off, or goes on in time.
LEMMA ObserveClock ==
  ASSUME Clock, Observe
  PROVE  Clock'
<1>0. recovery \in RecoveryType  BY DEF Clock
<1>c. RecoveryDeadline = 120  BY DEF RecoveryDeadline
<1>1. PICK took \in Durations(5, recovery.clock), same \in BOOLEAN :
        recovery' = IF ~same \/ recovery.clock + took >= RecoveryDeadline
                    THEN [Returned EXCEPT !.seen = same]
                    ELSE IF machine.on
                    THEN [recovery EXCEPT !.at = Onward(recovery.clock + took).at,
                                          !.clock = Onward(recovery.clock + took).clock]
                    ELSE [Returned EXCEPT !.stopped = TRUE]
  BY DEF Observe
<1>2. Looking  BY DEF Observe
<1>3. recovery.clock \in Nat /\ recovery.clock <= RecoveryDeadline  BY <1>0 DEF Clock, RecoveryType
<1>4. took \in Nat /\ took <= 5 /\ recovery.clock + took <= RecoveryDeadline  BY <1>3, DurationBound
<1>t. PICK t \in Nat : t = recovery.clock + took  BY <1>3, <1>4
<1>5. t <= recovery.clock + 5 /\ t <= 120  BY <1>c, <1>3, <1>4, <1>t
<1>7. CASE ~same \/ t >= RecoveryDeadline
  <2>1. recovery' = [Returned EXCEPT !.seen = same]  BY <1>1, <1>7, <1>t, Zenon
  <2>2. /\ recovery' \in RecoveryType /\ recovery'.at = "ended" /\ recovery'.seen = same
        /\ recovery'.clock = 0 /\ recovery'.until = 0
        /\ recovery'.forced = recovery.forced /\ recovery'.left = recovery.left
    BY <1>0, <2>1, ReturnedType DEF RecoveryType
  <2>3. same => recovery.at = "last"
    <3>1. recovery.at = "first" => t <= 5  BY <1>5 DEF Clock
    <3>2. recovery.at = "graceful" => t <= 110  BY <1>3, <1>5 DEF Clock
    <3>q. QED BY <1>2, <1>c, <1>7, <3>1, <3>2 DEF Looking
  <2>q. QED BY <1>c, <2>2, <2>3 DEF Clock
<1>8. CASE same /\ t < RecoveryDeadline /\ machine.on
  <2>0. ~(~same \/ t >= RecoveryDeadline)  BY <1>8, <1>c
  <2>1. recovery' = [recovery EXCEPT !.at = Onward(t).at, !.clock = Onward(t).clock]  BY <1>1, <1>8, <1>t, <2>0, Zenon
  <2>2. PICK next : next = Onward(t)  OBVIOUS
  <2>3. /\ next.at \in {"request", "graceful", "force", "last"}
        /\ next.clock \in Nat /\ next.clock <= RecoveryDeadline
        /\ next.at = "request" => next.clock <= 5
        /\ next.at = "graceful" => next.clock <= 105
        /\ next.at = "force" => next.clock <= 110
        /\ next.at = "last" => recovery.at = "last"
    BY <1>2, <1>5, <1>8, <2>2, OnwardBound
  <2>4. /\ recovery' \in RecoveryType /\ recovery'.at = next.at /\ recovery'.clock = next.clock
        /\ recovery'.until = recovery.until
        /\ recovery'.forced = recovery.forced /\ recovery'.left = recovery.left
    BY <1>0, <2>1, <2>2, <2>3 DEF RecoveryType
  <2>q. QED BY <2>3, <2>4 DEF Clock
<1>9. CASE same /\ t < RecoveryDeadline /\ ~machine.on
  <2>0. ~(~same \/ t >= RecoveryDeadline)  BY <1>9, <1>c
  <2>1. recovery' = [Returned EXCEPT !.stopped = TRUE]  BY <1>1, <1>9, <1>t, <2>0, Zenon
  <2>2. /\ recovery' \in RecoveryType /\ recovery'.at = "ended" /\ recovery'.stopped = TRUE
        /\ recovery'.clock = 0 /\ recovery'.until = 0
        /\ recovery'.forced = recovery.forced /\ recovery'.left = recovery.left
    BY <1>0, <2>1, ReturnedType DEF RecoveryType
  <2>q. QED BY <1>c, <2>2 DEF Clock
<1>q. QED BY <1>c, <1>7, <1>8, <1>9

LEMMA StepClock == Clock /\ [VmNext]_vmVars => Clock'
<1> SUFFICES ASSUME Clock, [VmNext]_vmVars  PROVE Clock'  OBVIOUS
<1>0. recovery \in RecoveryType  BY DEF Clock
<1>c. RecoveryDeadline = 120  BY DEF RecoveryDeadline
<1>1. CASE RecoveryBegins
  <2>1. recovery' \in RecoveryType /\ recovery' = [recovery EXCEPT !.at = "first"] /\ recovery.at = "none"
    BY <1>0, <1>1 DEF RecoveryBegins, RecoveryType
  <2>q. QED BY <1>0, <2>1 DEF Clock, RecoveryType
<1>2. CASE Observe  BY <1>2, ObserveClock
<1>3. CASE RecoveryRequest
  <2>1. PICK took \in Durations(10, recovery.clock) :
          recovery' = [recovery EXCEPT !.at = "graceful", !.clock = recovery.clock + took,
                                       !.until = GracefulUntil(recovery.clock + took)]
    BY <1>3 DEF RecoveryRequest
  <2>2. recovery.clock \in Nat /\ recovery.clock <= 5  BY <1>0, <1>3 DEF RecoveryRequest, Clock, RecoveryType
  <2>3. took \in Nat /\ took <= 10  BY <1>c, <2>2, DurationBound
  <2>t. PICK t \in Nat : t = recovery.clock + took  BY <2>2, <2>3
  <2>4. t <= 15 /\ t + 80 \in Nat /\ 100 \in Nat  BY <2>2, <2>3, <2>t
  <2>5. Min({t + 80, 100}) = IF t + 80 <= 100 THEN t + 80 ELSE 100  BY <2>4, MinPair
  <2>6. PICK u \in Nat : u = GracefulUntil(t) /\ u <= 100  BY <2>4, <2>5, <1>c DEF GracefulUntil
  <2>7. recovery' = [recovery EXCEPT !.at = "graceful", !.clock = t, !.until = u]  BY <2>1, <2>t, <2>6
  <2>8. /\ recovery' \in RecoveryType /\ recovery'.at = "graceful" /\ recovery'.clock = t /\ recovery'.until = u
        /\ recovery'.forced = recovery.forced /\ recovery'.left = recovery.left
    BY <1>0, <2>7 DEF RecoveryType
  <2>q. QED BY <1>c, <2>4, <2>6, <2>8 DEF Clock
<1>4. CASE RecoveryForce
  <2>1. PICK took \in Durations(10, recovery.clock) :
          recovery' = [recovery EXCEPT !.at = "last", !.clock = recovery.clock + took, !.until = 0, !.forced = TRUE,
                                       !.left = RecoveryDeadline - recovery.clock]
    BY <1>4 DEF RecoveryForce
  <2>2. recovery.clock \in Nat /\ recovery.clock <= 110  BY <1>0, <1>4 DEF RecoveryForce, Clock, RecoveryType
  <2>3. took \in Nat /\ recovery.clock + took <= RecoveryDeadline  BY <1>c, <2>2, DurationBound
  <2>t. PICK t \in Nat, left \in Nat : t = recovery.clock + took /\ left = RecoveryDeadline - recovery.clock
    BY <1>c, <2>2, <2>3
  <2>4. recovery' = [recovery EXCEPT !.at = "last", !.clock = t, !.until = 0, !.forced = TRUE, !.left = left]
    BY <2>1, <2>t
  <2>5. /\ recovery' \in RecoveryType /\ recovery'.at = "last" /\ recovery'.clock = t /\ recovery'.until = 0
        /\ recovery'.forced = TRUE /\ recovery'.left = left
    BY <1>0, <2>4 DEF RecoveryType
  <2>q. QED BY <1>c, <2>2, <2>3, <2>t, <2>5 DEF Clock
<1>5. CASE RecoveryGivesUp
  <2>1. recovery' = Returned /\ recovery.at = "last"  BY <1>5 DEF RecoveryGivesUp
  <2>2. /\ recovery' \in RecoveryType /\ recovery'.at = "ended" /\ recovery'.clock = 0 /\ recovery'.until = 0
        /\ recovery'.forced = recovery.forced /\ recovery'.left = recovery.left
    BY <1>0, <2>1, ReturnedType
  <2>q. QED BY <1>c, <2>1, <2>2 DEF Clock
<1>6. CASE UNCHANGED recovery  BY <1>6 DEF Clock
<1>7. ASSUME Controller \/ Collecting \/ MachineBoots \/ MachineStops \/ UNCHANGED vmVars
      PROVE  UNCHANGED recovery
  BY <1>7 DEF Controller, Collecting, MachineBoots, MachineStops, vmVars, Look, Claim, Baseline, Start, Keep,
       StatusAfterStart, Collect, Verify, CollectTimesOut, ShutdownRequest, ShutdownStatus, ShutdownForce,
       StatusAfterForce, ListAfter, Report, ControllerDies, HandCollects, CollectorBegins, AdapterExecutes,
       CollectorEnds, CollectorTimesOut
<1>q. QED BY <1>1, <1>2, <1>3, <1>4, <1>5, <1>6, <1>7 DEF VmNext, Recovering

\* Whatever its calls take, a recovery that can identify the machine ends with
\* it seen off or after a forced stop that still had 10 of the 120 seconds.
THEOREM RecoveryAlwaysForces == VmSpec => []RecoveryForces
<1>1. Clock => RecoveryForces  BY DEF Clock, RecoveryForces
<1>q. QED BY <1>1, InitClock, StepClock, PTL DEF VmSpec

----------------------------------------------------------------------------

LEMMA InitTruth == VmInit => TruthInv
BY DEF VmInit, Unclaimed, TruthInv, Power, Evidence, Collectors

\* A step of main that leaves the machine and the collectors alone, from one
\* place to another, with its own flags as given.
LEMMA MainTruth ==
  ASSUME IInv, TruthInv, run' \in RunType, UNCHANGED <<collector, machine, recovery>>,
         run.at \notin {"dead", "reported"},
         run'.started = run.started,
         run'.at \in {"started?", "boot", "details", "grace", "poll", "forced", "list"} => run.started,
         run'.at \in {"details", "poll", "forced", "list", "config", "reported"} => ~machine.booting,
         run'.at \in {"list", "config", "reported"} /\ run'.stopped => ~machine.on,
         run'.verified => /\ run'.at \in {"grace", "poll", "forced", "list", "config", "reported"}
                          /\ run.started /\ collector["child"].at = "verified",
         run'.passed => run'.at = "reported" /\ run'.verified /\ run'.stopped /\ ~run'.forced
  PROVE  TruthInv'
BY DEF TruthInv, Power, Evidence

\* Before the start nothing can be on or on its way.
LEMMA OffBefore ==
  ASSUME IInv, TruthInv, run.at \in {"unclaimed", "baseline", "start"}
  PROVE  ~machine.on /\ ~machine.booting /\ ~run.started /\ ~run.verified /\ ~run.passed
BY DEF IInv, Claimed, TruthInv, Power, Evidence

\* An exception keeps what main knows.
LEMMA FailedKeeps ==
  ASSUME NEW r \in RunType
  PROVE  /\ Failed(r).started = r.started /\ Failed(r).verified = r.verified /\ Failed(r).passed = r.passed
         /\ Failed(r).stopped = r.stopped /\ Failed(r).forced = r.forced
         /\ r.started => Failed(r).at = "grace"
         /\ ~r.started => Failed(r).at = "config"
BY DEF Failed, RunType

LEMMA BaselineTruth ==
  ASSUME IInv, TruthInv, Baseline
  PROVE  TruthInv'
<1>a. run \in RunType /\ run.at = "baseline"  BY DEF IInv, Types, Baseline
<1>b. ~machine.on /\ ~machine.booting /\ ~run.started /\ ~run.verified /\ ~run.passed  BY <1>a, OffBefore
<1>c. UNCHANGED <<collector, machine, recovery>>  BY DEF Baseline, Keep
<1>1. PICK reading \in Reading, listed \in BOOLEAN :
        LET read == [run EXCEPT !.stopped = reading = "stopped"]
        IN  run' = IF listed /\ reading = "stopped" THEN [read EXCEPT !.at = "start"] ELSE Failed(read)
  BY DEF Baseline
<1>2. PICK read : read = [run EXCEPT !.stopped = reading = "stopped"]  OBVIOUS
<1>r. /\ read \in RunType /\ read.at = "baseline"
      /\ read.started = run.started /\ read.verified = run.verified /\ read.passed = run.passed
  BY <1>2, <1>a DEF RunType
<1>3. run' = [read EXCEPT !.at = "start"] \/ run' = Failed(read)  BY <1>1, <1>2
<1>4. /\ run' \in RunType /\ run'.at \in {"start", "config"}
      /\ run'.started = run.started /\ run'.verified = run.verified /\ run'.passed = run.passed
  <2>1. CASE run' = [read EXCEPT !.at = "start"]  BY <1>r, <2>1 DEF RunType, Places
  <2>2. CASE run' = Failed(read)  BY <1>b, <1>r, <2>2, FailedType, FailedKeeps
  <2>q. QED BY <1>3, <2>1, <2>2
<1>q. QED BY <1>a, <1>b, <1>c, <1>4, MainTruth

LEMMA StartTruth ==
  ASSUME IInv, TruthInv, Start
  PROVE  TruthInv'
<1>a. run \in RunType /\ run.at = "start" /\ machine \in MachineType /\ machine.starts = 0
  BY DEF IInv, Types, Claimed, Start
<1>b. ~run.verified /\ ~run.passed  BY <1>a, OffBefore
<1>c. UNCHANGED <<collector, recovery>>  BY DEF Start, Keep
<1>1. PICK effect \in {"now", "later", "never"}, answered \in BOOLEAN :
        LET tried == [run EXCEPT !.started = TRUE]
        IN  /\ machine' = Started(effect)
            /\ run' = IF answered THEN [tried EXCEPT !.at = "started?"] ELSE Failed(tried)
  BY DEF Start
<1>2. PICK tried : tried = [run EXCEPT !.started = TRUE]  OBVIOUS
<1>r. tried \in RunType /\ tried.started = TRUE /\ tried.verified = run.verified /\ tried.passed = run.passed
  BY <1>2, <1>a DEF RunType
<1>3. run' = [tried EXCEPT !.at = "started?"] \/ run' = Failed(tried)  BY <1>1, <1>2
<1>4. run'.at \in {"started?", "grace"} /\ run'.started /\ run'.verified = run.verified /\ run'.passed = run.passed
  <2>1. CASE run' = [tried EXCEPT !.at = "started?"]  BY <1>r, <2>1 DEF RunType
  <2>2. CASE run' = Failed(tried)  BY <1>r, <2>2, FailedKeeps
  <2>q. QED BY <1>3, <2>1, <2>2
<1>5. machine'.starts = 1 /\ machine'.ran = machine.ran  BY <1>1, <1>a DEF Started, MachineType
<1>q. QED BY <1>a, <1>b, <1>c, <1>4, <1>5 DEF TruthInv, Power, Evidence

\* The steps of main between the start and the shutdown.
LEMMA CollectTruth ==
  ASSUME IInv, TruthInv, StatusAfterStart \/ Collect \/ Verify \/ CollectTimesOut
  PROVE  TruthInv'
<1>a. run \in RunType /\ collector \in [Collectors -> CollectorType] /\ "child" \in Collectors
  BY DEF IInv, Types, Collectors
<1>b. run.at \in {"started?", "boot", "details"} /\ run.started /\ ~run.verified /\ ~run.passed
  BY DEF StatusAfterStart, Collect, Verify, CollectTimesOut, TruthInv, Power, Evidence
<1>f. /\ Failed(run) \in RunType /\ Failed(run).at = "grace" /\ Failed(run).started = run.started
      /\ Failed(run).verified = run.verified /\ Failed(run).passed = run.passed
  BY <1>a, <1>b, FailedType, FailedKeeps
<1>1. CASE StatusAfterStart
  <2>1. /\ run' \in RunType /\ run'.at \in {"boot", "grace"} /\ run'.started = run.started
        /\ run'.verified = run.verified /\ run'.passed = run.passed
    BY <1>1, <1>a, <1>f DEF StatusAfterStart, RunType, Places
  <2>q. QED BY <1>1, <1>b, <2>1, MainTruth DEF StatusAfterStart, Keep
<1>2. CASE Collect
  <2>1. /\ run'.at \in {"details", "grace"} /\ run'.started = run.started
        /\ run'.verified = run.verified /\ run'.passed = run.passed
    BY <1>2, <1>a, <1>f DEF Collect, RunType
  <2>2. \A c \in Collectors :
           /\ collector'[c].adapter = collector[c].adapter /\ collector'[c].case = collector[c].case
           /\ collector'[c].at = "verified" => collector[c].at = "verified"
    BY <1>2, <1>a DEF Collect, CollectorType
  <2>3. ~machine.booting /\ UNCHANGED <<machine, recovery>>  BY <1>2 DEF Collect, Waited
  <2>4. run'.started /\ ~run'.verified /\ ~run'.passed  BY <1>b, <2>1
  <2>5. Power'  BY <1>b, <2>1, <2>3, <2>4 DEF TruthInv, Power
  <2>7. Evidence'  BY <2>2, <2>3, <2>4 DEF TruthInv, Evidence
  <2>q. QED BY <2>5, <2>7 DEF TruthInv
<1>3. CASE Verify
  <2>1. /\ run' \in RunType /\ run'.at = "grace" /\ run'.started = run.started /\ run'.passed = run.passed
        /\ run'.verified => collector["child"].at = "verified"
    BY <1>3, <1>a, <1>b, <1>f DEF Verify, RunType, Places
  <2>q. QED BY <1>3, <1>b, <2>1, MainTruth DEF Verify, Keep
<1>4. CASE CollectTimesOut
  <2>1. /\ run'.at = "grace" /\ run'.started = run.started
        /\ run'.verified = run.verified /\ run'.passed = run.passed
    BY <1>4, <1>f DEF CollectTimesOut
  <2>2. \A c \in Collectors :
           /\ collector'[c].adapter = collector[c].adapter /\ collector'[c].case = collector[c].case
           /\ collector'[c].at = "verified" => collector[c].at = "verified"
    BY <1>4, <1>a DEF CollectTimesOut, CollectorType
  <2>3. UNCHANGED <<machine, recovery>>  BY <1>4 DEF CollectTimesOut
  <2>4. run'.started /\ ~run'.verified /\ ~run'.passed  BY <1>b, <2>1
  <2>5. Power'  BY <1>b, <2>1, <2>3, <2>4 DEF TruthInv, Power
  <2>7. Evidence'  BY <2>2, <2>3, <2>4 DEF TruthInv, Evidence
  <2>q. QED BY <2>5, <2>7 DEF TruthInv
<1>q. QED BY <1>1, <1>2, <1>3, <1>4

\* The shutdown, the last looks and the report; and the death of main.
LEMMA ShutdownTruth ==
  ASSUME IInv, TruthInv, ShutdownStatus \/ StatusAfterForce \/ ListAfter \/ Report \/ ControllerDies
  PROVE  TruthInv'
<1>a. run \in RunType /\ run' \in RunType
  BY MainSteps DEF IInv, Types
<1>c. UNCHANGED <<collector, machine, recovery>>
  BY DEF ShutdownStatus, StatusAfterForce, ListAfter, Report, ControllerDies, Keep
<1>r. "stopped" \in Reading => ~machine.on  BY DEF Reading
<1>1. CASE ShutdownStatus
  <2>1. /\ run.at = "poll" /\ run'.at \in {"poll", "list"} /\ run'.started = run.started
        /\ run'.verified = run.verified /\ run'.passed = run.passed
        /\ run'.at = "list" => "stopped" \in Reading
    BY <1>1, <1>a DEF ShutdownStatus, RunType
  <2>q. QED BY <1>a, <1>c, <1>r, <2>1, MainTruth DEF TruthInv, Power, Evidence
<1>2. CASE StatusAfterForce
  <2>1. /\ run.at = "forced" /\ run'.at = "list" /\ run'.started = run.started
        /\ run'.verified = run.verified /\ run'.passed = run.passed
        /\ run'.stopped => "stopped" \in Reading
    BY <1>2, <1>a DEF StatusAfterForce, RunType
  <2>q. QED BY <1>a, <1>c, <1>r, <2>1, MainTruth DEF TruthInv, Power, Evidence
<1>3. CASE ListAfter
  <2>1. /\ run.at = "list" /\ run'.at = "config" /\ run'.started = run.started /\ run'.stopped = run.stopped
        /\ run'.verified = run.verified /\ run'.passed = run.passed
    BY <1>3, <1>a DEF ListAfter, RunType
  <2>q. QED BY <1>a, <1>c, <2>1, MainTruth DEF TruthInv, Power, Evidence
<1>4. CASE Report
  <2>1. /\ run.at = "config" /\ run'.at = "reported" /\ run'.started = run.started /\ run'.stopped = run.stopped
        /\ run'.verified = run.verified /\ run'.forced = run.forced
        /\ run'.passed => run.verified /\ run.stopped /\ ~run.forced
    BY <1>4, <1>a DEF Report, Passes, RunType
  <2>q. QED BY <1>a, <1>c, <2>1, MainTruth DEF TruthInv, Power, Evidence
<1>5. CASE ControllerDies
  <2>1. /\ run.at \notin {"reported", "dead"} /\ run'.at = "dead" /\ run'.started = run.started
        /\ ~run'.verified /\ ~run'.passed
    BY <1>5, <1>a DEF ControllerDies, Unclaimed
  <2>q. QED BY <1>a, <1>c, <2>1, MainTruth
<1>q. QED BY <1>1, <1>2, <1>3, <1>4, <1>5

\* The requests to stop, and what the machine does by itself: only MachineBoots
\* turns it on, and then its start was still on its way.
LEMMA StopTruth ==
  ASSUME IInv, TruthInv, ShutdownRequest \/ ShutdownForce \/ MachineBoots \/ MachineStops
  PROVE  TruthInv'
<1>a. run \in RunType /\ machine \in MachineType  BY DEF IInv, Types
<1>c. UNCHANGED <<collector, recovery>>  BY DEF ShutdownRequest, ShutdownForce, MachineBoots, MachineStops, Keep
<1>s. ASSUME NEW force \in BOOLEAN, machine' \in AfterStop(force)
      PROVE  /\ machine'.on => machine.on
             /\ machine'.booting = machine.booting /\ machine'.starts = machine.starts /\ machine'.ran = machine.ran
  BY <1>a, <1>s DEF AfterStop, MachineType
<1>1. CASE ShutdownRequest
  <2>1. /\ run.at = "grace" /\ run'.at = "poll" /\ run'.started = run.started
        /\ run'.verified = run.verified /\ run'.passed = run.passed /\ ~machine.booting
    BY <1>1, <1>a DEF ShutdownRequest, Waited, RunType
  <2>2. machine' \in AfterStop(FALSE)  BY <1>1 DEF ShutdownRequest
  <2>q. QED BY <1>c, <1>s, <2>1, <2>2 DEF TruthInv, Power, Evidence
<1>2. CASE ShutdownForce
  <2>1. /\ run.at = "poll" /\ run'.at = "forced" /\ run'.started = run.started
        /\ run'.verified = run.verified /\ run'.passed = run.passed
    BY <1>2, <1>a DEF ShutdownForce, RunType
  <2>2. machine' \in AfterStop(TRUE)  BY <1>2 DEF ShutdownForce
  <2>q. QED BY <1>c, <1>s, <2>1, <2>2 DEF TruthInv, Power, Evidence
<1>3. CASE MachineBoots
  <2>1. /\ machine.booting /\ machine'.starts = machine.starts /\ machine'.ran = machine.ran /\ ~machine'.booting
        /\ UNCHANGED run
    BY <1>3, <1>a DEF MachineBoots, MachineType
  <2>q. QED BY <1>c, <2>1 DEF TruthInv, Power, Evidence
<1>4. CASE MachineStops
  <2>1. /\ machine'.booting = machine.booting /\ machine'.starts = machine.starts /\ machine'.ran = machine.ran
        /\ ~machine'.on /\ UNCHANGED run
    BY <1>4, <1>a DEF MachineStops, MachineType
  <2>q. QED BY <1>c, <2>1 DEF TruthInv, Power, Evidence
<1>q. QED BY <1>1, <1>2, <1>3, <1>4

\* The claim, which changes only where main is.
LEMMA ClaimTruth ==
  ASSUME IInv, TruthInv, NEW c \in Controllers, Look(c) \/ Claim(c)
  PROVE  TruthInv'
<1>a. run \in RunType  BY DEF IInv, Types
<1>1. CASE UNCHANGED run  BY <1>1 DEF Look, Claim, TruthInv, Power, Evidence
<1>2. CASE Claim(c) /\ ~attempt
  <2>1. run.at = "unclaimed"  BY <1>2 DEF IInv, Claimed
  <2>2. /\ run' \in RunType /\ run'.at = "baseline" /\ run'.started = run.started
        /\ run'.verified = run.verified /\ run'.passed = run.passed
    BY <1>2, <1>a DEF Claim, RunType, Places
  <2>3. ~run.started /\ ~run.verified /\ ~run.passed  BY <2>1, OffBefore
  <2>4. UNCHANGED <<collector, machine, recovery>>  BY <1>2 DEF Claim
  <2>q. QED BY <2>1, <2>2, <2>3, <2>4, MainTruth
<1>q. QED BY <1>1, <1>2 DEF Look, Claim

\* The collectors: a verified answer is one execution, and executions are kept.
LEMMA CollectingTruth ==
  ASSUME IInv, TruthInv, Collecting
  PROVE  TruthInv'
<1>a. /\ run \in RunType /\ machine \in MachineType /\ collector \in [Collectors -> CollectorType]
      /\ "child" \in Collectors /\ "hand" \in Collectors /\ "child" # "hand"
  BY DEF IInv, Types, Collectors
<1>b. UNCHANGED <<run, recovery>>
  BY DEF Collecting, HandCollects, CollectorBegins, AdapterExecutes, CollectorEnds, CollectorTimesOut
<1>k. ASSUME machine'.on = machine.on, machine'.booting = machine.booting, machine'.starts = machine.starts,
             collector["child"].at = "verified" => collector'["child"].at = "verified",
             \A c \in Collectors : collector'[c].adapter = "executed" \/ collector'[c].at = "verified" =>
                machine'.ran[collector'[c].case] = 1
      PROVE  TruthInv'
  BY <1>b, <1>k DEF TruthInv, Power, Evidence
<1>1. CASE HandCollects
  <2>1. UNCHANGED machine /\ collector["hand"].at = "idle"  BY <1>1 DEF HandCollects
  <2>2. /\ collector'["hand"].at = "begin" /\ collector'["hand"].adapter = collector["hand"].adapter
        /\ \A c \in Collectors : c # "hand" => collector'[c] = collector[c]
    BY <1>1, <1>a DEF HandCollects, CollectorType
  <2>3. collector["hand"].adapter # "executed"  BY <2>1, <1>a DEF IInv, Directed
  <2>q. QED BY <1>a, <1>k, <2>1, <2>2, <2>3 DEF TruthInv, Evidence
<1>2. ASSUME NEW c \in Collectors, CollectorBegins(c) \/ CollectorTimesOut(c)  PROVE TruthInv'
  <2>1. UNCHANGED machine  BY <1>2 DEF CollectorBegins, CollectorTimesOut
  <2>2. \A d \in Collectors :
           /\ collector'[d].adapter = "executed" => collector[d].adapter = "executed"
           /\ collector'[d].at = "verified" <=> collector[d].at = "verified"
           /\ collector'[d].case = collector[d].case
    BY <1>2, <1>a DEF CollectorBegins, CollectorTimesOut, CollectorType
  <2>q. QED BY <1>a, <1>k, <2>1, <2>2 DEF TruthInv, Evidence
<1>3. ASSUME NEW c \in Collectors, CollectorEnds(c)  PROVE TruthInv'
  <2>1. UNCHANGED machine  BY <1>3 DEF CollectorEnds
  <2>2. \A d \in Collectors :
           /\ collector'[d].adapter = collector[d].adapter /\ collector'[d].case = collector[d].case
           /\ collector'[d].at = "verified" => collector[d].at = "verified" \/ collector[d].adapter = "executed"
           /\ collector[d].at = "verified" => collector'[d].at = "verified"
    BY <1>3, <1>a DEF CollectorEnds, CollectorType
  <2>q. QED BY <1>a, <1>k, <2>1, <2>2 DEF TruthInv, Evidence
<1>4. ASSUME NEW c \in Collectors, AdapterExecutes(c)  PROVE TruthInv'
  <2>k. PICK k \in Cases : k = collector[c].case  BY <1>a DEF CollectorType
  <2>0. machine.ran[k] = 0  BY <1>4, <2>k DEF AdapterExecutes, IInv, Directed
  <2>1. \A d \in Collectors :
          collector[d].adapter = "executed" \/ collector[d].at = "verified" => collector[d].case # k
    BY <2>0 DEF TruthInv, Evidence
  <2>2. /\ \A d \in Collectors : collector'[d].at = collector[d].at /\ collector'[d].case = collector[d].case
        /\ \A d \in Collectors : d # c => collector'[d].adapter = collector[d].adapter
        /\ collector'[c].adapter = "executed" => machine.on
    BY <1>4, <1>a DEF AdapterExecutes, CollectorType
  <2>3. /\ machine'.on = machine.on /\ machine'.booting = machine.booting /\ machine'.starts = machine.starts
        /\ machine.on => machine'.ran[k] = 1
        /\ \A l \in Cases : l # k => machine'.ran[l] = machine.ran[l]
    BY <1>4, <1>a, <2>k, <2>0 DEF AdapterExecutes, MachineType
  <2>4. \A d \in Collectors : collector'[d].adapter = "executed" \/ collector'[d].at = "verified" =>
          machine'.ran[collector'[d].case] = 1
    BY <1>a, <2>k, <2>1, <2>2, <2>3 DEF TruthInv, Evidence, CollectorType
  <2>q. QED BY <1>a, <1>k, <2>2, <2>3, <2>4
<1>q. QED BY <1>1, <1>2, <1>3, <1>4 DEF Collecting

\* The recovery only stops the machine: it starts and executes nothing.
LEMMA RecoveringTruth ==
  ASSUME IInv, TruthInv, Recovering
  PROVE  TruthInv'
<1>a. machine \in MachineType  BY DEF IInv, Types
<1>b. UNCHANGED <<run, collector>>
  BY DEF Recovering, RecoveryBegins, Observe, RecoveryRequest, RecoveryForce, RecoveryGivesUp, RecoveryKeep
<1>c. /\ machine'.on => machine.on
      /\ machine'.booting = machine.booting /\ machine'.starts = machine.starts /\ machine'.ran = machine.ran
  BY <1>a DEF Recovering, RecoveryBegins, Observe, RecoveryRequest, RecoveryForce, RecoveryGivesUp, AfterStop, MachineType
<1>q. QED BY <1>b, <1>c DEF TruthInv, Power, Evidence

LEMMA StepTruth == IInv /\ TruthInv /\ [VmNext]_vmVars => TruthInv'
<1> SUFFICES ASSUME IInv, TruthInv, [VmNext]_vmVars  PROVE TruthInv'  OBVIOUS
<1>1. CASE VmNext
  BY <1>1, BaselineTruth, StartTruth, CollectTruth, ShutdownTruth, StopTruth, ClaimTruth, CollectingTruth,
     RecoveringTruth DEF VmNext, Controller
<1>2. CASE UNCHANGED vmVars  BY <1>2 DEF vmVars, TruthInv, Power, Evidence
<1>q. QED BY <1>1, <1>2

\* A pass of main is one start and one execution of the details by its own
\* collector with nothing forced, and a machine that main reports as stopped is
\* off, with no start still on its way.
THEOREM ResultIsAlwaysTrue == VmSpec => []ResultIsTrue
<1>1. IInv /\ TruthInv => ResultIsTrue
  BY DEF IInv, Types, Claimed, TruthInv, Power, Evidence, ResultIsTrue, Collectors
<1>q. QED BY <1>1, InitIInv, StepIInv, InitTruth, StepTruth, PTL DEF VmSpec

(***************************************************************************)
(* The clarification.                                                      *)
(***************************************************************************)
\* Where a run is, and what its manifest may say.
RunPlaces ==
    {"idle", "user", "repository", "commit", "search", "intent", "post", "posted", "issue", "comments",
     "events", "commits", "answered", "manifest", "sums", "publish", "ended", "dead"}

Outcomes ==
    {"none", "preflight", "evidence-contract", "ambiguous-external-write", "external-write-rejected",
     "issue-created", "evidence-limit", "awaiting-upstream", "response-collected"}

\* A run's process and its evidence, as records.
Processes ==
    [at : RunPlaces, requests : Nat, posts : Nat, records : Nat, late : BOOLEAN, account : BOOLEAN,
     issue : BOOLEAN, paged : BOOLEAN, commits : Nat, stage : Outcomes]

Directories ==
    [name : {"none", "partial", "final"}, observed : Nat, observedPost : BOOLEAN, intent : BOOLEAN,
     manifest : {NoManifest} \cup [stage : Outcomes, requests : Nat, posts : Nat, records : Nat, late : BOOLEAN,
                                   account : BOOLEAN, issue : BOOLEAN, paged : BOOLEAN],
     sums : BOOLEAN]

\* What a creator's stage says of GitHub, once it is chosen.
ClaimHolds(chosen) ==
    /\ chosen = "external-write-rejected" => ~server.issue /\ ~server.pending
    /\ chosen = "issue-created" => server.issue

\* Where a creator has not sent its POST yet, and where it has its manifest.
Asking == {"idle", "user", "repository", "commit", "search", "intent", "post"}
Concluded == {"sums", "publish", "ended", "dead"}

ClarificationTypes ==
    /\ proc \in [Runs -> Processes]
    /\ disk \in [Runs -> Directories]
    /\ server \in [posts : Nat, issue : BOOLEAN, pending : BOOLEAN]

\* The budget counts the POSTs GitHub received, at most one, and there is no
\* issue without one.
Counted ==
    /\ server.posts = proc["create"].posts
    /\ server.posts \in {0, 1}
    /\ server.posts = 0 => ~server.issue /\ ~server.pending

\* The creator's progress: the intent is durable before the POST, and what it
\* concludes, in its memory and in its manifest, is true of GitHub and stays so.
Progress ==
    /\ proc["create"].at \in Asking => server.posts = 0
    /\ proc["create"].at = "post" \/ server.posts = 1 => disk["create"].intent
    /\ proc["create"].at = "manifest" => ClaimHolds(proc["create"].stage)
    /\ disk["create"].manifest # NoManifest =>
          /\ proc["create"].at \in Concluded
          /\ disk["create"].manifest.posts = server.posts
          /\ ClaimHolds(disk["create"].manifest.stage)
    /\ proc["create"].at \in {"sums", "publish"} => disk["create"].manifest # NoManifest
    /\ disk["create"].name = "final" => proc["create"].at = "ended" /\ disk["create"].manifest # NoManifest

\* A reader begins with the published evidence of a creator.
Sourced == disk["read"].name # "none" \/ proc["read"].at # "idle" => disk["create"].name = "final"

ClarificationInv == ClarificationTypes /\ Counted /\ Progress /\ Sourced

\* The question that follows: a creator's last one is followed by the intent.
LEMMA FollowingFacts ==
    /\ \A q \in {"user", "repository", "commit", "search"} :
          Following("create", q) \in {"repository", "commit", "search", "intent"}
    /\ \A q \in {"user", "issue", "comments", "events", "commits"} :
          Following("read", q) \in {"issue", "comments", "events", "commits", "answered"}
<1> DEFINE qs(r) == Questions[r]
           n(r, q) == CHOOSE i \in DOMAIN qs(r) : qs(r)[i] = q
<1>1. ASSUME NEW q \in {"user", "repository", "commit", "search"}
      PROVE  Following("create", q) \in {"repository", "commit", "search", "intent"}
  <2>1. qs("create") = <<"user", "repository", "commit", "search">>
    BY DEF Questions
  <2>2. DOMAIN qs("create") = 1..4 /\ Len(qs("create")) = 4
    BY <2>1
  <2>3. /\ qs("create")[1] = "user" /\ qs("create")[2] = "repository"
        /\ qs("create")[3] = "commit" /\ qs("create")[4] = "search"
    BY <2>1
  <2>4. \E i \in DOMAIN qs("create") : qs("create")[i] = q
    BY <2>2, <2>3
  <2>5. n("create", q) \in DOMAIN qs("create")
    BY <2>4
  <2>6. Following("create", q)
           = IF n("create", q) < Len(qs("create")) THEN qs("create")[n("create", q) + 1] ELSE "intent"
    <3>1. Following("create", q)
             = IF n("create", q) < Len(qs("create")) THEN qs("create")[n("create", q) + 1]
               ELSE IF "create" = "create" THEN "intent" ELSE "answered"
      BY Zenon DEF Following
    <3> HIDE DEF qs, n
    <3> QED BY <3>1
  <2> HIDE DEF qs, n
  <2>7. n("create", q) \in 1..4
    BY <2>2, <2>5
  <2> QED BY <2>2, <2>3, <2>6, <2>7
<1>2. ASSUME NEW q \in {"user", "issue", "comments", "events", "commits"}
      PROVE  Following("read", q) \in {"issue", "comments", "events", "commits", "answered"}
  <2>1. qs("read") = <<"user", "issue", "comments", "events", "commits">>
    BY DEF Questions
  <2>2. DOMAIN qs("read") = 1..5 /\ Len(qs("read")) = 5
    BY <2>1
  <2>3. /\ qs("read")[1] = "user" /\ qs("read")[2] = "issue" /\ qs("read")[3] = "comments"
        /\ qs("read")[4] = "events" /\ qs("read")[5] = "commits"
    BY <2>1
  <2>4. \E i \in DOMAIN qs("read") : qs("read")[i] = q
    BY <2>2, <2>3
  <2>5. n("read", q) \in DOMAIN qs("read")
    BY <2>4
  <2>6. Following("read", q)
           = IF n("read", q) < Len(qs("read")) THEN qs("read")[n("read", q) + 1] ELSE "answered"
    <3>1. Following("read", q)
             = IF n("read", q) < Len(qs("read")) THEN qs("read")[n("read", q) + 1]
               ELSE IF "read" = "create" THEN "intent" ELSE "answered"
      BY Zenon DEF Following
    <3> HIDE DEF qs, n
    <3> QED BY <3>1
  <2> HIDE DEF qs, n
  <2>7. n("read", q) \in 1..5
    BY <2>2, <2>5
  <2> QED BY <2>2, <2>3, <2>6, <2>7
<1> QED BY <1>1, <1>2

\* Where a run asks.
LEMMA AskedFrom ==
    /\ {Questions["create"][i] : i \in DOMAIN Questions["create"]} = {"user", "repository", "commit", "search"}
    /\ {Questions["read"][i] : i \in DOMAIN Questions["read"]} = {"user", "issue", "comments", "events", "commits"}
<1>1. Questions["create"] = <<"user", "repository", "commit", "search">>
  BY DEF Questions
<1>2. Questions["read"] = <<"user", "issue", "comments", "events", "commits">>
  BY DEF Questions
<1>3. DOMAIN Questions["create"] = 1..4 /\ DOMAIN Questions["read"] = 1..5
  BY <1>1, <1>2
<1> QED BY <1>1, <1>2, <1>3

LEMMA ClarificationInitInv == ClarificationInit => ClarificationInv
<1> SUFFICES ASSUME ClarificationInit PROVE ClarificationInv OBVIOUS
<1>1. \A r \in Runs : /\ proc[r] = [at |-> "idle", requests |-> 0, posts |-> 0, records |-> 0, late |-> FALSE,
                                    account |-> FALSE, issue |-> FALSE, paged |-> FALSE, commits |-> 0,
                                    stage |-> "none"]
                      /\ disk[r] = [name |-> "none", observed |-> 0, observedPost |-> FALSE, intent |-> FALSE,
                                    manifest |-> NoManifest, sums |-> FALSE]
  BY DEF ClarificationInit
<1>2. "create" \in Runs /\ "read" \in Runs
  BY DEF Runs
<1>3. ClarificationTypes
  <2>1. ASSUME NEW r \in Runs PROVE proc[r] \in Processes
    <3>1. proc[r] = [at |-> "idle", requests |-> 0, posts |-> 0, records |-> 0, late |-> FALSE,
                     account |-> FALSE, issue |-> FALSE, paged |-> FALSE, commits |-> 0, stage |-> "none"]
      BY <1>1
    <3>2. "idle" \in RunPlaces /\ "none" \in Outcomes /\ 0 \in Nat /\ FALSE \in BOOLEAN
      BY DEF RunPlaces, Outcomes
    <3> QED BY <3>1, <3>2 DEF Processes
  <2>2. ASSUME NEW r \in Runs PROVE disk[r] \in Directories
    <3>1. disk[r] = [name |-> "none", observed |-> 0, observedPost |-> FALSE, intent |-> FALSE,
                     manifest |-> NoManifest, sums |-> FALSE]
      BY <1>1
    <3> QED BY <3>1 DEF Directories
  <2>3. proc = [r \in Runs |-> proc[r]] /\ disk = [r \in Runs |-> disk[r]]
    BY DEF ClarificationInit
  <2> QED BY <2>1, <2>2, <2>3 DEF ClarificationTypes, ClarificationInit
<1>4. Counted /\ Progress /\ Sourced
  BY <1>1, <1>2 DEF Counted, Progress, Sourced, ClarificationInit, Asking
<1> QED BY <1>3, <1>4 DEF ClarificationInv


\* A step of a reader keeps what is said of the creator.
LEMMA ReaderStep ==
    ASSUME ClarificationInv, ClarificationTypes', proc'["create"] = proc["create"],
           disk'["create"] = disk["create"], UNCHANGED server,
           proc["read"].at # "idle" \/ disk["create"].name = "final"
    PROVE  ClarificationInv'
BY DEF ClarificationInv, Counted, Progress, Sourced, ClaimHolds

\* The outcome an exception leads to is one of the outcomes.
LEMMA StageIsOutcome ==
    ASSUME NEW p, NEW r, NEW error
    PROVE  StageAfter(p, r, error) \in Outcomes
BY DEF StageAfter, Outcomes

\* A run that ends with an exception goes on to its manifest.
LEMMA RaiseFacts ==
    ASSUME NEW p \in Processes, NEW r \in Runs, NEW error
    PROVE  /\ Raise(p, r, error) \in Processes
           /\ Raise(p, r, error).at = "manifest"
           /\ Raise(p, r, error).stage = StageAfter(p, r, error)
           /\ Raise(p, r, error).posts = p.posts
<1>1. "manifest" \in RunPlaces /\ StageAfter(p, r, error) \in Outcomes
  BY StageIsOutcome DEF RunPlaces
<1>2. Raise(p, r, error) = [p EXCEPT !.at = "manifest", !.stage = StageAfter(p, r, error)]
  BY DEF Raise
<1> QED BY <1>1, <1>2 DEF Processes

\* What a creator raises before its POST claims nothing.
LEMMA UnsentClaimsNothing ==
    ASSUME NEW p \in Processes, p.posts = 0, NEW error \in {"stop", "invalid"}
    PROVE  StageAfter(p, "create", error) \in {"preflight", "evidence-contract"}
BY DEF StageAfter

\* One run's process or directory is replaced by another of its kind.
LEMMA ProcUpdate ==
    ASSUME ClarificationTypes, NEW r \in Runs, NEW p \in Processes, proc' = [proc EXCEPT ![r] = p]
    PROVE  /\ proc' \in [Runs -> Processes]
           /\ proc'[r] = p
           /\ \A s \in Runs : s # r => proc'[s] = proc[s]
BY DEF ClarificationTypes

LEMMA DiskUpdate ==
    ASSUME ClarificationTypes, NEW r \in Runs, NEW d \in Directories, disk' = [disk EXCEPT ![r] = d]
    PROVE  /\ disk' \in [Runs -> Directories]
           /\ disk'[r] = d
           /\ \A s \in Runs : s # r => disk'[s] = disk[s]
BY DEF ClarificationTypes

\* A creator that has not sent its POST may go on asking, or to its manifest
\* with a stage that claims nothing; what it observed is not claimed either.
LEMMA AskingStep ==
    ASSUME ClarificationInv, ClarificationTypes', UNCHANGED server,
           proc["create"].at \in Asking,
           proc'["create"].posts = proc["create"].posts,
           \/ proc'["create"].at \in Asking
           \/ /\ proc'["create"].at = "manifest"
              /\ proc'["create"].stage \in {"preflight", "evidence-contract"},
           proc'["create"].at = "post" => disk'["create"].intent,
           disk["create"].intent => disk'["create"].intent,
           disk'["create"].manifest = disk["create"].manifest,
           disk'["create"].name # "final",
           proc'["read"] = proc["read"], disk'["read"] = disk["read"]
    PROVE  ClarificationInv'
BY DEF ClarificationInv, Counted, Progress, Sourced, ClaimHolds, Asking, Concluded


\* Each record, its fields taken apart.
LEMMA RecordFacts ==
    ASSUME ClarificationTypes, NEW r \in Runs
    PROVE  /\ proc[r] \in Processes /\ disk[r] \in Directories
           /\ proc[r].posts \in Nat /\ proc[r].at \in RunPlaces
BY DEF ClarificationTypes, Processes

LEMMA BeginInv == ASSUME ClarificationInv, NEW r \in Runs, RunBegins(r) PROVE ClarificationInv'
<1> DEFINE p == [proc[r] EXCEPT !.at = "user"]
           d == [disk[r] EXCEPT !.name = "partial"]
<1>0. ClarificationTypes
  BY DEF ClarificationInv
<1>1. /\ proc[r].at = "idle" /\ UNCHANGED server
      /\ proc' = [proc EXCEPT ![r] = p] /\ disk' = [disk EXCEPT ![r] = d]
      /\ r = "read" => disk["create"].name = "final"
  BY DEF RunBegins
<1>2. p \in Processes /\ p.at = "user" /\ p.posts = proc[r].posts
  BY RecordFacts, <1>0 DEF Processes, RunPlaces
<1>3. /\ d \in Directories /\ d.name = "partial" /\ d.intent = disk[r].intent
      /\ d.manifest = disk[r].manifest
  BY RecordFacts, <1>0 DEF Directories
<1> HIDE DEF p, d
<1>4. ClarificationTypes' /\ proc'[r] = p /\ disk'[r] = d
  BY <1>0, <1>1, <1>2, <1>3, ProcUpdate, DiskUpdate DEF ClarificationTypes
<1>5. \A s \in Runs : s # r => proc'[s] = proc[s] /\ disk'[s] = disk[s]
  BY <1>0, <1>1, <1>2, <1>3, ProcUpdate, DiskUpdate
<1>6. CASE r = "create"
  BY <1>1, <1>2, <1>3, <1>4, <1>5, <1>6, AskingStep DEF Asking, Runs
<1>7. CASE r = "read"
  BY <1>1, <1>2, <1>3, <1>4, <1>5, <1>7, ReaderStep DEF Runs
<1> QED BY <1>6, <1>7 DEF Runs

\* A step that changes neither what a creator holds nor where it is in a way
\* that says something: the deadline passes, or the run is killed or stops.
LEMMA QuietStep ==
    ASSUME ClarificationInv, NEW r \in Runs, NEW p \in Processes,
           proc' = [proc EXCEPT ![r] = p], UNCHANGED <<disk, server>>,
           p.posts = proc[r].posts, p.stage = proc[r].stage,
           proc[r].at \notin {"idle", "ended"}, p.at \in {proc[r].at, "dead", "ended"}
    PROVE  ClarificationInv'
<1>0. ClarificationTypes
  BY DEF ClarificationInv
<1>1. ClarificationTypes' /\ proc'[r] = p
  BY <1>0, ProcUpdate DEF ClarificationTypes
<1>2. \A s \in Runs : s # r => proc'[s] = proc[s]
  BY <1>0, ProcUpdate
<1>3. CASE r = "create"
  BY <1>1, <1>3 DEF ClarificationInv, Counted, Progress, Sourced, ClaimHolds, Asking, Concluded
<1>4. CASE r = "read"
  BY <1>1, <1>2, <1>4, ReaderStep DEF Runs
<1> QED BY <1>3, <1>4 DEF Runs

LEMMA LateInv == ASSUME ClarificationInv, NEW r \in Runs, Late(r) PROVE ClarificationInv'
<1> DEFINE p == [proc[r] EXCEPT !.late = TRUE]
<1>1. p \in Processes /\ p.at = proc[r].at /\ p.posts = proc[r].posts /\ p.stage = proc[r].stage
  BY RecordFacts DEF Processes, ClarificationInv
<1>2. proc' = [proc EXCEPT ![r] = p] /\ UNCHANGED <<disk, server>> /\ proc[r].at \notin {"idle", "ended"}
  BY DEF Late
<1> QED BY <1>1, <1>2, QuietStep

LEMMA EndsInv == ASSUME ClarificationInv, NEW r \in Runs, Withheld(r) \/ RunDies(r) PROVE ClarificationInv'
<1>0. PICK end \in {"ended", "dead"} :
         /\ proc' = [proc EXCEPT ![r].at = end] /\ UNCHANGED <<disk, server>>
         /\ proc[r].at \notin {"idle", "ended"}
  BY DEF Withheld, RunDies
<1> DEFINE p == [proc[r] EXCEPT !.at = end]
<1>1. p \in Processes /\ p.at = end /\ p.posts = proc[r].posts /\ p.stage = proc[r].stage
  BY RecordFacts DEF Processes, ClarificationInv, RunPlaces
<1>2. proc' = [proc EXCEPT ![r] = p]
  BY <1>0
<1> QED BY <1>0, <1>1, <1>2, QuietStep

\* An answer, or none, to a question of a run.
LEMMA AskStep ==
    ASSUME ClarificationInv, NEW r \in Runs, NEW p \in Processes, NEW d \in Directories,
           proc' = [proc EXCEPT ![r] = p], disk' = [disk EXCEPT ![r] = d], UNCHANGED server,
           proc[r].at \in {Questions[r][i] : i \in DOMAIN Questions[r]},
           p.posts = proc[r].posts,
           r = "create" => \/ p.at \in {"repository", "commit", "search", "intent"}
                           \/ p.at = "manifest" /\ p.stage \in {"preflight", "evidence-contract"},
           d.name = disk[r].name, d.intent = disk[r].intent, d.manifest = disk[r].manifest
    PROVE  ClarificationInv'
<1>0. ClarificationTypes
  BY DEF ClarificationInv
<1>1. ClarificationTypes' /\ proc'[r] = p /\ disk'[r] = d
  BY <1>0, ProcUpdate, DiskUpdate DEF ClarificationTypes
<1>2. \A s \in Runs : s # r => proc'[s] = proc[s] /\ disk'[s] = disk[s]
  BY <1>0, ProcUpdate, DiskUpdate
<1>3. CASE r = "create"
  <2>1. proc["create"].at \in {"user", "repository", "commit", "search"}
    BY <1>3, AskedFrom
  <2>2. disk["create"].name # "final"
    BY <2>1 DEF ClarificationInv, Progress
  <2> QED BY <1>1, <1>2, <1>3, <2>1, <2>2, AskingStep DEF Asking, Runs
<1>4. CASE r = "read"
  <2>1. proc["read"].at \in {"user", "issue", "comments", "events", "commits"}
    BY <1>4, AskedFrom
  <2> QED BY <1>1, <1>2, <1>4, <2>1, ReaderStep DEF Runs
<1> QED BY <1>3, <1>4 DEF Runs

\* A creator has no POST counted while it asks.
LEMMA NothingPosted ==
    ASSUME ClarificationInv, NEW r \in Runs, r = "create",
           proc[r].at \in {Questions[r][i] : i \in DOMAIN Questions[r]} \cup {"intent", "post"}
    PROVE  proc[r].posts = 0
<1>1. proc["create"].at \in Asking
  BY AskedFrom DEF Asking
<1> QED BY <1>1 DEF ClarificationInv, Progress, Counted

LEMMA GetUnansweredInv == ASSUME ClarificationInv, NEW r \in Runs, GetUnanswered(r) PROVE ClarificationInv'
<1> DEFINE sent == IF Spent(proc[r], r) THEN proc[r] ELSE [proc[r] EXCEPT !.requests = @ + 1]
           p == Raise(sent, r, "stop")
<1>0. ClarificationTypes
  BY DEF ClarificationInv
<1>1. /\ proc' = [proc EXCEPT ![r] = p] /\ UNCHANGED <<disk, server>>
      /\ proc[r].at \in {Questions[r][i] : i \in DOMAIN Questions[r]}
  BY DEF GetUnanswered
<1>2. sent \in Processes /\ sent.posts = proc[r].posts
  BY RecordFacts, <1>0 DEF Processes
<1> HIDE DEF sent
<1>3. p \in Processes /\ p.at = "manifest" /\ p.stage = StageAfter(sent, r, "stop") /\ p.posts = proc[r].posts
  BY <1>2, RaiseFacts
<1>4. r = "create" => p.stage \in {"preflight", "evidence-contract"}
  BY <1>1, <1>2, <1>3, NothingPosted, UnsentClaimsNothing
<1> HIDE DEF p
<1>5. disk[r] \in Directories /\ disk' = [disk EXCEPT ![r] = disk[r]]
  BY <1>0, <1>1 DEF ClarificationTypes
<1> QED BY <1>1, <1>3, <1>4, <1>5, AskStep


LEMMA GetAnsweredInv == ASSUME ClarificationInv, NEW r \in Runs, GetAnswered(r) PROVE ClarificationInv'
<1>0. ClarificationTypes
  BY DEF ClarificationInv
<1>1. PICK json \in BOOLEAN, recorded \in BOOLEAN, more \in BOOLEAN, verdict \in Verdict(r)[proc[r].at] :
         LET q == proc[r].at
             sent == [proc[r] EXCEPT !.requests = @ + 1, !.records = @ + 1]
             read == json /\ Readable
             next == [sent EXCEPT
                         !.account = @ \/ q = "user",
                         !.paged = @ \/ (q = "events" /\ more),
                         !.commits = IF q = "commits" THEN @ + 1 ELSE @,
                         !.at = IF q = "commits" /\ more /\ sent.commits + 1 < MaxCommits THEN "commits"
                                ELSE Following(r, q)]
         IN  IF q = "user" /\ (~read \/ (verdict = "invalid" /\ ~recorded)) THEN
                 /\ proc' = [proc EXCEPT ![r] = Raise(sent, r, IF read THEN "invalid" ELSE "stop")]
                 /\ UNCHANGED disk
             ELSE IF ~recorded THEN
                 /\ proc' = [proc EXCEPT ![r] = Raise([sent EXCEPT !.records = @ - 1], r, "invalid")]
                 /\ UNCHANGED disk
             ELSE
                 /\ disk' = [disk EXCEPT ![r].observed = @ + 1]
                 /\ proc' = [proc EXCEPT ![r] =
                       IF ~read THEN Raise(sent, r, "stop")
                       ELSE IF verdict # "ok" THEN Raise(sent, r, verdict)
                       ELSE next]
  BY Zenon DEF GetAnswered
<1>2. proc[r].at \in {Questions[r][i] : i \in DOMAIN Questions[r]} /\ UNCHANGED server
  BY Zenon DEF GetAnswered
<1> DEFINE q == proc[r].at
           sent == [proc[r] EXCEPT !.requests = @ + 1, !.records = @ + 1]
           onward == IF q = "commits" /\ more /\ sent.commits + 1 < MaxCommits THEN "commits"
                     ELSE Following(r, q)
           account == sent.account \/ q = "user"
           paged == sent.paged \/ (q = "events" /\ more)
           next == [sent EXCEPT !.account = @ \/ q = "user", !.paged = @ \/ (q = "events" /\ more),
                                 !.commits = IF q = "commits" THEN @ + 1 ELSE @, !.at = onward]
           d == [disk[r] EXCEPT !.observed = @ + 1]
<1>3. sent \in Processes /\ sent.posts = proc[r].posts /\ sent.records = proc[r].records + 1
  <2>1. /\ proc[r] \in Processes /\ proc[r].requests + 1 \in Nat /\ proc[r].records + 1 \in Nat
        /\ proc[r].records \in Nat
    BY <1>0, RecordFacts DEF Processes
  <2> QED BY <2>1 DEF Processes
<1>4. d \in Directories /\ d.name = disk[r].name /\ d.intent = disk[r].intent /\ d.manifest = disk[r].manifest
  BY <1>0, RecordFacts DEF Directories
<1>5. onward \in RunPlaces /\ (r = "create" => onward \in {"repository", "commit", "search", "intent"})
  <2>1. CASE r = "create"
    <3>1. q \in {"user", "repository", "commit", "search"}
      BY <1>2, <2>1, AskedFrom
    <3>2. Following("create", q) \in {"repository", "commit", "search", "intent"}
      BY <3>1, FollowingFacts
    <3> QED BY <2>1, <3>1, <3>2 DEF RunPlaces
  <2>2. CASE r = "read"
    <3>1. q \in {"user", "issue", "comments", "events", "commits"}
      BY <1>2, <2>2, AskedFrom
    <3>2. Following("read", q) \in {"issue", "comments", "events", "commits", "answered"}
      BY <3>1, FollowingFacts
    <3> QED BY <2>2, <3>1, <3>2 DEF RunPlaces
  <2> QED BY <2>1, <2>2 DEF Runs
<1>6. next \in Processes /\ next.posts = proc[r].posts /\ next.at = onward
  <2> DEFINE commits == IF q = "commits" THEN sent.commits + 1 ELSE sent.commits
             plain == [sent EXCEPT !.account = account, !.paged = paged, !.commits = commits, !.at = onward]
  <2>1. next = plain
    OBVIOUS
  <2>2. account \in BOOLEAN /\ paged \in BOOLEAN
    OBVIOUS
  <2> HIDE DEF sent, onward, account, paged, q
  <2>3. commits \in Nat
    BY <1>3 DEF Processes
  <2> HIDE DEF commits
  <2>4. plain \in Processes /\ plain.posts = proc[r].posts /\ plain.at = onward
    BY <1>3, <1>5, <2>2, <2>3 DEF Processes
  <2> HIDE DEF next, plain
  <2> QED BY <2>1, <2>4
<1>7. [sent EXCEPT !.records = @ - 1] \in Processes /\ [sent EXCEPT !.records = @ - 1].posts = proc[r].posts
  <2>1. sent.records - 1 \in Nat
    BY <1>0, <1>3, RecordFacts DEF Processes
  <2> HIDE DEF sent
  <2> QED BY <1>3, <2>1 DEF Processes
<1> HIDE DEF sent, next, d, onward, q
<1>8. disk[r] \in Directories /\ disk = [disk EXCEPT ![r] = disk[r]]
  BY <1>0 DEF ClarificationTypes
<1>9. r = "create" => proc[r].posts = 0
  BY <1>2, NothingPosted
<1>10. ASSUME NEW p \in Processes, p.posts = proc[r].posts, NEW error,
              r = "create" => error \in {"stop", "invalid"},
              proc' = [proc EXCEPT ![r] = Raise(p, r, error)],
              disk' = disk \/ disk' = [disk EXCEPT ![r] = d]
       PROVE  ClarificationInv'
  <2>1. Raise(p, r, error) \in Processes /\ Raise(p, r, error).posts = proc[r].posts
        /\ Raise(p, r, error).at = "manifest" /\ Raise(p, r, error).stage = StageAfter(p, r, error)
    BY <1>10, RaiseFacts
  <2>2. r = "create" => StageAfter(p, r, error) \in {"preflight", "evidence-contract"}
    BY <1>9, <1>10, UnsentClaimsNothing
  <2>3. disk' = [disk EXCEPT ![r] = d] \/ disk' = [disk EXCEPT ![r] = disk[r]]
    BY <1>8, <1>10
  <2> QED BY <1>2, <1>4, <1>8, <1>10, <2>1, <2>2, <2>3, AskStep
<1>11. verdict # "ok" /\ r = "create" => verdict \in {"stop", "invalid"}
  <2>1. r = "create" => q \in {"user", "repository", "commit", "search"}
    BY <1>2, AskedFrom DEF q
  <2> QED BY <1>1, <2>1 DEF Verdict, CreateVerdict, q
<1>12. CASE q = "user" /\ (~(json /\ Readable) \/ (verdict = "invalid" /\ ~recorded))
  <2>1. /\ proc' = [proc EXCEPT ![r] = Raise(sent, r, IF json /\ Readable THEN "invalid" ELSE "stop")]
        /\ disk' = disk
    BY <1>1, <1>12, Zenon DEF q, sent
  <2> QED BY <1>3, <1>10, <2>1
<1>13. CASE ~(q = "user" /\ (~(json /\ Readable) \/ (verdict = "invalid" /\ ~recorded))) /\ ~recorded
  <2>1. /\ proc' = [proc EXCEPT ![r] = Raise([sent EXCEPT !.records = @ - 1], r, "invalid")]
        /\ disk' = disk
    BY <1>1, <1>13, Zenon DEF q, sent
  <2> QED BY <1>7, <1>10, <2>1
<1>14. CASE ~(q = "user" /\ (~(json /\ Readable) \/ (verdict = "invalid" /\ ~recorded))) /\ recorded
  <2>1. /\ proc' = [proc EXCEPT ![r] = IF ~(json /\ Readable) THEN Raise(sent, r, "stop")
                                      ELSE IF verdict # "ok" THEN Raise(sent, r, verdict)
                                      ELSE next]
        /\ disk' = [disk EXCEPT ![r] = d]
    BY <1>1, <1>14, Zenon DEF q, sent, next, onward, d
  <2>2. CASE ~(json /\ Readable)
    BY <1>3, <1>10, <2>1, <2>2
  <2>3. CASE json /\ Readable /\ verdict # "ok"
    BY <1>3, <1>10, <1>11, <2>1, <2>3
  <2>4. CASE json /\ Readable /\ verdict = "ok"
    BY <1>2, <1>4, <1>5, <1>6, <2>1, <2>4, AskStep
  <2> QED BY <2>2, <2>3, <2>4
<1> QED BY <1>12, <1>13, <1>14

LEMMA ReadEndsInv == ASSUME ClarificationInv, ReadEnds PROVE ClarificationInv'
<1>0. ClarificationTypes /\ "read" \in Runs
  BY DEF ClarificationInv, Runs
<1>1. PICK chosen \in {"evidence-limit", "response-collected", "awaiting-upstream"} :
         /\ proc["read"].at \in {"commits", "answered"}
         /\ proc' = [proc EXCEPT !["read"].at = "manifest", !["read"].stage = chosen]
         /\ UNCHANGED <<disk, server>>
  BY DEF ReadEnds
<1> DEFINE p == [proc["read"] EXCEPT !.at = "manifest", !.stage = chosen]
<1>2. p \in Processes
  BY <1>0, RecordFacts DEF Processes, RunPlaces, Outcomes
<1>3. proc' = [proc EXCEPT !["read"] = p]
  BY <1>0, <1>1 DEF ClarificationTypes
<1> HIDE DEF p
<1>4. proc'["create"] = proc["create"] /\ ClarificationTypes'
  BY <1>0, <1>1, <1>2, <1>3, ProcUpdate DEF ClarificationTypes, Runs
<1> QED BY <1>1, <1>4, ReaderStep


\* The intent is durable before the request may leave.
LEMMA PostIntentInv == ASSUME ClarificationInv, PostIntent PROVE ClarificationInv'
<1> DEFINE p == [proc["create"] EXCEPT !.at = "post"]
           d == [disk["create"] EXCEPT !.intent = TRUE]
<1>0. ClarificationTypes /\ "create" \in Runs
  BY DEF ClarificationInv, Runs
<1>1. /\ proc["create"].at = "intent" /\ UNCHANGED server
      /\ proc' = [proc EXCEPT !["create"] = p] /\ disk' = [disk EXCEPT !["create"] = d]
  BY DEF PostIntent
<1>2. p \in Processes /\ p.at = "post" /\ p.posts = proc["create"].posts
  BY <1>0, RecordFacts DEF Processes, RunPlaces
<1>3. /\ d \in Directories /\ d.name = disk["create"].name /\ d.intent
      /\ d.manifest = disk["create"].manifest
  BY <1>0, RecordFacts DEF Directories
<1> HIDE DEF p, d
<1>4. ClarificationTypes' /\ proc'["create"] = p /\ disk'["create"] = d /\ disk'["read"] = disk["read"]
  BY <1>0, <1>1, <1>2, <1>3, ProcUpdate, DiskUpdate DEF ClarificationTypes, Runs
<1>5. disk["create"].name # "final"
  BY <1>1 DEF ClarificationInv, Progress
<1> QED BY <1>1, <1>2, <1>3, <1>4, <1>5, AskingStep DEF Asking

LEMMA PostRefusedInv == ASSUME ClarificationInv, PostRefused PROVE ClarificationInv'
<1> DEFINE p == Raise(proc["create"], "create", "stop")
<1>0. ClarificationTypes /\ "create" \in Runs
  BY DEF ClarificationInv, Runs
<1>1. /\ proc["create"].at = "post" /\ UNCHANGED <<disk, server>> /\ proc' = [proc EXCEPT !["create"] = p]
  BY DEF PostRefused
<1>2. p \in Processes /\ p.at = "manifest" /\ p.posts = proc["create"].posts
      /\ p.stage = StageAfter(proc["create"], "create", "stop")
  BY <1>0, RecordFacts, RaiseFacts
<1>3. p.stage \in {"preflight", "evidence-contract"}
  BY <1>0, <1>1, <1>2, RecordFacts, NothingPosted, UnsentClaimsNothing
<1> HIDE DEF p
<1>4. ClarificationTypes' /\ proc'["create"] = p
  BY <1>0, <1>1, <1>2, ProcUpdate DEF ClarificationTypes
<1>5. disk["create"].name # "final"
  BY <1>1 DEF ClarificationInv, Progress
<1> QED BY <1>1, <1>2, <1>3, <1>4, <1>5, AskingStep DEF Asking

\* The request leaves once, with its intent on disk.
LEMMA PostSendInv == ASSUME ClarificationInv, PostSend PROVE ClarificationInv'
<1> DEFINE p == [proc["create"] EXCEPT !.requests = @ + 1, !.posts = @ + 1, !.at = "posted"]
<1>0. ClarificationTypes /\ "create" \in Runs
  BY DEF ClarificationInv, Runs
<1>1. /\ proc["create"].at = "post" /\ UNCHANGED disk /\ proc' = [proc EXCEPT !["create"] = p]
  BY DEF PostSend
<1>2. PICK effect \in {"now", "later", "never"} :
         server' = [posts |-> server.posts + 1, issue |-> effect = "now", pending |-> effect = "later"]
  BY DEF PostSend
<1>3. p \in Processes /\ p.at = "posted" /\ p.posts = proc["create"].posts + 1
  <2>1. proc["create"] \in Processes /\ proc["create"].requests + 1 \in Nat /\ proc["create"].posts + 1 \in Nat
    BY <1>0, RecordFacts DEF Processes
  <2> QED BY <2>1 DEF Processes, RunPlaces
<1> HIDE DEF p
<1>4. server.posts = 0 /\ proc["create"].posts = 0 /\ disk["create"].intent
  BY <1>1 DEF ClarificationInv, Progress, Counted, Asking
<1>5. server' \in [posts : Nat, issue : BOOLEAN, pending : BOOLEAN] /\ server'.posts = 1
  BY <1>2, <1>4
<1>6. ClarificationTypes' /\ proc'["create"] = p
  BY <1>0, <1>1, <1>3, <1>5, ProcUpdate DEF ClarificationTypes
<1>7. disk["create"].manifest = NoManifest /\ disk["create"].name # "final"
  BY <1>1 DEF ClarificationInv, Progress, Concluded
<1>8. Counted' /\ Progress' /\ Sourced'
  BY <1>1, <1>3, <1>4, <1>5, <1>6, <1>7 DEF ClarificationInv, Counted, Progress, Sourced, Asking
<1> QED BY <1>6, <1>8 DEF ClarificationInv

\* A POST whose answer was lost may still take effect, and no evidence says it
\* will not.
LEMMA IssueAppearsInv == ASSUME ClarificationInv, IssueAppears PROVE ClarificationInv'
<1>1. /\ server.pending /\ UNCHANGED <<proc, disk>> /\ server' = [server EXCEPT !.issue = TRUE, !.pending = FALSE]
      /\ server \in [posts : Nat, issue : BOOLEAN, pending : BOOLEAN]
  BY DEF IssueAppears, ClarificationInv, ClarificationTypes
<1>2. server' \in [posts : Nat, issue : BOOLEAN, pending : BOOLEAN] /\ server'.posts = server.posts
      /\ server'.issue
  BY <1>1
<1> QED BY <1>1, <1>2 DEF ClarificationInv, ClarificationTypes, Counted, Progress, Sourced, ClaimHolds, Asking

\* What the creator makes of its POST's answer, once the request has left.
LEMMA PostedStep ==
    ASSUME ClarificationInv, ClarificationTypes', UNCHANGED server,
           proc["create"].at = "posted", proc'["create"].at = "manifest",
           proc'["create"].posts = proc["create"].posts, ClaimHolds(proc'["create"].stage),
           disk'["create"].name = disk["create"].name, disk'["create"].intent = disk["create"].intent,
           disk'["create"].manifest = disk["create"].manifest,
           proc'["read"] = proc["read"], disk'["read"] = disk["read"]
    PROVE  ClarificationInv'
BY DEF ClarificationInv, Counted, Progress, Sourced, ClaimHolds, Asking, Concluded

LEMMA PostUnansweredInv == ASSUME ClarificationInv, PostUnanswered PROVE ClarificationInv'
<1> DEFINE p == Raise(proc["create"], "create", "ambiguous")
<1>0. ClarificationTypes /\ "create" \in Runs
  BY DEF ClarificationInv, Runs
<1>1. /\ proc["create"].at = "posted" /\ UNCHANGED <<disk, server>> /\ proc' = [proc EXCEPT !["create"] = p]
  BY DEF PostUnanswered
<1>2. p \in Processes /\ p.at = "manifest" /\ p.posts = proc["create"].posts
      /\ p.stage = StageAfter(proc["create"], "create", "ambiguous")
  BY <1>0, RecordFacts, RaiseFacts
<1>3. p.stage = "ambiguous-external-write"
  BY <1>2 DEF StageAfter
<1> HIDE DEF p
<1>4. ClarificationTypes' /\ proc'["create"] = p
  BY <1>0, <1>1, <1>2, ProcUpdate DEF ClarificationTypes
<1> QED BY <1>1, <1>2, <1>3, <1>4, PostedStep DEF ClaimHolds

LEMMA PostAnsweredInv == ASSUME ClarificationInv, PostAnswered PROVE ClarificationInv'
<1> DEFINE got == [proc["create"] EXCEPT !.records = @ + 1]
           d == [disk["create"] EXCEPT !.observed = @ + 1, !.observedPost = TRUE]
           created == [got EXCEPT !.issue = TRUE, !.stage = "issue-created", !.at = "manifest"]
<1>0. ClarificationTypes /\ "create" \in Runs
  BY DEF ClarificationInv, Runs
<1>1. PICK status \in {"created", "refused", "other"}, answer \in {"exact", "different", "unaccepted"} :
         /\ status = "created" => server.issue
         /\ status = "refused" => ~server.issue /\ ~server.pending
         /\ proc' = [proc EXCEPT !["create"] =
               IF status # "created"
               THEN Raise(got, "create", IF Uncertain(status) THEN "ambiguous" ELSE "stop")
               ELSE IF ~Readable \/ answer = "different" THEN Raise(got, "create", "ambiguous")
               ELSE IF answer = "unaccepted" THEN Raise(got, "create", "invalid")
               ELSE created]
  BY Zenon DEF PostAnswered
<1>2. /\ proc["create"].at = "posted" /\ UNCHANGED server
      /\ disk' = [disk EXCEPT !["create"].observed = @ + 1, !["create"].observedPost = TRUE]
  BY Zenon DEF PostAnswered
<1>3. disk' = [disk EXCEPT !["create"] = d]
  BY <1>0, <1>2 DEF ClarificationTypes
<1>4. d \in Directories /\ d.name = disk["create"].name /\ d.intent = disk["create"].intent
      /\ d.manifest = disk["create"].manifest
  <2>1. disk["create"] \in Directories /\ disk["create"].observed + 1 \in Nat
    BY <1>0, RecordFacts DEF Directories
  <2> QED BY <2>1 DEF Directories
<1>5. got \in Processes /\ got.posts = proc["create"].posts
  <2>1. proc["create"] \in Processes /\ proc["create"].records + 1 \in Nat
    BY <1>0, RecordFacts DEF Processes
  <2> QED BY <2>1 DEF Processes
<1> HIDE DEF got, d
<1>6. created \in Processes /\ created.posts = got.posts /\ created.at = "manifest"
      /\ created.stage = "issue-created"
  BY <1>5 DEF Processes, RunPlaces, Outcomes
<1> HIDE DEF created
<1>7. ASSUME NEW p \in Processes, proc' = [proc EXCEPT !["create"] = p], p.at = "manifest",
             p.posts = got.posts, ClaimHolds(p.stage)
      PROVE  ClarificationInv'
  <2>1. ClarificationTypes' /\ proc'["create"] = p /\ disk'["create"] = d /\ disk'["read"] = disk["read"]
    BY <1>0, <1>2, <1>3, <1>4, <1>7, ProcUpdate, DiskUpdate DEF ClarificationTypes, Runs
  <2> QED BY <1>2, <1>4, <1>5, <1>7, <2>1, PostedStep
<1>8. ASSUME NEW error, proc' = [proc EXCEPT !["create"] = Raise(got, "create", error)],
             ClaimHolds(StageAfter(got, "create", error))
      PROVE  ClarificationInv'
  <2>1. Raise(got, "create", error) \in Processes /\ Raise(got, "create", error).at = "manifest"
        /\ Raise(got, "create", error).posts = got.posts
        /\ Raise(got, "create", error).stage = StageAfter(got, "create", error)
    BY <1>0, <1>5, RaiseFacts
  <2> QED BY <1>7, <1>8, <2>1
<1>9. /\ ClaimHolds(StageAfter(got, "create", "ambiguous")) /\ ClaimHolds(StageAfter(got, "create", "invalid"))
      /\ ~server.issue /\ ~server.pending => ClaimHolds(StageAfter(got, "create", "stop"))
  BY DEF StageAfter, ClaimHolds
<1>10. CASE status = "other"
  BY <1>1, <1>8, <1>9, <1>10 DEF Uncertain
<1>11. CASE status = "refused"
  BY <1>1, <1>8, <1>9, <1>11 DEF Uncertain
<1>12. CASE status = "created" /\ (~Readable \/ answer = "different")
  BY <1>1, <1>8, <1>9, <1>12
<1>13. CASE status = "created" /\ ~(~Readable \/ answer = "different") /\ answer = "unaccepted"
  BY <1>1, <1>8, <1>9, <1>13
<1>14. CASE status = "created" /\ ~(~Readable \/ answer = "different") /\ answer # "unaccepted"
  <2>1. ClaimHolds("issue-created")
    BY <1>1, <1>14 DEF ClaimHolds
  <2> QED BY <1>1, <1>6, <1>7, <1>14, <2>1
<1> QED BY <1>10, <1>11, <1>12, <1>13, <1>14


\* The manifest says what the process knows.
LEMMA WriteManifestInv == ASSUME ClarificationInv, NEW r \in Runs, WriteManifest(r) PROVE ClarificationInv'
<1> DEFINE m == [stage |-> proc[r].stage, requests |-> proc[r].requests, posts |-> proc[r].posts,
                 records |-> proc[r].records, late |-> proc[r].late, account |-> proc[r].account,
                 issue |-> proc[r].issue, paged |-> proc[r].paged]
           p == [proc[r] EXCEPT !.at = "sums"]
           d == [disk[r] EXCEPT !.manifest = m]
<1>0. ClarificationTypes
  BY DEF ClarificationInv
<1>1. /\ proc[r].at = "manifest" /\ UNCHANGED server
      /\ proc' = [proc EXCEPT ![r] = p] /\ disk' = [disk EXCEPT ![r] = d]
  BY <1>0 DEF WriteManifest, ClarificationTypes
<1>2. p \in Processes /\ p.at = "sums" /\ p.posts = proc[r].posts
  BY <1>0, RecordFacts DEF Processes, RunPlaces
<1>3. m \in [stage : Outcomes, requests : Nat, posts : Nat, records : Nat, late : BOOLEAN,
             account : BOOLEAN, issue : BOOLEAN, paged : BOOLEAN]
  BY <1>0, RecordFacts DEF Processes
<1>4. m # NoManifest
  <2>1. "posts" \in DOMAIN m /\ "posts" \notin DOMAIN NoManifest
    BY DEF NoManifest
  <2> QED BY <2>1
<1>5. m.stage = proc[r].stage /\ m.posts = proc[r].posts
  OBVIOUS
<1> HIDE DEF m
<1>6. /\ d \in Directories /\ d.manifest = m /\ d.name = disk[r].name
      /\ d.intent = disk[r].intent
  BY <1>0, <1>3, RecordFacts DEF Directories
<1> HIDE DEF p, d
<1>7. ClarificationTypes' /\ proc'[r] = p /\ disk'[r] = d
  BY <1>0, <1>1, <1>2, <1>6, ProcUpdate, DiskUpdate DEF ClarificationTypes
<1>8. \A s \in Runs : s # r => proc'[s] = proc[s] /\ disk'[s] = disk[s]
  BY <1>0, <1>1, <1>2, <1>6, ProcUpdate, DiskUpdate
<1>9. CASE r = "create"
  BY <1>1, <1>2, <1>4, <1>5, <1>6, <1>7, <1>8, <1>9
     DEF ClarificationInv, Counted, Progress, Sourced, ClaimHolds, Asking, Concluded, Runs
<1>10. CASE r = "read"
  BY <1>1, <1>2, <1>6, <1>7, <1>8, <1>10, ReaderStep DEF Runs
<1> QED BY <1>9, <1>10 DEF Runs

\* The checksums, and the final name.
LEMMA FinaliseInv ==
    ASSUME ClarificationInv, NEW r \in Runs, WriteSums(r) \/ Publish(r)
    PROVE  ClarificationInv'
<1>0. ClarificationTypes
  BY DEF ClarificationInv
<1>1. PICK end \in {"publish", "ended"}, d \in Directories :
         /\ proc' = [proc EXCEPT ![r].at = end] /\ disk' = [disk EXCEPT ![r] = d] /\ UNCHANGED server
         /\ d.intent = disk[r].intent /\ d.manifest = disk[r].manifest
         /\ \/ end = "publish" /\ d.name = disk[r].name
            \/ end = "ended" /\ d.name = "final"
         /\ proc[r].at \in {"sums", "publish"}
  <2>1. CASE WriteSums(r)
    <3> DEFINE d == [disk[r] EXCEPT !.sums = TRUE]
    <3>1. /\ d \in Directories /\ d.intent = disk[r].intent /\ d.manifest = disk[r].manifest
          /\ d.name = disk[r].name
      BY <1>0, RecordFacts DEF Directories
    <3>2. /\ proc' = [proc EXCEPT ![r].at = "publish"] /\ disk' = [disk EXCEPT ![r] = d] /\ UNCHANGED server
          /\ proc[r].at = "sums"
      BY <2>1 DEF WriteSums
    <3> HIDE DEF d
    <3> QED BY <3>1, <3>2
  <2>2. CASE Publish(r)
    <3> DEFINE d == [disk[r] EXCEPT !.name = "final"]
    <3>1. /\ d \in Directories /\ d.intent = disk[r].intent /\ d.manifest = disk[r].manifest
          /\ d.name = "final"
      BY <1>0, RecordFacts DEF Directories
    <3>2. /\ proc' = [proc EXCEPT ![r].at = "ended"] /\ disk' = [disk EXCEPT ![r] = d] /\ UNCHANGED server
          /\ proc[r].at = "publish"
      BY <2>2 DEF Publish
    <3> HIDE DEF d
    <3> QED BY <3>1, <3>2
  <2> QED BY <2>1, <2>2
<1> DEFINE p == [proc[r] EXCEPT !.at = end]
<1>2. p \in Processes /\ p.at = end /\ p.posts = proc[r].posts /\ proc' = [proc EXCEPT ![r] = p]
  BY <1>0, <1>1, RecordFacts DEF Processes, RunPlaces
<1> HIDE DEF p
<1>3. ClarificationTypes' /\ proc'[r] = p /\ disk'[r] = d
  BY <1>0, <1>1, <1>2, ProcUpdate, DiskUpdate DEF ClarificationTypes
<1>4. \A s \in Runs : s # r => proc'[s] = proc[s] /\ disk'[s] = disk[s]
  BY <1>0, <1>1, <1>2, ProcUpdate, DiskUpdate
<1>5. CASE r = "create"
  BY <1>1, <1>2, <1>3, <1>4, <1>5
     DEF ClarificationInv, Counted, Progress, Sourced, ClaimHolds, Asking, Concluded, Runs
<1>6. CASE r = "read"
  <2>1. disk["create"] = disk'["create"] /\ proc["create"] = proc'["create"]
    BY <1>4, <1>6 DEF Runs
  <2> QED BY <1>1, <1>2, <1>3, <1>6, <2>1, ReaderStep
<1> QED BY <1>5, <1>6 DEF Runs

LEMMA ClarificationNextInv ==
    ClarificationInv /\ [ClarificationNext]_clarificationVars => ClarificationInv'
<1> SUFFICES ASSUME ClarificationInv, [ClarificationNext]_clarificationVars PROVE ClarificationInv'
  OBVIOUS
<1>1. CASE UNCHANGED clarificationVars
  BY <1>1 DEF clarificationVars, ClarificationInv, ClarificationTypes, Counted, Progress, Sourced, ClaimHolds
<1>2. CASE ClarificationNext
  <2>1. ASSUME NEW r \in Runs,
               \/ RunBegins(r) \/ Late(r) \/ GetUnanswered(r) \/ GetAnswered(r)
               \/ WriteManifest(r) \/ Withheld(r) \/ WriteSums(r) \/ Publish(r) \/ RunDies(r)
        PROVE  ClarificationInv'
    BY <2>1, BeginInv, LateInv, GetUnansweredInv, GetAnsweredInv, WriteManifestInv, FinaliseInv, EndsInv
  <2>2. CASE ReadEnds \/ PostIntent \/ PostRefused \/ PostSend \/ PostUnanswered \/ PostAnswered \/ IssueAppears
    BY <2>2, ReadEndsInv, PostIntentInv, PostRefusedInv, PostSendInv, PostUnansweredInv, PostAnsweredInv,
       IssueAppearsInv
  <2> QED BY <1>2, <2>1, <2>2 DEF ClarificationNext
<1> QED BY <1>1, <1>2

LEMMA ClarificationInvariant == ClarificationSpec => []ClarificationInv
<1> QED BY ClarificationInitInv, ClarificationNextInv, PTL DEF ClarificationSpec

\* EvidenceTruth: a POST that was sent has its durable intent, and evidence
\* that validates, the creator's and the reader's, agrees with GitHub, wherever
\* a run was killed and whatever answers were lost; with the screen of the
\* answers as it is written and as its message describes it.
THEOREM EvidenceIsTrue == ClarificationSpec => []EvidenceTruth
<1>1. ClarificationInv => EvidenceTruth
  <2> SUFFICES ASSUME ClarificationInv PROVE EvidenceTruth OBVIOUS
  <2>1. server.posts > 0 => disk["create"].intent
    BY DEF ClarificationInv, Counted, Progress
  <2>2. ASSUME disk["create"].name = "final", ManifestValid("create")
        PROVE  LET chosen == disk["create"].manifest.stage
               IN  /\ chosen \in {"preflight", "evidence-contract"} => server.posts = 0
                   /\ chosen = "external-write-rejected" => ~server.issue /\ ~server.pending
                   /\ chosen = "issue-created" => server.issue
    <3>1. /\ StageValid(disk["create"].manifest) /\ disk["create"].manifest.posts = server.posts
          /\ ClaimHolds(disk["create"].manifest.stage)
      BY <2>2 DEF ManifestValid, ClarificationInv, Progress
    <3> QED BY <3>1 DEF StageValid, ClaimHolds
  <2>3. ASSUME disk["read"].name = "final", Valid("read") PROVE server.issue
    <3>1. ManifestValid("create") /\ disk["create"].manifest.stage = "issue-created"
      BY <2>3 DEF Valid, SourceValid
    <3>2. disk["create"].name = "final"
      BY <2>3 DEF ClarificationInv, Sourced
    <3> QED BY <2>2, <3>1, <3>2
  <2> QED BY <2>1, <2>2, <2>3 DEF EvidenceTruth, Valid
<1> QED BY <1>1, ClarificationInvariant, PTL

\* The public write happens at most once, whatever is retried, lost or killed:
\* the creator posts once and the reader never.
THEOREM OneWrite == ClarificationSpec => [](server.posts <= 1)
<1>1. ClarificationInv => server.posts <= 1
  BY DEF ClarificationInv, Counted
<1> QED BY <1>1, ClarificationInvariant, PTL

(***************************************************************************)
(* The licence review.                                                     *)
(***************************************************************************)
\* The three records and where collect may be.
ReviewShape ==
    /\ DOMAIN review = {"at", "n", "todo", "outcome", "late"}
    /\ DOMAIN session = {"requests", "listed", "answered"}
    /\ DOMAIN evidence = {"name", "files", "commits", "texts", "mapped", "manifest", "sums", "sound"}
    /\ review.n \in 1..Len(Commits)

\* The commits up to the i-th, and the packages pinned to them.
CommitsUpTo(i) == {Commits[j] : j \in 1..i}
PackagesUpTo(i) == UNION {PackagesAt[Commits[j]] : j \in 1..i}

\* The commits are taken in their order, none is left out.
InOrder ==
    /\ evidence.commits \subseteq CommitsUpTo(Len(Commits))
    /\ review.at \in {"preflight", "commit", "tree"} =>
          /\ CommitsUpTo(review.n - 1) \subseteq evidence.commits
          /\ DOMAIN evidence.mapped = PackagesUpTo(review.n - 1)
    /\ review.at \in {"blobs", "map"} =>
          /\ CommitsUpTo(review.n) \subseteq evidence.commits
          /\ DOMAIN evidence.mapped = PackagesUpTo(review.n - 1)
    /\ review.at = "judge" =>
          /\ CommitsUpTo(Len(Commits)) \subseteq evidence.commits
          /\ DOMAIN evidence.mapped = PackagesUpTo(Len(Commits))

\* A package is credited with what is in files of its own, and stays so.
Credited ==
    /\ \A b \in DOMAIN evidence.texts : b = <<b[1], b[2]>>
    /\ \A p \in DOMAIN evidence.mapped :
          LET m == evidence.mapped[p]
          IN  /\ m.files \subseteq DOMAIN evidence.texts
              /\ m.detected = UNION {evidence.texts[b] : b \in m.files}
              /\ \A b \in m.files :
                    /\ b[2] \in Initial[p] \cup References[p]
                    /\ \E i \in DOMAIN Commits : b[1] = Commits[i] /\ p \in PackagesAt[Commits[i]]

\* A pass was judged with everything there.
Whole ==
    /\ evidence.commits = CommitsUpTo(Len(Commits))
    /\ DOMAIN evidence.mapped = PackagesUpTo(Len(Commits))
    /\ \A p \in DOMAIN evidence.mapped : Missing(p) = {}

Judged ==
    /\ review.outcome \in {"none", "PASS", "STOP", "INVALID"}
    /\ review.outcome = "PASS" => Whole /\ review.at \in {"sidecars", "sums", "rename", "verify", "ended", "dead"}
    /\ review.at = "sidecars" => review.outcome # "none"

\* The manifest was validated when it was written, and what it was validated
\* against does not change after that; only then comes the final name.
Recorded ==
    /\ evidence.manifest # "none" =>
          /\ evidence.manifest = review.outcome
          /\ review.at \in {"sums", "rename", "verify", "ended", "dead"}
          /\ NetworkContract(FALSE) /\ RecordsHold(evidence.manifest)
    /\ review.at \in {"sums", "rename", "verify"} => evidence.manifest # "none"
    /\ review.at \in {"rename", "verify"} => (evidence.sound => evidence.sums = "match")
    /\ evidence.name = "final" =>
          /\ review.at \in {"verify", "ended", "dead"} /\ evidence.manifest # "none"
          /\ evidence.sound => evidence.sums = "match"
          /\ review.at = "ended" => evidence.sums = "match"

ReviewInv == ReviewShape /\ InOrder /\ Credited /\ Judged /\ Recorded

\* Where a review still collects.
Gathering == {"preflight", "commit", "tree", "blobs", "map", "judge"}

\* A step of the collection that ends in no manifest.
LEMMA CollectingStep ==
    ASSUME ReviewInv, review.at \in Gathering, ReviewShape', InOrder', Credited',
           evidence'.manifest = evidence.manifest, evidence'.name \in {evidence.name, "partial"},
           \/ review'.at \in Gathering /\ review'.outcome = review.outcome
           \/ review'.at = "sidecars" /\ review'.outcome \in {"STOP", "INVALID"}
    PROVE  ReviewInv'
<1>1. review.outcome # "PASS" /\ evidence.manifest = "none" /\ evidence.name # "final"
  BY DEF ReviewInv, Judged, Recorded, Gathering
<1>2. Judged'
  BY <1>1 DEF ReviewInv, Judged, Gathering
<1>3. Recorded'
  BY <1>1 DEF Recorded, Gathering
<1> QED BY <1>2, <1>3 DEF ReviewInv

\* What the evidence says of texts and packages does not depend on the rest.
LEMMA SameTexts ==
    ASSUME Credited, evidence'.texts = evidence.texts, evidence'.mapped = evidence.mapped
    PROVE  Credited'
BY DEF Credited

\* The process ends with an exception of the collection.
LEMMA RaisedStep ==
    ASSUME ReviewInv, review.at \in Gathering, NEW outcome \in {"STOP", "INVALID"},
           review' = Raised(outcome), ReviewShape',
           evidence'.commits \subseteq CommitsUpTo(Len(Commits)), Credited',
           evidence'.manifest = evidence.manifest, evidence'.name = evidence.name
    PROVE  ReviewInv'
<1>1. review'.at = "sidecars" /\ review'.outcome = outcome
  BY DEF Raised, ReviewInv, ReviewShape
<1>2. InOrder'
  BY <1>1 DEF InOrder
<1> QED BY <1>1, <1>2, CollectingStep

\* Raising an exception and changing single fields keeps the records' shape.
LEMMA RaisedShape ==
    ASSUME ReviewShape, NEW outcome
    PROVE  /\ DOMAIN Raised(outcome) = DOMAIN review
           /\ Raised(outcome).n = review.n
BY DEF ReviewShape, Raised

LEMMA ReviewInitInv == ReviewInit => ReviewInv
<1> SUFFICES ASSUME ReviewInit PROVE ReviewInv OBVIOUS
<1>1. /\ review = [at |-> "preflight", n |-> 1, todo |-> {}, outcome |-> "none", late |-> FALSE]
      /\ session = [requests |-> 0, listed |-> 0, answered |-> {}]
      /\ evidence = [name |-> "none", files |-> {}, commits |-> {}, texts |-> << >>, mapped |-> << >>,
                     manifest |-> "none", sums |-> "none", sound |-> TRUE]
  BY DEF ReviewInit
<1>2. Len(Commits) \in Nat \ {0}
  BY ReviewAssumption
<1>3. ReviewShape
  BY <1>1, <1>2 DEF ReviewShape
<1>4. DOMAIN evidence.mapped = {} /\ DOMAIN evidence.texts = {}
  BY <1>1
<1>5. CommitsUpTo(review.n - 1) = {} /\ PackagesUpTo(review.n - 1) = {}
  BY <1>1 DEF CommitsUpTo, PackagesUpTo
<1>6. InOrder
  BY <1>1, <1>4, <1>5 DEF InOrder
<1>7. Credited
  BY <1>4 DEF Credited
<1>8. Judged /\ Recorded
  BY <1>1 DEF Judged, Recorded
<1> QED BY <1>3, <1>6, <1>7, <1>8 DEF ReviewInv

LEMMA ReviewBeginsInv == ReviewInv /\ ReviewBegins => ReviewInv'
<1> SUFFICES ASSUME ReviewInv, ReviewBegins PROVE ReviewInv' OBVIOUS
<1>1. /\ review.at = "preflight" /\ review'.at = "commit" /\ review'.n = review.n
      /\ review'.outcome = review.outcome
      /\ evidence'.name = "partial" /\ evidence'.manifest = evidence.manifest
      /\ evidence'.commits = evidence.commits /\ evidence'.texts = evidence.texts
      /\ evidence'.mapped = evidence.mapped
  BY DEF ReviewBegins, ReviewInv, ReviewShape
<1>2. ReviewShape'
  BY DEF ReviewBegins, ReviewInv, ReviewShape
<1>3. InOrder'
  BY <1>1 DEF ReviewInv, InOrder, CommitsUpTo, PackagesUpTo
<1> QED BY <1>1, <1>2, <1>3, CollectingStep, SameTexts DEF Gathering, ReviewInv

\* What was validated and judged stays so while the records stay what they are.
LEMMA KeptRecords ==
    ASSUME Credited, UNCHANGED session, evidence'.files = evidence.files, evidence'.commits = evidence.commits,
           evidence'.texts = evidence.texts, evidence'.mapped = evidence.mapped,
           evidence'.manifest = evidence.manifest
    PROVE  /\ Credited' /\ (Whole => Whole')
           /\ RecordsHold(evidence.manifest) => RecordsHold(evidence.manifest)'
           /\ NetworkContract(FALSE) => NetworkContract(FALSE)'
<1>1. Credited'
  BY SameTexts
<1>2. Whole => Whole'
  BY DEF Whole, Missing
<1>3. RecordsHold(evidence.manifest) => RecordsHold(evidence.manifest)'
  BY DEF RecordsHold
<1>4. NetworkContract(FALSE) => NetworkContract(FALSE)'
  BY DEF NetworkContract
<1> QED BY <1>1, <1>2, <1>3, <1>4

\* The 600 seconds are looked at when something is sent and in the manifest.
LEMMA DeadlinePassesInv == ReviewInv /\ DeadlinePasses => ReviewInv'
<1> SUFFICES ASSUME ReviewInv, DeadlinePasses PROVE ReviewInv' OBVIOUS
<1>1. /\ review'.at = review.at /\ review'.n = review.n /\ review'.outcome = review.outcome
      /\ UNCHANGED <<session, evidence>> /\ DOMAIN review' = DOMAIN review
  BY DEF DeadlinePasses, ReviewInv, ReviewShape
<1>2. ReviewShape'
  BY <1>1 DEF ReviewInv, ReviewShape
<1>3. InOrder'
  BY <1>1 DEF ReviewInv, InOrder, CommitsUpTo, PackagesUpTo
<1>4. Credited' /\ (Whole => Whole') /\ (RecordsHold(evidence.manifest) => RecordsHold(evidence.manifest)')
      /\ (NetworkContract(FALSE) => NetworkContract(FALSE)')
  BY <1>1, KeptRecords DEF ReviewInv
<1>5. Judged' /\ Recorded'
  BY <1>1, <1>4 DEF ReviewInv, Judged, Recorded
<1> QED BY <1>2, <1>3, <1>4, <1>5 DEF ReviewInv

LEMMA GetFailsInv == ReviewInv /\ GetFails => ReviewInv'
<1> SUFFICES ASSUME ReviewInv, GetFails PROVE ReviewInv' OBVIOUS
<1>1. /\ review.at \in Gathering /\ review' = Raised("STOP") /\ UNCHANGED evidence
      /\ DOMAIN session' = DOMAIN session
  BY DEF GetFails, Gathering
<1>2. ReviewShape'
  BY <1>1, RaisedShape DEF ReviewInv, ReviewShape
<1> QED BY <1>1, <1>2, RaisedStep, SameTexts DEF ReviewInv, InOrder

LEMMA CommitAnsweredInv == ReviewInv /\ CommitAnswered => ReviewInv'
<1> SUFFICES ASSUME ReviewInv, CommitAnswered PROVE ReviewInv' OBVIOUS
<1>1. /\ review.at = "commit"
      /\ evidence' = [evidence EXCEPT !.files = @ \cup {<<"commit", Commit, "">>}]
      /\ DOMAIN session' = {"requests", "listed", "answered"}
  BY DEF CommitAnswered, Got
<1>2. PICK verdict \in CommitVerdict :
         review' = IF verdict = "ok" THEN [review EXCEPT !.at = "tree"] ELSE Raised(verdict)
  BY DEF CommitAnswered
<1>3. /\ evidence'.name = evidence.name /\ evidence'.manifest = evidence.manifest
      /\ evidence'.commits = evidence.commits /\ evidence'.texts = evidence.texts
      /\ evidence'.mapped = evidence.mapped /\ DOMAIN evidence' = DOMAIN evidence
  BY <1>1 DEF ReviewInv, ReviewShape
<1>4. Credited'
  BY <1>3, SameTexts DEF ReviewInv
<1>5. CASE verdict = "ok"
  <2>1. review'.at = "tree" /\ review'.n = review.n /\ review'.outcome = review.outcome
        /\ DOMAIN review' = DOMAIN review
    BY <1>2, <1>5 DEF ReviewInv, ReviewShape
  <2>2. ReviewShape'
    BY <1>1, <1>3, <2>1 DEF ReviewInv, ReviewShape
  <2>3. InOrder'
    BY <1>1, <1>3, <2>1 DEF ReviewInv, InOrder, CommitsUpTo, PackagesUpTo
  <2> QED BY <1>1, <1>3, <1>4, <2>1, <2>2, <2>3, CollectingStep DEF Gathering
<1>6. CASE verdict # "ok"
  <2>1. review' = Raised(verdict) /\ verdict \in {"STOP", "INVALID"}
    BY <1>2, <1>6 DEF CommitVerdict, Saved
  <2>2. ReviewShape'
    BY <1>1, <1>3, <2>1, RaisedShape DEF ReviewInv, ReviewShape
  <2> QED BY <1>1, <1>3, <1>4, <2>1, <2>2, RaisedStep DEF Gathering, ReviewInv, InOrder
<1> QED BY <1>5, <1>6


\* The commit in hand is one of the commits.
LEMMA CommitInHand ==
    ASSUME ReviewShape
    PROVE  /\ Commit \in CommitsUpTo(review.n) /\ Commit \in CommitsUpTo(Len(Commits))
           /\ CommitsUpTo(review.n) = CommitsUpTo(review.n - 1) \cup {Commit}
           /\ PackagesUpTo(review.n) = PackagesUpTo(review.n - 1) \cup PackagesAt[Commit]
           /\ review.n \in DOMAIN Commits
           /\ review.n \in Nat /\ Len(Commits) \in Nat /\ review.n <= Len(Commits)
<1>1. Len(Commits) \in Nat /\ DOMAIN Commits = 1..Len(Commits)
  BY ReviewAssumption
<1>2. review.n \in Nat \ {0} /\ review.n <= Len(Commits)
  BY <1>1 DEF ReviewShape
<1>3. 1..review.n = 1..(review.n - 1) \cup {review.n}
  BY <1>2
<1>4. Commit = Commits[review.n]
  BY DEF Commit
<1>5. CommitsUpTo(review.n) = CommitsUpTo(review.n - 1) \cup {Commit}
  BY <1>2, <1>3, <1>4 DEF CommitsUpTo
<1>6. PackagesUpTo(review.n) = PackagesUpTo(review.n - 1) \cup PackagesAt[Commit]
  <2>1. ASSUME NEW p PROVE p \in PackagesUpTo(review.n) <=> p \in PackagesUpTo(review.n - 1) \cup PackagesAt[Commit]
    <3>1. p \in PackagesUpTo(review.n) <=> \E j \in 1..review.n : p \in PackagesAt[Commits[j]]
      BY DEF PackagesUpTo
    <3>2. p \in PackagesUpTo(review.n - 1) <=> \E j \in 1..(review.n - 1) : p \in PackagesAt[Commits[j]]
      BY DEF PackagesUpTo
    <3> QED BY <1>2, <1>3, <1>4, <3>1, <3>2
  <2> QED BY <2>1
<1> QED BY <1>1, <1>2, <1>4, <1>5, <1>6 DEF CommitsUpTo

LEMMA TreeAnsweredInv == ReviewInv /\ TreeAnswered => ReviewInv'
<1> SUFFICES ASSUME ReviewInv, TreeAnswered PROVE ReviewInv' OBVIOUS
<1>1. review.at = "tree" /\ DOMAIN session' = {"requests", "listed", "answered"}
  BY DEF TreeAnswered, Got
<1>2. PICK verdict \in TreeVerdict :
         /\ review' = IF verdict = "ok"
                      THEN [review EXCEPT !.at = "blobs",
                                          !.todo = UNION {Selected(p) : p \in PackagesAt[Commit]}]
                      ELSE Raised(verdict)
         /\ evidence' = [evidence EXCEPT !.files = @ \cup {<<"tree", Commit, "">>},
                                         !.commits = IF verdict = "ok" THEN @ \cup {Commit} ELSE @]
  BY Zenon DEF TreeAnswered
<1>3. /\ evidence'.name = evidence.name /\ evidence'.manifest = evidence.manifest
      /\ evidence'.commits = IF verdict = "ok" THEN evidence.commits \cup {Commit} ELSE evidence.commits
      /\ evidence'.texts = evidence.texts
      /\ evidence'.mapped = evidence.mapped /\ DOMAIN evidence' = DOMAIN evidence
  BY <1>2 DEF ReviewInv, ReviewShape
<1>4. Credited' /\ evidence'.commits \subseteq CommitsUpTo(Len(Commits))
  BY <1>3, SameTexts, CommitInHand DEF ReviewInv, InOrder
<1>5. CASE verdict = "ok"
  <2>1. review'.at = "blobs" /\ review'.n = review.n /\ review'.outcome = review.outcome
        /\ DOMAIN review' = DOMAIN review
    BY <1>2, <1>5 DEF ReviewInv, ReviewShape
  <2>2. ReviewShape'
    BY <1>1, <1>3, <2>1 DEF ReviewInv, ReviewShape
  <2>3. CommitsUpTo(review.n) \subseteq evidence'.commits
    BY <1>1, <1>3, <1>5, CommitInHand DEF ReviewInv, InOrder
  <2>4. InOrder'
    BY <1>1, <1>3, <1>4, <2>1, <2>3 DEF ReviewInv, InOrder, CommitsUpTo, PackagesUpTo
  <2> QED BY <1>1, <1>3, <1>4, <2>1, <2>2, <2>4, CollectingStep DEF Gathering
<1>6. CASE verdict # "ok"
  <2>1. review' = Raised(verdict) /\ verdict \in {"STOP", "INVALID"}
    BY <1>2, <1>6 DEF TreeVerdict, Saved
  <2>2. ReviewShape'
    BY <1>1, <1>3, <2>1, RaisedShape DEF ReviewInv, ReviewShape
  <2> QED BY <1>1, <1>3, <1>4, <2>1, <2>2, RaisedStep DEF Gathering
<1> QED BY <1>5, <1>6

LEMMA EntryRefusedInv == ReviewInv /\ EntryRefused => ReviewInv'
<1> SUFFICES ASSUME ReviewInv, EntryRefused PROVE ReviewInv' OBVIOUS
<1>1. PICK outcome \in {"STOP", "INVALID"} : review' = Raised(outcome)
  BY DEF EntryRefused
<1>2. review.at \in Gathering /\ UNCHANGED <<session, evidence>>
  BY DEF EntryRefused, Gathering
<1>3. ReviewShape'
  BY <1>1, <1>2, RaisedShape DEF ReviewInv, ReviewShape
<1> QED BY <1>1, <1>2, <1>3, RaisedStep, SameTexts DEF ReviewInv, InOrder

\* A blob adds the text of one file of the commit, and takes none away.
LEMMA BlobAnsweredInv == ReviewInv /\ BlobAnswered => ReviewInv'
<1> SUFFICES ASSUME ReviewInv, BlobAnswered PROVE ReviewInv' OBVIOUS
<1>1. PICK path \in review.todo, verdict \in BlobVerdict :
         /\ Got(<<"blob", Commit, path>>)
         /\ review' = IF verdict = "ok" THEN [review EXCEPT !.todo = @ \ {path}] ELSE Raised(verdict)
         /\ \E text \in Texts[path] :
               evidence' = [evidence EXCEPT
                   !.files = @ \cup {<<"blob", Commit, path>>},
                   !.texts = IF verdict # "ok" THEN @
                             ELSE [b \in DOMAIN @ \cup {<<Commit, path>>} |->
                                      IF b \in DOMAIN @ THEN @[b] ELSE text]]
  BY Zenon DEF BlobAnswered
<1>2. PICK text \in Texts[path] :
         evidence' = [evidence EXCEPT
             !.files = @ \cup {<<"blob", Commit, path>>},
             !.texts = IF verdict # "ok" THEN @
                       ELSE [b \in DOMAIN @ \cup {<<Commit, path>>} |->
                                IF b \in DOMAIN @ THEN @[b] ELSE text]]
  BY <1>1
<1>3. review.at = "blobs" /\ DOMAIN session' = {"requests", "listed", "answered"}
  BY <1>1 DEF BlobAnswered, Got
<1> DEFINE texts == IF verdict # "ok" THEN evidence.texts
                    ELSE [b \in DOMAIN evidence.texts \cup {<<Commit, path>>} |->
                             IF b \in DOMAIN evidence.texts THEN evidence.texts[b] ELSE text]
<1>4. /\ evidence'.name = evidence.name /\ evidence'.manifest = evidence.manifest
      /\ evidence'.commits = evidence.commits /\ evidence'.texts = texts
      /\ evidence'.mapped = evidence.mapped /\ DOMAIN evidence' = DOMAIN evidence
  BY <1>2 DEF ReviewInv, ReviewShape
<1>5. /\ DOMAIN evidence.texts \subseteq DOMAIN texts
      /\ \A b \in DOMAIN evidence.texts : texts[b] = evidence.texts[b]
      /\ \A b \in DOMAIN texts : b \in DOMAIN evidence.texts \/ b = <<Commit, path>>
  OBVIOUS
<1> HIDE DEF texts
<1>6. Credited'
  <2>1. \A b \in DOMAIN texts : b = <<b[1], b[2]>>
    BY <1>5 DEF ReviewInv, Credited
  <2>2. ASSUME NEW p \in DOMAIN evidence.mapped
        PROVE  LET m == evidence.mapped[p]
               IN  /\ m.files \subseteq DOMAIN texts
                   /\ m.detected = UNION {texts[b] : b \in m.files}
                   /\ \A b \in m.files :
                         /\ b[2] \in Initial[p] \cup References[p]
                         /\ \E i \in DOMAIN Commits : b[1] = Commits[i] /\ p \in PackagesAt[Commits[i]]
    <3> DEFINE m == evidence.mapped[p]
    <3>1. /\ m.files \subseteq DOMAIN evidence.texts
          /\ m.detected = UNION {evidence.texts[b] : b \in m.files}
          /\ \A b \in m.files :
                /\ b[2] \in Initial[p] \cup References[p]
                /\ \E i \in DOMAIN Commits : b[1] = Commits[i] /\ p \in PackagesAt[Commits[i]]
      BY Zenon DEF ReviewInv, Credited
    <3> HIDE DEF m
    <3>2. {texts[b] : b \in m.files} = {evidence.texts[b] : b \in m.files}
      BY <1>5, <3>1
    <3>3. m.files \subseteq DOMAIN texts
      BY <1>5, <3>1
    <3>4. m.detected = UNION {texts[b] : b \in m.files}
      BY <3>1, <3>2
    <3> QED BY <3>1, <3>3, <3>4, Zenon DEF m
  <2> QED BY <1>4, <2>1, <2>2 DEF Credited
<1>7. CASE verdict = "ok"
  <2>1. review'.at = "blobs" /\ review'.n = review.n /\ review'.outcome = review.outcome
        /\ DOMAIN review' = DOMAIN review
    BY <1>1, <1>3, <1>7 DEF ReviewInv, ReviewShape
  <2>2. ReviewShape'
    BY <1>3, <1>4, <2>1 DEF ReviewInv, ReviewShape
  <2>3. InOrder'
    BY <1>3, <1>4, <2>1 DEF ReviewInv, InOrder, CommitsUpTo, PackagesUpTo
  <2> QED BY <1>3, <1>4, <1>6, <2>1, <2>2, <2>3, CollectingStep DEF Gathering
<1>8. CASE verdict # "ok"
  <2>1. review' = Raised(verdict) /\ verdict \in {"STOP", "INVALID"}
    BY <1>1, <1>8 DEF BlobVerdict, Saved
  <2>2. ReviewShape'
    BY <1>3, <1>4, <2>1, RaisedShape DEF ReviewInv, ReviewShape
  <2> QED BY <1>3, <1>4, <1>6, <2>1, <2>2, RaisedStep DEF Gathering, ReviewInv, InOrder
<1> QED BY <1>7, <1>8

LEMMA ReferencesReadInv == ReviewInv /\ ReferencesRead => ReviewInv'
<1> SUFFICES ASSUME ReviewInv, ReferencesRead PROVE ReviewInv' OBVIOUS
<1>1. PICK verdict \in ManifestVerdict :
         review' = IF verdict # "ok" THEN Raised(verdict)
                   ELSE IF {path \in UNION {References[p] : p \in PackagesAt[Commit]} : ~Held(path)} # {}
                   THEN [review EXCEPT !.todo = {path \in UNION {References[p] : p \in PackagesAt[Commit]} : ~Held(path)}]
                   ELSE [review EXCEPT !.at = "map"]
  BY Zenon DEF ReferencesRead
<1>2. review.at = "blobs" /\ UNCHANGED <<session, evidence>>
  BY DEF ReferencesRead
<1>3. Credited' /\ evidence'.commits \subseteq CommitsUpTo(Len(Commits))
  BY <1>2, SameTexts DEF ReviewInv, InOrder
<1>4. CASE verdict = "ok"
  <2>1. review'.at \in {"blobs", "map"} /\ review'.n = review.n /\ review'.outcome = review.outcome
        /\ DOMAIN review' = DOMAIN review
    BY <1>1, <1>2, <1>4 DEF ReviewInv, ReviewShape
  <2>2. ReviewShape'
    BY <1>2, <2>1 DEF ReviewInv, ReviewShape
  <2>3. InOrder'
    BY <1>2, <2>1 DEF ReviewInv, InOrder, CommitsUpTo, PackagesUpTo
  <2> QED BY <1>2, <1>3, <2>1, <2>2, <2>3, CollectingStep DEF Gathering
<1>5. CASE verdict # "ok"
  <2>1. review' = Raised(verdict) /\ verdict \in {"STOP", "INVALID"}
    BY <1>1, <1>5 DEF ManifestVerdict
  <2>2. ReviewShape'
    BY <1>2, <2>1, RaisedShape DEF ReviewInv, ReviewShape
  <2> QED BY <1>2, <1>3, <2>1, <2>2, RaisedStep DEF Gathering
<1> QED BY <1>4, <1>5


\* The packages of the commit are mapped to what their own files hold.
LEMMA MapPackagesInv == ReviewInv /\ MapPackages => ReviewInv'
<1> SUFFICES ASSUME ReviewInv, MapPackages PROVE ReviewInv' OBVIOUS
<1> DEFINE mapped == [p \in DOMAIN evidence.mapped \cup PackagesAt[Commit] |->
                         IF p \in DOMAIN evidence.mapped THEN evidence.mapped[p]
                         ELSE [detected |-> Detected(p), files |-> FilesOf(p)]]
<1>1. /\ review.at = "map" /\ UNCHANGED session
      /\ evidence' = [evidence EXCEPT !.mapped = mapped]
  BY Zenon DEF MapPackages
<1>2. review' = IF review.n < Len(Commits) THEN [review EXCEPT !.n = @ + 1, !.at = "commit"]
                ELSE [review EXCEPT !.at = "judge"]
  BY Zenon DEF MapPackages
<1>3. /\ DOMAIN mapped = DOMAIN evidence.mapped \cup PackagesAt[Commit]
      /\ \A p \in DOMAIN mapped :
            \/ p \in DOMAIN evidence.mapped /\ mapped[p] = evidence.mapped[p]
            \/ mapped[p] = [detected |-> Detected(p), files |-> FilesOf(p)]
  OBVIOUS
<1> HIDE DEF mapped
<1>4. /\ evidence'.name = evidence.name /\ evidence'.manifest = evidence.manifest
      /\ evidence'.commits = evidence.commits /\ evidence'.texts = evidence.texts
      /\ evidence'.mapped = mapped /\ DOMAIN evidence' = DOMAIN evidence
  BY <1>1 DEF ReviewInv, ReviewShape
<1>5. Credited'
  <2>1. ASSUME NEW p \in DOMAIN mapped
        PROVE  LET m == mapped[p]
               IN  /\ m.files \subseteq DOMAIN evidence.texts
                   /\ m.detected = UNION {evidence.texts[b] : b \in m.files}
                   /\ \A b \in m.files :
                         /\ b[2] \in Initial[p] \cup References[p]
                         /\ \E i \in DOMAIN Commits : b[1] = Commits[i] /\ p \in PackagesAt[Commits[i]]
    <3>1. CASE p \in DOMAIN evidence.mapped /\ mapped[p] = evidence.mapped[p]
      BY <3>1, Zenon DEF ReviewInv, Credited
    <3>2. CASE mapped[p] = [detected |-> Detected(p), files |-> FilesOf(p)]
      <4>1. mapped[p].files = FilesOf(p) /\ mapped[p].detected = Detected(p)
        BY <3>2
      <4>2. Detected(p) = UNION {evidence.texts[b] : b \in FilesOf(p)}
        BY DEF Detected
      <4>3. FilesOf(p) \subseteq DOMAIN evidence.texts
        BY DEF FilesOf
      <4>4. \A b \in FilesOf(p) :
               /\ b[2] \in Initial[p] \cup References[p]
               /\ \E i \in DOMAIN Commits : b[1] = Commits[i] /\ p \in PackagesAt[Commits[i]]
        BY Zenon DEF FilesOf, Selected
      <4> HIDE DEF Detected
      <4> QED BY <4>1, <4>2, <4>3, <4>4, Zenon
    <3> QED BY <1>3, <3>1, <3>2
  <2>2. \A b \in DOMAIN evidence.texts : b = <<b[1], b[2]>>
    BY DEF ReviewInv, Credited
  <2> QED BY <1>4, <2>1, <2>2 DEF Credited
<1>6. DOMAIN mapped = PackagesUpTo(review.n) /\ CommitsUpTo(review.n) \subseteq evidence.commits
  BY <1>1, <1>3, CommitInHand DEF ReviewInv, InOrder
<1>7. CASE review.n < Len(Commits)
  <2>1. review'.at = "commit" /\ review'.n = review.n + 1 /\ review'.outcome = review.outcome
        /\ DOMAIN review' = DOMAIN review
    BY <1>2, <1>7 DEF ReviewInv, ReviewShape
  <2>2. ReviewShape' /\ review'.n - 1 = review.n
    BY <1>1, <1>4, <1>7, <2>1, CommitInHand DEF ReviewInv, ReviewShape
  <2>3. InOrder'
    BY <1>4, <1>6, <2>1, <2>2 DEF ReviewInv, InOrder, CommitsUpTo, PackagesUpTo
  <2> QED BY <1>1, <1>4, <1>5, <2>1, <2>2, <2>3, CollectingStep DEF Gathering
<1>8. CASE ~(review.n < Len(Commits))
  <2>1. review'.at = "judge" /\ review'.n = review.n /\ review'.outcome = review.outcome
        /\ DOMAIN review' = DOMAIN review
    BY <1>2, <1>8 DEF ReviewInv, ReviewShape
  <2>2. ReviewShape' /\ review.n = Len(Commits)
    BY <1>1, <1>4, <1>8, <2>1, CommitInHand DEF ReviewInv, ReviewShape
  <2>3. InOrder'
    BY <1>4, <1>6, <2>1, <2>2 DEF ReviewInv, InOrder, CommitsUpTo, PackagesUpTo
  <2> QED BY <1>1, <1>4, <1>5, <2>1, <2>2, <2>3, CollectingStep DEF Gathering
<1> QED BY <1>7, <1>8

LEMMA JudgeInv == ReviewInv /\ Judge => ReviewInv'
<1> SUFFICES ASSUME ReviewInv, Judge PROVE ReviewInv' OBVIOUS
<1>1. PICK outcome \in {"PASS", "STOP"} :
         /\ review' = [review EXCEPT !.at = "sidecars", !.outcome = outcome]
         /\ outcome = "PASS" => \A p \in DOMAIN evidence.mapped : Missing(p) = {}
  BY DEF Judge
<1>2. review.at = "judge" /\ UNCHANGED <<session, evidence>>
  BY DEF Judge
<1>3. review'.at = "sidecars" /\ review'.outcome = outcome /\ review'.n = review.n
      /\ DOMAIN review' = DOMAIN review
  BY <1>1 DEF ReviewInv, ReviewShape
<1>4. ReviewShape' /\ Credited'
  BY <1>2, <1>3, SameTexts DEF ReviewInv, ReviewShape
<1>5. InOrder'
  BY <1>2, <1>3 DEF ReviewInv, InOrder, CommitsUpTo
<1>6. outcome = "PASS" => Whole
  BY <1>1, <1>2 DEF ReviewInv, InOrder, Whole
<1>7. Whole => Whole'
  BY <1>2 DEF Whole, Missing
<1>8. Judged'
  BY <1>3, <1>6, <1>7 DEF Judged
<1>9. Recorded'
  BY <1>2, <1>3 DEF ReviewInv, Recorded
<1> QED BY <1>4, <1>5, <1>8, <1>9 DEF ReviewInv

\* The manifest is validated before it is there.
LEMMA ReviewManifestInv == ReviewInv /\ ReviewManifest => ReviewInv'
<1> SUFFICES ASSUME ReviewInv, ReviewManifest PROVE ReviewInv' OBVIOUS
<1>1. PICK outcome \in {review.outcome, "STOP"} :
         \/ /\ Validated(outcome)
            /\ evidence' = [evidence EXCEPT !.manifest = outcome]
            /\ review' = [review EXCEPT !.at = "sums", !.outcome = outcome]
         \/ /\ review' = [review EXCEPT !.at = "ended", !.outcome = outcome]
            /\ UNCHANGED evidence
  BY Zenon DEF ReviewManifest
<1>2. review.at = "sidecars" /\ UNCHANGED session
  BY DEF ReviewManifest
<1>3. PICK manifest :
         /\ review'.at \in {"sums", "ended"} /\ review'.outcome = outcome /\ review'.n = review.n
         /\ DOMAIN review' = DOMAIN review /\ DOMAIN evidence' = DOMAIN evidence
         /\ evidence'.name = evidence.name /\ evidence'.files = evidence.files
         /\ evidence'.commits = evidence.commits /\ evidence'.texts = evidence.texts
         /\ evidence'.mapped = evidence.mapped /\ evidence'.manifest = manifest
         /\ \/ review'.at = "sums" /\ manifest = outcome /\ Validated(outcome)
            \/ review'.at = "ended" /\ manifest = evidence.manifest
  BY <1>1 DEF ReviewInv, ReviewShape
<1>4. evidence.manifest = "none" /\ evidence.name # "final"
  BY <1>2 DEF ReviewInv, Recorded
<1>5. ReviewShape' /\ Credited' /\ InOrder'
  BY <1>2, <1>3, SameTexts DEF ReviewInv, ReviewShape, InOrder, CommitsUpTo
<1>6. Whole => Whole'
  BY <1>3 DEF Whole, Missing
<1>7. Judged'
  BY <1>1, <1>2, <1>3, <1>6 DEF ReviewInv, Judged
<1>8. manifest # "none" => NetworkContract(FALSE) /\ RecordsHold(manifest)
  BY <1>3, <1>4 DEF Validated, NetworkContract
<1>9. manifest # "none" => NetworkContract(FALSE)' /\ RecordsHold(evidence.manifest)'
  BY <1>2, <1>3, <1>8 DEF NetworkContract, RecordsHold
<1>10. Recorded'
  BY <1>1, <1>2, <1>3, <1>4, <1>9 DEF ReviewInv, Recorded, Judged
<1> QED BY <1>5, <1>7, <1>10 DEF ReviewInv

\* The steps after the manifest change neither it nor what it was validated
\* against.
LEMMA FinishingStep ==
    ASSUME ReviewInv, UNCHANGED session,
           DOMAIN review' = DOMAIN review, review'.n = review.n, review'.outcome = review.outcome,
           DOMAIN evidence' = DOMAIN evidence, evidence'.manifest = evidence.manifest,
           evidence'.files = evidence.files, evidence'.commits = evidence.commits,
           evidence'.texts = evidence.texts, evidence'.mapped = evidence.mapped,
           \/ review.at \in {"sums", "rename", "verify"} /\ review'.at \in {"sums", "rename", "verify", "ended"}
           \/ review'.at = "dead",
           review'.at # "dead" => (evidence'.sound => evidence'.sums = "match" \/ review'.at = "sums"),
           review'.at = "dead" => UNCHANGED evidence,
           review'.at = "ended" => evidence'.name # "final" \/ evidence'.sums = "match",
           \/ evidence'.name \in {evidence.name, "invalid"}
                 /\ (review'.at = "sums" => review.at = "sums")
                 /\ (review'.at = "rename" => review.at \in {"sums", "rename"})
           \/ evidence'.name = "final" /\ review.at = "rename" /\ review'.at = "verify"
    PROVE  ReviewInv'
<1>1. ReviewShape'
  BY DEF ReviewInv, ReviewShape
<1>2. Credited' /\ (Whole => Whole') /\ (RecordsHold(evidence.manifest) => RecordsHold(evidence.manifest)')
      /\ (NetworkContract(FALSE) => NetworkContract(FALSE)')
  BY KeptRecords DEF ReviewInv
<1>3. InOrder'
  BY DEF ReviewInv, InOrder, CommitsUpTo
<1>4. Judged'
  BY <1>2 DEF ReviewInv, Judged
<1>5. Recorded'
  BY <1>2 DEF ReviewInv, Recorded
<1> QED BY <1>1, <1>2, <1>3, <1>4, <1>5 DEF ReviewInv

LEMMA ReviewSumsInv == ReviewInv /\ ReviewSums => ReviewInv'
<1> SUFFICES ASSUME ReviewInv, ReviewSums PROVE ReviewInv' OBVIOUS
<1>1. /\ review.at = "sums" /\ UNCHANGED session
      /\ evidence' = [evidence EXCEPT !.sums = "match"] /\ review' = [review EXCEPT !.at = "rename"]
  BY DEF ReviewSums
<1>2. /\ DOMAIN evidence' = DOMAIN evidence /\ evidence'.sums = "match" /\ evidence'.name = evidence.name
      /\ evidence'.manifest = evidence.manifest /\ evidence'.files = evidence.files
      /\ evidence'.commits = evidence.commits /\ evidence'.texts = evidence.texts
      /\ evidence'.mapped = evidence.mapped
  BY <1>1 DEF ReviewInv, ReviewShape
<1>3. /\ DOMAIN review' = DOMAIN review /\ review'.n = review.n /\ review'.outcome = review.outcome
      /\ review'.at = "rename"
  BY <1>1 DEF ReviewInv, ReviewShape
<1> QED BY <1>1, <1>2, <1>3, FinishingStep

LEMMA RenameInv == ReviewInv /\ Rename => ReviewInv'
<1> SUFFICES ASSUME ReviewInv, Rename PROVE ReviewInv' OBVIOUS
<1>1. /\ review.at = "rename" /\ UNCHANGED session
      /\ evidence' = [evidence EXCEPT !.name = "final"] /\ review' = [review EXCEPT !.at = "verify"]
  BY DEF Rename
<1>2. /\ DOMAIN evidence' = DOMAIN evidence /\ evidence'.name = "final"
      /\ evidence'.sums = evidence.sums /\ evidence'.sound = evidence.sound
      /\ evidence'.manifest = evidence.manifest /\ evidence'.files = evidence.files
      /\ evidence'.commits = evidence.commits /\ evidence'.texts = evidence.texts
      /\ evidence'.mapped = evidence.mapped
  BY <1>1 DEF ReviewInv, ReviewShape
<1>3. /\ DOMAIN review' = DOMAIN review /\ review'.n = review.n /\ review'.outcome = review.outcome
      /\ review'.at = "verify"
  BY <1>1 DEF ReviewInv, ReviewShape
<1>4. evidence.sound => evidence.sums = "match"
  BY <1>1 DEF ReviewInv, Recorded
<1> QED BY <1>1, <1>2, <1>3, <1>4, FinishingStep

LEMMA FileRotsInv == ReviewInv /\ FileRots => ReviewInv'
<1> SUFFICES ASSUME ReviewInv, FileRots PROVE ReviewInv' OBVIOUS
<1>1. /\ review.at \in {"sums", "rename", "verify"} /\ UNCHANGED <<review, session>>
      /\ evidence' = [evidence EXCEPT !.sound = FALSE, !.sums = IF @ = "match" THEN "differ" ELSE @]
  BY DEF FileRots
<1>2. /\ DOMAIN evidence' = DOMAIN evidence /\ evidence'.sound = FALSE /\ evidence'.name = evidence.name
      /\ evidence'.manifest = evidence.manifest /\ evidence'.files = evidence.files
      /\ evidence'.commits = evidence.commits /\ evidence'.texts = evidence.texts
      /\ evidence'.mapped = evidence.mapped
  BY <1>1 DEF ReviewInv, ReviewShape
<1> QED BY <1>1, <1>2, FinishingStep

LEMMA VerifyFinalInv == ReviewInv /\ VerifyFinal => ReviewInv'
<1> SUFFICES ASSUME ReviewInv, VerifyFinal PROVE ReviewInv' OBVIOUS
<1>1. /\ review.at = "verify" /\ UNCHANGED session
      /\ evidence' = IF evidence.sums = "match" THEN evidence ELSE [evidence EXCEPT !.name = "invalid"]
      /\ review' = [review EXCEPT !.at = "ended"]
  BY DEF VerifyFinal
<1>2. /\ DOMAIN evidence' = DOMAIN evidence /\ evidence'.sums = evidence.sums /\ evidence'.sound = evidence.sound
      /\ evidence'.name # "final" \/ evidence'.sums = "match"
      /\ evidence'.name \in {evidence.name, "invalid"}
      /\ evidence'.manifest = evidence.manifest /\ evidence'.files = evidence.files
      /\ evidence'.commits = evidence.commits /\ evidence'.texts = evidence.texts
      /\ evidence'.mapped = evidence.mapped
  BY <1>1 DEF ReviewInv, ReviewShape
<1>3. /\ DOMAIN review' = DOMAIN review /\ review'.n = review.n /\ review'.outcome = review.outcome
      /\ review'.at = "ended"
  BY <1>1 DEF ReviewInv, ReviewShape
<1>4. evidence.sound => evidence.sums = "match"
  BY <1>1 DEF ReviewInv, Recorded
<1> QED BY <1>1, <1>2, <1>3, <1>4, FinishingStep

LEMMA ReviewDiesInv == ReviewInv /\ ReviewDies => ReviewInv'
<1> SUFFICES ASSUME ReviewInv, ReviewDies PROVE ReviewInv' OBVIOUS
<1>1. review' = [review EXCEPT !.at = "dead"] /\ UNCHANGED <<session, evidence>>
  BY DEF ReviewDies
<1>2. /\ DOMAIN review' = DOMAIN review /\ review'.n = review.n /\ review'.outcome = review.outcome
      /\ review'.at = "dead"
  BY <1>1 DEF ReviewInv, ReviewShape
<1> QED BY <1>1, <1>2, FinishingStep

LEMMA ReviewNextInv == ReviewInv /\ [ReviewNext]_reviewVars => ReviewInv'
<1> SUFFICES ASSUME ReviewInv, [ReviewNext]_reviewVars PROVE ReviewInv' OBVIOUS
<1>1. CASE UNCHANGED reviewVars
  <2>1. UNCHANGED <<review, session, evidence>>
    BY <1>1 DEF reviewVars
  <2>2. Credited' /\ (Whole => Whole') /\ (RecordsHold(evidence.manifest) => RecordsHold(evidence.manifest)')
        /\ (NetworkContract(FALSE) => NetworkContract(FALSE)')
    BY <2>1, KeptRecords DEF ReviewInv
  <2>3. ReviewShape' /\ InOrder'
    BY <2>1 DEF ReviewInv, ReviewShape, InOrder, CommitsUpTo, PackagesUpTo
  <2>4. Judged' /\ Recorded'
    BY <2>1, <2>2 DEF ReviewInv, Judged, Recorded
  <2> QED BY <2>2, <2>3, <2>4 DEF ReviewInv
<1>2. CASE ReviewNext
  BY <1>2, ReviewBeginsInv, DeadlinePassesInv, GetFailsInv, CommitAnsweredInv, TreeAnsweredInv,
     EntryRefusedInv, BlobAnsweredInv, ReferencesReadInv, MapPackagesInv, JudgeInv, ReviewManifestInv,
     ReviewSumsInv, RenameInv, FileRotsInv, VerifyFinalInv, ReviewDiesInv
  DEF ReviewNext
<1> QED BY <1>1, <1>2

LEMMA ReviewInvariant == ReviewSpec => []ReviewInv
BY ReviewInitInv, ReviewNextInv, PTL DEF ReviewSpec

\* All commits, and all packages, are those up to the last one.
LEMMA AllCommits ==
    /\ CommitsUpTo(Len(Commits)) = {Commits[i] : i \in DOMAIN Commits}
    /\ PackagesUpTo(Len(Commits)) = Packages
<1>1. DOMAIN Commits = 1..Len(Commits)
  BY ReviewAssumption
<1> QED BY <1>1 DEF CommitsUpTo, PackagesUpTo, Packages

\* What a published run holds.
LEMMA FinalRun ==
    ASSUME ReviewInv, evidence.name = "final"
    PROVE  /\ evidence.manifest # "none"
           /\ evidence.sound => evidence.sums = "match"
           /\ review.at = "ended" => evidence.sums = "match"
           /\ NetworkContract(FALSE) /\ RecordsHold(evidence.manifest)
           /\ evidence.manifest = "PASS" => Whole
BY DEF ReviewInv, Recorded, Judged

\* A run under its final name is one validate_review_evidence admits, whatever
\* was collected, refused or lost before and wherever the process was killed,
\* unless a file changed after the validation: collect validates before
\* finalize_run renames.  And once finalize_run has returned, its checksums hold.
THEOREM ReviewsAreAdmitted == ReviewSpec => []PublishedIsAdmitted
<1>1. ReviewInv => PublishedIsAdmitted
  <2> SUFFICES ASSUME ReviewInv, evidence.name = "final"
               PROVE  /\ evidence.sound => Admitted
                      /\ review.at = "ended" => evidence.sums = "match"
    BY DEF PublishedIsAdmitted
  <2>1. evidence.commits \subseteq {Commits[i] : i \in DOMAIN Commits}
    BY AllCommits DEF ReviewInv, InOrder
  <2>2. evidence.manifest = "PASS" =>
           /\ evidence.commits = {Commits[i] : i \in DOMAIN Commits}
           /\ DOMAIN evidence.mapped = Packages
    BY FinalRun, AllCommits DEF Whole
  <2> QED BY <2>1, <2>2, FinalRun DEF Admitted
<1> QED BY <1>1, ReviewInvariant, PTL

\* Under a published pass every package has the text of each licence it
\* declares in a file of its own commit that GitHub answered for: what
\* collect_remote maps a package to is read from selected[package], and a
\* package is pinned to one commit.
THEOREM PassesAreComplete == ReviewSpec => []PassIsComplete
<1>1. ReviewInv => PassIsComplete
  <2> SUFFICES ASSUME ReviewInv, evidence.name = "final", evidence.manifest = "PASS"
               PROVE  /\ evidence.commits = {Commits[i] : i \in DOMAIN Commits}
                      /\ \A i \in DOMAIN Commits : \A p \in PackagesAt[Commits[i]] : \A licence \in Declared[p] :
                            \E path \in Initial[p] \cup References[p] :
                               /\ <<"blob", Commits[i], path>> \in session.answered
                               /\ licence \in evidence.texts[<<Commits[i], path>>]
    BY DEF PassIsComplete
  <2>1. Whole /\ RecordsHold("PASS")
    BY FinalRun
  <2>2. ASSUME NEW i \in DOMAIN Commits, NEW p \in PackagesAt[Commits[i]], NEW licence \in Declared[p]
        PROVE  \E path \in Initial[p] \cup References[p] :
                  /\ <<"blob", Commits[i], path>> \in session.answered
                  /\ licence \in evidence.texts[<<Commits[i], path>>]
    <3>1. p \in DOMAIN evidence.mapped
      BY <2>1, AllCommits DEF Whole, Packages
    <3> DEFINE m == evidence.mapped[p]
    <3>2. licence \in m.detected
      BY <2>1, <3>1 DEF Whole, Missing
    <3>3. /\ m.files \subseteq DOMAIN evidence.texts
          /\ m.detected = UNION {evidence.texts[b] : b \in m.files}
          /\ \A b \in m.files :
                /\ b[2] \in Initial[p] \cup References[p]
                /\ \E j \in DOMAIN Commits : b[1] = Commits[j] /\ p \in PackagesAt[Commits[j]]
      BY <3>1, Zenon DEF ReviewInv, Credited
    <3> HIDE DEF m
    <3>4. PICK b \in m.files : licence \in evidence.texts[b]
      BY <3>2, <3>3
    <3>5. PICK j \in DOMAIN Commits : b[1] = Commits[j] /\ p \in PackagesAt[Commits[j]]
      BY <3>3, <3>4
    <3>6. b[1] = Commits[i]
      BY <3>5, ReviewAssumption
    <3>7. b \in DOMAIN evidence.texts /\ b = <<Commits[i], b[2]>>
      BY <3>3, <3>4, <3>6 DEF ReviewInv, Credited
    <3>8. <<"blob", Commits[i], b[2]>> \in session.answered
      BY <2>1, <3>6, <3>7 DEF RecordsHold
    <3> QED BY <3>3, <3>4, <3>7, <3>8
  <2> QED BY <2>1, <2>2, AllCommits DEF Whole
<1> QED BY <1>1, ReviewInvariant, PTL

=============================================================================
