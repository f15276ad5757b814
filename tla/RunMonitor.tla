---------------------------- MODULE RunMonitor ----------------------------
(***************************************************************************)
(* The limits of a bounded run, as its monitor and its runner keep them:   *)
(*   scripts/monitor-sw-g2-openmls-0.9-run.py       monitor                *)
(*   scripts/run-sw-g2-openmls-0.9-audit-tools.sh   start and stop of the  *)
(*                                                  monitor, cleanup       *)
(*                                                                         *)
(* The monitor measures the run, writes a snapshot and, once a limit is    *)
(* reached, a trigger file, and ends the runner with SIGTERM.  The runner  *)
(* asks the monitor to stop, waits for it, reads what it left and writes   *)
(* the manifest.  Its first act in cleanup is to restore the default       *)
(* action of SIGTERM, so that a signal which arrives later ends it without *)
(* a manifest.  Every write of the monitor may fail.  Only the runner asks *)
(* the monitor to stop: a SIGTERM or SIGINT from elsewhere, which stops it *)
(* as well (monitor lines 114-119), is not part of the model.              *)
(***************************************************************************)
EXTENDS Naturals

VARIABLES
    runner,     \* where the runner is
    ok,         \* workflow_exit_code = 0
    monitor,    \* where the monitor is
    asked,      \* the monitor's `stopped`
    reached,    \* a limit is reached
    seen,       \* the monitor has measured that
    snapshot,   \* runtime-control.json
    trigger     \* runtime-control-trigger.json

monitorVars == <<runner, ok, monitor, asked, reached, seen, snapshot, trigger>>

Ended == {"passed", "stopped", "killed"}

\* start_runtime_monitor goes on once the first snapshot is there.
MonitorInit ==
    /\ runner = "work" /\ ok = TRUE
    /\ monitor = "measure" /\ asked = FALSE
    /\ reached = FALSE /\ seen = FALSE
    /\ snapshot = "monitoring" /\ trigger = "none"

\* Time passes, or the run writes.
LimitReached ==
    /\ runner \notin Ended /\ ~reached
    /\ reached' = TRUE
    /\ UNCHANGED <<runner, ok, monitor, asked, seen, snapshot, trigger>>

(***************************************************************************)
(* monitor.                                                                *)
(***************************************************************************)
\* directory_usage_kib and limit_reason; a request to stop comes before both.
Measure ==
    /\ monitor = "measure"
    /\ seen' = (reached /\ ~asked)
    /\ monitor' = IF asked THEN "last" ELSE "snapshot"
    /\ UNCHANGED <<runner, ok, asked, reached, snapshot, trigger>>

\* atomic_write_json of the snapshot.
WriteSnapshot ==
    /\ monitor = "snapshot"
    /\ \/ /\ snapshot' = IF seen THEN "triggered" ELSE "monitoring"
          /\ monitor' = IF seen THEN "trigger" ELSE "measure"
       \/ /\ monitor' = "error"
          /\ UNCHANGED snapshot
    /\ UNCHANGED <<runner, ok, asked, reached, seen, trigger>>

WriteTrigger ==
    /\ monitor = "trigger"
    /\ \/ /\ trigger' = "limit"
          /\ monitor' = "signal"
       \/ /\ monitor' = "error"
          /\ UNCHANGED trigger
    /\ UNCHANGED <<runner, ok, asked, reached, seen, snapshot>>

\* The snapshot of a monitor that was asked to stop.
WriteLast ==
    /\ monitor = "last"
    /\ \/ /\ snapshot' = "stopped"
          /\ monitor' = "gone"
       \/ /\ monitor' = "error"
          /\ UNCHANGED snapshot
    /\ UNCHANGED <<runner, ok, asked, reached, seen, trigger>>

\* The handler of every exception: the trigger first, then the snapshot; the
\* runner is signalled whether or not either was written.
RecordError ==
    /\ monitor = "error"
    /\ \/ trigger' = "error" /\ snapshot' \in {snapshot, "triggered"}
       \/ UNCHANGED <<trigger, snapshot>>
    /\ monitor' = "signal"
    /\ UNCHANGED <<runner, ok, asked, reached, seen>>

\* Mutant: a trigger file is taken to be enough.
SignalRunner_fileOnly ==
    /\ monitor = "signal"
    /\ monitor' = "gone"
    /\ runner' = CASE trigger # "none" -> runner
                   [] runner = "work" -> "cleanup"
                   [] runner \in Ended -> runner
                   [] OTHER -> "killed"
    /\ ok' = (ok /\ (runner # "work" \/ trigger # "none"))
    /\ UNCHANGED <<asked, reached, seen, snapshot, trigger>>

\* os.kill(runner_pid, SIGTERM): handle_term while the run is at work, the
\* default action once cleanup has begun.
SignalRunner ==
    /\ monitor = "signal"
    /\ monitor' = "gone"
    /\ runner' = CASE runner = "work" -> "cleanup"
                   [] runner \in Ended -> runner
                   [] OTHER -> "killed"
    /\ ok' = (ok /\ runner # "work")
    /\ UNCHANGED <<asked, reached, seen, snapshot, trigger>>

(***************************************************************************)
(* The runner.                                                             *)
(***************************************************************************)
\* The workflow ends, or INT or TERM comes from outside.
WorkEnds ==
    /\ runner = "work"
    /\ runner' = "cleanup"
    /\ ok' \in BOOLEAN
    /\ UNCHANGED <<monitor, asked, reached, seen, snapshot, trigger>>

\* stop_runtime_monitor, once the controlled child is gone.
StopMonitor ==
    /\ runner = "cleanup"
    /\ runner' = "wait"
    /\ asked' = TRUE
    /\ UNCHANGED <<ok, monitor, reached, seen, snapshot, trigger>>

\* Mutant: the monitor is asked to stop and not waited for.
MonitorStopped_assumed == TRUE

MonitorStopped == monitor = "gone"

\* load_runtime_control_state prefers the trigger to the snapshot.
Clean == trigger = "none" /\ snapshot \in {"monitoring", "stopped"}

\* cleanup: the last look at the disk, the container, the worktree and the
\* inputs, the manifest and the checksums can each turn a pass into a stop.
Finish ==
    /\ runner = "wait"
    /\ MonitorStopped
    /\ \E rest \in BOOLEAN : runner' = IF ok /\ Clean /\ rest THEN "passed" ELSE "stopped"
    /\ UNCHANGED <<ok, monitor, asked, reached, seen, snapshot, trigger>>

----------------------------------------------------------------------------
Monitor == Measure \/ WriteSnapshot \/ WriteTrigger \/ WriteLast \/ RecordError \/ SignalRunner

Cleanup == StopMonitor \/ Finish

MonitorNext == LimitReached \/ Monitor \/ WorkEnds \/ Cleanup

MonitorSpec == MonitorInit /\ [][MonitorNext]_monitorVars

----------------------------------------------------------------------------
(***************************************************************************)
(* Properties.                                                             *)
(***************************************************************************)

\* A run whose manifest says PASS was within its limits at every measurement
\* its monitor made, and no trigger contradicts the manifest now or later:
\* cleanup waits for the monitor before it reads what it left.
PassWithinLimits == runner = "passed" => ~seen /\ trigger = "none"

\* A limit that is reached while the run is at work ends it, even if the
\* monitor can write nothing.  A limit once reached stays so, which is true of
\* time and of a disk that is not emptied: a use of the disk that falls again
\* between two measurements is not seen by the monitor and not meant here.
LimitEndsRun == (reached /\ runner = "work") ~> runner \in {"passed", "stopped", "killed"}

=============================================================================
