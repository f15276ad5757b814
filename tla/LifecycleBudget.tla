-------------------------- MODULE LifecycleBudget --------------------------
(***************************************************************************)
(* The time an attempt may take: class Budget of                           *)
(* scripts/sw_i5_preparation_lifecycle.py and the deadlines run() and      *)
(* host() derive from it.  Every stage gets the smaller of its own cap and *)
(* what the stages after it (tail) leave of the total; a stage that        *)
(* overruns its deadline still spends up to a reap allowance on each child *)
(* it has to kill.  Time is an integer in an arbitrary unit.               *)
(*                                                                         *)
(* A step leaves a stage at any instant the code allows, so the slowest    *)
(* attempt is one of the behaviours.                                       *)
(***************************************************************************)
EXTENDS Integers

CONSTANTS
    caps,      \* Budget.caps after the constructor has shortened "active"
    Total,     \* Budget.total
    Mode,      \* "plain", or "init" for an attempt with initialisation
    Reserve    \* run: min(2, shutdown / 4) with initialisation, else 0

Caps == {"init", "start", "readiness", "active", "watchdog_cleanup", "watchdog_report",
         "shutdown", "persist", "output", "reap"}

\* One reap for each of REAP_SLOTS, one cap for everything else.
Worst ==
    caps["init"] + caps["start"] + caps["readiness"] + caps["active"]
    + caps["watchdog_cleanup"] + caps["watchdog_report"] + caps["shutdown"]
    + caps["persist"] + caps["output"] + 8 * caps["reap"]

\* The constructor's requirements: it shortens "active" to what is left of the
\* total once everything else is charged.
ASSUME BudgetAssumption ==
    /\ caps \in [Caps -> Nat \ {0}]
    /\ Total \in Nat
    /\ Worst <= Total
    /\ Mode \in {"plain", "init"}
    /\ Reserve \in Nat
    /\ Mode = "plain" => Reserve = 0
    /\ 4 * Reserve <= caps["shutdown"]

VARIABLES
    stage,     \* where run() is
    since,     \* when it got there
    until      \* the deadline of the stage, of the whole stop for its parts

vars == <<stage, since, until>>

\* The attempt starts at 0.
Absolute == Total

Earlier(a, b) == IF a <= b THEN a ELSE b
Later(a, b) == IF a <= b THEN b ELSE a

\* Budget.tail, innermost stage first.
TailPersist == caps["output"] + caps["reap"]

\* Mutant: the stop is charged to its own tail as well.
TailShutdown_twice == caps["shutdown"] + caps["persist"] + caps["output"] + 2 * caps["reap"]

TailShutdown == caps["persist"] + caps["output"] + 2 * caps["reap"]

TailActive ==
    caps["watchdog_cleanup"] + caps["watchdog_report"] + TailShutdown + caps["shutdown"] + 3 * caps["reap"]

TailReadiness == caps["active"] + TailActive + caps["reap"]

TailStart == caps["readiness"] + caps["active"] + TailActive + 2 * caps["reap"]

TailInit == caps["start"] + caps["readiness"] + caps["active"] + TailActive + 3 * caps["reap"]

\* Budget.deadline.
Deadline(cap, tail, t) == Earlier(t + cap, Absolute - tail)

\* host: the watchdog and its report come after the active window.
HostUntil ==
    Earlier(Absolute - TailShutdown - caps["shutdown"] - 2 * caps["reap"],
            until + caps["watchdog_cleanup"] + caps["reap"] + caps["watchdog_report"])

\* run: what the stop adapter gets; with initialisation the host cleanup and
\* the reaping of the adapter come out of the same window.
StopUntil == IF Mode = "init" THEN until - Reserve - caps["reap"] ELSE until

Init ==
    /\ stage = "init"
    /\ since = 0
    /\ until = Deadline(caps["init"], TailInit, 0)

\* Leave for the next stage at t, which gets deadline d.
Enter(next, t, d) == stage' = next /\ since' = t /\ until' = d

\* The stop begins, after any of the stages: t is when that one is over.
Unwound(t) == Enter("guestClean", t, Deadline(caps["shutdown"], TailShutdown, t))

\* evidence_start.
InitEnds ==
    /\ stage = "init"
    /\ \E t \in since..until :
          Enter("start", t, Deadline(caps["start"], TailStart, t)) \/ Unwound(t)

\* action: the child is answered in time or killed and reaped.
StartEnds ==
    /\ stage = "start"
    /\ \E t \in since..(until + caps["reap"]) :
          Enter("readiness", t, Deadline(caps["readiness"], TailReadiness, t)) \/ Unwound(t)

ReadinessEnds ==
    /\ stage = "readiness"
    /\ \E t \in since..(until + caps["reap"]) :
          Enter("active", t, Deadline(caps["active"], TailActive, t)) \/ Unwound(t)

\* host: the watchdog and the transport group are reaped one after the other.
ActiveEnds ==
    /\ stage = "active"
    /\ \E t \in since..(HostUntil + 2 * caps["reap"]) : Unwound(t)

\* The guest cleanup, only with initialisation.
GuestCleanEnds ==
    /\ stage = "guestClean"
    /\ \E t \in since..Earlier(since + Reserve, until - 2 * Reserve) : Enter("stop", t, until)

\* A stop whose window is already over is not even forked.
StopEnds ==
    /\ stage = "stop"
    /\ \E t \in since..Later(since, StopUntil + caps["reap"]) : Enter("hostClean", t, until)

HostCleanEnds ==
    /\ stage = "hostClean"
    /\ \E t \in since..(IF Mode = "init" THEN Later(since, until) ELSE since) :
          Enter("persist", t, Deadline(caps["persist"], TailPersist, t))

\* commit, and the evidence worker's exit.
PersistEnds ==
    /\ stage = "persist"
    /\ \E t \in since..(until + caps["reap"]) :
          Enter("output", t, Earlier(Absolute, t + caps["output"]))

OutputEnds ==
    /\ stage = "output"
    /\ \E t \in since..until : Enter("done", t, until)

Next ==
    \/ InitEnds \/ StartEnds \/ ReadinessEnds \/ ActiveEnds \/ GuestCleanEnds
    \/ StopEnds \/ HostCleanEnds \/ PersistEnds \/ OutputEnds

Spec == Init /\ [][Next]_vars

-----------------------------------------------------------------------------

\* No stage is ever short of time because of the ones before it: whatever
\* they used, each gets its full cap, the watchdog its cleanup and report on
\* top of the active window, the stop adapter the whole stop but for the two
\* cleanup reserves and one reap, and the result is written before the
\* absolute deadline.
FullWindows ==
    /\ stage \in {"init", "start", "readiness", "active", "persist", "output"} =>
          until = since + caps[stage]
    /\ stage = "active" =>
          HostUntil = until + caps["watchdog_cleanup"] + caps["reap"] + caps["watchdog_report"]
    /\ stage = "guestClean" => until = since + caps["shutdown"]
    /\ stage = "stop" =>
          StopUntil >= since + caps["shutdown"] - (IF Mode = "init" THEN 2 * Reserve + caps["reap"] ELSE 0)
    /\ stage = "hostClean" /\ Mode = "init" => until >= since + Reserve
    /\ stage = "done" => since <= Absolute

=============================================================================
