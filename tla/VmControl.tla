----------------------------- MODULE VmControl -----------------------------
(***************************************************************************)
(* One authorised start of the reviewed virtual machine:                   *)
(*   scripts/sw_i5_utm_control.py     main, read_operation,                *)
(*                                    recover_preparation                  *)
(*   scripts/inspect-sw-i5-guest.py   collect_utm and what it accepts      *)
(*                                                                         *)
(* Two controllers may be started with the same nonce, and an operator may *)
(* run the collector by hand while the machine is up.  A controller looks  *)
(* at the operation's directory, claims it with attempt.json, reads the    *)
(* baseline, starts the machine, has the collector execute one program in  *)
(* the guest, and stops what it may have started.  It can be killed after  *)
(* any of its steps; recover_preparation is then what stops the machine.   *)
(*                                                                         *)
(* UTM is external.  A start whose answer was lost may still take effect,  *)
(* but not after the 30 seconds main waits for it: that wait is why main   *)
(* sleeps before it asks for a stop, and the one thing assumed of UTM.     *)
(* recover_preparation does not wait: what it sees may still boot.         *)
(* A command whose output cannot be kept as evidence counts as failed,     *)
(* whatever it did.  Time is in seconds.                                   *)
(***************************************************************************)
EXTENDS Naturals, FiniteSetsExt

CONSTANT
    Polls          \* range(6) of the shutdown poll

VARIABLES
    controller,    \* the two invocations of main with this nonce
    attempt,       \* attempt.json exists
    run,           \* the claimed operation: where main is, and its result
    collector,     \* the collector main runs, and the one run by hand
    gathered,      \* the cases whose evidence directory exists
    machine,       \* the virtual machine
    recovery       \* recover_preparation: where it is, and its result

vmVars == <<controller, attempt, run, collector, gathered, machine, recovery>>

Controllers == {"first", "second"}
Collectors == {"child", "hand"}

\* main collects "details"; by hand also success, failure or inventory.
Cases == {"details", "other"}

Unclaimed ==
    [at |-> "unclaimed", errors |-> FALSE, started |-> FALSE, forced |-> FALSE, verified |-> FALSE,
     stopped |-> FALSE, same |-> FALSE, elapsed |-> 0, polls |-> 0, passed |-> FALSE]

VmInit ==
    /\ controller = [c \in Controllers |-> "idle"]
    /\ attempt = FALSE
    /\ run = Unclaimed
    /\ collector = [c \in Collectors |-> [at |-> "idle", adapter |-> "none", case |-> "details"]]
    /\ gathered = {}
    /\ machine = [on |-> FALSE, booting |-> FALSE, stopping |-> FALSE, starts |-> 0,
                  ran |-> [k \in Cases |-> 0]]
    /\ recovery = [at |-> "none", clock |-> 0, until |-> 0, seen |-> TRUE, stopped |-> FALSE,
                   forced |-> FALSE, left |-> 0]

(***************************************************************************)
(* UTM.                                                                    *)
(***************************************************************************)
\* What `utmctl status` prints, or "none" for an answer that was not accepted.
Reading == (IF machine.on THEN {"started", "stopping"} ELSE {"stopped"}) \cup {"none"}

\* A start that was still on its way when its answer came or was lost.
MachineBoots ==
    /\ machine.booting
    /\ machine' = [machine EXCEPT !.on = TRUE, !.booting = FALSE]
    /\ UNCHANGED <<controller, attempt, run, collector, gathered, recovery>>

\* The guest follows a power request, at some time.
MachineStops ==
    /\ machine.stopping
    /\ machine' = [machine EXCEPT !.on = FALSE, !.stopping = FALSE]
    /\ UNCHANGED <<controller, attempt, run, collector, gathered, recovery>>

Started(effect) ==
    [machine EXCEPT !.starts = @ + 1, !.on = effect = "now", !.booting = effect = "later"]

\* `utmctl stop`: it has its effect, or it fails before it.
AfterStop(force) ==
    {machine, IF force THEN [machine EXCEPT !.on = FALSE, !.stopping = FALSE]
              ELSE [machine EXCEPT !.stopping = machine.on]}

(***************************************************************************)
(* Claiming the operation.                                                 *)
(***************************************************************************)
\* read_operation and the look at the directory: anything beside
\* operation.json is an earlier attempt or its evidence.
Look(c) ==
    /\ controller[c] = "idle"
    /\ controller' = [controller EXCEPT ![c] = IF attempt \/ gathered # {} THEN "refused" ELSE "looked"]
    /\ UNCHANGED <<attempt, run, collector, gathered, machine, recovery>>

\* Mutant: attempt.json is opened with "w".
Claim_overwrites(c) ==
    /\ controller[c] = "looked"
    /\ controller' = [controller EXCEPT ![c] = "owner"]
    /\ attempt' = TRUE
    /\ run' = [run EXCEPT !.at = "baseline"]
    /\ UNCHANGED <<collector, gathered, machine, recovery>>

\* open("x"): the other invocation may have been through here since the look.
Claim(c) ==
    /\ controller[c] = "looked"
    /\ controller' = [controller EXCEPT ![c] = IF attempt THEN "refused" ELSE "owner"]
    /\ attempt' = TRUE
    /\ run' = IF attempt THEN run ELSE [run EXCEPT !.at = "baseline"]
    /\ UNCHANGED <<collector, gathered, machine, recovery>>

(***************************************************************************)
(* main, after the claim.                                                  *)
(***************************************************************************)
Keep == UNCHANGED <<controller, attempt, collector, gathered, recovery>>

\* An exception in the try block: everything started is stopped, nothing else is.
Failed(r) == [r EXCEPT !.errors = TRUE, !.at = IF r.started THEN "grace" ELSE "config"]

\* list-before and status-before; without both nothing is started.
Baseline ==
    /\ run.at = "baseline"
    /\ \E reading \in Reading, listed \in BOOLEAN :
          LET seen == [run EXCEPT !.stopped = reading = "stopped"]
          IN  run' = IF listed /\ reading = "stopped" THEN [seen EXCEPT !.at = "start"] ELSE Failed(seen)
    /\ Keep /\ UNCHANGED machine

\* A start that is refused or times out may have booted the machine.
Start ==
    /\ run.at = "start"
    /\ \E effect \in {"now", "later", "never"}, answered \in BOOLEAN :
          LET tried == [run EXCEPT !.started = TRUE]
          IN  /\ machine' = Started(effect)
              /\ run' = IF answered THEN [tried EXCEPT !.at = "started?"] ELSE Failed(tried)
    /\ Keep

StatusAfterStart ==
    /\ run.at = "started?"
    /\ \E reading \in Reading :
          run' = IF reading = "started" THEN [run EXCEPT !.at = "boot"] ELSE Failed(run)
    /\ Keep /\ UNCHANGED machine

\* Mutant: the wait after a failed start is left out.
Waited_not == TRUE

\* 30 seconds after the start returned, it has had its effect or has none.
Waited == ~machine.booting

\* The boot grace, the second look at the configuration, and the collector.
Collect ==
    /\ run.at = "boot"
    /\ Waited
    /\ \E unchanged \in BOOLEAN :
          /\ run' = IF unchanged THEN [run EXCEPT !.at = "details"] ELSE Failed(run)
          /\ collector' = IF unchanged THEN [collector EXCEPT !["child"].at = "begin"] ELSE collector
    /\ UNCHANGED <<controller, attempt, gathered, machine, recovery>>

\* details-cli returned: its output and the saved evidence are compared and
\* checked once more.
Verify ==
    /\ run.at = "details"
    /\ collector["child"].at \in {"verified", "failed"}
    /\ \E accepted \in BOOLEAN :
          run' = IF accepted /\ collector["child"].at = "verified"
                 THEN [run EXCEPT !.verified = TRUE, !.at = "grace"]
                 ELSE Failed(run)
    /\ Keep /\ UNCHANGED machine

\* details-cli is killed after 65 seconds; the adapter it started is not.
CollectTimesOut ==
    /\ run.at = "details"
    /\ collector' = [collector EXCEPT !["child"].at = "killed"]
    /\ run' = Failed(run)
    /\ UNCHANGED <<controller, attempt, gathered, machine, recovery>>

ShutdownRequest ==
    /\ run.at = "grace"
    /\ Waited
    /\ \E answered \in BOOLEAN : run' = [run EXCEPT !.at = "poll", !.errors = @ \/ ~answered]
    /\ machine' \in AfterStop(FALSE)
    /\ Keep

\* One status of up to 15 seconds and a sleep of 30, within 120.
PollEnds(took) == Min({120, run.elapsed + took + 30})

ShutdownStatus ==
    /\ run.at = "poll"
    /\ run.polls < Polls
    /\ run.elapsed < 120
    /\ \E reading \in Reading, took \in {0, 15} :
          LET asked == [run EXCEPT !.polls = @ + 1, !.errors = @ \/ reading = "none"]
          IN  run' = IF reading = "stopped" THEN [asked EXCEPT !.stopped = TRUE, !.elapsed = 0, !.polls = 0, !.at = "list"]
                     ELSE [asked EXCEPT !.elapsed = PollEnds(took)]
    /\ Keep /\ UNCHANGED machine

ShutdownForce ==
    /\ run.at = "poll"
    /\ run.polls = Polls \/ run.elapsed = 120
    /\ \E answered \in BOOLEAN :
          run' = [run EXCEPT !.forced = TRUE, !.errors = @ \/ ~answered, !.elapsed = 0, !.polls = 0,
                             !.at = "forced"]
    /\ machine' \in AfterStop(TRUE)
    /\ Keep

StatusAfterForce ==
    /\ run.at = "forced"
    /\ \E reading \in Reading :
          run' = [run EXCEPT !.stopped = reading = "stopped", !.errors = @ \/ reading = "none", !.at = "list"]
    /\ Keep /\ UNCHANGED machine

\* list-after against list-before, in which this machine was stopped; other
\* machines may have changed in between.
ListAfter ==
    /\ run.at = "list"
    /\ \E answered, others \in BOOLEAN :
          run' = [run EXCEPT !.same = answered /\ others /\ ~machine.on, !.errors = @ \/ ~answered, !.at = "config"]
    /\ Keep /\ UNCHANGED machine

\* result["passed"].
Passes(unchanged) ==
    run.verified /\ run.stopped /\ run.same /\ unchanged /\ ~run.errors /\ ~run.forced

\* The last look at the configuration, and result.json: a result that could
\* not be written has not passed.
Report ==
    /\ run.at = "config"
    /\ \E unchanged, written \in BOOLEAN :
          run' = [run EXCEPT !.passed = Passes(unchanged) /\ written, !.at = "reported"]
    /\ Keep /\ UNCHANGED machine

\* SIGKILL: what main knew is gone, but for the start a ticket records; the
\* attempt stays consumed.
ControllerDies ==
    /\ run.at \notin {"unclaimed", "reported", "dead"}
    /\ run' = [Unclaimed EXCEPT !.at = "dead", !.started = run.started]
    /\ Keep /\ UNCHANGED machine

(***************************************************************************)
(* collect_utm, as the controller's child or by hand.                      *)
(***************************************************************************)
HandCollects ==
    /\ collector["hand"].at = "idle"
    /\ \E k \in Cases : collector' = [collector EXCEPT !["hand"].at = "begin", !["hand"].case = k]
    /\ UNCHANGED <<controller, attempt, run, gathered, machine, recovery>>

\* evidence = root / case_name; evidence.mkdir(exist_ok=False): one directory
\* for each case of the nonce.
MayCollect(c) == collector[c].case \notin gathered

\* The configuration is checked and the directory made before the adapter runs.
CollectorBegins(c) ==
    /\ collector[c].at = "begin"
    /\ \/ /\ MayCollect(c)
          /\ gathered' = gathered \cup {collector[c].case}
          /\ collector' = [collector EXCEPT ![c].at = "waiting", ![c].adapter = "sent"]
       \/ /\ collector' = [collector EXCEPT ![c].at = "failed"]
          /\ UNCHANGED gathered
    /\ UNCHANGED <<controller, attempt, run, machine, recovery>>

\* The adapter executes once, in a machine that is started, whoever still
\* waits for it.
AdapterExecutes(c) ==
    /\ collector[c].adapter = "sent"
    /\ collector' = [collector EXCEPT ![c].adapter = IF machine.on THEN "executed" ELSE "refused"]
    /\ machine' = [machine EXCEPT !.ran[collector[c].case] = @ + (IF machine.on THEN 1 ELSE 0)]
    /\ UNCHANGED <<controller, attempt, run, gathered, recovery>>

\* The adapter's answer is parsed, kept as evidence and verified.
CollectorEnds(c) ==
    /\ collector[c].at = "waiting"
    /\ collector[c].adapter # "sent"
    /\ \E verified \in BOOLEAN :
          collector' = [collector EXCEPT ![c].at = IF verified /\ collector[c].adapter = "executed"
                                                   THEN "verified" ELSE "failed"]
    /\ UNCHANGED <<controller, attempt, run, gathered, machine, recovery>>

\* 60 seconds: the adapter is killed, what it sent is not recalled.
CollectorTimesOut(c) ==
    /\ collector[c].at = "waiting"
    /\ collector' = [collector EXCEPT ![c].at = "failed", ![c].adapter = "killed"]
    /\ UNCHANGED <<controller, attempt, run, gathered, machine, recovery>>

(***************************************************************************)
(* recover_preparation, after contact was lost.                            *)
(***************************************************************************)
RecoveryDeadline == 120

\* Mutant: the polite phase may last to the deadline.
GracefulUntil_deadline(t) == RecoveryDeadline

GracefulUntil(t) == Min({t + 80, RecoveryDeadline - 20})

\* A call of at most `limit` seconds that starts at t.
Durations(limit, t) == {0, Min({limit, RecoveryDeadline - t})}

RecoveryKeep == UNCHANGED <<controller, attempt, run, collector, gathered>>

\* The clock the loops compare, and where each observation leads.
Looking ==
    \/ recovery.at = "first"
    \/ recovery.at = "graceful" /\ recovery.clock < recovery.until
    \/ recovery.at = "graceful" /\ recovery.clock >= recovery.until
    \/ recovery.at = "last" /\ recovery.clock < RecoveryDeadline

\* The next place, and the pause before it, when the machine is seen running.
Onward(t) ==
    CASE recovery.at = "first" -> [at |-> "request", clock |-> t]
      [] recovery.at = "graceful" /\ recovery.clock < recovery.until ->
            [at |-> "graceful", clock |-> IF t < recovery.until THEN Min({t + 5, recovery.until}) ELSE t]
      [] recovery.at = "graceful" /\ recovery.clock >= recovery.until -> [at |-> "force", clock |-> t]
      [] recovery.at = "last" -> [at |-> "last", clock |-> Min({t + 2, RecoveryDeadline})]

\* Only the result outlives the call.
Returned == [recovery EXCEPT !.at = "ended", !.clock = 0, !.until = 0]

\* A ticket says that a start was attempted; it may still be on its way.
RecoveryBegins ==
    /\ run.at = "dead" /\ run.started
    /\ recovery.at = "none"
    /\ recovery' = [recovery EXCEPT !.at = "first"]
    /\ RecoveryKeep /\ UNCHANGED machine

\* identity(): an observation that is late, or whose machine, configuration or
\* medium is not the ticket's, or that prints neither "started" nor "stopped"
\* (a machine that is stopping), ends the recovery: `same` is that it is none
\* of these.
Observe ==
    /\ Looking
    /\ \E took \in Durations(5, recovery.clock), same \in BOOLEAN :
          LET t == recovery.clock + took
              next == Onward(t)
          IN  recovery' =
                IF ~same \/ t >= RecoveryDeadline
                THEN [Returned EXCEPT !.seen = same]
                ELSE IF machine.on
                THEN [recovery EXCEPT !.at = next.at, !.clock = next.clock]
                ELSE [Returned EXCEPT !.stopped = TRUE]
    /\ RecoveryKeep /\ UNCHANGED machine

\* stop(): its failure is recorded and the recovery goes on.
RecoveryRequest ==
    /\ recovery.at = "request"
    /\ \E took \in Durations(10, recovery.clock) :
          LET t == recovery.clock + took
          IN  recovery' = [recovery EXCEPT !.at = "graceful", !.clock = t, !.until = GracefulUntil(t)]
    /\ machine' \in AfterStop(FALSE)
    /\ RecoveryKeep

RecoveryForce ==
    /\ recovery.at = "force"
    /\ \E took \in Durations(10, recovery.clock) :
          recovery' = [recovery EXCEPT !.at = "last", !.clock = @ + took, !.until = 0, !.forced = TRUE,
                                       !.left = RecoveryDeadline - recovery.clock]
    /\ machine' \in AfterStop(TRUE)
    /\ RecoveryKeep

\* Stop unconfirmed at the deadline.
RecoveryGivesUp ==
    /\ recovery.at = "last"
    /\ recovery.clock >= RecoveryDeadline
    /\ recovery' = Returned
    /\ RecoveryKeep /\ UNCHANGED machine

----------------------------------------------------------------------------
Controller ==
    \/ \E c \in Controllers : Look(c) \/ Claim(c)
    \/ Baseline \/ Start \/ StatusAfterStart \/ Collect \/ Verify \/ CollectTimesOut
    \/ ShutdownRequest \/ ShutdownStatus \/ ShutdownForce \/ StatusAfterForce \/ ListAfter \/ Report
    \/ ControllerDies

Collecting ==
    \/ HandCollects
    \/ \E c \in Collectors :
          CollectorBegins(c) \/ AdapterExecutes(c) \/ CollectorEnds(c) \/ CollectorTimesOut(c)

Recovering == RecoveryBegins \/ Observe \/ RecoveryRequest \/ RecoveryForce \/ RecoveryGivesUp

VmNext == MachineBoots \/ MachineStops \/ Controller \/ Collecting \/ Recovering

VmSpec == VmInit /\ [][VmNext]_vmVars

----------------------------------------------------------------------------
(***************************************************************************)
(* Properties.                                                             *)
(***************************************************************************)

\* However the two invocations, a collector run by hand, timeouts, orphaned
\* adapters and crashes interleave, one authorisation starts the machine at
\* most once and executes the program of a case in it at most once: attempt.json
\* and the case's evidence directory are each created exclusively, after the
\* look that refused an old attempt.  A hand collection of another case than
\* main's is a program of its own, which nothing refuses.
OneRun ==
    /\ machine.starts <= 1
    /\ \A k \in Cases : machine.ran[k] <= 1

\* What main reports is so.  A pass means one start, one completed execution of
\* the details by main's own collector and nothing forced; and a machine main
\* reports as stopped, or passed, is off and stays off: no start whose answer
\* was lost boots it afterwards.  (Of a recovery's `stopped` only the first
\* half is so: it does not wait for the start's effect.)
ResultIsTrue ==
    /\ run.passed =>
        /\ machine.starts = 1 /\ machine.ran["details"] = 1
        /\ collector["child"].at = "verified" /\ ~run.forced
    /\ run.passed \/ (run.at = "reported" /\ run.stopped) => ~machine.on /\ ~machine.booting

\* The 120 seconds of a recovery are divided so that, unless an observation is
\* refused (another machine, another medium, a state that is neither started
\* nor stopped), it ends with the machine seen off or after a
\* forced stop that still had its full 10 seconds.
RecoveryForces ==
    recovery.at = "ended" /\ recovery.seen => recovery.stopped \/ (recovery.forced /\ recovery.left >= 10)

=============================================================================
