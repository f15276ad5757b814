----------------------------- MODULE Lifecycle -----------------------------
(***************************************************************************)
(* One attempt of scripts/sw_i5_preparation_lifecycle.py: the owner process *)
(* that starts a VM through an adapter, waits until it is ready, runs the  *)
(* host watchdog with its transport, stops the VM, freezes its facts and   *)
(* has them persisted, while the controller may cancel at any moment.      *)
(*                                                                         *)
(*   own     _Owner: where run() is, the facts it will report, the registry *)
(*           of objects it has acknowledged                                *)
(*   kid     the forked start, readiness or shutdown adapter               *)
(*   net     the watchdog, its transport and the registration, admission   *)
(*           and staging channels between them and the owner               *)
(*   wk      the evidence worker: of the plain kind (_evidence_worker) or  *)
(*           the one that also creates and removes the attempt's objects   *)
(*           (worker_main, InitializationWorker)                           *)
(*   cmd, res  the pipes between the owner and that worker                 *)
(*                                                                         *)
(* Deadlines are nondeterministic: whatever waits may give up.  The lease  *)
(* protocol inside the host stage is the subject of LeaseChain; here the   *)
(* watchdog's verdict is open.  Messages that a party gave up waiting for  *)
(* stay in their pipe, as they do in the code.                             *)
(***************************************************************************)
EXTENDS Naturals, Sequences, SequencesExt

CONSTANTS
    GuestRoles,   \* the objects of the guest, in the order of their creation
    MaxStaged     \* RPC sources the transport stages

\* Every object is created once, by the guest or by the host.
ASSUME LifecycleAssumption ==
    /\ GuestRoles \in Seq(STRING)
    /\ IsInjective(GuestRoles)
    /\ {"host_jxa_root", "source"} \cap ToSet(GuestRoles) = {}
    /\ MaxStaged \in Nat

VARIABLES mode, cancel, own, vm, kid, left, net, wk, objs, cmd, res, disk, packet

vars == <<mode, cancel, own, vm, kid, left, net, wk, objs, cmd, res, disk, packet>>

Root == "host_jxa_root"
Source == "source"
Roles == {Root, Source} \cup ToSet(GuestRoles)

-----------------------------------------------------------------------------
(* What the owner knows.  self.facts is a set of marks. *)

Fail(f) == f \cup {"failed"}

\* cleanup_error: a failure too, and sessions_reaped is lost; once the facts
\* are frozen it only goes to the delivery errors.
CleanupError(f) == IF "frozen" \in f THEN f ELSE f \cup {"failed", "cleanup"}

\* checkpoint: a byte, an EOF or a signal of the controller is a failure.
Noticed(f) == IF cancel THEN Fail(f) ELSE f

NoCommit == [t |-> "none"]

Init ==
    /\ mode \in {"plain", "init"}
    /\ cancel = FALSE
    /\ own = [pc |-> "begin", facts |-> {}, shut |-> "none", guest |-> "not-attempted",
              host |-> "not-attempted", registry |-> [r \in Roles |-> "none"], safe |-> TRUE,
              report |-> "none", late |-> FALSE, receipt |-> "none"]
    /\ vm = "off"
    /\ kid = [act |-> "none", at |-> "none", said |-> "none"]
    /\ left = {}
    /\ net = [wd |-> "none", tr |-> "none", reg |-> "none", admit |-> "none",
              stage |-> "none", staged |-> 0, told |-> FALSE]
    /\ wk = [pc |-> "none", op |-> "none", todo |-> <<>>, step |-> "none", wait |-> FALSE,
             ents |-> [r \in Roles |-> "none"], src |-> FALSE, errs |-> FALSE, sent |-> NoCommit]
    /\ objs = {}
    /\ cmd = <<>>
    /\ res = <<>>
    /\ disk = "none"
    /\ packet = "none"

Go(pc, f) == own' = [own EXCEPT !.pc = pc, !.facts = f]
Unwind(f) == Go("unwind", Fail(f))
OwnerGone == own.pc = "exit"
WorkerLive == wk.pc \notin {"none", "dead", "done"}
\* commit closes the command pipe behind its report.
CmdClosed == own.pc \in {"commit", "reap", "packet", "exit"}

\* The worker between two operations, or at its end.
WkAt(pc) == [wk EXCEPT !.pc = pc, !.op = "none", !.todo = <<>>, !.step = "none", !.wait = FALSE,
                       !.errs = FALSE, !.sent = NoCommit]

World == <<mode, cancel, vm, kid, left, net, wk, objs, cmd, res, disk, packet>>

-----------------------------------------------------------------------------
(* run(), up to the host stage. *)

\* evidence_start: fork the worker.
EvidenceStart ==
    /\ own.pc = "begin"
    /\ \/ Unwind(own.facts) /\ UNCHANGED wk
       \/ /\ ~cancel
          /\ Go("evidence", own.facts)
          /\ wk' = [wk EXCEPT !.pc = "boot"]
    /\ UNCHANGED <<mode, cancel, vm, kid, left, net, objs, cmd, res, disk, packet>>

\* register: record the event, then acknowledge it.
Registrable(e) ==
    own.registry[e.role] = CASE e.state = "intent" -> "none"
                             [] e.state = "bound" -> "intent"
                             [] e.state = "cleaned" -> "bound"

Recorded(e) ==
    [own.registry EXCEPT ![e.role] = IF e.state = "cleaned" THEN "none" ELSE e.state]

RegistrationComes == res # <<>> /\ Head(res).t = "reg" /\ Registrable(Head(res))

\* A registration read while the owner waits for another message.
Register ==
    /\ own.pc \in {"evidence", "guest", "host", "guestClean", "hostClean"}
    /\ RegistrationComes
    /\ own.pc = "host" => mode = "init"
    /\ WorkerLive
    /\ own' = [own EXCEPT !.registry = Recorded(Head(res))]
    /\ cmd' = Append(cmd, [t |-> "ack", role |-> Head(res).role, state |-> Head(res).state])
    /\ res' = Tail(res)
    /\ UNCHANGED <<mode, cancel, vm, kid, left, net, wk, objs, disk, packet>>

\* The worker's ready message; its attempt_ready is kept even when the
\* initialisation failed after it.
EvidenceReady ==
    /\ own.pc = "evidence"
    /\ res # <<>> /\ Head(res).t = "ready"
    /\ LET known == own.facts \cup (IF Head(res).attempt THEN {"attempt"} ELSE {}) IN
          IF Head(res).ok THEN Go("start", known \cup {"hostReady"}) ELSE Unwind(known)
    /\ res' = Tail(res)
    /\ UNCHANGED <<mode, cancel, vm, kid, left, net, wk, objs, cmd, disk, packet>>

\* action: fork the adapter.  start_attempted is set before the fork, so that
\* a lost answer is still followed by a stop.
Action ==
    /\ own.pc \in {"start", "readiness"}
    /\ LET known == own.facts \cup (IF own.pc = "start" THEN {"startTried"} ELSE {}) IN
          \/ /\ cancel \/ "failed" \in own.facts
             /\ Unwind(own.facts)
             /\ UNCHANGED kid
          \/ /\ ~cancel /\ "failed" \notin own.facts
             /\ \/ /\ Go(IF own.pc = "start" THEN "startWait" ELSE "readinessWait", known)
                   /\ kid' = [act |-> own.pc, at |-> "run", said |-> "none"]
                \/ Unwind(known) /\ UNCHANGED kid
    /\ UNCHANGED <<mode, cancel, vm, left, net, wk, objs, cmd, res, disk, packet>>

\* finish: the child is reaped, or its group had to be killed and is gone, or
\* it stays behind.  f is what the owner knew before.
Finish(f, who, next) ==
    \/ Go(next, f) /\ UNCHANGED left
    \/ Go(next, CleanupError(f)) /\ left' \in {left, left \cup {who}}

NoKid == [act |-> "none", at |-> "none", said |-> "none"]

\* The adapter answered and exited with 0.
ActionDone ==
    /\ own.pc \in {"startWait", "readinessWait"}
    /\ kid.at = "exited" /\ kid.said = "ok"
    /\ IF own.pc = "startWait" THEN Finish(own.facts \cup {"started"}, "start", "readiness")
       ELSE IF mode = "init" THEN Finish(own.facts, "readiness", "guest0")
       ELSE Finish(own.facts \cup {"ready"}, "readiness", "host0")
    /\ kid' = NoKid
    /\ UNCHANGED <<mode, cancel, vm, net, wk, objs, cmd, res, disk, packet>>

\* Cancelled, out of time, a refused answer or a bad exit: the child is killed.
ActionLost ==
    /\ own.pc \in {"startWait", "readinessWait"}
    /\ Finish(Fail(own.facts), kid.act, "unwind")
    /\ kid' = NoKid
    /\ UNCHANGED <<mode, cancel, vm, net, wk, objs, cmd, res, disk, packet>>

\* initialization_command: a command to the worker.
Command(op) == cmd' = Append(cmd, [t |-> "op", op |-> op])

GuestInit ==
    /\ own.pc = "guest0"
    /\ \/ WorkerLive /\ Command("guest") /\ Go("guest", own.facts)
       \/ Unwind(own.facts) /\ UNCHANGED cmd
    /\ UNCHANGED <<mode, cancel, vm, kid, left, net, wk, objs, res, disk, packet>>

\* The guest's objects were created, bound and read back.
GuestReady ==
    /\ own.pc = "guest"
    /\ res # <<>> /\ Head(res).t = "done"
    /\ IF Head(res).op = "guest" /\ ~Head(res).errs
       THEN Go("host0", own.facts \cup {"guestReady", "ready"})
       ELSE Unwind(own.facts)
    /\ res' = Tail(res)
    /\ UNCHANGED <<mode, cancel, vm, kid, left, net, wk, objs, cmd, disk, packet>>

-----------------------------------------------------------------------------
(* The host stage: host(), and the processes of fork_watchdog. *)

WatchRuns == net.wd \in {"run", "term"}
TransportRuns == net.tr \in {"fork", "wait", "work"}

HostFork ==
    /\ own.pc = "host0"
    /\ \/ /\ cancel \/ "failed" \in own.facts
          /\ Unwind(own.facts)
          /\ UNCHANGED net
       \/ /\ ~cancel /\ "failed" \notin own.facts
          /\ \/ Go("host", own.facts) /\ net' = [net EXCEPT !.wd = "run"]
             \/ Go("unwind", CleanupError(own.facts)) /\ UNCHANGED net
    /\ UNCHANGED <<mode, cancel, vm, kid, left, wk, objs, cmd, res, disk, packet>>

\* The transport's registration: its pid is recorded before anything else,
\* and admitted only while the watchdog lives and nothing has failed.
RegisterTransport ==
    /\ own.pc = "host"
    /\ net.reg = "sent"
    /\ Go("host", Noticed(own.facts) \cup {"registered"})
    /\ net' = [net EXCEPT !.reg = "read",
                  !.admit = IF WatchRuns /\ "failed" \notin own'.facts THEN "1" ELSE "closed"]
    /\ UNCHANGED <<mode, cancel, vm, kid, left, wk, objs, cmd, res, disk, packet>>

\* The first failure the loop sees: admission and lease are closed, the
\* watchdog is told to stop and a registered transport's group is killed.
HostCancel ==
    /\ own.pc = "host"
    /\ ~net.told
    /\ Go("host", Fail(own.facts))
    /\ \E after \in IF "registered" \in own.facts /\ TransportRuns THEN {"gone", "stuck"} ELSE {net.tr} :
          net' = [net EXCEPT !.told = TRUE,
                     !.admit = IF @ = "1" THEN @ ELSE "closed",
                     !.wd = IF @ = "run" THEN "term" ELSE @,
                     !.tr = after]
    /\ UNCHANGED <<mode, cancel, vm, kid, left, wk, objs, cmd, res, disk, packet>>

\* Mutant: a transport that never registered is taken to have exited.
Unconfirmed_never(f) == FALSE

\* Without a registration nothing is known about the transport.
Unconfirmed(f) == "registered" \notin f

\* host's finally block: the descriptors close, a watchdog that still runs is
\* killed and reaped, and the registered transport's group must be gone.  A
\* staging request that was sent may still be read.
HostEnd(f, report, registry) ==
    \E reaped \in BOOLEAN, gone \in BOOLEAN :
       LET known == "registered" \in f
           dirty == ~reaped \/ (known /\ (TransportRuns \/ net.tr = "stuck")) \/ Unconfirmed(f)
       IN
       /\ own' = [own EXCEPT !.pc = "unwind", !.report = report, !.registry = registry,
                             !.facts = IF dirty THEN CleanupError(f) ELSE f]
       /\ net' = [net EXCEPT !.admit = "closed", !.reg = "none", !.told = FALSE, !.staged = MaxStaged,
                     !.stage = IF @ \in {"stage", "clean", "busy"} THEN @ ELSE "none",
                     !.wd = IF @ = "passed" THEN @ ELSE IF WatchRuns /\ ~reaped THEN "stuck" ELSE "dead",
                     !.tr = IF known /\ TransportRuns THEN IF gone THEN "gone" ELSE "stuck" ELSE @]

\* Report, exit and registration pipe are at their end; the report is
\* validated against the exit code.
HostDone ==
    /\ own.pc = "host"
    /\ net.wd \in {"passed", "failed", "dead"}
    /\ net.reg # "sent"
    /\ net.tr # "fork"
    /\ IF net.wd = "passed" THEN HostEnd(own.facts \cup {"hostPassed"}, "passed", own.registry)
       ELSE HostEnd(Fail(own.facts), "none", own.registry)
    /\ UNCHANGED <<mode, cancel, vm, kid, left, wk, objs, cmd, res, disk, packet>>

\* An exception in the loop.  The report may have been read to its end already,
\* a registration frame consumed in part, or recorded and not acknowledged.
HostLost ==
    /\ own.pc = "host"
    /\ \E report \in {"none", net.wd} \cap {"none", "passed"} :
          \/ HostEnd(Fail(own.facts), report, own.registry) /\ UNCHANGED res
          \/ /\ mode = "init" /\ res # <<>>
             /\ HostEnd(Fail(own.facts), report, own.registry)
             /\ res' = [res EXCEPT ![1] = [t |-> "garbage"]]
          \/ /\ mode = "init" /\ RegistrationComes
             /\ HostEnd(Fail(own.facts), report, Recorded(Head(res)))
             /\ res' = Tail(res)
    /\ UNCHANGED <<mode, cancel, vm, kid, left, wk, objs, cmd, disk, packet>>

\* The watchdog holds its first lease and forks the transport.
WatchForks ==
    /\ net.wd = "run" /\ net.tr = "none"
    /\ net' = [net EXCEPT !.tr = "fork"]
    /\ UNCHANGED <<mode, cancel, own, vm, kid, left, wk, objs, cmd, res, disk, packet>>

TransportRegisters ==
    /\ net.tr = "fork" /\ own.pc = "host"
    /\ net' = [net EXCEPT !.tr = "wait", !.reg = "sent"]
    /\ UNCHANGED <<mode, cancel, own, vm, kid, left, wk, objs, cmd, res, disk, packet>>

\* Admission needs the owner's byte and the original watchdog.
TransportAdmitted ==
    /\ net.tr = "wait" /\ net.admit = "1" /\ WatchRuns
    /\ net' = [net EXCEPT !.tr = "work"]
    /\ UNCHANGED <<mode, cancel, own, vm, kid, left, wk, objs, cmd, res, disk, packet>>

\* The transport ends with 0 when its work is complete, with an error whenever
\* it is refused, loses a channel or runs out of time.
TransportEnds ==
    /\ TransportRuns
    /\ \/ /\ net.tr = "work" /\ net.stage \in {"none", "cleaned"}
          /\ net' = [net EXCEPT !.tr = "ended"]
       \/ net' = [net EXCEPT !.tr = "gone"]
    /\ UNCHANGED <<mode, cancel, own, vm, kid, left, wk, objs, cmd, res, disk, packet>>

\* StagingClient.exchange: one RPC source is staged, used and cleaned.
TransportStages ==
    /\ mode = "init" /\ net.tr = "work"
    /\ \/ /\ net.stage \in {"none", "cleaned"} /\ net.staged < MaxStaged
          /\ net' = [net EXCEPT !.stage = "stage", !.staged = @ + 1]
       \/ /\ net.stage = "staged"
          /\ net' = [net EXCEPT !.stage = "clean"]
    /\ UNCHANGED <<mode, cancel, own, vm, kid, left, wk, objs, cmd, res, disk, packet>>

\* The watchdog reaps its transport, or kills it, and reports.
WatchReports ==
    /\ WatchRuns
    /\ \/ /\ net.tr = "ended" /\ net.wd = "run"
          /\ net' = [net EXCEPT !.wd = "passed"]
       \/ /\ net.tr \in {"none", "ended", "gone"}
          /\ net' = [net EXCEPT !.wd = "failed"]
       \/ /\ net.tr \in {"fork", "wait", "work", "stuck"}
          /\ \E after \in {"gone", "stuck"} : net' = [net EXCEPT !.wd = "failed", !.tr = after]
    /\ UNCHANGED <<mode, cancel, own, vm, kid, left, wk, objs, cmd, res, disk, packet>>

WatchDies ==
    /\ WatchRuns
    /\ net' = [net EXCEPT !.wd = "dead"]
    /\ UNCHANGED <<mode, cancel, own, vm, kid, left, wk, objs, cmd, res, disk, packet>>

Host ==
    \/ WatchForks \/ TransportRegisters \/ TransportAdmitted \/ TransportEnds
    \/ TransportStages \/ WatchReports \/ WatchDies

-----------------------------------------------------------------------------
(* run()'s finally block: clean the guest, stop, clean the host, freeze. *)

\* sessions_safe is what the sessions looked like before any cleanup.
UnwindBegins ==
    /\ own.pc = "unwind"
    /\ own' = [own EXCEPT !.pc = IF mode = "init" /\ wk.pc # "none" THEN "guestClean0" ELSE "stop",
                          !.safe = "cleanup" \notin own.facts]
    /\ UNCHANGED World

CleanStages == {"guestClean0", "hostClean0"}
CleanWaits == {"guestClean", "hostClean"}
\* What follows a cleanup.
AfterClean(pc) == IF pc \in {"guestClean0", "guestClean"} THEN "stop" ELSE "freeze"
CleanOp(pc) == IF pc \in {"guestClean0", "guestClean"} THEN "guest-cleanup" ELSE "host-cleanup"

Cleaned(status) ==
    [own EXCEPT !.pc = AfterClean(own.pc),
        !.guest = IF CleanOp(own.pc) = "guest-cleanup" THEN status ELSE @,
        !.host = IF CleanOp(own.pc) = "host-cleanup" THEN status ELSE @,
        !.facts = IF status = "complete" THEN @ ELSE CleanupError(@)]

\* cleanup: nothing is removed under sessions that may still be running.  A
\* cleanup that failed and one that is unconfirmed are told apart by nobody.
Clean ==
    /\ own.pc \in CleanStages
    /\ \/ /\ own.safe /\ WorkerLive
          /\ Command(CleanOp(own.pc))
          /\ Go(IF own.pc = "guestClean0" THEN "guestClean" ELSE "hostClean", own.facts)
       \/ /\ ~own.safe \/ ~WorkerLive
          /\ own' = Cleaned("unconfirmed")
          /\ UNCHANGED cmd
    /\ UNCHANGED <<mode, cancel, vm, kid, left, net, wk, objs, res, disk, packet>>

\* Mutant: the answer is not compared with the operation that was asked for.
Answers_any(m) == m.t = "done"

\* The answer must name the operation.
Answers(m) == m.t = "done" /\ m.op = CleanOp(own.pc)

CleanDone ==
    /\ own.pc \in CleanWaits
    /\ res # <<>> /\ Head(res).t # "reg"
    /\ own' = Cleaned(IF Answers(Head(res)) /\ ~Head(res).errs THEN "complete" ELSE "unconfirmed")
    /\ res' = Tail(res)
    /\ UNCHANGED <<mode, cancel, vm, kid, left, net, wk, objs, cmd, disk, packet>>

\* message gives up: cancelled, out of time, EOF, an unexpected message, several
\* messages read at once, or a registration that was recorded but could not be
\* acknowledged.
GivenUp ==
    IF own.pc \in CleanWaits THEN Cleaned("unconfirmed")
    ELSE [own EXCEPT !.pc = "unwind", !.facts = Fail(@)]

WaitLost ==
    /\ own.pc \in {"evidence", "guest"} \cup CleanWaits
    /\ \/ own' = GivenUp /\ UNCHANGED res
       \/ own' = GivenUp /\ Len(res) > 1 /\ res' = <<>>
       \/ /\ RegistrationComes
          /\ own' = [GivenUp EXCEPT !.registry = Recorded(Head(res))]
          /\ res' = Tail(res)
    /\ UNCHANGED <<mode, cancel, vm, kid, left, net, wk, objs, cmd, disk, packet>>

AfterStop == IF mode = "init" /\ wk.pc # "none" THEN "hostClean0" ELSE "freeze"

\* The stop is attempted whenever a start was, once, and is a normal one only
\* when everything so far went well.
Stop ==
    /\ own.pc = "stop"
    /\ IF "startTried" \notin own.facts THEN Go(AfterStop, own.facts) /\ UNCHANGED kid
       ELSE LET known == own.facts \cup {"shutTried"}
                m == IF "hostPassed" \in known /\ {"failed", "cleanup"} \cap known = {}
                     THEN "normal" ELSE "recovery"
            IN \/ /\ own' = [own EXCEPT !.pc = "stopWait", !.facts = known, !.shut = "none"]
                  /\ kid' = [act |-> m, at |-> "run", said |-> "none"]
               \/ Go(AfterStop, CleanupError(known)) /\ UNCHANGED kid
    /\ UNCHANGED <<mode, cancel, vm, left, net, wk, objs, cmd, res, disk, packet>>

\* A forced stop is a stop, but cannot pass.
Stopped ==
    /\ own.pc = "stopWait"
    /\ kid.at = "exited" /\ kid.said \in {"ok", "forced"}
    /\ LET f == IF kid.said = "forced" THEN Fail(own.facts) ELSE own.facts
           s == IF kid.said = "forced" THEN "forced" ELSE kid.act
       IN \E stay \in {{}, {"shutdown"}}, dirty \in BOOLEAN :
             /\ stay # {} => dirty
             /\ own' = [own EXCEPT !.pc = AfterStop, !.shut = s, !.facts = IF dirty THEN CleanupError(f) ELSE f]
             /\ left' = left \cup stay
    /\ kid' = NoKid
    /\ UNCHANGED <<mode, cancel, vm, net, wk, objs, cmd, res, disk, packet>>

StopLost ==
    /\ own.pc = "stopWait"
    /\ Go(AfterStop, CleanupError(own.facts))
    /\ left' \in {left, left \cup {"shutdown"}}
    /\ kid' = NoKid
    /\ UNCHANGED <<mode, cancel, vm, net, wk, objs, cmd, res, disk, packet>>

\* Passed facts.
Good(f) == "hostPassed" \in f /\ {"failed", "cleanup"} \cap f = {}

Frozen(f) ==
    LET final == (IF "hostPassed" \in f THEN f ELSE Fail(f)) \cup {"frozen"}
    IN own' = [own EXCEPT !.pc = "commit0",
                          !.facts = IF Good(final) THEN final \cup {"passed"} ELSE final]

\* Mutant: the controller is not looked at again after the stop.
Freeze_unchecked ==
    /\ own.pc = "freeze"
    /\ Frozen(own.facts)
    /\ UNCHANGED World

\* The cancellation cut: one last checkpoint, then the facts are final.
Freeze ==
    /\ own.pc = "freeze"
    /\ Frozen(Noticed(own.facts))
    /\ UNCHANGED World

\* What commit sends: the facts, the initialisation's state and the report.
Commitment ==
    [t |-> "commit", facts |-> own.facts, shut |-> own.shut, guest |-> own.guest,
     host |-> own.host, registry |-> own.registry, report |-> own.report]

Commit ==
    /\ own.pc = "commit0"
    /\ \/ /\ "attempt" \in own.facts /\ WorkerLive
          /\ cmd' = Append(cmd, Commitment)
          /\ Go("commit", own.facts)
       \/ Go("reap", own.facts) /\ UNCHANGED cmd
    /\ UNCHANGED <<mode, cancel, vm, kid, left, net, wk, objs, res, disk, packet>>

\* The worker's receipt, or anything else in its place.  A registration that
\* was still in the pipe is recorded, but can no longer be acknowledged.
Receipt ==
    /\ own.pc = "commit"
    /\ res # <<>>
    /\ LET m == Head(res) IN
          own' = [own EXCEPT !.pc = "reap",
                     !.receipt = IF m.t = "receipt" THEN m.passed ELSE "none",
                     !.registry = IF m.t = "reg" /\ Registrable(m) THEN Recorded(m) ELSE @]
    /\ res' = Tail(res)
    /\ UNCHANGED <<mode, cancel, vm, kid, left, net, wk, objs, cmd, disk, packet>>

\* Mutant: the receipt is waited for without the persist deadline.
ReceiptLost_patient ==
    /\ own.pc = "commit"
    /\ ~WorkerLive
    /\ Go("reap", own.facts)
    /\ UNCHANGED World

ReceiptLost ==
    /\ own.pc = "commit"
    /\ Go("reap", own.facts)
    /\ UNCHANGED World

\* finish of the evidence worker: it exits by itself after its receipt, or is
\* killed; late is a delivery error.
Reap ==
    /\ own.pc = "reap"
    /\ \/ /\ own.receipt # "none" /\ wk.pc = "done"
          /\ \E late \in BOOLEAN :
                own' = [own EXCEPT !.pc = "packet", !.late = late, !.facts = IF late THEN CleanupError(@) ELSE @]
          /\ UNCHANGED wk
       \/ \E end \in {"dead", "stuck"} :
             /\ wk' = WkAt(IF WorkerLive THEN end ELSE wk.pc)
             /\ own' = [own EXCEPT !.pc = "packet", !.late = TRUE,
                                   !.facts = IF end = "stuck" THEN CleanupError(@) ELSE @]
    /\ cmd' = <<>>
    /\ res' = <<>>
    /\ UNCHANGED <<mode, cancel, vm, kid, left, net, objs, disk, packet>>

\* The result packet, if its pipe still takes it.
Report ==
    /\ own.pc = "packet"
    /\ Go("exit", own.facts)
    /\ packet' \in {IF own.receipt = "passed" /\ ~own.late THEN "passed" ELSE "failed", "lost"}
    /\ UNCHANGED <<mode, cancel, vm, kid, left, net, wk, objs, cmd, res, disk>>

Owner ==
    \/ EvidenceStart \/ Register \/ EvidenceReady
    \/ Action \/ ActionDone \/ ActionLost
    \/ GuestInit \/ GuestReady
    \/ HostFork \/ RegisterTransport \/ HostCancel \/ HostDone \/ HostLost
    \/ UnwindBegins \/ Clean \/ CleanDone \/ WaitLost
    \/ Stop \/ Stopped \/ StopLost \/ Freeze
    \/ Commit \/ Receipt \/ ReceiptLost \/ Reap \/ Report

-----------------------------------------------------------------------------
(* The controller, the adapters and what outlived them. *)

\* A byte, an EOF or a signal.  After the freeze nobody looks at it.
Cancel ==
    /\ ~cancel /\ "frozen" \notin own.facts
    /\ cancel' = TRUE
    /\ UNCHANGED <<mode, own, vm, kid, left, net, wk, objs, cmd, res, disk, packet>>

\* The adapter's effect on the VM.
Effect(act) ==
    CASE act = "start" -> "on"
      [] act \in {"normal", "recovery", "shutdown"} -> "off"
      [] OTHER -> vm

KidActs ==
    /\ kid.at = "run"
    /\ kid' = [kid EXCEPT !.at = "acted"]
    /\ vm' = Effect(kid.act)
    /\ UNCHANGED <<mode, cancel, own, left, net, wk, objs, cmd, res, disk, packet>>

\* It says so only when it is so; it may fail before or after the effect.
KidAnswers ==
    /\ kid.at \in {"run", "acted"}
    /\ \E said \in {"bad"} \cup (IF kid.at = "acted" THEN {"ok"} ELSE {})
                           \cup (IF kid.at = "acted" /\ own.pc = "stopWait" THEN {"forced"} ELSE {}) :
          kid' = [kid EXCEPT !.at = "exited", !.said = said]
    /\ UNCHANGED <<mode, cancel, own, vm, left, net, wk, objs, cmd, res, disk, packet>>

\* A child that could not be reaped may still take effect.
LeftActs ==
    /\ \E who \in left : vm' = Effect(who)
    /\ UNCHANGED <<mode, cancel, own, kid, left, net, wk, objs, cmd, res, disk, packet>>

-----------------------------------------------------------------------------
(* The evidence worker.  An operation walks a sequence of objects: each is  *)
(* registered, made and bound, or removed and registered as cleaned.  A     *)
(* registration waits for the owner's acknowledgement.                      *)

First(op) == IF op \in {"host", "guest", "stage"} THEN "intent" ELSE "remove"

Starts(op, todo) ==
    wk' = [wk EXCEPT !.pc = "work", !.op = op, !.todo = todo, !.step = First(op)]

Dies == wk' = WkAt("dead")

\* The store is created and the attempt read back; or that fails, which only
\* the plain worker does not survive.
WkBoot ==
    /\ wk.pc = "boot"
    /\ \/ /\ disk' = "attempt"
          /\ IF mode = "init" THEN Starts("host", <<Root>>) /\ UNCHANGED res
             ELSE /\ wk' = WkAt("idle")
                  /\ res' = Append(res, [t |-> "ready", attempt |-> TRUE, ok |-> TRUE])
       \/ /\ res' = Append(res, [t |-> "ready", attempt |-> FALSE, ok |-> FALSE])
          /\ IF mode = "init" THEN wk' = WkAt("idle") ELSE Dies
          /\ UNCHANGED disk
    /\ UNCHANGED <<mode, cancel, own, vm, kid, left, net, objs, cmd, packet>>

\* The object in hand, and going on with the next one.
Role == Head(wk.todo)
Onward == [wk EXCEPT !.todo = Tail(@), !.step = First(wk.op), !.wait = FALSE]

\* The answer to a staging request is lost when the transport is gone.
Replied(answer) == [net EXCEPT !.stage = IF TransportRuns THEN answer ELSE "none"]

\* An exception inside an operation.  cleanup records it and goes on with the
\* next guest object; every other operation is answered with the error.
OpError ==
    \/ /\ wk.op = "host"
       /\ res' = Append(res, [t |-> "ready", attempt |-> TRUE, ok |-> FALSE])
       /\ wk' = WkAt("idle") /\ UNCHANGED net
    \/ /\ wk.op = "guest"
       /\ res' = Append(res, [t |-> "done", op |-> wk.op, errs |-> TRUE])
       /\ wk' = WkAt("idle") /\ UNCHANGED net
    \/ /\ wk.op \in {"stage", "clean"}
       /\ net' = Replied("error")
       /\ wk' = WkAt("idle") /\ UNCHANGED res
    \/ /\ wk.op = "guest-cleanup"
       /\ wk' = [Onward EXCEPT !.errs = TRUE]
       /\ UNCHANGED <<net, res>>
    \/ /\ wk.op = "host-cleanup"
       /\ wk' = [Onward EXCEPT !.errs = TRUE, !.todo = <<>>]
       /\ UNCHANGED <<net, res>>

Working == wk.pc = "work" /\ ~wk.wait /\ wk.todo # <<>>
Noted == [wk.ents EXCEPT ![Role] = IF wk.step = "cleaned" THEN "none" ELSE wk.step]

\* Mutant: the worker goes on without the acknowledgement.
WkEvent_unacknowledged ==
    /\ Working /\ wk.step \in {"intent", "bound", "cleaned"}
    /\ wk' = IF wk.step = "intent" THEN [wk EXCEPT !.ents = Noted, !.step = "make"]
             ELSE [Onward EXCEPT !.ents = Noted]
    /\ res' = Append(res, [t |-> "reg", role |-> Role, state |-> wk.step])
    /\ UNCHANGED <<mode, cancel, own, vm, kid, left, net, objs, cmd, disk, packet>>

\* event: note it, register it, wait.
WkEvent ==
    /\ Working /\ wk.step \in {"intent", "bound", "cleaned"}
    /\ wk' = [wk EXCEPT !.ents = Noted, !.wait = TRUE]
    /\ res' = Append(res, [t |-> "reg", role |-> Role, state |-> wk.step])
    /\ UNCHANGED <<mode, cancel, own, vm, kid, left, net, objs, cmd, disk, packet>>

\* Acknowledged: a source that is cleaned is no longer held.
Acknowledged ==
    IF wk.step = "intent" THEN [wk EXCEPT !.step = "make", !.wait = FALSE]
    ELSE [Onward EXCEPT !.src = @ /\ ~(wk.step = "cleaned" /\ Role = Source)]

\* Whatever comes down the command pipe next is taken for the answer.
WkAck ==
    /\ wk.pc = "work" /\ wk.wait /\ cmd # <<>>
    /\ IF Head(cmd) = [t |-> "ack", role |-> Role, state |-> wk.step]
       THEN wk' = Acknowledged /\ UNCHANGED <<net, res>>
       ELSE OpError
    /\ cmd' = Tail(cmd)
    /\ UNCHANGED <<mode, cancel, own, vm, kid, left, objs, disk, packet>>

WkAckLost ==
    /\ wk.pc = "work" /\ wk.wait
    /\ OpError
    /\ UNCHANGED <<mode, cancel, own, vm, kid, left, objs, cmd, disk, packet>>

\* mkdir or O_EXCL, then the identity; a failure may leave the object.
WkMake ==
    /\ Working /\ wk.step = "make"
    /\ LET made == objs \cup {Role} IN
          \/ objs' = made /\ wk' = [wk EXCEPT !.step = "bound"] /\ UNCHANGED <<net, res>>
          \/ objs' \in {objs, made} /\ OpError
    /\ UNCHANGED <<mode, cancel, own, vm, kid, left, cmd, disk, packet>>

\* What cleanup has to do with: the entries, and a source until its removal
\* was acknowledged.
Known(r) == IF r = Source THEN wk.src ELSE wk.ents[r] # "none"

WkSkip ==
    /\ Working /\ wk.step = "remove" /\ ~Known(Role)
    /\ wk' = Onward
    /\ UNCHANGED <<mode, cancel, own, vm, kid, left, net, objs, cmd, res, disk, packet>>

\* Only an object whose identity is bound may be removed.
WkRemove ==
    /\ Working /\ wk.step = "remove" /\ Known(Role)
    /\ \/ /\ wk.ents[Role] = "bound"
          /\ objs' = objs \ {Role} /\ wk' = [wk EXCEPT !.step = "cleaned"] /\ UNCHANGED <<net, res>>
       \/ OpError /\ UNCHANGED objs
    /\ UNCHANGED <<mode, cancel, own, vm, kid, left, cmd, disk, packet>>

\* The operation is complete; creation ends with an independent readback.
WkDone ==
    /\ wk.pc = "work" /\ wk.todo = <<>>
    /\ \/ /\ wk' = WkAt("idle")
          /\ IF wk.op \in {"stage", "clean"}
             THEN /\ net' = Replied(IF wk.op = "stage" THEN "staged" ELSE "cleaned")
                  /\ UNCHANGED res
             ELSE /\ res' = Append(res, IF wk.op = "host" THEN [t |-> "ready", attempt |-> TRUE, ok |-> TRUE]
                                        ELSE [t |-> "done", op |-> wk.op, errs |-> wk.errs])
                  /\ UNCHANGED net
       \/ wk.op \in {"host", "guest", "stage"} /\ OpError
    /\ UNCHANGED <<mode, cancel, own, vm, kid, left, objs, cmd, disk, packet>>

\* What an operation of the owner's walks: cleanup takes the guest's objects in
\* the reverse order of their creation.
Walk(op) ==
    IF op = "guest" THEN GuestRoles
    ELSE IF op = "guest-cleanup" THEN Reverse(GuestRoles)
    ELSE <<Source, Root>>

\* The command loop; an acknowledgement nobody waits for any more is not a
\* command and ends the worker, as does the end of the pipe.
WkCommand ==
    /\ wk.pc = "idle"
    /\ \/ /\ cmd # <<>>
          /\ LET m == Head(cmd) IN
                \/ m.t = "op" /\ Starts(m.op, Walk(m.op))
                \/ m.t = "commit" /\ wk' = [wk EXCEPT !.pc = "persist", !.sent = m]
                \/ m.t = "ack" /\ Dies
          /\ cmd' = Tail(cmd)
       \/ /\ cmd = <<>> /\ CmdClosed
          /\ Dies /\ UNCHANGED cmd
    /\ UNCHANGED <<mode, cancel, own, vm, kid, left, net, objs, res, disk, packet>>

\* InitializationWorker.stage: at most one source at a time.
WkStage ==
    /\ wk.pc = "idle" /\ cmd = <<>>
    /\ net.stage \in {"stage", "clean"}
    /\ IF (net.stage = "stage") = ~wk.src
       THEN /\ wk' = [wk EXCEPT !.pc = "work", !.op = net.stage, !.todo = <<Source>>,
                                !.step = First(net.stage), !.src = TRUE]
            /\ net' = [net EXCEPT !.stage = "busy"]
       ELSE net' = Replied("error") /\ UNCHANGED wk
    /\ UNCHANGED <<mode, cancel, own, vm, kid, left, objs, cmd, res, disk, packet>>

\* Nothing of the commitment contradicts the rest of it: validate_lifecycle
\* and, for an attempt with initialisation, validate_initialization.
Pending(m) == {r \in Roles : m.registry[r] # "none"}

Consistent(m) ==
    LET f == m.facts
        passed == m.report = "passed"
    IN
    /\ "startTried" \notin f => f \cap {"started", "ready", "shutTried", "registered"} = {}
    /\ "startTried" \in f => "attempt" \in f
    /\ "ready" \in f => "started" \in f
    /\ "registered" \in f => "ready" \in f
    /\ m.shut # "none" => "shutTried" \in f
    /\ ("shutTried" \in f) = ("startTried" \in f)
    /\ passed => {"registered", "started", "ready"} \subseteq f
    /\ m.shut = "normal" => passed
    /\ ("passed" \in f) = (/\ passed
                           /\ {"attempt", "started", "ready", "registered"} \subseteq f
                           /\ m.shut = "normal"
                           /\ {"failed", "cleanup"} \cap f = {})
    /\ f \cap {"passed", "failed", "cleanup"} # {}
    /\ mode = "init" =>
         /\ "guestReady" \in f => {"hostReady", "started", "ready"} \subseteq f
         /\ "startTried" \in f => "hostReady" \in f
         /\ "registered" \in f => "guestReady" \in f
         /\ m.guest = "complete" => Pending(m) \cap ToSet(GuestRoles) = {}
         /\ m.host = "complete" => Pending(m) \cap {Root, Source} = {}
         /\ "passed" \in f => "guestReady" \in f /\ Pending(m) = {} /\ m.guest = "complete" /\ m.host = "complete"

\* EvidenceStore.persist: validate, publish the report, publish the receipt,
\* read both back, answer and exit.
WkPersist ==
    /\ \/ /\ wk.pc = "persist" /\ Consistent(wk.sent)
          /\ disk' = "report"
          /\ wk' = [wk EXCEPT !.pc = "seal"]
          /\ UNCHANGED res
       \/ /\ wk.pc = "seal"
          /\ disk' = IF wk.sent.report = "passed" /\ "passed" \in wk.sent.facts THEN "passed" ELSE "failed"
          /\ wk' = [wk EXCEPT !.pc = "answer"]
          /\ UNCHANGED res
       \/ /\ wk.pc = "answer"
          /\ res' = Append(res, [t |-> "receipt", passed |-> disk])
          /\ wk' = WkAt("done")
          /\ UNCHANGED disk
    /\ UNCHANGED <<mode, cancel, own, vm, kid, left, net, objs, cmd, packet>>

\* A refusal or an I/O error while persisting; only the plain worker says so.
WkPersistFails ==
    /\ wk.pc \in {"persist", "seal"}
    /\ Dies
    /\ res' = IF mode = "plain" THEN Append(res, [t |-> "error"]) ELSE res
    /\ UNCHANGED <<mode, cancel, own, vm, kid, left, net, objs, cmd, disk, packet>>

\* A crash, or a filesystem that never answers.
WkFault ==
    /\ WorkerLive /\ wk.pc # "stuck"
    /\ wk' = WkAt(IF wk.pc = "idle" THEN "dead" ELSE "stuck")
    /\ UNCHANGED <<mode, cancel, own, vm, kid, left, net, objs, cmd, res, disk, packet>>

Worker ==
    \/ WkBoot \/ WkEvent \/ WkAck \/ WkAckLost \/ WkMake \/ WkSkip \/ WkRemove \/ WkDone
    \/ WkCommand \/ WkStage \/ WkPersist \/ WkPersistFails \/ WkFault

Next == Owner \/ Cancel \/ KidActs \/ KidAnswers \/ LeftActs \/ Host \/ Worker

Spec == Init /\ [][Next]_vars

\* Every wait of the owner has a deadline, so some step of it is always due.
FairSpec == Spec /\ WF_vars(Owner)

-----------------------------------------------------------------------------
(* Properties. *)

\* "Register before ACK: response loss can never grant an unrecorded write"
\* (_Owner.register): every object that exists is in the owner's registry,
\* however late or mismatched the answers between the two have become.
NoUnrecordedWrite == \A r \in objs : own.registry[r] # "none"

\* Whatever is still running when the facts are frozen is in them: a VM that
\* is on, a child, a watchdog or a transport left behind is a cleanup error.
LeftIsReported ==
    /\ "frozen" \in own.facts
    /\ vm = "on" \/ left # {} \/ WatchRuns \/ net.wd = "stuck" \/ TransportRuns \/ net.tr = "stuck"
    => "cleanup" \in own.facts

\* The facts of every attempt, however it failed, satisfy the validators that
\* decide whether a receipt is written at all.
Admissible == own.pc = "commit0" => Consistent(Commitment)

\* A receipt or a result that passes is true: stopped normally, the
\* controller had not cancelled, nothing runs and no object is left; and the
\* result passes only if the receipt on disk does.
PassIsTrue ==
    /\ disk = "passed" => /\ vm = "off" /\ own.shut = "normal" /\ ~cancel
                          /\ left = {} /\ objs = {}
                          /\ net.wd = "passed" /\ net.tr = "ended"
    /\ packet = "passed" => disk = "passed"

\* The owner comes to its end in a bounded number of deadlines, whatever its
\* children do.
OwnerEnds == <>OwnerGone

=============================================================================
