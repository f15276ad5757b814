---------------------------- MODULE NativeGuest ----------------------------
(***************************************************************************)
(* One guest invocation of scripts/sw_i5_preparation_native_lifecycle.py:  *)
(*                                                                         *)
(*   p   run_native_guest, the parent: keeps the registry, signals         *)
(*   n   _owner: creates the objects, forks the supervisor, reaps it,      *)
(*       removes the objects                                               *)
(*   s   the supervisor that fork_supervisor starts for n                  *)
(*   w   the supervisor's worker                                           *)
(*                                                                         *)
(* n and s register with p over ONE socket, whose child end they share:    *)
(* up holds their frames, down the acknowledgements, which whoever reads   *)
(* first takes.  A registration that was given up leaves its frame and its *)
(* acknowledgement behind.  SIGTERM raises an exception in n wherever it   *)
(* is; what s does with its own lease and cgroup is the subject of         *)
(* Supervisor and only its outcome appears here.  Deadlines are open: any  *)
(* wait may be given up.                                                   *)
(***************************************************************************)
EXTENDS Naturals, Sequences, SequencesExt

CONSTANT CreateOrder     \* native.CREATE_ORDER

Cgroup == "cgroup"       \* stands for the groups the processes are put in
Roles == ToSet(CreateOrder)

ASSUME NativeAssumption ==
    CreateOrder \in Seq(STRING) /\ IsInjective(CreateOrder) /\ Cgroup \in Roles

VARIABLES p, n, s, w, objs, up, down

vars == <<p, n, s, w, objs, up, down>>

\* A registration: clean says that worker and group were seen to be gone.
Frame(from, kind, role, clean) == [from |-> from, kind |-> kind, role |-> role, clean |-> clean]

\* Mutant: the object is made before it is announced.
Steps_makesFirst(pc) ==
    IF pc = "create" THEN <<"make", "intent", "bound">> ELSE <<"remove", "cleaned">>

\* create and cleanup of one object.
Steps(pc) == IF pc = "create" THEN <<"intent", "make", "bound">> ELSE <<"remove", "cleaned">>

Init ==
    /\ p = [pc |-> "loop", failed |-> FALSE, reg |-> [r \in Roles |-> "none"], ready |-> FALSE,
            sup |-> FALSE, wkr |-> FALSE, stopped |-> FALSE, retired |-> FALSE, reaped |-> FALSE,
            wreaped |-> FALSE, cleaning |-> FALSE, astray |-> FALSE, passed |-> "none"]
    /\ n = [pc |-> "create", todo |-> CreateOrder, step |-> 1,
            ents |-> [r \in Roles |-> "none"], sent |-> FALSE, term |-> FALSE, known |-> FALSE,
            ret |-> FALSE, code |-> FALSE, exp |-> "none", failed |-> FALSE, errs |-> FALSE,
            alone |-> FALSE]
    /\ s = [at |-> "none", gate |-> "shut", term |-> FALSE, rep |-> "none"]
    /\ w = "none"
    /\ objs = {}
    /\ up = <<>>
    /\ down = <<>>

-----------------------------------------------------------------------------
(* The owner, n. *)

Alive == n.pc \notin {"exit", "dead"}

\* Stages that are a registration: their kind.
Kinds == [ready |-> "ready", regS |-> "supervisor",
          stop |-> "task-stop", retire |-> "task-retiring", reaped |-> "task-reaped",
          rUnc |-> "supervisor-unconfirmed", rStop |-> "task-stop", rRetire |-> "task-retiring",
          hUnc |-> "supervisor-unconfirmed", hReaped |-> "task-reaped",
          fStop |-> "task-stop", fRetire |-> "task-retiring", cleanStart |-> "cleanup-start"]

\* The owner goes through the objects, and through the steps of each.
Working == n.pc \in {"create", "clean"} /\ n.todo # <<>>
Doing(do) == Working /\ Steps(n.pc)[n.step] \in do
Role == Head(n.todo)

NextRole(m) == [m EXCEPT !.todo = Tail(@), !.step = 1]
NextStep(m) == IF m.step = Len(Steps(m.pc)) THEN NextRole(m) ELSE [m EXCEPT !.step = @ + 1]

Registers == n.pc \in DOMAIN Kinds \/ Doing({"intent", "bound", "cleaned"})

Seen == n.exp \in {"good", "clean"}
Request ==
    IF n.pc \in DOMAIN Kinds
    THEN Frame("n", Kinds[n.pc], "none",
               n.pc \in {"retire", "reaped", "fRetire", "hReaped"} /\ Seen)
    ELSE Frame("n", Steps(n.pc)[n.step], Role, FALSE)

\* The end of the try block: handler and finally block follow.
InTry == n.pc \in {"create", "ready", "fork", "regS", "gate", "tail", "read", "stop", "retire", "reap", "reaped",
                   "rUnc", "rStop", "rRetire", "rWait"}

\* A signal's handler runs before n takes its next step; the finally block
\* ignores the signals.
Undisturbed == ~(n.term /\ InTry)

\* finally: where the settlement of the supervisor begins.
Settlement(m) ==
    [m EXCEPT !.sent = FALSE, !.todo = <<>>, !.step = 1,
              !.pc = IF ~m.known \/ m.code THEN "safe" ELSE IF m.ret THEN "fReap" ELSE "fStop"]

\* An exception of the try block.  Inside fork_supervisor it is first handled
\* there; only an exception that carries the PID makes the supervisor known.
Raised(m) ==
    LET f == [m EXCEPT !.failed = TRUE, !.sent = FALSE] IN
    CASE m.pc \in {"regS", "gate"} -> [f EXCEPT !.pc = "rUnc"]
      [] m.pc \in {"rUnc", "rStop", "rRetire"} -> [f EXCEPT !.pc = "hUnc", !.known = TRUE]
      [] OTHER -> Settlement(f)

\* A registration that fails.
Refused ==
    CASE InTry -> Raised(n)
      [] n.pc = "hUnc" -> [n EXCEPT !.errs = TRUE, !.sent = FALSE, !.pc = IF n.code THEN "hReaped" ELSE "settle"]
      [] n.pc = "hReaped" -> [n EXCEPT !.errs = TRUE, !.sent = FALSE, !.pc = "settle"]
      [] n.pc \in {"fStop", "fRetire"} -> [n EXCEPT !.errs = TRUE, !.sent = FALSE, !.pc = "safe"]
      [] n.pc = "cleanStart" -> [n EXCEPT !.errs = TRUE, !.sent = FALSE, !.pc = "result"]
      [] n.pc = "clean" -> NextRole([n EXCEPT !.errs = TRUE, !.sent = FALSE])

\* A registration that was acknowledged.
Granted ==
    CASE n.pc \in {"create", "clean"} -> NextStep([n EXCEPT !.sent = FALSE])
      [] n.pc = "ready" -> [n EXCEPT !.sent = FALSE, !.pc = "fork"]
      [] n.pc = "regS" -> [n EXCEPT !.sent = FALSE, !.pc = "gate"]
      [] n.pc = "stop" -> [n EXCEPT !.sent = FALSE, !.pc = "retire"]
      [] n.pc = "retire" -> [n EXCEPT !.sent = FALSE, !.pc = "reap", !.ret = TRUE]
      [] n.pc = "reaped" -> Settlement([n EXCEPT !.failed = n.exp # "good"])
      [] n.pc = "rUnc" -> [n EXCEPT !.sent = FALSE, !.pc = "rStop"]
      [] n.pc = "rStop" -> [n EXCEPT !.sent = FALSE, !.pc = "rRetire"]
      [] n.pc = "rRetire" -> [n EXCEPT !.sent = FALSE, !.pc = "rWait", !.ret = TRUE]
      [] n.pc = "hUnc" -> [n EXCEPT !.sent = FALSE, !.pc = IF n.code THEN "hReaped" ELSE "settle"]
      [] n.pc = "hReaped" -> [n EXCEPT !.sent = FALSE, !.pc = "settle"]
      [] n.pc = "fStop" -> [n EXCEPT !.sent = FALSE, !.pc = "fRetire"]
      [] n.pc = "fRetire" -> [n EXCEPT !.sent = FALSE, !.pc = "fReap", !.ret = TRUE]
      [] n.pc = "cleanStart" -> [n EXCEPT !.sent = FALSE, !.pc = "barrier"]

\* register: send the request.
NSend ==
    /\ Undisturbed
    /\ Registers /\ ~n.sent
    /\ n' = [n EXCEPT !.sent = TRUE,
                !.ents = IF n.pc = "create" THEN [@ EXCEPT ![Role] = Steps(n.pc)[n.step]] ELSE @]
    /\ up' = Append(up, Request)
    /\ UNCHANGED <<p, s, w, objs, down>>

\* The next acknowledgement on the socket must be the one for this request.
NAck ==
    /\ Undisturbed
    /\ Registers /\ n.sent /\ down # <<>>
    /\ n' = IF Head(down) = Request THEN Granted ELSE Refused
    /\ down' = Tail(down)
    /\ UNCHANGED <<p, s, w, objs, up>>

\* It is given up: out of time.
NUnanswered ==
    /\ Undisturbed
    /\ Registers /\ n.sent
    /\ n' = Refused
    /\ UNCHANGED <<p, s, w, objs, up, down>>

\* create: the object is made; a failure may leave it.
NMake ==
    /\ Undisturbed
    /\ Doing({"make"})
    /\ LET made == objs \cup {Role} IN
          \/ objs' = made /\ n' = NextStep(n)
          \/ objs' \in {objs, made} /\ n' = Raised(n)
    /\ UNCHANGED <<p, s, w, up, down>>

\* The groups hold the supervisor once it is admitted, and its worker.
Occupied == s.at \in {"admitted", "regW", "setup", "free", "watch", "kill"} \/ w \in {"in", "work"}

\* cleanup passes over what it does not know of; only what is bound is removed,
\* a group only when it is empty.
NRemove ==
    /\ Doing({"remove"})
    /\ \/ /\ n.ents[Role] = "none"
          /\ n' = NextRole(n)
          /\ UNCHANGED objs
       \/ /\ n.ents[Role] = "bound"
          /\ Role = Cgroup => ~Occupied
          /\ objs' = objs \ {Role}
          /\ n' = NextStep([n EXCEPT !.ents[Role] = "none"])
       \/ /\ n.ents[Role] # "none"
          /\ n' = NextRole([n EXCEPT !.errs = TRUE])
          /\ UNCHANGED objs
    /\ UNCHANGED <<p, s, w, up, down>>

\* The objects are there, or all of them have been gone through.
NWorked ==
    /\ Undisturbed
    /\ n.pc \in {"create", "clean"} /\ n.todo = <<>>
    /\ n' = IF n.pc = "create" THEN [n EXCEPT !.pc = "ready"] ELSE [n EXCEPT !.pc = "result"]
    /\ UNCHANGED <<p, s, w, objs, up, down>>

\* fork_supervisor: the child waits at its gate.
NFork ==
    /\ Undisturbed
    /\ n.pc = "fork"
    /\ \/ /\ n' = [n EXCEPT !.pc = "regS"]
          /\ s' = [s EXCEPT !.at = "gate", !.gate = "open"]
       \/ n' = Raised(n) /\ UNCHANGED s
    /\ UNCHANGED <<p, w, objs, up, down>>

NGate ==
    /\ Undisturbed
    /\ n.pc = "gate"
    /\ n' = [n EXCEPT !.pc = "tail"]
    /\ s' = [s EXCEPT !.gate = "G"]
    /\ UNCHANGED <<p, w, objs, up, down>>

\* The return of fork_supervisor.
NReturn ==
    /\ Undisturbed
    /\ n.pc = "tail"
    /\ n' = [n EXCEPT !.pc = "read", !.known = TRUE]
    /\ UNCHANGED <<p, s, w, objs, up, down>>

\* The task's export, complete and valid, or not.
NRead ==
    /\ Undisturbed
    /\ n.pc = "read"
    /\ n' \in {Raised(n)} \cup
              (IF s.at = "exited" /\ s.rep # "none"
               THEN {[n EXCEPT !.exp = s.rep, !.pc = IF s.rep = "dirty" THEN "stop" ELSE "retire"]} ELSE {})
    /\ UNCHANGED <<p, s, w, objs, up, down>>

\* waitpid: in the try block, in fork_supervisor's handler, in the finally block.
NReap ==
    /\ Undisturbed
    /\ n.pc \in {"reap", "rWait", "fReap"}
    /\ \/ /\ s.at = "exited"
          /\ s' = [s EXCEPT !.at = "reaped"]
          /\ n' = CASE n.pc = "reap" -> [n EXCEPT !.code = TRUE, !.pc = "reaped"]
                    [] n.pc = "rWait" -> [n EXCEPT !.code = TRUE, !.known = TRUE, !.pc = "hUnc"]
                    [] n.pc = "fReap" -> [n EXCEPT !.code = TRUE, !.pc = "safe"]
       \/ /\ n' = CASE n.pc = "reap" -> Raised(n)
                    [] n.pc = "rWait" -> [n EXCEPT !.known = TRUE, !.pc = "hUnc"]
                    [] n.pc = "fReap" -> [n EXCEPT !.errs = TRUE, !.pc = "safe"]
          /\ UNCHANGED s
    /\ UNCHANGED <<p, w, objs, up, down>>

\* Mutant: the owner waits for the supervisor without the retirement.
NSettle_unretired ==
    /\ n.pc = "settle"
    /\ n' = [n EXCEPT !.pc = IF n.code THEN "safe" ELSE "fReap"]
    /\ UNCHANGED <<p, s, w, objs, up, down>>

\* The handler is over.
NSettle ==
    /\ n.pc = "settle"
    /\ n' = Settlement(n)
    /\ UNCHANGED <<p, s, w, objs, up, down>>

\* Cleanup needs a supervisor that never was, or one that is reaped and whose
\* export says that worker and group are gone.
Safe == ~n.known \/ (n.code /\ Seen)

NSafe ==
    /\ n.pc = "safe"
    /\ n' = IF Safe THEN [n EXCEPT !.pc = "cleanStart"] ELSE [n EXCEPT !.pc = "result", !.errs = TRUE]
    /\ UNCHANGED <<p, s, w, objs, up, down>>

\* Mutant: the groups are not looked at.
Barrier_unread == n.ents[Cgroup] \in {"none", "bound"}

\* The barrier of cleanup: every group that was begun is bound and empty.
Barrier == n.ents[Cgroup] # "none" => n.ents[Cgroup] = "bound" /\ ~Occupied

NBarrier ==
    /\ n.pc = "barrier"
    /\ n' \in {[n EXCEPT !.pc = "result", !.errs = TRUE]} \cup
              (IF Barrier THEN {[n EXCEPT !.pc = "clean", !.todo = Reverse(CreateOrder), !.step = 1]} ELSE {})
    /\ UNCHANGED <<p, s, w, objs, up, down>>

\* close, and the result, which may not get through.
NResult ==
    /\ n.pc = "result"
    /\ n' \in {[n EXCEPT !.pc = "exit"], [n EXCEPT !.pc = "dead"]}
    /\ UNCHANGED <<p, s, w, objs, up, down>>

\* SIGTERM or SIGINT sent to the owner from elsewhere: not through its parent,
\* which would have signalled the supervisor too.  alone remembers one that came
\* in the tail of fork_supervisor.
NSignalled ==
    /\ Alive
    /\ n' = [n EXCEPT !.term = TRUE, !.alone = @ \/ n.pc = "tail"]
    /\ UNCHANGED <<p, s, w, objs, up, down>>

\* SIGTERM: cancelled() raises.  A supervisor that is forked but not yet
\* returned is left behind at its closed gate, or retired, or, in the tail
\* of fork_supervisor, left running: the exception has no PID.
NInterrupted ==
    /\ n.term /\ InTry
    /\ LET m == [n EXCEPT !.term = FALSE] IN
          \/ /\ n' = Raised(m)
             /\ s' = IF s.gate = "open" THEN [s EXCEPT !.gate = "closed"] ELSE s
          \/ /\ n.pc = "fork"
             /\ n' = Raised(m)
             /\ s' = [s EXCEPT !.at = "gate", !.gate = "closed"]
          \/ /\ n.pc = "gate"
             /\ n' = Raised(m)
             /\ s' = [s EXCEPT !.gate = "G"]
    /\ UNCHANGED <<p, w, objs, up, down>>

\* send and receive swallow an InterruptedError, whoever raised it.
NSwallows ==
    /\ n.term /\ Registers /\ n.sent
    /\ n' = [n EXCEPT !.term = FALSE]
    /\ UNCHANGED <<p, s, w, objs, up, down>>

\* Killed, or an exception outside the try block.
NDies ==
    /\ Alive
    /\ n' = [n EXCEPT !.pc = "dead"]
    /\ UNCHANGED <<p, s, w, objs, up, down>>

N ==
    \/ NSend \/ NAck \/ NUnanswered \/ NMake \/ NRemove \/ NWorked \/ NFork \/ NGate \/ NReturn
    \/ NRead \/ NReap \/ NSettle \/ NSafe \/ NBarrier \/ NResult \/ NSignalled \/ NInterrupted \/ NSwallows \/ NDies

-----------------------------------------------------------------------------
(* The supervisor and its worker. *)

SGo(at) == s' = [s EXCEPT !.at = at]

\* The gate's byte, then admission to the group, which must exist.
SAdmitted ==
    /\ s.at = "gate" /\ s.gate = "G" /\ ~s.term
    /\ Cgroup \in objs
    /\ SGo("admitted")
    /\ UNCHANGED <<p, n, w, objs, up, down>>

\* No byte, a signal, no admission, no lease: nothing was started.  (Not
\* here: a signal between the fork and the child's try block, where the child
\* runs the owner's inherited handler and leaves through the owner's cleanup.)
SEnds ==
    /\ \/ s.at = "gate" /\ (s.gate \in {"closed", "G"} \/ ~Alive \/ s.term)
       \/ s.at = "admitted"
    /\ \E rep \in {"none", "dirty"} : s' = [s EXCEPT !.at = "exited", !.rep = rep]
    /\ UNCHANGED <<p, n, w, objs, up, down>>

\* The worker is forked, blocked, and registered over the shared socket.
SSpawns ==
    /\ s.at = "admitted"
    /\ SGo("regW")
    /\ w' = "set"
    /\ up' = Append(up, Frame("s", "worker", "none", FALSE))
    /\ UNCHANGED <<p, n, objs, down>>

SAck ==
    /\ s.at = "regW" /\ down # <<>>
    /\ IF Head(down) = Frame("s", "worker", "none", FALSE) THEN SGo("setup") /\ w' = "in"
       ELSE SGo("kill") /\ UNCHANGED w
    /\ down' = Tail(down)
    /\ UNCHANGED <<p, n, objs, up>>

\* The readers take the bytes of an acknowledgement in turns.
AckTorn ==
    /\ s.at = "regW" /\ Registers /\ n.sent /\ down # <<>>
    /\ SGo("kill")
    /\ n' = Refused
    /\ down' = Tail(down)
    /\ UNCHANGED <<p, w, objs, up>>

\* The last look at the signals, then the release.
SChecks ==
    /\ s.at = "setup" /\ ~s.term
    /\ SGo("free")
    /\ UNCHANGED <<p, n, w, objs, up, down>>

SReleases ==
    /\ s.at = "free"
    /\ SGo("watch")
    /\ w' = "work"
    /\ UNCHANGED <<p, n, objs, up, down>>

WEnds ==
    /\ w = "work"
    /\ w' = "end"
    /\ UNCHANGED <<p, n, s, objs, up, down>>

SFails ==
    /\ s.at \in {"regW", "setup", "free", "watch"}
    /\ SGo("kill")
    /\ UNCHANGED <<p, n, w, objs, up, down>>

\* The group is killed and emptied, or that is not confirmed.
SKills ==
    /\ s.at = "kill"
    /\ \/ w' = "end" /\ s' = [s EXCEPT !.at = "report", !.rep = "clean"]
       \/ w' \in {w, "end"} /\ s' = [s EXCEPT !.at = "report", !.rep = "dirty"]
    /\ UNCHANGED <<p, n, objs, up, down>>

SPasses ==
    /\ s.at = "watch" /\ w = "end"
    /\ s' = [s EXCEPT !.at = "report", !.rep = "good"]
    /\ UNCHANGED <<p, n, w, objs, up, down>>

SExits ==
    /\ s.at = "report"
    /\ \E rep \in {s.rep, "none"} : s' = [s EXCEPT !.at = "exited", !.rep = rep]
    /\ UNCHANGED <<p, n, w, objs, up, down>>

S ==
    \/ SAdmitted \/ SEnds \/ SSpawns \/ SAck \/ AckTorn \/ SChecks \/ SReleases \/ WEnds
    \/ SFails \/ SKills \/ SPasses \/ SExits

-----------------------------------------------------------------------------
(* The parent, p. *)

\* The signal ticket: a registered supervisor that is not retired.
Ticket(q) == q.sup /\ ~q.retired

\* p signals the ticket; astray if n has waited for it already.
Signalled(q) == IF Ticket(q) THEN [q EXCEPT !.astray = @ \/ s.at = "reaped"] ELSE q

\* SIGKILL to the group: a worker at work may have left it, a blocked one
\* sees the end of its pipe.
KillGroup(kill) ==
    IF kill /\ s.at \notin {"none", "exited", "reaped"}
    THEN /\ s' = [s EXCEPT !.at = "exited", !.rep = "none"]
         /\ w' \in (CASE w = "none" -> {"none"} [] w = "work" -> {"work", "end"} [] OTHER -> {"end"})
    ELSE UNCHANGED <<s, w>>

KillOwner == n' = IF Alive THEN [n EXCEPT !.pc = "dead"] ELSE n

\* fail: the control pipe, a signal, a phase deadline.  The supervisor's
\* ticket first, then n's group, in which the supervisor is at its gate.
PFails ==
    /\ p.pc = "loop" /\ ~p.failed
    /\ p' = Signalled([p EXCEPT !.failed = TRUE])
    /\ \E too \in {Ticket(p), Ticket(p) \/ s.at = "gate"} : s' = [s EXCEPT !.term = @ \/ too]
    /\ n' = [n EXCEPT !.term = Alive]
    /\ UNCHANGED <<w, objs, up, down>>

\* The settlement or the cleanup deadline is over.
PGivesUp ==
    /\ p.pc = "loop" /\ (p.failed \/ p.cleaning)
    /\ p' = [p EXCEPT !.failed = TRUE, !.pc = "settle"]
    /\ KillOwner
    /\ UNCHANGED <<s, w, objs, up, down>>

\* The objects are begun one by one, in their order, before any is removed.
InOrder(r) ==
    \E i \in DOMAIN CreateOrder :
       /\ CreateOrder[i] = r
       /\ \A j \in DOMAIN CreateOrder : p.reg[CreateOrder[j]] = IF j < i THEN "bound" ELSE "none"

\* What p requires of a registration.
Admitted(f) ==
    CASE f.kind = "intent" -> InOrder(f.role)
      [] f.kind = "bound" -> p.reg[f.role] = "intent"
      [] f.kind = "cleaned" -> p.reg[f.role] = "bound"
      [] f.kind = "ready" -> ~p.ready /\ \A r \in Roles : p.reg[r] = "bound"
      [] f.kind = "supervisor" -> p.ready /\ ~p.sup
      [] f.kind = "worker" -> p.ready /\ ~p.wkr
      [] f.kind = "supervisor-unconfirmed" -> TRUE
      [] f.kind = "task-reaped" -> p.sup
      [] f.kind = "task-retiring" -> p.sup /\ (f.clean \/ p.stopped)
      [] f.kind = "task-stop" -> p.sup /\ ~p.retired /\ ~p.stopped
      [] f.kind = "cleanup-start" -> ~p.cleaning

\* What p then knows.
Entered(f) ==
    CASE f.kind \in {"intent", "bound"} -> [p EXCEPT !.reg[f.role] = f.kind]
      [] f.kind = "cleaned" -> [p EXCEPT !.reg[f.role] = "none"]
      [] f.kind = "ready" -> [p EXCEPT !.ready = TRUE]
      [] f.kind \in {"supervisor", "supervisor-unconfirmed"} -> [p EXCEPT !.sup = TRUE]
      [] f.kind = "worker" -> [p EXCEPT !.wkr = TRUE]
      [] f.kind = "task-reaped" -> [p EXCEPT !.reaped = TRUE, !.wreaped = f.clean]
      [] f.kind = "task-retiring" -> [p EXCEPT !.retired = TRUE]
      [] f.kind = "task-stop" -> Signalled([p EXCEPT !.stopped = TRUE])
      [] f.kind = "cleanup-start" -> [p EXCEPT !.cleaning = TRUE]

\* One registration is recorded, then acknowledged.
PRegisters ==
    /\ p.pc = "loop" /\ Len(up) = 1 /\ Admitted(Head(up))
    /\ p' = Entered(Head(up))
    /\ up' = <<>>
    /\ down' = Append(down, Head(up))
    /\ KillGroup(Head(up).kind = "task-stop")
    /\ UNCHANGED <<n, objs>>

\* An exception in the loop: two frames at once, a refused one, one whose
\* acknowledgement cannot be sent.
PBreaks ==
    /\ p.pc = "loop" /\ up # <<>>
    /\ LET f == Head(up)
           q == IF Len(up) = 1 /\ Admitted(f) THEN Entered(f) ELSE p
           kill == Ticket(q) \/ (q # p /\ f.kind = "task-stop")
       IN /\ p' = [Signalled(q) EXCEPT !.failed = TRUE, !.pc = "settle"]
          /\ KillGroup(kill)
    /\ KillOwner
    /\ up' = <<>>
    /\ UNCHANGED <<objs, down>>

\* n has ended, with or without a result.
PResult ==
    /\ p.pc = "loop" /\ ~Alive
    /\ p' = [p EXCEPT !.pc = "settle", !.failed = @ \/ n.pc = "dead" \/ n.failed]
    /\ UNCHANGED <<n, s, w, objs, up, down>>

Passed ==
    /\ ~p.failed /\ n.pc = "exit" /\ ~n.errs
    /\ \A r \in Roles : p.reg[r] = "none"
    /\ p.reaped /\ n.code
    /\ p.wreaped /\ Seen
    /\ n.exp = "good"

\* The parent's own stop route for what is not retired, and its report.
PSettles ==
    /\ p.pc = "settle"
    /\ p' = [Signalled(p) EXCEPT !.pc = "done", !.passed = IF Passed THEN "yes" ELSE "no"]
    /\ KillGroup(Ticket(p))
    /\ UNCHANGED <<n, objs, up, down>>

P == PFails \/ PGivesUp \/ PRegisters \/ PBreaks \/ PResult \/ PSettles

\* A supervisor that dies alone.
SDies ==
    /\ s.at \notin {"none", "exited", "reaped"}
    /\ s' = [s EXCEPT !.at = "exited", !.rep = "none"]
    /\ w' = IF w \in {"none", "work"} THEN w ELSE "end"
    /\ UNCHANGED <<p, n, objs, up, down>>

Next == N \/ S \/ P \/ SDies

Spec == Init /\ [][Next]_vars

-----------------------------------------------------------------------------
(* Properties. *)

\* "P must no longer signal that PID/group ticket after retirement"
\* (run_native_guest): the parent never signals a supervisor whose PID the
\* owner has given back by waiting for it, however registrations,
\* cancellations and failures cross on the shared socket.
TicketValid == ~p.astray

\* A worker that was released keeps every object it works with, even when the
\* supervisor is lost, the worker has left its group, or the owner does not
\* know of either, wherever the owner is interrupted and by whom.  One case is
\* excepted: a signal that reaches the owner alone in the tail of
\* fork_supervisor.  The parent signals the supervisor before the owner, so that
\* one whose return is lost there ends at its gate; one that nobody signalled may
\* be admitted after the barrier.
WorkKeepsObjects == w = "work" /\ ~n.alone => Roles \subseteq objs

\* The parent's report is true: what still exists is in its pending registry,
\* and it passes only when nothing is left and owner, supervisor and worker
\* are gone.
SettledIsTrue ==
    /\ p.pc = "done" => \A r \in objs : p.reg[r] # "none"
    /\ p.passed = "yes" => objs = {} /\ n.pc = "exit" /\ s.at = "reaped" /\ w = "end"

\* "Never turn a lost return into 'no task was created' cleanup authority"
\* (_owner): objects are removed only when no supervisor was let through its
\* gate, or the one that was is reaped.
CleanupHasAuthority == n.pc = "clean" /\ s.gate = "G" => s.at = "reaped"

=============================================================================
