----------------------------- MODULE Supervisor -----------------------------
(***************************************************************************)
(* The guest supervisor of scripts/sw_i5_preparation_supervisor.py:        *)
(* supervise admits one worker into its own cgroup in two stages, watches  *)
(* lease, guard and signals while it works, and reclaims it.  ForkWorker   *)
(* is the worker's side: a child that is blocked on a private pipe until   *)
(* "S" lets it set up and "G" lets it run the caller's work.               *)
(*                                                                         *)
(* The worker may fork descendants, which live on when it exits and are    *)
(* then reparented to the supervisor (a subreaper).  The environment ends  *)
(* the lease, sends signals, and makes any check or system call fail for   *)
(* as long as it likes; the supervisor may be killed at any moment too.    *)
(***************************************************************************)
EXTENDS Naturals

VARIABLES
    pc,        \* where supervise is
    worker,    \* the worker process, as the kernel sees it
    code,      \* its exit code once it has exited
    kids,      \* its descendants
    foreign,   \* somebody else's process is in the cgroup from the start
    joined,    \* the worker is in the cgroup
    bound,     \* the guard has bound the worker
    pipe,      \* [wrote, open]: admission bytes written, write end open
    ready,     \* what the worker has written to its ready pipe
    killed,    \* cgroup.kill was written
    world,     \* the environment: lease live, signal sent, calls failing,
               \* cleanup window closed
    result     \* the report

process == <<worker, code, kids, ready>>
supervisorVars == <<pc, process, foreign, joined, bound, pipe, killed, world, result>>

Alive == {"blocked", "preparing", "prepared", "working"}
NoCode == 99
Stages == {"lease", "guard", "empty", "spawn", "register", "attach", "bind", "admit", "await",
           "check", "release", "poll", "wait", "exited", "kill", "observe", "postflight"}

\* boundary.populated: cgroup.procs lists no zombies.
Populated == foreign \/ (joined /\ worker \in Alive) \/ kids = "alive"

SupervisorInit ==
    /\ pc = "lease"
    /\ worker = "none" /\ code = NoCode /\ kids = "none" /\ ready = "none"
    /\ foreign \in BOOLEAN
    /\ joined = FALSE /\ bound = FALSE /\ killed = FALSE
    /\ pipe = [wrote |-> 0, open |-> FALSE]
    /\ world = [lease |-> TRUE, signalled |-> FALSE, failing |-> FALSE, late |-> FALSE]
    /\ result = [failure |-> FALSE, errors |-> FALSE, attached |-> FALSE,
                 exit |-> NoCode, empty |-> FALSE, reaped |-> FALSE]

-----------------------------------------------------------------------------
(* supervise, one action per stage *)

\* An exception: only a supervisor that has spawned may reclaim the group.
Raised ==
    /\ pc' = IF worker = "none" THEN "done" ELSE "kill"
    /\ result' = [result EXCEPT !.failure = TRUE]

\* A stage that passes on when its checks hold, raises otherwise, and changes
\* nothing else.
Check(from, to, holds) ==
    /\ pc = from
    /\ IF holds /\ ~world.failing THEN pc' = to /\ UNCHANGED result ELSE Raised
    /\ UNCHANGED <<process, foreign, joined, bound, pipe, killed, world>>

\* drain_lease, guard.before_admission, boundary.populated.
FirstLease == Check("lease", "guard", world.lease)
Baseline == Check("guard", "empty", TRUE)
StartsEmpty == Check("empty", "spawn", ~Populated)

\* ForkWorker.spawn: the child is blocked; or the fork fails.
Spawn ==
    /\ pc = "spawn"
    /\ IF world.failing
       THEN Raised /\ UNCHANGED <<worker, pipe>>
       ELSE /\ pc' = "register" /\ worker' = "blocked"
            /\ pipe' = [pipe EXCEPT !.open = TRUE]
            /\ UNCHANGED result
    /\ UNCHANGED <<code, kids, ready, foreign, joined, bound, killed, world>>

RegisterWorker == Check("register", "attach", TRUE)

\* Mutant: the readback of cgroup.procs is not required.
Attach_unread ==
    /\ pc = "attach"
    /\ joined' \in BOOLEAN
    /\ pc' = "bind" /\ result' = [result EXCEPT !.attached = TRUE]
    /\ UNCHANGED <<process, foreign, bound, pipe, killed, world>>

\* boundary.attach: the write may have moved the worker although it raises.
Attach ==
    /\ pc = "attach"
    /\ IF world.failing
       THEN joined' \in BOOLEAN /\ Raised
       ELSE joined' = TRUE /\ pc' = "bind" /\ result' = [result EXCEPT !.attached = TRUE]
    /\ UNCHANGED <<process, foreign, bound, pipe, killed, world>>

\* guard.bind_worker.
Bind ==
    /\ pc = "bind"
    /\ IF world.failing
       THEN Raised /\ UNCHANGED bound
       ELSE pc' = "admit" /\ bound' = TRUE /\ UNCHANGED result
    /\ UNCHANGED <<process, foreign, joined, pipe, killed, world>>

\* admit_setup writes "S".
AdmitSetup ==
    /\ pc = "admit"
    /\ IF world.failing
       THEN Raised /\ UNCHANGED pipe
       ELSE pipe' = [pipe EXCEPT !.wrote = 1] /\ pc' = "await" /\ UNCHANGED result
    /\ UNCHANGED <<process, foreign, joined, bound, killed, world>>

\* A round of the wait for the worker's first byte, which must be "P".
AwaitReady ==
    /\ pc = "await"
    /\ IF ready = "none" /\ world.lease /\ ~world.signalled /\ ~world.failing
       THEN UNCHANGED <<pc, result>>
       ELSE IF ready = "P" THEN pc' = "check" /\ UNCHANGED result ELSE Raised
    /\ UNCHANGED <<process, foreign, joined, bound, pipe, killed, world>>

\* guard.check, exporter.pin, drain_lease and the last look at the signals.
Pin == Check("check", "release", world.lease /\ ~world.signalled)

\* release writes "G", which fails when the worker is gone, and closes the pipe.
Release ==
    /\ pc = "release"
    /\ IF worker \in Alive /\ ~world.failing
       THEN pipe' = [wrote |-> 2, open |-> FALSE] /\ pc' = "poll" /\ UNCHANGED result
       ELSE pipe' = [pipe EXCEPT !.open = FALSE] /\ Raised
    /\ UNCHANGED <<process, foreign, joined, bound, killed, world>>

\* A round of the watch: signals, lease and cgroups first, then waitpid.
Watch == Check("poll", "wait", world.lease /\ ~world.signalled)

Poll ==
    /\ pc = "wait"
    /\ IF worker = "zombie"
       THEN worker' = "gone" /\ pc' = "exited" /\ result' = [result EXCEPT !.exit = code]
       ELSE pc' = "poll" /\ UNCHANGED <<worker, result>>
    /\ UNCHANGED <<code, kids, ready, foreign, joined, bound, pipe, killed, world>>

\* The worker has exited: with 0, from an empty group, under a live lease.
Exited == Check("exited", "kill", code = 0 /\ ~Populated /\ world.lease)

\* cancel_admission, then boundary.kill, which may raise before or after the
\* kernel has killed the group.
Kill ==
    /\ pc = "kill"
    /\ pc' = "observe"
    /\ pipe' = [pipe EXCEPT !.open = FALSE]
    /\ killed' = TRUE
    /\ result' = [result EXCEPT !.errors = world.failing]
    /\ \/ /\ kids' = IF kids = "alive" THEN "zombie" ELSE kids
          /\ IF joined /\ worker \in Alive
             THEN worker' = "zombie" /\ code' = 2
             ELSE UNCHANGED <<worker, code>>
       \/ world.failing /\ UNCHANGED <<worker, code, kids>>
    /\ UNCHANGED <<ready, foreign, joined, bound, world>>

\* What waitpid leaves of zombies that are the supervisor's children or were
\* left to it.
WorkerLeft == IF worker = "zombie" THEN "gone" ELSE worker
KidsLeft == IF kids = "zombie" /\ worker \notin Alive THEN "none" ELSE kids

\* One round of the cleanup loop, given what waitpid leaves of the processes.
Round(workerLeft, kidsLeft, reaped) ==
    LET empty == ~Populated
    IN  /\ pc = "observe"
        /\ IF world.failing
           THEN /\ pc' = "postflight" /\ result' = [result EXCEPT !.errors = TRUE]
                /\ UNCHANGED <<worker, kids>>
           ELSE /\ worker' = workerLeft /\ kids' = kidsLeft
                /\ pc' = IF (empty /\ reaped) \/ world.late THEN "postflight" ELSE "observe"
                /\ result' = [result EXCEPT
                       !.empty = empty, !.reaped = reaped,
                       !.exit = IF workerLeft = "gone" THEN code ELSE @,
                       !.errors = @ \/ (world.late /\ ~(empty /\ reaped))]
        /\ UNCHANGED <<code, ready, foreign, joined, bound, pipe, killed, world>>

\* Mutant: the worker's own exit is taken for the end of its descendants.
Observe_unreaped == Round(WorkerLeft, kids, WorkerLeft = "gone")

\* Mutant: the cleanup window has no end.
Observe_patient ==
    /\ Round(WorkerLeft, KidsLeft, WorkerLeft = "gone" /\ KidsLeft = "none")
    /\ result'.empty /\ result'.reaped

\* populated, then reap_descendants until there is no child.
Observe == Round(WorkerLeft, KidsLeft, WorkerLeft = "gone" /\ KidsLeft = "none")

\* guard.check_cgroups once more.
Postflight ==
    /\ pc = "postflight"
    /\ pc' = "done"
    /\ result' = [result EXCEPT !.errors = @ \/ world.failing]
    /\ UNCHANGED <<process, foreign, joined, bound, pipe, killed, world>>

Passed ==
    /\ result.attached /\ result.exit = 0 /\ result.empty /\ result.reaped
    /\ ~result.failure /\ ~result.errors

Supervise ==
    \/ FirstLease \/ Baseline \/ StartsEmpty \/ Spawn \/ RegisterWorker \/ Attach \/ Bind
    \/ AdmitSetup \/ AwaitReady \/ Pin \/ Release \/ Watch \/ Poll \/ Exited
    \/ Kill \/ Observe \/ Postflight

-----------------------------------------------------------------------------
(* The worker: the child branch of ForkWorker.spawn *)

kept == <<pc, foreign, joined, bound, pipe, killed, world, result>>

\* It waits for "S", later for "G"; the end of the pipe cancels it.
WorkerReads ==
    /\ \/ worker = "blocked" /\ pipe.wrote >= 1 /\ worker' = "preparing" /\ UNCHANGED code
       \/ worker = "prepared" /\ pipe.wrote = 2 /\ worker' = "working" /\ UNCHANGED code
       \/ /\ ~pipe.open
          /\ \/ worker = "blocked" /\ pipe.wrote = 0
             \/ worker = "prepared" /\ pipe.wrote < 2
          /\ worker' = "zombie" /\ code' = 2
    /\ UNCHANGED <<kept, kids, ready>>

\* prepare returns and "P" is written, or it fails.
WorkerPrepares ==
    /\ worker = "preparing"
    /\ \/ worker' = "prepared" /\ ready' = "P" /\ UNCHANGED code
       \/ worker' = "zombie" /\ ready' = "E" /\ code' = 2
    /\ UNCHANGED <<kept, kids>>

\* The caller's work: it may start processes that outlive it.
WorkerForks ==
    /\ worker = "working" /\ kids = "none"
    /\ kids' = "alive"
    /\ UNCHANGED <<kept, worker, code, ready>>

WorkerExits ==
    /\ worker = "working"
    /\ worker' = "zombie" /\ code' \in {0, 2}
    /\ UNCHANGED <<kept, kids, ready>>

KidExits ==
    /\ kids = "alive"
    /\ kids' = "zombie"
    /\ UNCHANGED <<kept, worker, code, ready>>

-----------------------------------------------------------------------------
(* The environment *)

undisturbed == <<pc, process, foreign, joined, bound, pipe, killed, result>>

\* The lease lapses, at its absolute deadline at the latest.
Lapse == world.lease /\ world' = [world EXCEPT !.lease = FALSE] /\ UNCHANGED undisturbed

\* The cleanup window closes.
Close ==
    /\ pc = "observe" /\ ~world.late
    /\ world' = [world EXCEPT !.late = TRUE]
    /\ UNCHANGED undisturbed

\* A signal arrives; checks and calls start or stop failing.
Disturb ==
    /\ world' \in {[world EXCEPT !.signalled = TRUE], [world EXCEPT !.failing = ~@]}
    /\ UNCHANGED undisturbed

\* SIGKILL: the kernel closes the supervisor's pipes and nothing else.
Crash ==
    /\ pc \in Stages
    /\ pc' = "dead"
    /\ pipe' = [pipe EXCEPT !.open = FALSE]
    /\ UNCHANGED <<process, foreign, joined, bound, killed, world, result>>

Worker == WorkerReads \/ WorkerPrepares \/ WorkerForks \/ WorkerExits \/ KidExits

SupervisorNext == Supervise \/ Worker \/ Lapse \/ Close \/ Disturb \/ Crash

SupervisorSpec == SupervisorInit /\ [][SupervisorNext]_supervisorVars

\* The supervisor is scheduled and sleeps for bounded times only; the lease
\* and the cleanup window end by the clock; a worker whose pipe has ended is
\* scheduled and its set-up ends.  The caller's work owes nothing.
SupervisorFairSpec ==
    /\ SupervisorSpec
    /\ WF_supervisorVars(Supervise) /\ WF_supervisorVars(Lapse) /\ WF_supervisorVars(Close)
    /\ WF_supervisorVars(WorkerReads) /\ WF_supervisorVars(WorkerPrepares)

-----------------------------------------------------------------------------
(* Properties *)

\* The group is the supervisor's own: the caller's work and everything it forks
\* runs inside it and under the guard, also when the supervisor died on the
\* way, and a group that somebody else was in at the start is never killed ("A
\* rejected initial lease/baseline never grants cleanup authority").
GroupIsOwn ==
    /\ worker = "working" \/ kids # "none" => joined /\ bound
    /\ foreign => ~killed

\* A finished report tells the truth.  Without cleanup errors no process of a
\* worker that was started is left, not even a zombie; and a pass means that
\* the work was released, exited with 0 by itself and left nothing behind.
ReportIsTrue ==
    pc = "done" =>
        /\ worker # "none" /\ ~result.errors => worker = "gone" /\ kids = "none"
        /\ Passed => /\ pipe.wrote = 2 /\ ready = "P"
                     /\ worker = "gone" /\ code = 0 /\ kids = "none"

\* Supervision ends, whatever the worker does, and a supervisor killed before
\* it released its worker leaves none: the closed pipe ends it.
Ends ==
    /\ <>(pc \in {"done", "dead"})
    /\ (pc = "dead" /\ pipe.wrote < 2) ~> (worker \notin Alive)

=============================================================================
