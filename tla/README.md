# RadishLink: TLA+ models, model checks and proofs

RadishLink is a store-and-forward text relay in its laboratory stage. Three things in
the repository run: the delivery core in Go (`tools/t0`), which decides when a message
is sent, kept, acknowledged and given up; the preparation control in Python
(`scripts/sw_i5_preparation_*.py`), which starts a virtual machine, runs one supervised
task in it and accounts for everything it created; and the one-shot tools of the host,
which use up an authorisation each and leave evidence behind. This project models all
three, checks the models with TLC and proves part of what TLC shows with TLAPS, for
every value of the constants. `PROJECT.json` maps every definition to the lines it stands for.

Contents: 1 the system; 2 the modules; 3 the runs; 4 fairness; 5 proofs; 6 what the
models say about the code; 7 what is left out; 8 plan.

## 1. The system

### 1.1 Delivery core (`tools/t0/internal`)

| Component | State | Operations | What makes it correct |
|---|---|---|---|
| Retry schedule, `delivery/retry.go` | `RetryState`: next slot, recovery used, link, phase, last batch | `NewRetryState`, `Advance` | five slots and one recovery at most, none early, a terminal phase is final |
| Durable queue, `synthetic/state.go` | the ledger of applied batches, a status | `advance`, `replayCounted` | a replay gives back exactly the state that granted the sends; a full ledger retires the queue |
| State file, `synthetic/store.go` | `state.json`, `state.next`, what is synced | `initStore`, `save`, `openStore` | never torn, never taken back, error codes true |
| Synthetic node, `synthetic/node.go` | box per key: status, core, custody, three queues; a handle per transmission | `Submit`, `Step` (receive, expire, schedule, validate, commit), `Transmission.Write`, `OpenNode` | the origin's verdict is true and final; custody has no gap; opportunities are never refunded; everything is let go of in the end |
| T0 node, `t0node/*.go` | pending, held, delivered, acked, seen acks; the file | `submit`, `receive`, retry loop with `forward`, `Save`, load | acknowledged means delivered, accepted means kept, reported once |

Nodes interact by frames only. A frame may be lost, repeated or overtaken. In the
synthetic chain A→B→C data goes forward, a custody fact silences A when B has the
message, a delivery fact goes back from C. In the T0 line every hop is a request with
an answer, and the retry loop sends copies it took under a lock it no longer holds.

Hard here: a restart in the middle of a schedule; a commit that fails without saying
whether it happened; memory and disk that differ after a failed save; facts that arrive
after the deadline; ledgers that fill up.

### 1.2 Preparation control (`scripts`)

| Component | State | Operations | What makes it correct |
|---|---|---|---|
| Lease, `supervisor.py` | sequence, last renewal, absolute deadline | `accept`, `check` | a late renewal revives nothing |
| Renewal chain, `lifecycle.py`, `channels.py`, `transport.py`, `supervisor.py` | one lease each in watchdog, transport and guest; two slot files | renew, relay, write slot, poll, acknowledge | an acknowledgement proves acceptance; the strict checks never refuse each other; a guest without owner ends |
| Guest supervisor, `supervisor.py` | worker, cgroup, two-byte admission pipe | `supervise`, `ForkWorker` | work runs only confined; the report is true; a group that was in use is never killed |
| Lifecycle owner, `lifecycle.py`, `initialization.py`, `evidence.py`, `staging.py` | facts, registry, the child processes and pipes | `run`: initialise, start, readiness, host, stop, clean, freeze, commit | nothing exists unrecorded, nothing left is unreported, a pass is true and final, the owner ends |
| Budget, `lifecycle.py` | caps and a total | `tail`, `deadline` | no stage starves a later one |
| Native guest, `native_lifecycle.py`, `native.py` | parent's registry, owner's process, supervisor, objects, one shared socket | create, register, fork, gate, reap, remove | no reused PID is signalled, a working task keeps its objects, the report is true |

The processes talk over pipes and sockets, through files of the guest reached by RPCs,
and by signals whose handlers raise exceptions in whatever line is running. Every wait
has a deadline, and what was given up may still happen later.

Hard here: an answer that comes after its reader gave up; two processes reading one
socket; a signal between two lines of a function; children that cannot be killed;
cancellation at the moment of the verdict.

### 1.3 One-shot tools of the host (`scripts`)

| Component | State | Operations | What makes it correct |
|---|---|---|---|
| UTM control, `sw_i5_utm_control.py` | the operation's directory with `attempt.json`, a result record | `main`: claim, baseline, start, collect, stop, report; `recover_preparation` | one authorisation, one start; a stop `main` reports is a stop; a recovery gets to its forced stop |
| Guest detail collection, `inspect-sw-i5-guest.py` | an evidence directory for each case | `collect_utm` | at most one execution of a case's program in the guest |
| Upstream clarification, `run-sw-g2-mls-rs-license-upstream-clarification.py` | network budget, recorder, a partial directory | `create_issue`, `collect_response`, `validate_evidence` | the evidence is true of the one public write |
| Licence review, `run-sw-g2-mls-rs-license-review.py` | an HTTP session, records, a partial directory | `collect` with `collect_remote`, `finalize_run`, `validate_review_evidence` | what is published is what was validated; a pass is complete |
| Run monitor, `monitor-sw-g2-openmls-0.9-run.py`, `run-sw-g2-openmls-0.9-audit-tools.sh` | snapshot, trigger, the runner's exit code | `monitor`; the runner's handlers and `cleanup` | a pass was within its limits; a limit ends the run |

They do not interact with each other. Each may be killed between any two steps and
none may be repeated, so what counts is what their directories say afterwards.

Hard here: a start or a POST whose answer was lost and which happens later; a look at a
directory and its claim, with another process in between; evidence that gets its final
name before or after it is validated; a monitor and its runner that end each other.

`PROJECT.json` lists 39 hazards of all three parts with the line where each bites, and
all 30 components with what is and is not modelled of them.

## 2. The modules

| Module | Models | State ↔ code |
|---|---|---|
| `Retry` | `RetryState.Advance` and what it calls, as operators | a record per `RetryState` |
| `RetrySchedule` | abstract: one `RetryState` that never restarts | `rs`, and what was granted |
| `RetryQueue` | a queue with its ledger and restarts; implements `RetrySchedule` | `ledger` = `q.Batches`, `limited` = `schedule_limit`, `rs` = the last replay |
| `DurableRegister` | abstract: a register whose value survives failures | what a recovery may find |
| `StateStore` | the file protocol, a step per system call; implements `DurableRegister` | `json`, `next` = the two files, `lands` = what a power loss may leave |
| `DeliveryPromise` | abstract: what the chain promises the user of the origin | the origin's verdict, what the destination holds |
| `SyntheticRelay` | nodes A, B, C with their stores and the wire; implements `DeliveryPromise` | `disk[n]` = the committed state, `grants[n]` = transmissions not yet written, `wire` = all frames ever written |
| `T0Relay` | a line of T0 nodes | `mem`, `disk`, `todo` (a snapshot being forwarded), `call` (the request under way) |
| `Lease` | the `Lease` class, as operators | a record per lease |
| `LeaseChain` | owner, watchdog, transport and guest; uses `Lease` three times | a record per process; a pipe is the difference of two counters |
| `Supervisor` | `supervise` and `ForkWorker` | `pc` = the stage, `pipe` = admission bytes, `kids` = descendants |
| `LifecycleBudget` | `Budget` and the stages that spend it | `stage`, `since`, `until` |
| `Lifecycle` | one attempt: owner, adapters, host stage, evidence or initialisation worker | `own.facts`, `own.registry`, the pipes `cmd` and `res`, the receipt `disk` |
| `NativeGuest` | parent, owner, supervisor and worker of one guest invocation | `up`, `down` = the shared socket, `objs` = what exists |
| `VmControl` | two controllers with one nonce, collectors, recovery, and UTM as an external machine | `attempt`, `gathered` = what is on disk (`attempt.json`, a directory for each case), `run` = the result record, `recovery.clock` = seconds |
| `Clarification` | a creator and a reader, GitHub as an external server | `proc` = budget and outcome, `disk` = the evidence directory |
| `LicenseReview` | one collection, from preflight to publication | `session` = `HttpSession`, `evidence` = records and directory, whether its files are as validated (`sound`) and its checksums match (`sums`) |
| `RunMonitor` | a monitor and its runner | `snapshot`, `trigger` = the two files |
| `HostTools` | `LifecycleBudget` and the four above side by side, for TLC | `tool` = whose behaviour this is |

`MC*` modules only give constants their values. `*Proofs` modules hold the theorems.
Operators whose names end in `_something` are faulty variants of the definition named
before the underscore; each shows that a property would notice that fault.

How the modules fit together. `SyntheticRelay` uses `Retry` directly and takes a commit
as one step with three outcomes; `StateStore` shows that these are the outcomes, and
`RetryQueue` that replaying a ledger is the same as having kept the value. `Lifecycle`
leaves the verdict of its host stage open; what happens in that stage is the subject of
`LeaseChain`, and what the guest does with its lease that of `Supervisor`. `NativeGuest`
takes a supervisor by its outcome and models the processes around it. `Lifecycle` has no
clock, since any wait may be given up; `LifecycleBudget` has nothing but the clock. The
tools of the host share nothing: `HostTools` puts them into one run only because each is
small, and a behaviour of it is a behaviour of one of them.

Abstractions used throughout: payloads, digests, uuids and names are model values or a
flag (whole or torn, valid or not); byte credits, kernel readbacks and prerequisites are
free choices, so a property that holds does not depend on them; a process is a position
and the facts that later steps read.

## 3. The runs

| Run | Bounds | Question |
|---|---|---|
| `retry_queue` | window 100–4000, ledger of 5, instants one before, on and between slots, on and past the last slot and on the deadline; three link events, admitted or over quota | any order of fresh, repeated and refused batches with restarts between any two: is the schedule that of a state that never restarts? |
| `state_store` | 2 values, 3 generations | every call may fail, the process or the power may stop anywhere: is it an atomic durable register with true error codes? |
| `relay` | 1 key, 2 bodies, 4 instants around slots and lifetime, ledger of 1, 2 failed commits, reopening at any time | frames lost, repeated, reordered: does the chain keep its promise, its custody and its budgets, and is everything let go of? |
| `t0_faults` | 3 nodes, 1 message, 2 crashes or failed saves, 4 requests given up and still to be served, time ≤ 1 | are acknowledgements true and accepted messages and custody kept while memory and disk differ? |
| `t0_live` | 3 nodes, no faults, acknowledgements that live one tick, 1 request given up and still to be served | is every accepted message acknowledged, or expired, although an acknowledgement may expire on its way? |
| `lease_chain` | silence 2, renewal 1, totals 6, 3 renewals, time ≤ 12, both transport modes | slow and dead processes, lost and late RPCs, torn slots: in step, never broken, orphans bounded and ended? |
| `supervisor` | none: the state is finite | lease loss, signals, failing calls, SIGKILL at every stage |
| `lifecycle` | 1 guest object, 1 staged source | cancellation, failures, hangs and late answers at every step of both kinds of attempt |
| `native_guest` | two directories and a group | signals through the parent and to the owner alone, failures, timeouts, deaths and a shared socket: is the ticket valid, the work kept, the report true? |
| `host_tools` | small caps with a total that is exactly the worst case; 6 polls; both clarification runs; 2 commits, 3 packages, 9 requests | every tool with crashes, timeouts and late effects at every step |
| `native_lost_return` | as `native_guest` | the owner's rule about lost returns; violated, see section 6 |
| `clarification_refusal` | the code as it is written | a refused run has reached neither network nor evidence; violated, see section 6 |

Why the bounds are enough:

- `retry_queue`: the decisions compare an instant with five offsets and a deadline. The
  six instants fall on both sides of the comparisons, one batch can pass one slot or all,
  and a ledger of 5 is met by histories that go on. The theorems of section 5 hold for
  every bound.
- `state_store`: a write relates one generation to the one before; three generations
  give two writes over each other with a failure in either. Proved for all bounds.
- `relay` has one key because keys meet only in quotas, which are a free choice in the
  model. Two bodies are needed for two submissions of one key to differ. With two failed
  commits and free reopening every node meets every outcome, in any order. A ledger of one
  batch is full after the first one, of instant 10: the batch of 300 retires its queue while
  the message is alive, which it is until 600 or 610, and the step at 700 has to let go of
  what a retired queue left. The theorems hold for ledgers of every length.
- `t0_faults`: memory and disk differ after one failed save; the second fault is the crash
  that makes the difference visible, at any of the three nodes. One tick is enough for a
  message to expire before, during or after any hop. `MaxOrphans` bounds the requests whose sender gave up
  and which may still be served. `t0_live` has no faults: a node that keeps failing
  acknowledges nothing. Its message does not expire before the clock ends, so that the run
  asks for the acknowledgement itself; an acknowledgement made before the tick expires
  at it, wherever it has got to, and has to be made and carried again.
- `lease_chain`: three renewals are the first, one that is on its way while the one before
  is acknowledged, and one after that; the same for every number by proof.
- `lifecycle`, `native_guest`: objects are created in one order and removed in the
  reverse order; one guest object besides the fixed ones, and a group with a directory
  before and after it, give every partial creation and removal.
- `host_tools`: two controllers, because a third meets only what the second met. The
  recovery's calls take no time or all they may, which is where sums of limits go wrong.
  The licence review has two packages that share a commit and a manifest, packages whose
  licence is only in a referenced file, and a second commit that may fail after the first
  is whole; 9 requests are exactly a complete collection, so the limit is met as well.

Deadlock is not checked (`CHECK_DEADLOCK FALSE`) where a process really ends: in
`lease_chain`, `supervisor`, `lifecycle`, `native_guest`, `host_tools` and the two runs
that show a violation.

## 4. Fairness

| Module | Assumed | Because |
|---|---|---|
| `SyntheticRelay` | the scenario's clock reaches its end; a halted node is opened again; a node is not left unstepped for ever at an instant | the driver steps every node at every instant and reopens a node that stopped; nothing is assumed about frames |
| `T0Relay` | the retry loop makes rounds at the present time (strong fairness) and goes through their frames; a request repeated for ever is served in the end (strong fairness, per kind of frame) | the ticker never stops, and only one tick can have waited from before; a peer that never answers could not be told from one that does not exist |
| `LeaseChain` | the clock advances; the guest polls | the guest sleeps 0.01–0.05 s between polls; nothing is assumed of owner, watchdog and transport |
| `Supervisor` | the supervisor is scheduled, its lease and cleanup windows end; a worker whose pipe ended is scheduled | every sleep is bounded; nothing is assumed of the caller's work |
| `RunMonitor` | the monitor and the runner's cleanup take their steps | both loops sleep a bounded time; nothing is assumed of the work, which need not end |
| `Lifecycle` | some step of the owner is taken | every wait of the owner has a deadline; nothing is assumed of its children |

## 5. Proofs

Eight modules; the 47 theorems a reader should know are listed in `PROJECT.json`. Each
states its result for every value of the constants under the named assumption of the
module it extends. Where a theorem states a property of a run, the run shows it on a small
instance and the theorem for all of them.

**`RetryQueueProofs`** (`QueueAssumption`: start, deadline and ledger bound are natural
numbers, batches are well-formed). `ReplayExact` says that a recursive function of the
ledger equals `rs`; what a recursive definition computes cannot be proved by induction
here, so the inductive invariant `IInv` says instead that *some* run through the ledger
ends in `rs` (`ReplayRuns`), that `rs` has kept its window, that each attempt is paid
for by a slot or the recovery, and that a link seen down is in the ledger
(`DownLedgered`). `RunExtends` shows that a run grows by one batch. `SendFacts`,
`SlotPace` and `AdvanceType` are what `Advance` contributes. `AttemptsAreEarned` puts the
budget, the pace and the reason for a recovery together as the run checks them. The same lemmas give the
two theorems about any owner of a `RetryState`, `WindowKept` and `TerminalIsFinal`, and
`QueueRefinesSchedule`.

**`StateStoreProofs`** (`StoreAssumption`). The disk's state depends on where the write
is. `IInv` says so position by position: before the rename nothing but `state.next` was
touched; after it the old and the new state are both possible until the directory is
synced; a node in service holds what every recovery finds. The three safety invariants,
that writes are atomic, and the refinement of `DurableRegister` follow. The refinement
maps the register's possible values to the states a recovery may find.

**`LeaseProofs`**. For `LeaseChain` (`LeaseChainAssumption`: windows, totals and bounds are natural
numbers, the silence window is not 0): `InStep` squeezes every counter of the chain
between the last acknowledged renewal and the next. It lacks which phases wait for an
acknowledgement (`Waiting`), that a stage that has not started holds nothing (`Fresh`),
and for the bound in time that the guest had accepted renewal k before the owner sent
k+1 (`Timed`). One lemma per process shows that `ChainInv` is kept.

For `Supervisor` (no constants): `Progress` and `Admission` say which bytes the
supervisor has written at which stage and what a worker can be on that account: it works
only after the second byte, which is written only after the group and the lease were
bound. `ExitCodes` ties the report to the `waitpid` that collected the worker,
`CleanedUp` says how a cleanup can end. `GroupIsOwn` and `ReportIsTrue` follow.

**`SyntheticRelayProofs`** (`RelayAssumption`: keys and instants are finite sets, bounds
are natural numbers, the lifetime is not 0). The proof is about what a commit may store.
`Good` says that an entry of a node's state is one `validate` accepts, and two things
`validate` does not ask for (`Tracked`): a relay in custody has not stopped its data queue
and keeps the room for the delivery fact, and nothing expires early. `Linked` ties the
nodes together (what B or C holds is A's core; a delivery fact at A or B means C has
the message; a custody fact at A means B has it or had it), `Wired` does the same for frames.
Entry by entry, `ExpireGood`, `ReceiveMoves` and `ScheduleMoves` follow a step through
expire, receive and the scheduler; together they give a `Candidate`, and `Commits` shows
that every step commits one, writes a frame, opens a node or moves the clock. The
invariants and the refinement of `DeliveryPromise` are then read off a candidate.
`BudgetIsKept` also needs that every transmission the scheduler grants is paid for in the
state that is committed with it (`AdvanceFacts`), which is why a commit whose outcome is
unknown refunds nothing.

**`T0RelayProofs`** (`T0Assumption`: at least two nodes, expiries are natural
numbers, hop limits are not 0).
After failed saves either of memory and disk may be ahead of the other. What no step takes back is the destination's memory: what it
has delivered is on its disk too (`Stores`), and only for such a message is an
acknowledgement anywhere else, in a state, a snapshot being forwarded or a request under
way (`Flights`). A report already made is remembered in `Reports`. `CustodyKept` is proved
as an action property from the same invariant.

**`HostToolsProofs`**. For `LifecycleBudget` (`BudgetAssumption`: what the constructor of
`Budget` requires: positive caps whose worst case fits the total, and a reserve of at most
a quarter of the stop): `FullWindows` says what a stage is given; that the next one is
given as much depends on how far from the absolute deadline this happened, which
`Fitted` adds. For `RunMonitor`: `PassWithinLimits` rests on how a monitor can be gone
(`Halted`): it was asked to stop and had measured nothing against the run, or it has
signalled the runner, which then fails or dies.

For `VmControl` (no assumption on the constants): `OneRun` counts starts and
executions; the invariant that makes it inductive says who may still cause one. `Claimed`:
without `attempt.json` nobody is past the claim, and nothing has been started before the
place where `main` starts it. `Directed`, for each case: without its evidence directory
nothing of it has executed, of the adapters sent for it at most one is on its way, and while
it is none has executed.
One lemma per group of steps (main, UTM, recovery, claiming, collecting) keeps it.
`ResultIsTrue` needs when the machine can still come on (`Power`, `RecoveryPower`) and what
a verified collection was (`Evidence`); it is about the report of `main` (section 6). `RecoveryForces` is arithmetic: `Clock` gives, for
each place of a recovery, the latest second at which it is reached (105 when the polite
phase ends, 110 before the forced stop, of 120).

For `Clarification` (`ClarificationAssumption`: the screen is a choice of two, the number of
commits read a natural number; the run has 3): `Counted` makes the budget's counter the
number of POSTs GitHub received, which is where `OneWrite` comes from, and says that there
is no issue without one. `Progress` follows the creator: the intent is durable before the
POST, nothing is concluded before the evidence holds it, and what is concluded, first in
memory and then in the manifest, is true of GitHub and stays true when a lost POST
creates the issue later: a rejection is concluded only where none can. `Sourced`: a
reader starts from published evidence. `EvidenceTruth` needs no more of a reader.

For `LicenseReview` (`ReviewAssumption`: there is a commit, and each package is pinned to one
commit, as `PACKAGE_SPECS` has it; the lists, files, references, expressions, texts and the
request limit are arbitrary): `InOrder` says which commits are fetched and which packages
are mapped at each point of the loop, so that both are complete when a pass is judged.
`Credited` says that what a package is mapped to is read from files of its own commit, and
that later texts change none of it. `Judged`: a pass was judged with everything there.
`Recorded`: the manifest was validated when it was written, nothing it was validated
against changes until the rename unless a file does on disk, and the checksums of what did not
change match. One lemma per action; `CollectingStep`, `RaisedStep` and
`FinishingStep` carry what the steps of a phase share.

**`NativeGuestProofs`** (`NativeAssumption`: the creation order names every object once,
a group among them; `CREATE_ORDER` of the code has nine objects, three of them groups).
What the parent knows is behind what the owner has done, and the socket still holds frames
and acknowledgements of registrations that were given up. `Retirement`: the owner waits for
a PID only after the parent acknowledged its retirement, so what the parent signals has
not been given back, which is `TicketValid`. `Registered`: an object is entered before
it is made and gone before its `cleaned` is sent, so the registry covers what exists.
`Building`: while objects are created, what is still to be done makes up for what is
missing; from then on all are there until cleanup finds the group empty. That an empty group
stays empty is the hard part, `Authority`: a supervisor that the owner does not know of is
either behind a closed gate, or it was let through by an owner that a signal then took out of
`fork_supervisor`, and the parent had signalled the supervisor before that owner, so it
ends without entering the group. For this the supervisor must have been registered (the
ticket) and not retired before `fork_supervisor` returns. It is why `WorkKeepsObjects`
holds although `CleanupHasAuthority` does not (section 6). A signal that reaches the owner
alone may come at any step too. Where `fork_supervisor` still handles it, the owner has its
supervisor stopped and waits for it before anything else, which is `Stopping`. In the tail of
`fork_supervisor` nobody does, and the property excepts that case (`alone`). One lemma per action; the
owner's registrations are split into acknowledged (`GrantedStep`) and failed (`RefusedStep`).

**`LifecycleProofs`** (`LifecycleAssumption`: the guest's objects are named once and
are not the host's two, as the role lists of the code have it; how many there are, in which
order, and how many sources are staged is arbitrary). None of the four invariants is
inductive: each speaks of the end of an attempt or of one end of two pipes, in which
messages stay that their reader gave up. The inductive invariant `IInv` is a conjunction of

- `Facts` and `Place`: each mark of `self.facts` rests on earlier ones, and where `run()` is
  says which of them there are; `Running`: what still runs when the owner has left a stage
  is a cleanup error. From these follow `LeftIsReported` and most of `Admissible`.
- `Ordered`, `Mail` and `Hand`: what is on its way about an object, acknowledgements first,
  is in the order intent, bound, cleaned, and bounds what either side can hold of it; an
  operation makes an object of which there is no other trace, after the owner recorded it.
  Then an acknowledgement that answers an older registration can never be the one the worker
  waits for, and `NoUnrecordedWrite` is the last conjunct of `Mail`.
- `GuestOnce`, `CleanOnce`, `GuestComplete`, `HostComplete`: each operation is asked for
  once, what a cleanup has passed without an error is gone, and when its answer is read
  nothing is left of its objects and nothing under way can make one. `Kept` is what makes the
  first of these hold in a cleanup that begins: an object the worker does not know has
  left nothing. For the source this rests on `self.source` being reset only after the
  removal was acknowledged.
- `Sealed`: what the worker persists is what the owner froze, and a passing receipt is one of
  passed facts; `PlainIsBare`: without initialisation no object and no operation exists.

One lemma per part for the owner, the worker and the rest; what a step does to the pipes is
classified first (`OwnerMessages`, `WorkerMessages`, `OwnerSends`, `WorkerReads`), so
that the steps which bring no news of an object are dealt with together (`StillPost`).

Only model-checked: the liveness properties (the prover has no fairness). Every invariant
and every action property of the runs is stated by a theorem.

## 6. What the models say about the code

All properties but two hold.

`native_lost_return` states the comment of `_owner`
(`sw_i5_preparation_native_lifecycle.py:177-178`): "Never turn a lost return into 'no
task was created' cleanup authority." The code recognises a lost return by an attribute
that `fork_supervisor` puts on the exceptions it handles itself. A SIGTERM raises a plain
`InterruptedError` wherever the owner is. In the tail of `fork_supervisor`, after its own
handler is left and before its result is assigned, that exception carries no PID, and
the owner takes it that there is no supervisor and goes on to cleanup while the one it
has let through its gate is running. `WorkKeepsObjects` of the run `native_guest` shows
that the barrier of the cleanup itself, which looks at the groups, still keeps the
objects of a task at work where the signal came through the parent, which signals the
supervisor first. A signal that somebody sends to the owner alone there leaves a supervisor
that nobody has signalled; it may be admitted after the barrier looked, and objects are then
removed from under its worker. `WorkKeepsObjects` excepts that case.

`clarification_refusal` states the message of `main`
(`run-sw-g2-mls-rs-license-upstream-clarification.py:1482`): "INVALID before R1d-U-X
network/evidence". Line 746 refuses a body that starts with a brace or a bracket, where
its message speaks of an empty or HTML-like one: it refuses every JSON body. The first
answer of every run is refused after it was counted and before it was recorded, and the
evidence, with one response record and no observation, gets its final name (line 670)
before `validate_evidence` refuses it (line 671). `Clarification` has the constant
`ScreenAsWritten`: `TRUE` is the line as it is, with which no run gets past its first
answer; the run `host_tools` sets it to `FALSE`, the line its message describes, so that
the rest of the protocol is checked at all. `RefusalComesFirst` fails then too, since a
name that is given before validation stays: an answer to the POST that is recorded and
ambiguous, an issue that is created but not the one expected, a run that took longer than
its limit and a paged answer followed by an invalid one are all published and refused.
`EvidenceTruth` says only that evidence which validates is true.

Behaviour worth knowing, which no property excludes:

- `recover_preparation` looks at once: it may report a machine as stopped whose start is
  still on its way and which boots afterwards. `main` waits 30 seconds before it asks, and
  `ResultIsTrue` is about its report only. A state that is neither started nor stopped, of
  a machine that is stopping for instance, ends a recovery without a forced stop.
- Evidence directories are one for each case: a hand collection of another case with the
  nonce of a running operation executes a second program in the guest, and `main` may pass
  all the same. `OneRun` counts for each case.
- A licence review whose file changes between the validation of its manifest and the making
  of its checksums is published although the checker refuses it; one whose file changes
  later and which is killed between the rename and the second verification keeps its final
  name. `PublishedIsAdmitted` excepts both.
- A SIGTERM of the monitor that arrives while the runner is in `cleanup` ends the runner
  without a manifest (`RunMonitor`, state `killed`): the run is then neither PASS nor STOP.
- A licence review that runs out of time or evidence budget writes no final evidence: the
  manifest that says so does not pass its own validation. The same holds for a request that was
  counted and not listed. The partial directory stays.
- A worker of `Lifecycle` may take a command for an acknowledgement and die of it; the
  receipt is then lost, and nothing is written unrecorded.

## 7. What is left out

- Stateless code: encodings, fingerprints, validators of documents, profiles, bundles,
  repository checks, evidence of schema 1. There is no order of events in them to get wrong.
- The MLS spikes: download, build and audit scripts and stubs that refuse to run. The
  dependency audit's monitor is a variant of the one in `RunMonitor`.
- Package snapshots, builds and resource inspection: one process, no state between calls.
- Byte credits of the relay, kernel readbacks, contents of RPCs: free choices, see
  section 2.
- Retry arithmetic at 2^63: `validate` bounds the start so that the last slot cannot
  overflow.
- A SIGTERM or SIGINT in the supervisor's child between the fork and its `try`: it runs the
  handler inherited from the owner and leaves through the owner's cleanup. A signal while the
  owner's exception handler runs and has not noted the first failure yet: the report then
  lacks it, and `SettledIsTrue` does not read it.
- A signal to the monitor of a bounded run from elsewhere than its runner, a use of the disk
  that falls again between two measurements, and a GitHub token that cannot be read
  before the first request.
- Assumed of what is outside the repository: a start of UTM has its effect within the 30
  seconds `main` waits, or never (under `recover_preparation` it may have it at any
  time); a stop has its effect or fails before it; GitHub
  answers 201 only for an issue it created and a refusal only for one it will not create;
  the monitor of a bounded run is not killed with SIGKILL.
- The harness (scenario proxy, node actor, sample driver, assessment): not modelled yet,
  see section 8. Two of the listed hazards are there and have no property.

## 8. Plan

In order of what matters most:

1. `Harness`: the scenario proxy's fault plan counted under its lock with outputs sent
   outside it, the logical clock and the write budget that stops for good.
2. `NodeActor`: the harness's request loop (`control.go`) with the one armed receive that
   completes on another goroutine, pending inputs and transmission handles.
3. `Sample`: the driver of one sample (`process_scenario.go`, `process_runtime.go`):
   owned resources, a create whose answer was lost, cleanup that proves ownership.
4. `Assessment`: the assessment's replay of recorded events, against `RetryQueue`.
5. `Execution`: the ordering rules of the execution ledger (`execution.py`), and
   `isolation.py` as its observations.
6. `Rpc`: descriptors, deadlines and process handling (`rpc.py`), to replace
   the lost-or-late RPC of `LeaseChain`.

New runs should ask new questions: where a module of this list subsumes an existing run
(a `Sample` over `NodeActor` over `SyntheticRelay`, for instance), the smaller run's
properties move to it.
