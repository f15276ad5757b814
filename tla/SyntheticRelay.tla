--------------------------- MODULE SyntheticRelay ---------------------------
(***************************************************************************)
(* The chain A -> B -> C of tools/t0/internal/synthetic: A originates      *)
(* messages, B takes custody and relays, C is the destination.  Data       *)
(* travels A -> B -> C, a custody fact B -> A, a delivery fact             *)
(* C -> B -> A.                                                            *)
(*                                                                         *)
(* Each node keeps one state, replaced whole by commit; `disk[n]' is what  *)
(* its store holds.  A step of a node takes one batch of inputs at one     *)
(* instant, settles deadlines, applies the inputs, advances every active   *)
(* queue and commits; only then do its transmissions become available.     *)
(*                                                                         *)
(* The wire is the set of all frames ever written: a frame may be lost     *)
(* (never used), repeated (used again) or overtaken.  A commit may succeed *)
(* or fail with the store holding the old or the new state; the node is    *)
(* then halted until it is opened again (StateStore shows that these are   *)
(* the possible outcomes).  Reports of link changes and the admission      *)
(* verdict of the byte budgets are arbitrary.                              *)
(***************************************************************************)
EXTENDS Retry, FiniteSets

CONSTANTS
  Keys,         \* message keys
  Bodies,       \* payloads
  Instants,     \* the logical times of the scenario
  Lifetime,     \* lifetime_ms of a message
  LastOrigin,   \* the latest originated_ms (60000 in the code)
  MaxActions,   \* submissions the origin keeps (4 in the code)
  MaxLedger,    \* batches a queue keeps (64 in the code)
  Reports,      \* the link events a batch may report
  Tight,        \* whether the byte budgets may refuse a transmission
  MaxFailures   \* bound on the commits that fail

ASSUME RelayAssumption ==
  /\ IsFiniteSet(Keys) /\ IsFiniteSet(Instants)
  /\ Instants \subseteq Nat /\ 0 \in Instants
  /\ Lifetime \in Nat \ {0} /\ LastOrigin \in Nat
  /\ MaxActions \in Nat /\ MaxLedger \in Nat /\ MaxFailures \in Nat
  /\ Reports \subseteq LinkEvents /\ Tight \in BOOLEAN

VARIABLES
  now,      \* the logical clock of the scenario
  disk,     \* per node, the state its store holds
  halted,   \* nodes whose last commit failed
  failures, \* how many commits failed so far
  grants,   \* per node, the transmissions of its last commit not yet written
  wire,     \* every frame written so far
  writes,   \* per node, kind and key, how often a frame was written
  refused   \* the pairs <<node, code>> with which validate refused a candidate

vars == <<now, disk, halted, failures, grants, wire, writes, refused>>

-----------------------------------------------------------------------------
(* The parts of a node's state *)

Nodes == {"A", "B", "C"}
Kinds == {"data", "custody", "delivery"}

Neighbors(n) == IF n = "B" THEN {"A", "C"} ELSE {"B"}

\* The queues each node keeps for a message, and whom they send to.
KindsOf(n) ==
  CASE n = "A" -> {"data"} [] n = "B" -> Kinds [] n = "C" -> {"delivery"}

Target(n, kind) == IF n = "B" THEN (IF kind = "data" THEN "C" ELSE "A") ELSE "B"

Terminal == {"expired", "destination_delivered", "committed"}

\* The core of a message; its fingerprint is the core itself.
Core  == [body: Bodies, orig: Instants]
Due(core) == core.orig + Lifetime

Blank == NewRetryState(0, 0, "down")

NoQueue  == [status |-> "none", rs |-> Blank, len |-> 0]
Reserved == [status |-> "reserved", rs |-> Blank, len |-> 0]
NewQueue(core, t) ==
  [status |-> "active", rs |-> NewRetryState(t, Due(core), "up"), len |-> 0]

\* A message and its queues, as one node holds them.
NoCore == [body |-> "none", orig |-> 0]
Absent ==
  [st |-> "absent", core |-> NoCore, custodySeen |-> FALSE, transport |-> FALSE,
   history |-> FALSE, body |-> FALSE, tomb |-> FALSE, q |-> [i \in Kinds |-> NoQueue]]

Present(s) == {k \in Keys : s.box[k].st # "absent"}

NewState == [now |-> 0, steps |-> 0, box |-> [k \in Keys |-> Absent]]

Frame(n, kind, k, core) ==
  [from |-> n, to |-> Target(n, kind), kind |-> kind, key |-> k, core |-> core]

-----------------------------------------------------------------------------
(* Deadlines: expire *)

\* The bug "a message whose queue a full ledger has retired is passed over".
ExpireEntry_skipsRetired(e, t) ==
  IF e.st = "absent" \/ t < Due(e.core) \/ \E i \in Kinds : e.q[i].status = "schedule_limit" THEN e
  ELSE [e EXCEPT !.transport = FALSE, !.tomb = TRUE,
                 !.st   = IF @ \in {"committed", "destination_delivered"} THEN @ ELSE "expired",
                 !.body = e.history,
                 !.q = [i \in Kinds |->
                          IF e.q[i].status \in {"none", "reserved"} THEN e.q[i]
                          ELSE [e.q[i] EXCEPT !.status = "expired"]]]

\* A message at its deadline: its responsibilities end, a history stays.
ExpireEntry(e, t) ==
  IF e.st = "absent" \/ t < Due(e.core) THEN e
  ELSE [e EXCEPT !.transport = FALSE, !.tomb = TRUE,
                 !.st   = IF @ \in {"committed", "destination_delivered"} THEN @ ELSE "expired",
                 !.body = e.history,
                 !.q = [i \in Kinds |->
                          IF e.q[i].status \in {"none", "reserved"} THEN e.q[i]
                          ELSE [e.q[i] EXCEPT !.status = "expired"]]]

Expired(s, t) ==
  [s EXCEPT !.now = t, !.box = [k \in Keys |-> ExpireEntry(s.box[k], t)]]

-----------------------------------------------------------------------------
(* Inputs: receive, in the order delivery, custody, data *)

\* A delivery fact: responsibility ends; at B the fact is queued for A.
ApplyDelivery(n, e, t) ==
  IF e.st = "destination_delivered" THEN e
  ELSE [e EXCEPT
          !.st = "destination_delivered", !.transport = FALSE, !.tomb = TRUE,
          !.body = IF n = "B" THEN FALSE ELSE @,
          !.q = IF n = "B"
                THEN [e.q EXCEPT !["data"].status = "stopped", !["custody"].status = "stopped",
                                 !["delivery"] = NewQueue(e.core, t)]
                ELSE [e.q EXCEPT !["data"].status = "stopped"]]

\* The bug "a custody fact is taken for a delivery".
ApplyCustody_delivers(e) ==
  IF e.st # "queued" THEN e
  ELSE [e EXCEPT !.custodySeen = TRUE, !.st = "destination_delivered",
                 !.transport = FALSE, !.tomb = TRUE, !.q["data"].status = "stopped"]

\* A custody fact pauses the origin's own sending.
ApplyCustody(e) ==
  IF e.st # "queued" THEN e
  ELSE [e EXCEPT !.custodySeen = TRUE, !.q["data"].status = "paused"]

\* A data frame that is new: B takes custody, C stores it in its history.
ApplyData(n, e, core, t) ==
  IF e.st # "absent" THEN e
  ELSE IF n = "B"
  THEN [Absent EXCEPT !.st = "custody_held", !.core = core, !.transport = TRUE, !.body = TRUE,
          !.q = [i \in Kinds |-> IF i = "delivery" THEN Reserved ELSE NewQueue(core, t)]]
  ELSE [Absent EXCEPT !.st = "committed", !.core = core, !.history = TRUE, !.body = TRUE,
          !.tomb = TRUE,
          !.q = [i \in Kinds |-> IF i = "delivery" THEN NewQueue(core, t) ELSE NoQueue]]

\* No input of the batch is refused: each is in time, agrees with what is
\* stored and with the others, and facts are about known messages.
Acceptable(s, inputs, t) ==
  \A f \in inputs :
    LET e == s.box[f.key] IN
    /\ e.st = "absent" => f.kind = "data"
    /\ e.st # "absent" => f.core = e.core /\ t < Due(e.core)
    /\ f.kind = "data" => /\ t < Due(f.core)
                          /\ \A g \in inputs : g.key = f.key /\ g.kind = "data" => g.core = f.core

ReceiveEntry(n, e, in, t) ==
  LET kinds == {f.kind : f \in in}
      e1 == IF "delivery" \in kinds THEN ApplyDelivery(n, e, t) ELSE e
      e2 == IF "custody" \in kinds THEN ApplyCustody(e1) ELSE e1
  IN IF "data" \in kinds
     THEN ApplyData(n, e2, (CHOOSE f \in in : f.kind = "data").core, t)
     ELSE e2

Received(n, s, inputs, t) ==
  LET box == [k \in Keys |-> ReceiveEntry(n, s.box[k], {f \in inputs : f.key = k}, t)]
  IN [s EXCEPT !.box = box,
               !.steps = IF n = "C" THEN @ + Cardinality({k \in Keys : s.box[k].st = "absent" /\ box[k].st # "absent"})
                         ELSE @]

-----------------------------------------------------------------------------
(* The scheduler: every active queue is advanced by the batch *)

BatchFor(n, kind, t, links, admit) ==
  [now |-> t, link |-> links[Target(n, kind)], signal |-> "continue",
   admission |-> IF admit THEN "admit" ELSE "reject_quota"]

\* The bug "a queue whose ledger is full is stopped, as if its message were through".
AdvanceQueue_stopsFull(qu, b) ==
  IF qu.len = MaxLedger THEN [qu EXCEPT !.status = "stopped"]
  ELSE [qu EXCEPT !.rs = [Advance(qu.rs, b) EXCEPT !.last = NoBatch], !.len = @ + 1]

\* queue.advance.  The instant of the last batch is not kept: a node never
\* steps twice at one instant, so each batch is fresh.
AdvanceQueue(qu, b) ==
  IF qu.len = MaxLedger THEN [qu EXCEPT !.status = "schedule_limit"]
  ELSE [qu EXCEPT !.rs = [Advance(qu.rs, b) EXCEPT !.last = NoBatch], !.len = @ + 1]

\* `admitted' are the pairs <<key, kind>> for which the byte budget suffices.
Scheduled(n, s, links, admitted) ==
  [s EXCEPT !.box = [k \in Keys |->
     [s.box[k] EXCEPT !.q = [i \in Kinds |->
        IF s.box[k].q[i].status # "active" THEN s.box[k].q[i]
        ELSE AdvanceQueue(s.box[k].q[i], BatchFor(n, i, s.now, links, <<k, i>> \in admitted))]]]]

Active(s) == {p \in Keys \X Kinds : s.box[p[1]].q[p[2]].status = "active"}

LimitReached(s) == \E p \in Active(s) : s.box[p[1]].q[p[2]].len = MaxLedger

\* The transmissions a batch earns; a queue at its limit loses all of them.
Earned(n, s, links, admitted) ==
  IF LimitReached(s) THEN {}
  ELSE {p \in Active(s) :
          Send(s.box[p[1]].q[p[2]].rs, BatchFor(n, p[2], s.now, links, p \in admitted))}

-----------------------------------------------------------------------------
(* validate *)

ValidQueue(n, e, kind, t) ==
  LET qu == e.q[kind] IN
  IF qu.status = "reserved"
  THEN n = "B" /\ kind = "delivery" /\ e.st # "destination_delivered" /\ qu = Reserved
  ELSE /\ e.core.orig <= qu.rs.start /\ qu.rs.start <= t /\ qu.rs.deadline = Due(e.core)
       /\ qu.status \in {"active", "paused", "stopped", "expired", "schedule_limit"}
       /\ qu.status = "paused" => n = "A" /\ e.custodySeen /\ e.st = "queued"
       /\ n = "A" /\ e.st = "queued" /\ e.custodySeen => qu.status = "paused"
       /\ qu.status = "active" =>
            /\ kind = "data" => e.transport
            /\ kind = "custody" => e.st = "custody_held"
            /\ kind = "delivery" => e.st \in {"committed", "destination_delivered"}
            /\ qu.rs.phase = "active"
       /\ qu.status = "schedule_limit" => qu.len = MaxLedger
       /\ qu.len <= MaxLedger

ValidEntry(n, e, t) ==
  /\ e.core.orig <= t
  /\ (e.history \/ e.transport) <=> e.body
  /\ IF e.st \in Terminal THEN e.tomb /\ ~e.transport ELSE ~e.tomb /\ e.transport
  /\ n = "A" => e.history /\ e.st \in {"queued", "destination_delivered", "expired"}
  /\ n = "B" => ~e.history /\ ~e.custodySeen
                /\ e.st \in {"custody_held", "destination_delivered", "expired"}
  /\ n = "C" => e.history /\ ~e.custodySeen /\ e.st = "committed"
  /\ \A i \in Kinds : i \in KindsOf(n) <=> e.q[i].status # "none"
  /\ \A i \in KindsOf(n) : ValidQueue(n, e, i, t)

\* The STORE_INVALID rules.
Consistent(n, s) ==
  /\ \A k \in Present(s) : ValidEntry(n, s.box[k], s.now)
  /\ s.steps = IF n = "B" THEN 0 ELSE Cardinality(Present(s))

\* The REJECT_QUOTA rules; payloads retained for transport or history.
WithinQuota(n, s) ==
  /\ n = "A" => Cardinality(Present(s)) <= MaxActions
  /\ Cardinality({k \in Keys : s.box[k].transport}) <= MaxActions
  /\ Cardinality({k \in Keys : s.box[k].history}) <= MaxActions

Valid(n, s) == Consistent(n, s) /\ WithinQuota(n, s)

-----------------------------------------------------------------------------
(* Actions *)

Init ==
  /\ now = 0
  /\ disk = [n \in Nodes |-> NewState]
  /\ halted = {}
  /\ failures = 0
  /\ grants = [n \in Nodes |-> {}]
  /\ wire = {}
  /\ writes = [n \in Nodes |-> [p \in Keys \X Kinds |-> 0]]
  /\ refused = {}

\* commit: refused by validate; saved and its transmissions published; or a
\* failed save, which may have replaced the file, and halts the node: none of
\* its transmissions can be written any more.
Commit(n, s, earned) ==
  \/ /\ ~Valid(n, s)
     /\ refused' = refused \cup {<<n, IF Consistent(n, s) THEN "quota" ELSE "invalid">>}
     /\ UNCHANGED <<disk, halted, failures, grants>>
  \/ /\ Valid(n, s)
     /\ disk' = [disk EXCEPT ![n] = s]
     /\ grants' = [grants EXCEPT ![n] = earned]
     /\ UNCHANGED <<halted, failures, refused>>
  \/ /\ Valid(n, s) /\ failures < MaxFailures
     /\ disk' \in {disk, [disk EXCEPT ![n] = s]}
     /\ halted' = halted \cup {n} /\ failures' = failures + 1
     /\ grants' = [grants EXCEPT ![n] = {}]
     /\ UNCHANGED refused

\* The bug "a repeated submission renews the message".
Submit_renews(k, body) ==
  LET s == disk["A"]
      core == [body |-> body, orig |-> now]
      e == [Absent EXCEPT !.st = "queued", !.core = core, !.transport = TRUE,
              !.history = TRUE, !.body = TRUE, !.q["data"] = NewQueue(core, now)]
  IN /\ "A" \notin halted /\ now <= LastOrigin
     /\ Commit("A", [s EXCEPT !.now = now, !.box[k] = e,
                       !.steps = IF s.box[k].st = "absent" THEN @ + 1 ELSE @], {})
     /\ UNCHANGED <<now, wire, writes>>

\* Submit at the origin; a key that is bound already changes nothing.
Submit(k, body) ==
  LET s == disk["A"]
      core == [body |-> body, orig |-> now]
      e == [Absent EXCEPT !.st = "queued", !.core = core, !.transport = TRUE,
              !.history = TRUE, !.body = TRUE, !.q["data"] = NewQueue(core, now)]
  IN /\ "A" \notin halted /\ now <= LastOrigin
     /\ s.box[k].st = "absent"
     /\ Commit("A", [s EXCEPT !.now = now, !.steps = @ + 1, !.box[k] = e], {})
     /\ UNCHANGED <<now, wire, writes>>

CanStep(n) == n \notin halted /\ now > disk[n].now

\* Step with an acceptable batch.
StepAccepted(n, inputs, links) ==
  LET expired == Expired(disk[n], now)
      s == Received(n, expired, inputs, now)
  IN /\ CanStep(n)
     /\ Acceptable(expired, inputs, now)
     /\ \E admitted \in IF Tight THEN SUBSET Active(s) ELSE {Active(s)} :
          Commit(n, Scheduled(n, s, links, admitted), Earned(n, s, links, admitted))
     /\ UNCHANGED <<now, wire, writes>>

\* Step with a batch that holds an input which is late, conflicting, unknown,
\* undecodable, misrouted or refused by its verdict: only deadlines settle.
StepRejected(n) ==
  LET expired == Expired(disk[n], now)
  IN /\ CanStep(n)
     /\ IF expired.box # disk[n].box
        THEN Commit(n, expired, {})
        ELSE UNCHANGED <<disk, halted, failures, grants, refused>>
     /\ UNCHANGED <<now, wire, writes>>

\* The bug "a transmission can be written again".
Write_reusable(n, k, kind) ==
  LET e == disk[n].box[k] IN
  /\ n \notin halted /\ <<k, kind>> \in grants[n]
  /\ IF e.q[kind].status = "active" /\ now < e.q[kind].rs.deadline
     THEN /\ wire' = wire \cup {Frame(n, kind, k, e.core)}
          /\ writes' = [writes EXCEPT ![n][<<k, kind>>] = @ + 1]
     ELSE UNCHANGED <<wire, writes>>
  /\ UNCHANGED <<now, disk, halted, failures, grants, refused>>

\* Transmission.Write: at most once, while its commit is the current one and
\* the message is alive.
Write(n, k, kind) ==
  LET e == disk[n].box[k] IN
  /\ n \notin halted /\ <<k, kind>> \in grants[n]
  /\ grants' = [grants EXCEPT ![n] = @ \ {<<k, kind>>}]
  /\ IF e.q[kind].status = "active" /\ now < e.q[kind].rs.deadline
     THEN /\ wire' = wire \cup {Frame(n, kind, k, e.core)}
          /\ writes' = [writes EXCEPT ![n][<<k, kind>>] = @ + 1]
     ELSE UNCHANGED <<wire, writes>>
  /\ UNCHANGED <<now, disk, halted, failures, refused>>

\* OpenNode after a crash or a failed commit: only the stored state is left.
Reopen(n) ==
  /\ halted' = halted \ {n}
  /\ grants' = [grants EXCEPT ![n] = {}]
  /\ UNCHANGED <<now, disk, failures, wire, writes, refused>>

\* The scenario's clock moves on.
Tick ==
  /\ \E t \in Instants : t > now /\ now' = t
  /\ UNCHANGED <<disk, halted, failures, grants, wire, writes, refused>>

\* A step of n with any batch.
StepNode(n) ==
  \/ \E inputs \in SUBSET {f \in wire : f.to = n} :
     \E links \in [Neighbors(n) -> Reports] : StepAccepted(n, inputs, links)
  \/ StepRejected(n)

Next ==
  \/ \E k \in Keys, body \in Bodies : Submit(k, body)
  \/ \E n \in Nodes : StepNode(n) \/ Reopen(n)
  \/ \E n \in Nodes, k \in Keys, kind \in Kinds : Write(n, k, kind)
  \/ Tick

Spec == Init /\ [][Next]_vars

-----------------------------------------------------------------------------
(* Properties *)

At(n, k) == disk[n].box[k]

\* While the origin is silenced by a custody fact, the relay is responsible:
\* it still keeps the body and a data queue for it, or the destination has the
\* message, or its deadline has passed.
NoCustodyGap ==
  \A k \in Keys : At("A", k).st = "queued" /\ At("A", k).custodySeen =>
    \/ /\ At("B", k).st = "custody_held" /\ At("B", k).body
       /\ At("B", k).q["data"].status \in {"active", "schedule_limit"}
    \/ At("B", k).st = "destination_delivered" /\ At("C", k).st = "committed"
    \/ At("B", k).st = "expired" /\ now >= Due(At("B", k).core)

\* The chain agrees on what a key stands for, and no node is ever stopped by
\* its own checks: whatever a node or the wire holds for a key is the core that
\* the origin committed, whichever submission failed or was repeated, and
\* validate never refuses what receive, expire and the scheduler produce (only
\* the origin meets a quota).
ChainCoherent ==
  /\ \A f \in wire : At("A", f.key).core = f.core
  /\ \A n \in {"B", "C"} : \A k \in Present(disk[n]) : At(n, k).core = At("A", k).core
  /\ refused \subseteq {<<"A", "quota">>}

\* Frames on the wire plus the transmissions still available never exceed the
\* slots and the recovery that the node's store has consumed: no crash, failed
\* commit or restart refunds an opportunity.
WriteBudget ==
  \A n \in Nodes : \A p \in Keys \X Kinds :
    writes[n][p] + (IF p \in grants[n] THEN 1 ELSE 0)
      <= disk[n].box[p[1]].q[p[2]].rs.nextSlot
         + (IF disk[n].box[p[1]].q[p[2]].rs.recoveryUsed THEN 1 ELSE 0)

-----------------------------------------------------------------------------
(* Refinement of DeliveryPromise *)

OriginView(e) ==
  CASE e.st = "absent" -> "none" [] e.st = "queued" -> "pending"
    [] e.st = "destination_delivered" -> "delivered" [] OTHER -> "expired"

Promise == INSTANCE DeliveryPromise WITH
  Cores    <- Core,
  clock    <- now,
  origin   <- [k \in Keys |-> OriginView(disk["A"].box[k])],
  accepted <- [k \in Keys |-> disk["A"].box[k].core],
  held     <- [k \in Keys |-> disk["C"].box[k].core]

\* The chain keeps its promise to the user of the origin.
PromiseKept == Promise!PromiseSpec

-----------------------------------------------------------------------------
(* Liveness *)

\* The scenario's clock runs to its end, a halted node is opened again, and
\* no node is left unstepped for ever at an instant it has not settled: an
\* idle batch is possible whenever CanStep holds and ends it, so the last
\* conjunct is weak fairness of that step.
Fairness ==
  /\ WF_vars(Tick)
  /\ \A n \in Nodes : WF_vars(n \in halted /\ Reopen(n))
  /\ \A n \in Nodes : []<>(~CanStep(n))

FairSpec == Spec /\ Fairness

\* Every node lets go of every message: no payload is retained for transport
\* for ever, and no queue stays active, whatever was lost or failed, also when a
\* full ledger has retired a queue while its message is alive.
Settles ==
  \A n \in Nodes, k \in Keys :
    (At(n, k).transport \/ \E i \in Kinds : At(n, k).q[i].status = "active")
      ~> (~At(n, k).transport /\ \A i \in Kinds : At(n, k).q[i].status # "active")
=============================================================================
