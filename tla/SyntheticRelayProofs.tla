------------------------ MODULE SyntheticRelayProofs ------------------------
(***************************************************************************)
(* For any keys, payloads, instants, lifetime, quota, ledger length and    *)
(* number of failed commits: WriteBudget, ChainCoherent and NoCustodyGap   *)
(* of SyntheticRelay, and that the chain implements DeliveryPromise.       *)
(*                                                                         *)
(* Every state a node stores is one that validate accepts (NodeOK, Good),  *)
(* and knows two things more (Tracked): a relay in custody keeps its data  *)
(* queue and the room for the delivery fact, and nothing expires early.    *)
(* The nodes are tied together by Linked (what one node knows of a key is  *)
(* true of another) and Wired (so is what a frame says).                   *)
(*                                                                         *)
(* The argument follows a step: expire (ExpireGood), receive (Moved,       *)
(* ReceiveMoves), the scheduler (Advanced, ScheduleMoves).  Together they  *)
(* make a Candidate, a state that may be committed; Commits says that      *)
(* every step commits a Candidate, writes a frame, opens a node or moves   *)
(* the clock.                                                              *)
(***************************************************************************)
EXTENDS SyntheticRelay, FiniteSetTheorems, TLAPS

-----------------------------------------------------------------------------
(* Types *)

QueueStatuses == {"none", "reserved", "active", "paused", "stopped", "expired", "schedule_limit"}
Stages == {"absent", "queued", "custody_held", "destination_delivered", "committed", "expired"}

QueueType == [status : QueueStatuses, rs : RetryState, len : Nat]
CoreType  == [body : Bodies \cup {"none"}, orig : Nat]
EntryType ==
  [st : Stages, core : CoreType, custodySeen : BOOLEAN, transport : BOOLEAN, history : BOOLEAN,
   body : BOOLEAN, tomb : BOOLEAN, q : [Kinds -> QueueType]]
StateType == [now : Nat, steps : Nat, box : [Keys -> EntryType]]

\* The opportunities a queue has consumed.
Used(qu) == qu.rs.nextSlot + (IF qu.rs.recoveryUsed THEN 1 ELSE 0)

-----------------------------------------------------------------------------
(* The retry schedule *)

\* The loop over the offsets never moves back.
LEMMA SlotsGrow ==
  ASSUME NEW s \in RetryState, NEW b \in RetryBatch
  PROVE  NextSlot(s, b) \in s.nextSlot..5
<1> DEFINE D(i) == SlotDue(s, i, b.now)
           P(n, k) == /\ \A i \in (n + 1)..k : D(i)
                      /\ k < 5 => ~D(k + 1)
           Stops(n) == \E k \in n..5 : P(n, k)
<1>1. s.nextSlot \in 0..5  BY DEF RetryState, MaxSlots
<1>2. Stops(s.nextSlot)
  <2> HIDE DEF D
  <2>1. Stops(5)  OBVIOUS
  <2>2. ASSUME NEW n \in 0..4, Stops(n + 1)  PROVE Stops(n)
    <3>1. CASE ~D(n + 1)  BY <3>1
    <3>2. CASE D(n + 1)   BY <2>2, <3>2
    <3>q. QED BY <3>1, <3>2
  <2> HIDE DEF Stops
  <2>3. Stops(4)  BY <2>1, <2>2
  <2>4. Stops(3)  BY <2>2, <2>3
  <2>5. Stops(2)  BY <2>2, <2>4
  <2>6. Stops(1)  BY <2>2, <2>5
  <2>7. Stops(0)  BY <2>2, <2>6
  <2>q. QED BY <1>1, <2>1, <2>3, <2>4, <2>5, <2>6, <2>7
<1>3. CASE Running(s, b)
  <2>1. NextSlot(s, b) = CHOOSE k \in s.nextSlot..5 : P(s.nextSlot, k)  BY <1>3 DEF NextSlot, MaxSlots
  <2> HIDE DEF P
  <2>q. QED BY <1>2, <2>1
<1>4. CASE ~Running(s, b)  BY <1>1, <1>4 DEF NextSlot
<1>q. QED BY <1>3, <1>4

\* What Advance does to a schedule that is active and inside its window.
LEMMA AdvanceValue ==
  ASSUME NEW s \in RetryState, NEW b \in RetryBatch, b.signal = "continue", s.phase = "active", b.now < s.deadline
  PROVE  \E k \in 0..MaxSlots, l \in LinkStates, u \in BOOLEAN :
           /\ k >= s.nextSlot /\ (s.recoveryUsed => u)
           /\ Send(s, b) => k > s.nextSlot \/ (u /\ ~s.recoveryUsed)
           /\ [Advance(s, b) EXCEPT !.last = NoBatch] =
                [s EXCEPT !.phase = "active", !.link = l, !.nextSlot = k, !.recoveryUsed = u, !.last = NoBatch]
<1> DEFINE spent == s.recoveryUsed \/ RecoveryConsumed(s, b)
<1>1. NextSlot(s, b) \in s.nextSlot..5 /\ s.nextSlot \in 0..5  BY SlotsGrow DEF RetryState, MaxSlots
<1>2. NextPhase(s, b) = "active"  BY DEF NextPhase, RetryState, RetryBatch
<1>3. NextLink(s, b) \in LinkStates  BY DEF NextLink, LinkStates, RetryState
<1>4. spent \in BOOLEAN  BY Zenon DEF RecoveryConsumed, RetryState
<1>5. RecoveryConsumed(s, b) => ~s.recoveryUsed  BY DEF RecoveryConsumed
<1>6. Send(s, b) => NextSlot(s, b) > s.nextSlot \/ RecoveryConsumed(s, b)
  BY <1>1 DEF Send, Attempt, TimedSlotsConsumed
<1>7. [Advance(s, b) EXCEPT !.last = NoBatch] =
        [s EXCEPT !.phase = "active", !.link = NextLink(s, b), !.nextSlot = NextSlot(s, b), !.recoveryUsed = spent, !.last = NoBatch]
  BY <1>2 DEF Advance, RetryState
<1>8. /\ NextSlot(s, b) \in 0..MaxSlots /\ NextSlot(s, b) >= s.nextSlot  BY <1>1 DEF MaxSlots
<1>9. (s.recoveryUsed => spent) /\ (Send(s, b) => NextSlot(s, b) > s.nextSlot \/ (spent /\ ~s.recoveryUsed))
  BY <1>5, <1>6, Zenon
<1> HIDE DEF spent
<1>q. QED BY <1>3, <1>4, <1>7, <1>8, <1>9, Zenon

\* One batch for a queue that is active and inside its window: the window and
\* the phase stay, and what is sent has been paid for.
LEMMA AdvanceFacts ==
  ASSUME NEW qu \in QueueType, NEW b \in RetryBatch, b.signal = "continue",
         qu.status = "active", qu.rs.phase = "active", b.now < qu.rs.deadline, qu.len <= MaxLedger
  PROVE  /\ AdvanceQueue(qu, b) \in QueueType
         /\ AdvanceQueue(qu, b).rs.start = qu.rs.start
         /\ AdvanceQueue(qu, b).rs.deadline = qu.rs.deadline
         /\ AdvanceQueue(qu, b).rs.phase = "active"
         /\ AdvanceQueue(qu, b).status \in {"active", "schedule_limit"}
         /\ AdvanceQueue(qu, b).status = "schedule_limit" => AdvanceQueue(qu, b).len = MaxLedger
         /\ AdvanceQueue(qu, b).len <= MaxLedger
         /\ Used(AdvanceQueue(qu, b)) >= Used(qu)
         /\ qu.len # MaxLedger /\ Send(qu.rs, b) => Used(AdvanceQueue(qu, b)) >= Used(qu) + 1
<1> DEFINE r == AdvanceQueue(qu, b)
           s == qu.rs
           adv == [Advance(s, b) EXCEPT !.last = NoBatch]
<1>0. s \in RetryState /\ qu.len \in Nat /\ MaxLedger \in Nat /\ qu \in QueueType  BY RelayAssumption DEF QueueType
<1>1. CASE qu.len = MaxLedger
  <2>1. r = [qu EXCEPT !.status = "schedule_limit"]  BY <1>1 DEF AdvanceQueue
  <2>2. r \in QueueType /\ r.rs = s /\ r.status = "schedule_limit" /\ r.len = MaxLedger
    BY <1>0, <1>1, <2>1 DEF QueueType, QueueStatuses
  <2>3. Used(qu) \in Nat /\ Used(r) = Used(qu)  BY <1>0, <2>2 DEF Used, RetryState, MaxSlots
  <2>q. QED BY <1>0, <1>1, <2>2, <2>3
<1>2. CASE qu.len # MaxLedger
  <2>1. PICK k \in 0..MaxSlots, l \in LinkStates, u \in BOOLEAN :
          /\ k >= s.nextSlot /\ (s.recoveryUsed => u)
          /\ Send(s, b) => k > s.nextSlot \/ (u /\ ~s.recoveryUsed)
          /\ adv = [s EXCEPT !.phase = "active", !.link = l, !.nextSlot = k, !.recoveryUsed = u, !.last = NoBatch]
    BY <1>0, AdvanceValue
  <2>2. r = [qu EXCEPT !.rs = adv, !.len = qu.len + 1]  BY <1>2 DEF AdvanceQueue
  <2> HIDE DEF adv, r
  <2>3. /\ adv \in RetryState /\ adv.start = s.start /\ adv.deadline = s.deadline /\ adv.phase = "active"
        /\ adv.nextSlot = k /\ adv.recoveryUsed = u
    BY <1>0, <2>1 DEF RetryState, Phases
  <2>4. r \in QueueType /\ r.rs = adv /\ r.status = "active" /\ r.len = qu.len + 1
    <3>1. PICK a \in RetryState, z \in Nat : a = adv /\ z = qu.len + 1  BY <1>0, <2>3
    <3>2. r = [qu EXCEPT !.rs = a, !.len = z]  BY <2>2, <3>1
    <3>3. r \in QueueType /\ r.rs = a /\ r.status = "active" /\ r.len = z  BY <1>0, <3>2 DEF QueueType
    <3>q. QED BY <3>1, <3>3
  <2>5. k \in Nat /\ s.nextSlot \in Nat  BY <1>0 DEF RetryState, MaxSlots
  <2>6. Used(r) = k + (IF u THEN 1 ELSE 0) /\ Used(qu) = s.nextSlot + (IF s.recoveryUsed THEN 1 ELSE 0)
    BY <2>3, <2>4 DEF Used
  <2>7. Used(r) >= Used(qu) /\ (Send(s, b) => Used(r) >= Used(qu) + 1)  BY <2>1, <2>5, <2>6
  <2>q. QED BY <1>0, <1>2, <2>3, <2>4, <2>7 DEF r
<1>q. QED BY <1>1, <1>2

-----------------------------------------------------------------------------
(* One message at one node *)

\* What validate does not ask for: a relay in custody keeps a data queue that
\* was never stopped and the room for the delivery fact, and nothing expires
\* early.
Tracked(n, e, t) ==
  /\ n = "B" /\ e.st = "custody_held" =>
       e.q["delivery"] = Reserved /\ e.q["data"].status \in {"active", "schedule_limit"}
  /\ e.st = "expired" => t >= Due(e.core)

\* An entry of node n's state at time t.
Good(n, e, t) ==
  /\ e \in EntryType
  /\ e.st = "absent" => e = Absent
  /\ e.st # "absent" => ValidEntry(n, e, t) /\ Tracked(n, e, t)

\* No queue is active past the deadline.
Live(e, t) == \A i \in Kinds : e.q[i].status = "active" => t < Due(e.core)

LEMMA BlankTypes ==
  /\ Blank \in RetryState /\ NoQueue \in QueueType /\ Reserved \in QueueType
  /\ Used(NoQueue) = 0 /\ Used(Reserved) = 0
<1>1. Blank \in RetryState /\ Blank.nextSlot = 0 /\ Blank.recoveryUsed = FALSE
  BY DEF Blank, NewRetryState, RetryState, MaxSlots, LinkStates, Phases
<1>q. QED BY <1>1 DEF NoQueue, Reserved, QueueType, QueueStatuses, Used

LEMMA NewQueueFacts ==
  ASSUME NEW core \in CoreType, NEW t \in Nat
  PROVE  /\ NewQueue(core, t) \in QueueType /\ NewQueue(core, t).status = "active"
         /\ NewQueue(core, t).len = 0 /\ NewQueue(core, t).rs.start = t
         /\ NewQueue(core, t).rs.deadline = Due(core) /\ NewQueue(core, t).rs.phase = "active"
         /\ Used(NewQueue(core, t)) = 0
<1>1. Due(core) \in Nat  BY RelayAssumption DEF Due, CoreType
<1>2. PICK d \in Nat : d = Due(core)  BY <1>1
<1>3. NewRetryState(t, d, "up") \in RetryState  BY DEF NewRetryState, RetryState, MaxSlots, LinkStates, Phases
<1>4. PICK rs \in RetryState : rs = NewRetryState(t, d, "up")  BY <1>3
<1>5. /\ rs.nextSlot = 0 /\ rs.recoveryUsed = FALSE /\ rs.start = t /\ rs.deadline = d /\ rs.phase = "active"
  BY <1>4 DEF NewRetryState
<1>6. NewQueue(core, t) = [status |-> "active", rs |-> rs, len |-> 0]  BY <1>2, <1>4 DEF NewQueue
<1>q. QED BY <1>2, <1>5, <1>6 DEF QueueType, QueueStatuses, Used

LEMMA AbsentFacts ==
  /\ Absent \in EntryType /\ Absent.st = "absent" /\ Absent.core = NoCore
  /\ Absent.custodySeen = FALSE /\ Absent.transport = FALSE /\ Absent.history = FALSE
  /\ Absent.body = FALSE /\ Absent.tomb = FALSE
  /\ \A i \in Kinds : Absent.q[i] = NoQueue
  /\ \A n, t : Good(n, Absent, t)
<1>1. PICK qq \in [Kinds -> QueueType] : qq = [i \in Kinds |-> NoQueue]  BY BlankTypes
<1>2. NoCore \in CoreType  BY DEF NoCore, CoreType
<1>3. Absent = [st |-> "absent", core |-> NoCore, custodySeen |-> FALSE, transport |-> FALSE,
                history |-> FALSE, body |-> FALSE, tomb |-> FALSE, q |-> qq]
  BY <1>1 DEF Absent
<1>4. Absent \in EntryType /\ Absent.st = "absent"  BY <1>2, <1>3 DEF EntryType, Stages
<1>q. QED BY <1>1, <1>3, <1>4 DEF Good

\* expire, at the deadline.
LEMMA ExpireFields ==
  ASSUME NEW e \in EntryType, NEW t \in Nat, e.st # "absent", ~(t < Due(e.core))
  PROVE  /\ ExpireEntry(e, t) \in EntryType
         /\ ExpireEntry(e, t).core = e.core /\ ExpireEntry(e, t).custodySeen = e.custodySeen
         /\ ExpireEntry(e, t).transport = FALSE /\ ExpireEntry(e, t).tomb = TRUE
         /\ ExpireEntry(e, t).history = e.history /\ ExpireEntry(e, t).body = e.history
         /\ ExpireEntry(e, t).st = IF e.st \in {"committed", "destination_delivered"} THEN e.st ELSE "expired"
         /\ \A i \in Kinds : e.q[i].status \in {"none", "reserved"} => ExpireEntry(e, t).q[i] = e.q[i]
         /\ \A i \in Kinds : e.q[i].status \notin {"none", "reserved"} =>
              /\ ExpireEntry(e, t).q[i].status = "expired" /\ ExpireEntry(e, t).q[i].rs = e.q[i].rs
              /\ ExpireEntry(e, t).q[i].len = e.q[i].len
<1>1. e.q \in [Kinds -> QueueType] /\ e.st \in Stages /\ e.history \in BOOLEAN  BY DEF EntryType
<1> DEFINE qn == [i \in Kinds |-> IF e.q[i].status \in {"none", "reserved"} THEN e.q[i]
                                  ELSE [e.q[i] EXCEPT !.status = "expired"]]
<1>2. \A i \in Kinds : [e.q[i] EXCEPT !.status = "expired"] \in QueueType
  BY <1>1 DEF QueueType, QueueStatuses
<1>3. PICK qq \in [Kinds -> QueueType] : qq = qn  BY <1>1, <1>2
<1>4. PICK st \in Stages : st = IF e.st \in {"committed", "destination_delivered"} THEN e.st ELSE "expired"
  BY <1>1 DEF Stages
<1>5. PICK h \in BOOLEAN : h = e.history  BY <1>1
<1>6. ExpireEntry(e, t) = [e EXCEPT !.transport = FALSE, !.tomb = TRUE, !.st = st, !.body = h, !.q = qq]
  BY <1>3, <1>4, <1>5 DEF ExpireEntry
<1>7. PICK x : x = ExpireEntry(e, t)  OBVIOUS
<1>8. /\ x \in EntryType /\ x.core = e.core /\ x.custodySeen = e.custodySeen
      /\ x.transport = FALSE /\ x.tomb = TRUE /\ x.history = e.history /\ x.body = h /\ x.st = st /\ x.q = qq
  BY <1>6, <1>7 DEF EntryType
<1>9. \A i \in Kinds : e.q[i].status \in {"none", "reserved"} => qq[i] = e.q[i]  BY <1>3
<1>10. \A i \in Kinds : e.q[i].status \notin {"none", "reserved"} =>
         qq[i].status = "expired" /\ qq[i].rs = e.q[i].rs /\ qq[i].len = e.q[i].len
  BY <1>1, <1>3 DEF QueueType
<1>q. QED BY <1>4, <1>5, <1>7, <1>8, <1>9, <1>10

\* A valid entry stays one as time passes.
LEMMA GoodLater ==
  ASSUME NEW n \in Nodes, NEW e, NEW u \in Nat, NEW t \in Nat, u <= t, Good(n, e, u)
  PROVE  Good(n, e, t)
<1>0. e \in EntryType /\ Due(e.core) \in Nat /\ e.core.orig \in Nat
  BY RelayAssumption DEF Good, EntryType, CoreType, Due
<1>1. CASE e.st = "absent"  BY <1>1, AbsentFacts DEF Good
<1>2. CASE e.st # "absent"
  <2>1. ValidEntry(n, e, u) /\ Tracked(n, e, u)  BY <1>2 DEF Good
  <2>2. Tracked(n, e, t)  BY <1>0, <2>1 DEF Tracked
  <2>3. ASSUME NEW i \in KindsOf(n)  PROVE ValidQueue(n, e, i, t)
    <3>1. i \in Kinds /\ ValidQueue(n, e, i, u)  BY <2>1 DEF ValidEntry, KindsOf, Kinds, Nodes
    <3>2. e.q[i].rs.start \in Nat  BY <1>0, <3>1 DEF EntryType, QueueType, RetryState
    <3>q. QED BY <1>0, <3>1, <3>2 DEF ValidQueue
  <2>4. ValidEntry(n, e, t)  BY <1>0, <2>1, <2>3 DEF ValidEntry
  <2>q. QED BY <1>0, <1>2, <2>2, <2>4 DEF Good
<1>q. QED BY <1>1, <1>2

LEMMA ExpireGood ==
  ASSUME NEW n \in Nodes, NEW e, NEW u \in Nat, NEW t \in Nat, u <= t, Good(n, e, u)
  PROVE  /\ Good(n, ExpireEntry(e, t), t) /\ Live(ExpireEntry(e, t), t)
         /\ ExpireEntry(e, t).core = e.core
         /\ ExpireEntry(e, t).st = "absent" <=> e.st = "absent"
         /\ ExpireEntry(e, t).custodySeen = e.custodySeen
         /\ \A i \in Kinds : Used(ExpireEntry(e, t).q[i]) = Used(e.q[i])
<1>0. e \in EntryType /\ Due(e.core) \in Nat /\ e.core.orig \in Nat
  BY RelayAssumption DEF Good, EntryType, CoreType, Due
<1>1. CASE e.st = "absent"
  <2>1. e = Absent /\ ExpireEntry(e, t) = Absent  BY <1>1 DEF Good, ExpireEntry
  <2>2. Live(Absent, t)  BY AbsentFacts DEF Live, NoQueue
  <2>q. QED BY <2>1, <2>2, AbsentFacts
<1>2. CASE e.st # "absent" /\ t < Due(e.core)
  <2>1. ExpireEntry(e, t) = e  BY <1>2 DEF ExpireEntry
  <2>2. Good(n, e, t)  BY GoodLater
  <2>q. QED BY <1>2, <2>1, <2>2 DEF Live
<1>3. CASE e.st # "absent" /\ ~(t < Due(e.core))
  <2> DEFINE x == ExpireEntry(e, t)
  <2>a. x \in EntryType /\ x.core = e.core /\ x.custodySeen = e.custodySeen  BY <1>0, <1>3, ExpireFields
  <2>b. x.transport = FALSE /\ x.tomb = TRUE /\ x.history = e.history /\ x.body = e.history  BY <1>0, <1>3, ExpireFields
  <2>c. x.st = IF e.st \in {"committed", "destination_delivered"} THEN e.st ELSE "expired"  BY <1>0, <1>3, ExpireFields
  <2>d. \A i \in Kinds : e.q[i].status \in {"none", "reserved"} => x.q[i] = e.q[i]  BY <1>0, <1>3, ExpireFields
  <2>e. \A i \in Kinds : e.q[i].status \notin {"none", "reserved"} =>
          x.q[i].status = "expired" /\ x.q[i].rs = e.q[i].rs /\ x.q[i].len = e.q[i].len
    BY <1>0, <1>3, ExpireFields
  <2> HIDE DEF x
  <2>3. ValidEntry(n, e, u) /\ Tracked(n, e, u)  BY <1>3 DEF Good
  <2>4. x.st # "absent" /\ x.st \in Terminal /\ Tracked(n, x, t)  BY <1>0, <1>3, <2>a, <2>b, <2>c, <2>d, <2>e DEF Tracked, Terminal
  <2>5. Live(x, t)  BY <2>a, <2>b, <2>c, <2>d, <2>e DEF Live
  <2>6. \A i \in Kinds : Used(x.q[i]) = Used(e.q[i])  BY <2>a, <2>b, <2>c, <2>d, <2>e DEF Used
  <2>7. KindsOf(n) \subseteq Kinds  BY DEF KindsOf, Kinds, Nodes
  <2>8. ASSUME NEW i \in KindsOf(n)  PROVE ValidQueue(n, x, i, t)
    <3>0. i \in Kinds /\ ValidQueue(n, e, i, u) /\ e.q[i].status # "none"  BY <2>3, <2>7 DEF ValidEntry
    <3>1. CASE e.q[i].status = "reserved"
      BY <1>3, <2>a, <2>b, <2>c, <2>d, <2>e, <3>0, <3>1 DEF ValidQueue
    <3>2. CASE e.q[i].status # "reserved"
      <4>1. e.q[i].rs.start \in Nat /\ x.q[i].status = "expired" /\ x.q[i].rs = e.q[i].rs /\ x.q[i].len = e.q[i].len
        BY <1>0, <2>a, <2>b, <2>c, <2>d, <2>e, <3>0, <3>2 DEF EntryType, QueueType, RetryState
      <4>q. QED BY <1>0, <2>a, <2>b, <2>c, <2>d, <2>e, <2>4, <3>0, <3>2, <4>1 DEF ValidQueue, Terminal
    <3>q. QED BY <3>1, <3>2
  <2>9. \A i \in Kinds : i \in KindsOf(n) <=> x.q[i].status # "none"  BY <2>a, <2>b, <2>c, <2>d, <2>e, <2>3 DEF ValidEntry
  <2>10. /\ x.core.orig <= t /\ ((x.history \/ x.transport) <=> x.body)
         /\ n = "A" => x.history /\ x.st \in {"queued", "destination_delivered", "expired"}
         /\ n = "B" => ~x.history /\ ~x.custodySeen /\ x.st \in {"custody_held", "destination_delivered", "expired"}
         /\ n = "C" => x.history /\ ~x.custodySeen /\ x.st = "committed"
    BY <1>0, <2>a, <2>b, <2>c, <2>d, <2>e, <2>3 DEF ValidEntry
  <2>11. ValidEntry(n, x, t)  BY <2>a, <2>b, <2>c, <2>d, <2>e, <2>4, <2>8, <2>9, <2>10 DEF ValidEntry
  <2>12. Good(n, x, t)  BY <2>a, <2>b, <2>c, <2>d, <2>e, <2>4, <2>11 DEF Good
  <2>q. QED BY <1>3, <2>a, <2>b, <2>c, <2>d, <2>e, <2>4, <2>5, <2>6, <2>12 DEF x
<1>q. QED BY <1>1, <1>2, <1>3

-----------------------------------------------------------------------------
(* receive *)

\* How one batch at time t may turn entry e of node n into x.
Moved(n, e, x, in, t) ==
  /\ Good(n, x, t) /\ Live(x, t)
  /\ e.st # "absent" => x.st # "absent" /\ x.core = e.core
  /\ e.st = "absent" /\ x.st # "absent" => \E f \in in : f.kind = "data" /\ x.core = f.core /\ t < Due(f.core)
  /\ e.st # "destination_delivered" /\ x.st = "destination_delivered" =>
       (\E f \in in : f.kind = "delivery") /\ t < Due(e.core)
  /\ x.custodySeen => e.custodySeen \/ \E f \in in : f.kind = "custody"
  /\ e.st \in Terminal => x.st = e.st
  /\ x.st = "expired" => e.st = "expired"
  /\ \A i \in Kinds : Used(x.q[i]) >= Used(e.q[i])

LEMMA UsedIsNat ==
  ASSUME NEW qu \in QueueType
  PROVE  Used(qu) \in Nat
<1>1. qu.rs.nextSlot \in Nat  BY DEF QueueType, RetryState, MaxSlots
<1>q. QED BY <1>1 DEF Used

LEMMA NotMoved ==
  ASSUME NEW n, NEW e, NEW in, NEW t, Good(n, e, t), Live(e, t)
  PROVE  Moved(n, e, e, in, t)
<1>1. \A i \in Kinds : e.q[i] \in QueueType  BY DEF Good, EntryType
<1>2. \A i \in Kinds : Used(e.q[i]) >= Used(e.q[i])  BY <1>1, UsedIsNat
<1>q. QED BY <1>2 DEF Moved

\* A delivery fact at the origin: the message is settled.
LEMMA OriginDelivery ==
  ASSUME NEW e, NEW in, NEW t \in Nat, Good("A", e, t), Live(e, t),
         e.st # "absent", t < Due(e.core), \E f \in in : f.kind = "delivery"
  PROVE  Moved("A", e, ApplyDelivery("A", e, t), in, t) /\ ApplyDelivery("A", e, t).st # "queued"
<1>0. e \in EntryType /\ ValidEntry("A", e, t) /\ Tracked("A", e, t) /\ Due(e.core) \in Nat
  BY RelayAssumption DEF Good, EntryType, CoreType, Due
<1>1. CASE e.st = "destination_delivered"  BY <1>1, NotMoved DEF ApplyDelivery
<1>2. CASE e.st # "destination_delivered"
  <2> DEFINE x == ApplyDelivery("A", e, t)
             qn == [e.q EXCEPT !["data"].status = "stopped"]
  <2>1. e.st = "queued" /\ "data" \in Kinds  BY <1>0, <1>2 DEF ValidEntry, Tracked, Kinds
  <2>2. /\ qn \in [Kinds -> QueueType] /\ \A i \in Kinds : i # "data" => qn[i] = e.q[i]
        /\ qn["data"].status = "stopped" /\ qn["data"].rs = e.q["data"].rs /\ qn["data"].len = e.q["data"].len
    BY <1>0, <2>1 DEF EntryType, QueueType, QueueStatuses
  <2>3. PICK qq \in [Kinds -> QueueType], b \in BOOLEAN : qq = qn /\ b = e.body  BY <1>0, <2>2 DEF EntryType
  <2>4. x = [e EXCEPT !.st = "destination_delivered", !.transport = FALSE, !.tomb = TRUE, !.body = b, !.q = qq]
    BY <1>2, <2>3 DEF ApplyDelivery
  <2> HIDE DEF x
  <2>5. /\ x \in EntryType /\ x.st = "destination_delivered" /\ x.core = e.core /\ x.q = qq
        /\ x.custodySeen = e.custodySeen
    BY <1>0, <2>4 DEF EntryType, Stages
  <2>6. /\ x.transport = FALSE /\ x.tomb = TRUE /\ x.body = b /\ x.history = e.history
    BY <1>0, <2>4 DEF EntryType
  <2>7. \A i \in Kinds : Used(qq[i]) = Used(e.q[i]) /\ Used(qq[i]) \in Nat  BY <2>2, <2>3, UsedIsNat DEF Used
  <2>8. ValidQueue("A", x, "data", t)
    <3>1. ValidQueue("A", e, "data", t) /\ e.q["data"].status # "reserved"  BY <1>0, <2>1 DEF ValidEntry, KindsOf, ValidQueue
    <3>2. /\ x.q["data"].status = "stopped" /\ x.q["data"].rs = e.q["data"].rs /\ x.q["data"].len = e.q["data"].len
      BY <2>2, <2>3, <2>5
    <3>q. QED BY <2>5, <3>1, <3>2 DEF ValidQueue
  <2>9. \A i \in Kinds : i \in KindsOf("A") <=> x.q[i].status # "none"
    BY <1>0, <2>1, <2>2, <2>3, <2>5 DEF ValidEntry, KindsOf
  <2>10. x.core.orig <= t /\ x.history /\ x.body /\ x.tomb /\ ~x.transport
    BY <1>0, <2>1, <2>3, <2>5, <2>6 DEF ValidEntry
  <2>11. ValidEntry("A", x, t)  BY <2>5, <2>8, <2>9, <2>10 DEF ValidEntry, KindsOf, Terminal
  <2>12. Good("A", x, t)  BY <2>5, <2>11 DEF Good, Tracked
  <2>13. Live(x, t)  BY <2>5 DEF Live
  <2>14. \A i \in Kinds : Used(x.q[i]) >= Used(e.q[i])  BY <2>5, <2>7
  <2>15. x.custodySeen => e.custodySeen  BY <2>5
  <2>q. QED BY <2>1, <2>5, <2>12, <2>13, <2>14, <2>15 DEF Moved, Terminal, x
<1>q. QED BY <1>1, <1>2

\* A custody fact at the origin: its own sending pauses.
LEMMA OriginCustody ==
  ASSUME NEW e, NEW in, NEW t \in Nat, Good("A", e, t), Live(e, t), \E f \in in : f.kind = "custody"
  PROVE  Moved("A", e, ApplyCustody(e), in, t)
<1>1. CASE e.st # "queued"  BY <1>1, NotMoved DEF ApplyCustody
<1>2. CASE e.st = "queued"
  <2>0. e \in EntryType /\ ValidEntry("A", e, t) /\ Tracked("A", e, t) /\ "data" \in Kinds
    BY <1>2 DEF Good, Kinds
  <2> DEFINE x == ApplyCustody(e)
             qn == [e.q EXCEPT !["data"].status = "paused"]
  <2>2. /\ qn \in [Kinds -> QueueType] /\ \A i \in Kinds : i # "data" => qn[i] = e.q[i]
        /\ qn["data"].status = "paused" /\ qn["data"].rs = e.q["data"].rs /\ qn["data"].len = e.q["data"].len
    BY <2>0 DEF EntryType, QueueType, QueueStatuses
  <2>3. PICK qq \in [Kinds -> QueueType] : qq = qn  BY <2>2
  <2>4. x = [e EXCEPT !.custodySeen = TRUE, !.q = qq]  BY <1>2, <2>0, <2>3 DEF ApplyCustody, EntryType
  <2> HIDE DEF x
  <2>5. x \in EntryType /\ x.st = "queued" /\ x.core = e.core /\ x.q = qq /\ x.custodySeen = TRUE
    BY <1>2, <2>0, <2>4 DEF EntryType
  <2>6. x.transport = e.transport /\ x.tomb = e.tomb /\ x.body = e.body /\ x.history = e.history
    BY <2>0, <2>4 DEF EntryType
  <2>7. \A i \in Kinds : Used(qq[i]) = Used(e.q[i]) /\ Used(qq[i]) \in Nat  BY <2>2, <2>3, UsedIsNat DEF Used
  <2>8. ValidQueue("A", x, "data", t)
    <3>1. ValidQueue("A", e, "data", t) /\ e.q["data"].status # "reserved"  BY <2>0 DEF ValidEntry, KindsOf, ValidQueue
    <3>2. /\ x.q["data"].status = "paused" /\ x.q["data"].rs = e.q["data"].rs /\ x.q["data"].len = e.q["data"].len
      BY <2>2, <2>3, <2>5
    <3>q. QED BY <2>5, <3>1, <3>2 DEF ValidQueue
  <2>9. \A i \in Kinds : i \in KindsOf("A") <=> x.q[i].status # "none"
    BY <2>0, <2>2, <2>3, <2>5 DEF ValidEntry, KindsOf
  <2>10. x.core.orig <= t /\ x.history /\ x.body /\ ~x.tomb /\ x.transport
    BY <1>2, <2>0, <2>5, <2>6 DEF ValidEntry, Terminal
  <2>11. ValidEntry("A", x, t)  BY <2>5, <2>8, <2>9, <2>10 DEF ValidEntry, KindsOf, Terminal
  <2>12. Good("A", x, t)  BY <2>5, <2>11 DEF Good, Tracked
  <2>13. Live(x, t)  BY <2>2, <2>3, <2>5, <2>9 DEF Live, KindsOf
  <2>14. \A i \in Kinds : Used(x.q[i]) >= Used(e.q[i])  BY <2>5, <2>7
  <2>q. QED BY <1>2, <2>5, <2>12, <2>13, <2>14 DEF Moved, Terminal, x
<1>q. QED BY <1>1, <1>2

\* A delivery fact at the relay: custody ends and the fact is queued in the
\* room reserved for it.
LEMMA RelayDelivery ==
  ASSUME NEW e, NEW in, NEW t \in Nat, Good("B", e, t), Live(e, t),
         e.st # "absent", t < Due(e.core), \E f \in in : f.kind = "delivery"
  PROVE  Moved("B", e, ApplyDelivery("B", e, t), in, t)
<1>0. e \in EntryType /\ ValidEntry("B", e, t) /\ Tracked("B", e, t) /\ Due(e.core) \in Nat /\ e.core \in CoreType
  BY RelayAssumption DEF Good, EntryType, CoreType, Due
<1>1. CASE e.st = "destination_delivered"  BY <1>1, NotMoved DEF ApplyDelivery
<1>2. CASE e.st # "destination_delivered"
  <2> DEFINE x == ApplyDelivery("B", e, t)
             new == NewQueue(e.core, t)
             qn == [e.q EXCEPT !["data"].status = "stopped", !["custody"].status = "stopped", !["delivery"] = new]
  <2>1. e.st = "custody_held" /\ e.q["delivery"] = Reserved  BY <1>0, <1>2 DEF ValidEntry, Tracked
  <2>a. /\ new \in QueueType /\ new.status = "active" /\ new.len = 0 /\ new.rs.start = t
        /\ new.rs.deadline = Due(e.core) /\ new.rs.phase = "active" /\ Used(new) = 0
    BY <1>0, NewQueueFacts
  <2> HIDE DEF new
  <2>2. /\ qn \in [Kinds -> QueueType] /\ qn["delivery"] = new
        /\ qn["data"].status = "stopped" /\ qn["data"].rs = e.q["data"].rs /\ qn["data"].len = e.q["data"].len
        /\ qn["custody"].status = "stopped" /\ qn["custody"].rs = e.q["custody"].rs /\ qn["custody"].len = e.q["custody"].len
    BY <1>0, <2>a DEF EntryType, QueueType, QueueStatuses, Kinds
  <2>3. PICK qq \in [Kinds -> QueueType] : qq = qn  BY <2>2
  <2>4. x = [e EXCEPT !.st = "destination_delivered", !.transport = FALSE, !.tomb = TRUE, !.body = FALSE, !.q = qq]
    BY <1>2, <2>3 DEF ApplyDelivery, new
  <2> HIDE DEF x
  <2>5. /\ x \in EntryType /\ x.st = "destination_delivered" /\ x.core = e.core /\ x.q = qq
        /\ x.custodySeen = e.custodySeen
    BY <1>0, <2>4 DEF EntryType, Stages
  <2>6. x.transport = FALSE /\ x.tomb = TRUE /\ x.body = FALSE /\ x.history = e.history
    BY <1>0, <2>4 DEF EntryType
  <2>7. \A i \in Kinds : Used(qq[i]) >= Used(e.q[i])
    <3>1. ASSUME NEW i \in Kinds  PROVE Used(qq[i]) = Used(e.q[i]) /\ Used(qq[i]) \in Nat
      <4>1. CASE i = "delivery"  BY <2>1, <2>2, <2>3, <2>a, <4>1, BlankTypes
      <4>2. CASE i # "delivery"  BY <2>2, <2>3, <4>2, UsedIsNat DEF Used, Kinds
      <4>q. QED BY <4>1, <4>2
    <3>q. QED BY <3>1
  <2>8. ASSUME NEW i \in Kinds  PROVE ValidQueue("B", x, i, t)
    <3>0. i \in KindsOf("B") /\ ValidQueue("B", e, i, t)  BY <1>0 DEF ValidEntry, KindsOf
    <3>1. CASE i = "delivery"
      <4>1. x.q[i] = new  BY <2>2, <2>3, <2>5, <3>1
      <4>2. x.core.orig <= t /\ t <= t /\ 0 <= MaxLedger /\ t \in Nat  BY <1>0, <2>5, RelayAssumption DEF ValidEntry
      <4>q. QED BY <2>5, <2>a, <3>1, <4>1, <4>2 DEF ValidQueue
    <3>2. CASE i # "delivery"
      <4>1. e.q[i].status # "reserved"  BY <3>0, <3>2 DEF ValidQueue
      <4>2. x.q[i].status = "stopped" /\ x.q[i].rs = e.q[i].rs /\ x.q[i].len = e.q[i].len
        BY <2>2, <2>3, <2>5, <3>2 DEF Kinds
      <4>q. QED BY <2>5, <3>0, <4>1, <4>2 DEF ValidQueue
    <3>q. QED BY <3>1, <3>2
  <2>9. \A i \in Kinds : i \in KindsOf("B") <=> x.q[i].status # "none"
    BY <2>2, <2>3, <2>5, <2>a DEF KindsOf, Kinds
  <2>10. x.core.orig <= t /\ ~x.history /\ ~x.body /\ x.tomb /\ ~x.transport /\ ~x.custodySeen
    BY <1>0, <2>5, <2>6 DEF ValidEntry
  <2>11. ValidEntry("B", x, t)  BY <2>5, <2>8, <2>9, <2>10 DEF ValidEntry, KindsOf, Terminal
  <2>12. Good("B", x, t)  BY <2>5, <2>11 DEF Good, Tracked
  <2>13. Live(x, t)  BY <2>5 DEF Live
  <2>q. QED BY <2>1, <2>5, <2>7, <2>10, <2>12, <2>13 DEF Moved, Terminal, x
<1>q. QED BY <1>1, <1>2

\* A data frame for a new key: the relay takes custody.
LEMMA RelayData ==
  ASSUME NEW core \in CoreType, NEW in, NEW t \in Nat, core.orig <= t, t < Due(core),
         \E f \in in : f.kind = "data" /\ f.core = core
  PROVE  Moved("B", Absent, ApplyData("B", Absent, core, t), in, t)
<1> DEFINE x == ApplyData("B", Absent, core, t)
           new == NewQueue(core, t)
<1>1. /\ new \in QueueType /\ new.status = "active" /\ new.len = 0 /\ new.rs.start = t
      /\ new.rs.deadline = Due(core) /\ new.rs.phase = "active" /\ Used(new) = 0
  BY NewQueueFacts
<1> HIDE DEF new
<1>2. PICK qq \in [Kinds -> QueueType] : qq = [i \in Kinds |-> IF i = "delivery" THEN Reserved ELSE new]
  BY <1>1, BlankTypes
<1>3. x = [Absent EXCEPT !.st = "custody_held", !.core = core, !.transport = TRUE, !.body = TRUE, !.q = qq]
  BY <1>2, AbsentFacts DEF ApplyData, new
<1>4. /\ qq["data"] = new /\ qq["custody"] = new /\ qq["delivery"] = Reserved
  BY <1>2 DEF Kinds
<1> HIDE DEF x
<1>5. x \in EntryType /\ x.st = "custody_held" /\ x.core = core /\ x.q = qq
  BY <1>3, AbsentFacts DEF EntryType, Stages
<1>6. x.custodySeen = FALSE /\ x.history = FALSE /\ x.transport = TRUE /\ x.body = TRUE /\ x.tomb = FALSE
  BY <1>3, AbsentFacts DEF EntryType
<1>7. ASSUME NEW i \in Kinds  PROVE ValidQueue("B", x, i, t)
  <2>1. CASE i = "delivery"
    <3>1. x.q[i] = Reserved /\ Reserved.status = "reserved"  BY <1>4, <1>5, <2>1 DEF Reserved
    <3>q. QED BY <1>5, <2>1, <3>1 DEF ValidQueue
  <2>2. CASE i # "delivery"
    <3>1. x.q[i] = new  BY <1>4, <1>5, <2>2 DEF Kinds
    <3>2. t <= t /\ 0 <= MaxLedger  BY RelayAssumption
    <3>q. QED BY <1>1, <1>5, <1>6, <2>2, <3>1, <3>2 DEF ValidQueue
  <2>q. QED BY <2>1, <2>2
<1>8. \A i \in Kinds : i \in KindsOf("B") <=> x.q[i].status # "none"
  <2>1. Reserved.status = "reserved"  BY DEF Reserved
  <2>q. QED BY <1>1, <1>4, <1>5, <2>1 DEF KindsOf, Kinds
<1>9. ValidEntry("B", x, t)  BY <1>5, <1>6, <1>7, <1>8 DEF ValidEntry, KindsOf, Terminal
<1>10. Good("B", x, t)  BY <1>1, <1>4, <1>5, <1>9 DEF Good, Tracked
<1>11. Live(x, t)  BY <1>5 DEF Live
<1>12. \A i \in Kinds : Used(x.q[i]) >= Used(Absent.q[i])
  BY <1>1, <1>4, <1>5, AbsentFacts, BlankTypes DEF Kinds
<1>q. QED BY <1>5, <1>6, <1>10, <1>11, <1>12, AbsentFacts DEF Moved, Terminal, x

\* A data frame for a new key: the destination stores it.
LEMMA DestinationData ==
  ASSUME NEW core \in CoreType, NEW in, NEW t \in Nat, core.orig <= t, t < Due(core),
         \E f \in in : f.kind = "data" /\ f.core = core
  PROVE  Moved("C", Absent, ApplyData("C", Absent, core, t), in, t)
<1> DEFINE x == ApplyData("C", Absent, core, t)
           new == NewQueue(core, t)
<1>1. /\ new \in QueueType /\ new.status = "active" /\ new.len = 0 /\ new.rs.start = t
      /\ new.rs.deadline = Due(core) /\ new.rs.phase = "active" /\ Used(new) = 0
  BY NewQueueFacts
<1> HIDE DEF new
<1>2. PICK qq \in [Kinds -> QueueType] : qq = [i \in Kinds |-> IF i = "delivery" THEN new ELSE NoQueue]
  BY <1>1, BlankTypes
<1>3. x = [Absent EXCEPT !.st = "committed", !.core = core, !.history = TRUE, !.body = TRUE, !.tomb = TRUE, !.q = qq]
  BY <1>2, AbsentFacts DEF ApplyData, new
<1>4. /\ qq["data"] = NoQueue /\ qq["custody"] = NoQueue /\ qq["delivery"] = new /\ NoQueue.status = "none"
  BY <1>2 DEF Kinds, NoQueue
<1> HIDE DEF x
<1>5. x \in EntryType /\ x.st = "committed" /\ x.core = core /\ x.q = qq
  BY <1>3, AbsentFacts DEF EntryType, Stages
<1>6. x.custodySeen = FALSE /\ x.history = TRUE /\ x.transport = FALSE /\ x.body = TRUE /\ x.tomb = TRUE
  BY <1>3, AbsentFacts DEF EntryType
<1>7. ValidQueue("C", x, "delivery", t)
  <2>1. x.q["delivery"] = new /\ t <= t /\ 0 <= MaxLedger  BY <1>4, <1>5, RelayAssumption
  <2>q. QED BY <1>1, <1>5, <1>6, <2>1 DEF ValidQueue
<1>8. \A i \in Kinds : i \in KindsOf("C") <=> x.q[i].status # "none"
  BY <1>1, <1>4, <1>5 DEF KindsOf, Kinds
<1>9. ValidEntry("C", x, t)  BY <1>5, <1>6, <1>7, <1>8 DEF ValidEntry, KindsOf, Terminal
<1>10. Good("C", x, t)  BY <1>5, <1>9 DEF Good, Tracked
<1>11. Live(x, t)  BY <1>5 DEF Live
<1>12. \A i \in Kinds : Used(x.q[i]) >= Used(Absent.q[i])
  BY <1>1, <1>4, <1>5, AbsentFacts, BlankTypes DEF Kinds
<1>q. QED BY <1>5, <1>6, <1>10, <1>11, <1>12, AbsentFacts DEF Moved, Terminal, x

\* The inputs of a batch for one key: routed to n, in time, agreeing with e.
Inputs(n, e, in, t) ==
  \A f \in in :
    /\ n = "A" => f.kind \in {"custody", "delivery"}
    /\ n = "B" => f.kind \in {"data", "delivery"}
    /\ n = "C" => f.kind = "data"
    /\ e.st = "absent" => f.kind = "data"
    /\ e.st # "absent" => t < Due(e.core)
    /\ f.kind = "data" => t < Due(f.core) /\ f.core \in CoreType /\ f.core.orig <= t

LEMMA ReceiveMoves ==
  ASSUME NEW n \in Nodes, NEW e, NEW in, NEW t \in Nat, Good(n, e, t), Live(e, t), Inputs(n, e, in, t)
  PROVE  Moved(n, e, ReceiveEntry(n, e, in, t), in, t)
<1> DEFINE kinds == {f.kind : f \in in}
           e1 == IF "delivery" \in kinds THEN ApplyDelivery(n, e, t) ELSE e
           e2 == IF "custody" \in kinds THEN ApplyCustody(e1) ELSE e1
           core == (CHOOSE f \in in : f.kind = "data").core
<1>0. ReceiveEntry(n, e, in, t) = IF "data" \in kinds THEN ApplyData(n, e2, core, t) ELSE e2
  BY DEF ReceiveEntry
<1>1. \A i : i \in kinds <=> \E f \in in : f.kind = i  OBVIOUS
<1>2. "data" \in kinds => \E f \in in : f.kind = "data" /\ f.core = core  BY <1>1
<1> HIDE DEF kinds, core
<1>3. CASE e.st = "absent"
  <2>1. e = Absent /\ "delivery" \notin kinds /\ "custody" \notin kinds
    BY <1>1, <1>3 DEF Good, Inputs
  <2>2. e2 = Absent  BY <2>1
  <2>3. CASE "data" \notin kinds  BY <1>0, <2>1, <2>2, <2>3, NotMoved
  <2>4. CASE "data" \in kinds
    <3>1. core \in CoreType /\ core.orig <= t /\ t < Due(core) /\ n # "A"  BY <1>2, <2>4 DEF Inputs
    <3>2. CASE n = "B"  BY <1>0, <1>2, <2>1, <2>2, <2>4, <3>1, <3>2, RelayData
    <3>3. CASE n = "C"  BY <1>0, <1>2, <2>1, <2>2, <2>4, <3>1, <3>3, DestinationData
    <3>q. QED BY <3>1, <3>2, <3>3 DEF Nodes
  <2>q. QED BY <2>3, <2>4
<1>4. CASE e.st # "absent"
  <2>1. Moved(n, e, e1, in, t)
    <3>1. CASE "delivery" \notin kinds  BY <3>1, NotMoved
    <3>2. CASE "delivery" \in kinds
      <4>1. t < Due(e.core) /\ n # "C" /\ \E f \in in : f.kind = "delivery"  BY <1>1, <1>4, <3>2 DEF Inputs
      <4>2. CASE n = "A"  BY <1>4, <3>2, <4>1, <4>2, OriginDelivery
      <4>3. CASE n = "B"  BY <1>4, <3>2, <4>1, <4>3, RelayDelivery
      <4>q. QED BY <4>1, <4>2, <4>3 DEF Nodes
    <3>q. QED BY <3>1, <3>2
  <2>2. Moved(n, e1, e2, in, t)
    <3>0. Good(n, e1, t) /\ Live(e1, t)  BY <2>1 DEF Moved
    <3> HIDE DEF e1
    <3>1. CASE "custody" \notin kinds  BY <3>0, <3>1, NotMoved
    <3>2. CASE "custody" \in kinds
      <4>1. n = "A" /\ \E f \in in : f.kind = "custody"  BY <1>1, <3>2 DEF Inputs, Nodes
      <4>q. QED BY <3>0, <3>2, <4>1, OriginCustody
    <3>q. QED BY <3>1, <3>2
  <2> HIDE DEF e1, e2
  <2>3. \A i \in Kinds : Used(e2.q[i]) >= Used(e.q[i])
    <3>1. ASSUME NEW i \in Kinds  PROVE Used(e2.q[i]) >= Used(e.q[i])
      <4>1. e.q[i] \in QueueType /\ e1.q[i] \in QueueType /\ e2.q[i] \in QueueType
        BY <2>1, <2>2 DEF Moved, Good, EntryType
      <4>2. Used(e.q[i]) \in Nat /\ Used(e1.q[i]) \in Nat /\ Used(e2.q[i]) \in Nat  BY <4>1, UsedIsNat
      <4>3. Used(e2.q[i]) >= Used(e1.q[i]) /\ Used(e1.q[i]) >= Used(e.q[i])  BY <2>1, <2>2 DEF Moved
      <4>q. QED BY <4>2, <4>3
    <3>q. QED BY <3>1
  <2>4. Moved(n, e, e2, in, t)  BY <1>4, <2>1, <2>2, <2>3 DEF Moved
  <2>5. ReceiveEntry(n, e, in, t) = e2  BY <1>0, <1>4, <2>4 DEF ApplyData, Moved
  <2>q. QED BY <2>4, <2>5
<1>q. QED BY <1>3, <1>4

-----------------------------------------------------------------------------
(* The scheduler *)

\* What Scheduled makes of one entry.
Advanced(n, k, e, t, links, adm) ==
  [e EXCEPT !.q = [i \in Kinds |->
     IF e.q[i].status # "active" THEN e.q[i] ELSE AdvanceQueue(e.q[i], BatchFor(n, i, t, links, <<k, i>> \in adm))]]

LEMMA BatchType ==
  ASSUME NEW n \in Nodes, NEW i \in Kinds, NEW t \in Nat, NEW links \in [Neighbors(n) -> Reports], NEW ok
  PROVE  /\ BatchFor(n, i, t, links, ok) \in RetryBatch
         /\ BatchFor(n, i, t, links, ok).now = t /\ BatchFor(n, i, t, links, ok).signal = "continue"
<1>1. Target(n, i) \in Neighbors(n)  BY DEF Target, Neighbors, Nodes
<1>2. links[Target(n, i)] \in LinkEvents  BY <1>1, RelayAssumption
<1>3. PICK l \in LinkEvents : l = links[Target(n, i)]  BY <1>2
<1>4. PICK a \in Admissions : a = IF ok THEN "admit" ELSE "reject_quota"  BY DEF Admissions
<1>5. BatchFor(n, i, t, links, ok) = [now |-> t, link |-> l, signal |-> "continue", admission |-> a]
  BY <1>3, <1>4 DEF BatchFor
<1>q. QED BY <1>5 DEF RetryBatch, Signals

\* The batch leaves everything but the active queues as it is, and pays for
\* what it sends.
LEMMA ScheduleMoves ==
  ASSUME NEW n \in Nodes, NEW e, NEW t \in Nat, NEW links \in [Neighbors(n) -> Reports], NEW k, NEW adm,
         Good(n, e, t), Live(e, t)
  PROVE  /\ Good(n, Advanced(n, k, e, t, links, adm), t)
         /\ Advanced(n, k, e, t, links, adm).st = e.st /\ Advanced(n, k, e, t, links, adm).core = e.core
         /\ Advanced(n, k, e, t, links, adm).custodySeen = e.custodySeen
         /\ \A i \in Kinds :
              /\ Used(Advanced(n, k, e, t, links, adm).q[i]) >= Used(e.q[i])
              /\ (e.q[i].status = "active" /\ e.q[i].len # MaxLedger
                    /\ Send(e.q[i].rs, BatchFor(n, i, t, links, <<k, i>> \in adm)))
                   => Used(Advanced(n, k, e, t, links, adm).q[i]) >= Used(e.q[i]) + 1
<1> DEFINE x == Advanced(n, k, e, t, links, adm)
           b(i) == BatchFor(n, i, t, links, <<k, i>> \in adm)
           qn == [i \in Kinds |-> IF e.q[i].status # "active" THEN e.q[i] ELSE AdvanceQueue(e.q[i], b(i))]
<1>0. e \in EntryType /\ e.q \in [Kinds -> QueueType]  BY DEF Good, EntryType
<1>1. \A i \in Kinds : b(i) \in RetryBatch /\ b(i).now = t /\ b(i).signal = "continue"  BY BatchType
<1>2. KindsOf(n) \subseteq Kinds  BY DEF KindsOf, Kinds, Nodes
<1> HIDE DEF b
<1>3. ASSUME NEW i \in Kinds, e.q[i].status = "active"
      PROVE  /\ e.st # "absent" /\ i \in KindsOf(n) /\ ValidQueue(n, e, i, t)
             /\ qn[i] \in QueueType /\ qn[i].rs.start = e.q[i].rs.start /\ qn[i].rs.deadline = e.q[i].rs.deadline
             /\ qn[i].rs.phase = "active" /\ qn[i].status \in {"active", "schedule_limit"}
             /\ qn[i].status = "schedule_limit" => qn[i].len = MaxLedger
             /\ qn[i].len <= MaxLedger
             /\ Used(qn[i]) >= Used(e.q[i])
             /\ e.q[i].len # MaxLedger /\ Send(e.q[i].rs, b(i)) => Used(qn[i]) >= Used(e.q[i]) + 1
  <2>1. e.st # "absent"  BY <1>3, AbsentFacts DEF Good, NoQueue
  <2>2. i \in KindsOf(n) /\ ValidQueue(n, e, i, t)  BY <1>3, <2>1 DEF Good, ValidEntry
  <2>3. /\ e.q[i] \in QueueType /\ e.q[i].rs.phase = "active" /\ e.q[i].rs.deadline = Due(e.core) /\ e.q[i].len <= MaxLedger
    BY <1>0, <1>3, <2>2 DEF ValidQueue
  <2>4. t < Due(e.core)  BY <1>3 DEF Live
  <2>5. qn[i] = AdvanceQueue(e.q[i], b(i))  BY <1>3
  <2> HIDE DEF qn
  <2>q. QED BY <1>1, <1>3, <2>1, <2>2, <2>3, <2>4, <2>5, AdvanceFacts
<1>4. ASSUME NEW i \in Kinds, e.q[i].status # "active"  PROVE qn[i] = e.q[i]  BY <1>4
<1>5. qn \in [Kinds -> QueueType]
  <2>1. \A i \in Kinds : qn[i] \in QueueType  BY <1>0, <1>3, <1>4
  <2>q. QED BY <2>1
<1>6. PICK qq \in [Kinds -> QueueType] : qq = qn  BY <1>5
<1>7. x = [e EXCEPT !.q = qq]  BY <1>6 DEF Advanced, b
<1> HIDE DEF x, qn
<1>8. x \in EntryType /\ x.st = e.st /\ x.core = e.core /\ x.custodySeen = e.custodySeen /\ x.q = qq
  BY <1>0, <1>7 DEF EntryType
<1>9. x.transport = e.transport /\ x.history = e.history /\ x.body = e.body /\ x.tomb = e.tomb
  BY <1>0, <1>7 DEF EntryType
<1>10. \A i \in Kinds : /\ Used(x.q[i]) >= Used(e.q[i])
                        /\ (e.q[i].status = "active" /\ e.q[i].len # MaxLedger /\ Send(e.q[i].rs, b(i)))
                             => Used(x.q[i]) >= Used(e.q[i]) + 1
  <2>1. \A i \in Kinds : Used(e.q[i]) \in Nat  BY <1>0, UsedIsNat
  <2>q. QED BY <1>3, <1>4, <1>6, <1>8, <2>1
<1>11. CASE e.st = "absent"
  <2>1. \A i \in Kinds : qq[i] = e.q[i]  BY <1>3, <1>4, <1>6, <1>11
  <2>2. qq = e.q  BY <1>0, <2>1
  <2>3. x = e  BY <1>0, <1>7, <2>2 DEF EntryType
  <2>q. QED BY <1>8, <1>10, <2>3 DEF x, b
<1>12. CASE e.st # "absent"
  <2>0. ValidEntry(n, e, t) /\ Tracked(n, e, t)  BY <1>12 DEF Good
  <2>1. ASSUME NEW i \in KindsOf(n)  PROVE ValidQueue(n, x, i, t)
    <3>0. i \in Kinds /\ ValidQueue(n, e, i, t)  BY <1>2, <2>0 DEF ValidEntry
    <3>1. CASE e.q[i].status # "active"
      <4>1. x.q[i] = e.q[i]  BY <1>4, <1>6, <1>8, <3>0, <3>1
      <4>q. QED BY <1>8, <1>9, <3>0, <4>1 DEF ValidQueue
    <3>2. CASE e.q[i].status = "active"
      <4>1. /\ x.q[i].rs.start = e.q[i].rs.start /\ x.q[i].rs.deadline = e.q[i].rs.deadline
            /\ x.q[i].rs.phase = "active" /\ x.q[i].status \in {"active", "schedule_limit"}
            /\ x.q[i].status = "schedule_limit" => x.q[i].len = MaxLedger
            /\ x.q[i].len <= MaxLedger
        BY <1>3, <1>6, <1>8, <3>0, <3>2
      <4>q. QED BY <1>8, <1>9, <3>0, <3>2, <4>1 DEF ValidQueue
    <3>q. QED BY <3>1, <3>2
  <2>2. \A i \in Kinds : i \in KindsOf(n) <=> x.q[i].status # "none"
    BY <1>3, <1>4, <1>6, <1>8, <2>0 DEF ValidEntry
  <2>3. ValidEntry(n, x, t)  BY <1>8, <1>9, <2>0, <2>1, <2>2 DEF ValidEntry
  <2>4. Tracked(n, x, t)
    <3>1. n = "B" /\ e.st = "custody_held" => x.q["delivery"] = Reserved /\ x.q["data"].status \in {"active", "schedule_limit"}
      <4> SUFFICES ASSUME n = "B", e.st = "custody_held"
                   PROVE  x.q["delivery"] = Reserved /\ x.q["data"].status \in {"active", "schedule_limit"}
        OBVIOUS
      <4>1. e.q["delivery"] = Reserved /\ e.q["data"].status \in {"active", "schedule_limit"} /\ Reserved.status = "reserved"
        BY <2>0 DEF Tracked, Reserved
      <4>2. "delivery" \in Kinds /\ "data" \in Kinds  BY DEF Kinds
      <4>q. QED BY <1>3, <1>4, <1>6, <1>8, <4>1, <4>2
    <3>q. QED BY <1>8, <2>0, <3>1 DEF Tracked
  <2>5. Good(n, x, t)  BY <1>8, <1>12, <2>3, <2>4 DEF Good
  <2>q. QED BY <1>8, <1>10, <2>5 DEF x, b
<1>q. QED BY <1>11, <1>12

-----------------------------------------------------------------------------
(* The state of a node and the chain *)

NodeOK(n, s) ==
  /\ s \in StateType
  /\ \A k \in Keys : Good(n, s.box[k], s.now)
  /\ s.steps = IF n = "B" THEN 0 ELSE Cardinality(Present(s))

Types ==
  /\ now \in Instants /\ now \in Nat
  /\ \A n \in Nodes : NodeOK(n, disk[n]) /\ disk[n].now <= now
  /\ DOMAIN disk = Nodes
  /\ disk = [n \in Nodes |-> disk[n]]
  /\ grants \in [Nodes -> SUBSET (Keys \X Kinds)]
  /\ writes \in [Nodes -> [Keys \X Kinds -> Nat]]

\* Every frame was written by a node that has the message, with the origin's
\* core; a delivery fact follows a delivery.
Wired(f) ==
  /\ f.from \in Nodes /\ f.kind \in KindsOf(f.from) /\ f.to = Target(f.from, f.kind) /\ f.key \in Keys
  /\ At("A", f.key).st # "absent" /\ f.core = At("A", f.key).core
  /\ At(f.from, f.key).st # "absent"
  /\ f.kind = "delivery" => At("C", f.key).st # "absent"

\* What the nodes know of each other.
Linked(k) ==
  /\ \A n \in {"B", "C"} : At(n, k).st # "absent" => At("A", k).st # "absent" /\ At(n, k).core = At("A", k).core
  /\ \A n \in {"A", "B"} : At(n, k).st = "destination_delivered" => At("C", k).st # "absent"
  /\ At("A", k).custodySeen => At("B", k).st # "absent"

\* WriteBudget, entry by entry.
Budget(n, k, i) ==
  writes[n][<<k, i>>] + (IF <<k, i>> \in grants[n] THEN 1 ELSE 0) <= Used(At(n, k).q[i])

Budgets == \A n \in Nodes, k \in Keys, i \in Kinds : Budget(n, k, i)

IInv ==
  /\ Types
  /\ \A f \in wire : Wired(f)
  /\ \A k \in Keys : Linked(k)
  /\ Cardinality(Present(disk["A"])) <= MaxActions
  /\ refused \subseteq {<<"A", "quota">>}
  /\ Budgets

-----------------------------------------------------------------------------
(* commit *)

\* What the candidate of a commit makes of one entry: nothing is forgotten,
\* and a fact is recorded only where it is true.
Turned(n, k, e, x) ==
  /\ e.st # "absent" => x.st # "absent" /\ x.core = e.core
  /\ e.st = "absent" /\ x.st # "absent" =>
       /\ n = "A" => x.st = "queued" /\ x.core \in Core /\ x.core.orig = now
       /\ n # "A" => At("A", k).st # "absent" /\ x.core = At("A", k).core /\ now < Due(x.core)
  /\ e.st # "destination_delivered" /\ x.st = "destination_delivered" =>
       At("C", k).st # "absent" /\ now < Due(x.core)
  /\ x.custodySeen => e.custodySeen \/ (n = "A" /\ At("B", k).st # "absent")
  /\ e.st \in Terminal => x.st = e.st

Candidate(n, s, earned) ==
  /\ NodeOK(n, s) /\ s.now = now
  /\ \A k \in Keys : Turned(n, k, At(n, k), s.box[k])
  /\ earned \in SUBSET (Keys \X Kinds)
  /\ \A k \in Keys, i \in Kinds :
       Used(s.box[k].q[i]) >= Used(At(n, k).q[i]) + (IF <<k, i>> \in earned THEN 1 ELSE 0)

LEMMA PresentFinite ==
  ASSUME NEW s
  PROVE  IsFiniteSet(Present(s)) /\ Cardinality(Present(s)) \in Nat
<1>1. IsFiniteSet(Keys) /\ Present(s) \in SUBSET Keys  BY RelayAssumption DEF Present
<1>2. IsFiniteSet(Present(s))  BY <1>1, FS_Subset
<1>q. QED BY <1>2, FS_CardinalityType

\* validate refuses no candidate, but for the origin's quota.
LEMMA CandidateValid ==
  ASSUME IInv, NEW n \in Nodes, NEW s, NEW earned, Candidate(n, s, earned)
  PROVE  Consistent(n, s) /\ (n # "A" => Valid(n, s))
<1>0. NodeOK(n, s)  BY DEF Candidate
<1>1. Consistent(n, s)  BY <1>0 DEF NodeOK, Consistent, Good, Present
<1>2. ASSUME n # "A"  PROVE WithinQuota(n, s)
  <2>1. Present(s) \subseteq Present(disk["A"])
    <3>1. ASSUME NEW k \in Keys, s.box[k].st # "absent"  PROVE At("A", k).st # "absent"
      <4>1. Turned(n, k, At(n, k), s.box[k]) /\ Linked(k)  BY DEF Candidate, IInv
      <4>q. QED BY <1>2, <3>1, <4>1 DEF Turned, Linked, Nodes
    <3>q. QED BY <3>1 DEF Present, At
  <2>2. \A k \in Keys : s.box[k].transport \/ s.box[k].history => k \in Present(s)
    BY <1>0, AbsentFacts DEF NodeOK, Good, Present
  <2>3. ASSUME NEW S \in SUBSET Present(disk["A"])  PROVE Cardinality(S) <= MaxActions
    <3>1. IsFiniteSet(Present(disk["A"])) /\ Cardinality(Present(disk["A"])) \in Nat  BY PresentFinite
    <3>2. IsFiniteSet(S) /\ Cardinality(S) <= Cardinality(Present(disk["A"]))  BY <3>1, FS_Subset
    <3>3. Cardinality(S) \in Nat  BY <3>2, FS_CardinalityType
    <3>q. QED BY <3>1, <3>2, <3>3, RelayAssumption DEF IInv
  <2>4. /\ {k \in Keys : s.box[k].transport} \in SUBSET Present(disk["A"])
        /\ {k \in Keys : s.box[k].history} \in SUBSET Present(disk["A"])
    BY <2>1, <2>2
  <2>q. QED BY <1>2, <2>3, <2>4 DEF WithinQuota
<1>q. QED BY <1>1, <1>2 DEF Valid

\* The chain after a candidate has replaced the state of n.
LEMMA LinkedStep ==
  ASSUME IInv, NEW n \in Nodes, NEW s, NEW earned, Candidate(n, s, earned),
         disk' = [disk EXCEPT ![n] = s], now' = now, wire' = wire
  PROVE  /\ \A m \in Nodes : NodeOK(m, disk'[m]) /\ disk'[m].now <= now'
         /\ DOMAIN disk' = Nodes /\ disk' = [m \in Nodes |-> disk'[m]]
         /\ disk'[n] = s /\ \A m \in Nodes : m # n => disk'[m] = disk[m]
         /\ \A f \in wire' : Wired(f)'
         /\ \A k \in Keys : Linked(k)'
<1>0. Types /\ (\A f \in wire : Wired(f)) /\ \A k \in Keys : Linked(k)  BY DEF IInv
<1>1. /\ DOMAIN disk' = Nodes /\ disk' = [m \in Nodes |-> disk'[m]]
      /\ disk'[n] = s /\ \A m \in Nodes : m # n => disk'[m] = disk[m]
  BY <1>0 DEF Types
<1>2. \A m \in Nodes : NodeOK(m, disk'[m]) /\ disk'[m].now <= now'
  BY <1>0, <1>1 DEF Types, Candidate
<1>3. \A k \in Keys : Turned(n, k, At(n, k), s.box[k])  BY DEF Candidate
<1>4. \A m \in Nodes, k \in Keys : At(m, k).st # "absent" => At(m, k)'.st # "absent" /\ At(m, k)'.core = At(m, k).core
  BY <1>1, <1>3 DEF Turned, At
<1>5. ASSUME NEW f \in wire  PROVE Wired(f)'
  <2>1. Wired(f) /\ "A" \in Nodes /\ "C" \in Nodes  BY <1>0 DEF Nodes
  <2>2. f.key \in Keys /\ f.from \in Nodes  BY <2>1 DEF Wired
  <2>q. QED BY <1>4, <2>1, <2>2 DEF Wired
<1>6. ASSUME NEW k \in Keys  PROVE Linked(k)'
  <2>0. Linked(k) /\ Turned(n, k, At(n, k), s.box[k]) /\ "A" \in Nodes /\ "B" \in Nodes /\ "C" \in Nodes
    BY <1>0, <1>3 DEF Nodes
  <2>1. At(n, k)' = s.box[k] /\ \A m \in Nodes : m # n => At(m, k)' = At(m, k)  BY <1>1 DEF At
  <2>2. ASSUME NEW m \in {"B", "C"}, At(m, k)'.st # "absent"
        PROVE  At("A", k)'.st # "absent" /\ At(m, k)'.core = At("A", k)'.core
    <3>1. m \in Nodes /\ m # "A"  BY DEF Nodes
    <3>2. At("A", k).st # "absent" /\ At(m, k)'.core = At("A", k).core
      <4>1. CASE m = n  BY <2>0, <2>1, <2>2, <3>1, <4>1 DEF Linked, Turned
      <4>2. CASE m # n  BY <2>0, <2>1, <2>2, <3>1, <4>2 DEF Linked
      <4>q. QED BY <4>1, <4>2
    <3>q. QED BY <1>4, <2>0, <3>2
  <2>3. ASSUME NEW m \in {"A", "B"}, At(m, k)'.st = "destination_delivered"  PROVE At("C", k)'.st # "absent"
    <3>1. m \in Nodes /\ m # "C"  BY DEF Nodes
    <3>2. At("C", k).st # "absent"
      <4>1. CASE m = n  BY <2>0, <2>1, <2>3, <3>1, <4>1 DEF Linked, Turned
      <4>2. CASE m # n  BY <2>0, <2>1, <2>3, <3>1, <4>2 DEF Linked
      <4>q. QED BY <4>1, <4>2
    <3>q. QED BY <1>4, <2>0, <3>2
  <2>4. ASSUME At("A", k)'.custodySeen  PROVE At("B", k)'.st # "absent"
    <3>1. At("B", k).st # "absent"
      <4>1. CASE n = "A"  BY <2>0, <2>1, <2>4, <4>1 DEF Linked, Turned
      <4>2. CASE n # "A"  BY <2>0, <2>1, <2>4, <4>2 DEF Linked
      <4>q. QED BY <4>1, <4>2
    <3>q. QED BY <1>4, <2>0, <3>1
  <2>q. QED BY <2>2, <2>3, <2>4 DEF Linked
<1>q. QED BY <1>1, <1>2, <1>5, <1>6

\* The budget of each entry is the budget of the chain.
LEMMA BudgetByEntry == Budgets => WriteBudget
<1> SUFFICES ASSUME Budgets, NEW n \in Nodes, NEW p \in Keys \X Kinds
             PROVE  writes[n][p] + (IF p \in grants[n] THEN 1 ELSE 0)
                      <= disk[n].box[p[1]].q[p[2]].rs.nextSlot + (IF disk[n].box[p[1]].q[p[2]].rs.recoveryUsed THEN 1 ELSE 0)
  BY DEF WriteBudget
<1>1. PICK k \in Keys, i \in Kinds : p = <<k, i>>  OBVIOUS
<1>2. Budget(n, k, i) /\ p[1] = k /\ p[2] = i  BY <1>1 DEF Budgets
<1>q. QED BY <1>1, <1>2 DEF Budget, Used, At

LEMMA CommitStep ==
  ASSUME IInv, NEW n \in Nodes, NEW s, NEW earned, Candidate(n, s, earned), Commit(n, s, earned),
         UNCHANGED <<now, wire, writes>>
  PROVE  IInv'
<1>0. Types /\ (\A f \in wire : Wired(f)) /\ (\A k \in Keys : Linked(k)) /\ Budgets  BY DEF IInv
<1>1. Consistent(n, s) /\ (n # "A" => Valid(n, s))  BY CandidateValid
<1>2. refused' \subseteq {<<"A", "quota">>}  BY <1>1 DEF Commit, IInv
<1>3. disk' = disk \/ (Valid(n, s) /\ disk' = [disk EXCEPT ![n] = s])  BY DEF Commit
<1>4. grants' = grants \/ grants' = [grants EXCEPT ![n] = {}] \/ (disk' = [disk EXCEPT ![n] = s] /\ grants' = [grants EXCEPT ![n] = earned])
  BY DEF Commit
<1>5. grants' \in [Nodes -> SUBSET (Keys \X Kinds)] /\ writes' \in [Nodes -> [Keys \X Kinds -> Nat]]
  BY <1>0, <1>4 DEF Types, Candidate
<1>6. \A m \in Nodes, k \in Keys, i \in Kinds : Budget(m, k, i)  BY <1>0 DEF Budgets
<1>a. \A m \in Nodes, k \in Keys, i \in Kinds : Used(At(m, k).q[i]) \in Nat /\ writes[m][<<k, i>>] \in Nat
  BY <1>0, UsedIsNat DEF Types, NodeOK, Good, EntryType, At
<1>7. CASE disk' = disk
  <2>1. \A m \in Nodes : grants'[m] \subseteq grants[m] \/ (m = n /\ s = disk[n] /\ grants'[m] = earned)
    <3>1. disk' = [disk EXCEPT ![n] = s] => s = disk[n]  BY <1>0, <1>7 DEF Types
    <3>q. QED BY <1>0, <1>4, <3>1 DEF Types
  <2>2. \A m \in Nodes, k \in Keys : At(m, k)' = At(m, k)  BY <1>7 DEF At
  <2>3. ASSUME NEW m \in Nodes, NEW k \in Keys, NEW i \in Kinds  PROVE Budget(m, k, i)'
    <3>0. Budget(m, k, i) /\ Used(At(m, k).q[i]) \in Nat /\ writes[m][<<k, i>>] \in Nat  BY <1>6, <1>a
    <3>1. CASE grants'[m] \subseteq grants[m]  BY <2>2, <3>0, <3>1 DEF Budget
    <3>2. CASE m = n /\ s = disk[n] /\ grants'[m] = earned
      <4>1. Used(At(n, k).q[i]) >= Used(At(n, k).q[i]) + (IF <<k, i>> \in earned THEN 1 ELSE 0)
        BY <3>2 DEF Candidate, At
      <4>2. <<k, i>> \notin grants'[m]  BY <3>0, <3>2, <4>1
      <4>q. QED BY <2>2, <3>0, <4>2 DEF Budget
    <3>q. QED BY <2>1, <3>1, <3>2
  <2>4. Budgets'  BY <2>3 DEF Budgets
  <2>5. Types' /\ (\A f \in wire' : Wired(f)') /\ (\A k \in Keys : Linked(k)')
    BY <1>0, <1>5, <1>7 DEF Types, Wired, Linked, At
  <2>q. QED BY <1>2, <1>7, <2>4, <2>5 DEF IInv
<1>8. CASE Valid(n, s) /\ disk' = [disk EXCEPT ![n] = s]
  <2>1. /\ \A m \in Nodes : NodeOK(m, disk'[m]) /\ disk'[m].now <= now'
        /\ DOMAIN disk' = Nodes /\ disk' = [m \in Nodes |-> disk'[m]]
        /\ disk'[n] = s /\ \A m \in Nodes : m # n => disk'[m] = disk[m]
        /\ \A f \in wire' : Wired(f)'
        /\ \A k \in Keys : Linked(k)'
    BY <1>8, LinkedStep
  <2>2. Types'  BY <1>0, <1>5, <2>1 DEF Types
  <2>3. Cardinality(Present(disk'["A"])) <= MaxActions
    BY <1>8, <2>1 DEF Valid, WithinQuota, IInv, Nodes
  <2>4. ASSUME NEW m \in Nodes, NEW k \in Keys, NEW i \in Kinds  PROVE Budget(m, k, i)'
    <3>0. Budget(m, k, i) /\ Used(At(m, k).q[i]) \in Nat /\ writes[m][<<k, i>>] \in Nat  BY <1>6, <1>a
    <3>1. CASE m # n
      <4>1. At(m, k)' = At(m, k) /\ grants'[m] = grants[m]  BY <1>0, <1>4, <2>1, <3>1 DEF At, Types
      <4>q. QED BY <3>0, <4>1 DEF Budget
    <3>2. CASE m = n
      <4>1. Used(s.box[k].q[i]) >= Used(At(n, k).q[i]) + (IF <<k, i>> \in earned THEN 1 ELSE 0)  BY DEF Candidate
      <4>2. At(m, k)' = s.box[k]  BY <2>1, <3>2 DEF At
      <4>3. Used(s.box[k].q[i]) \in Nat  BY UsedIsNat DEF Candidate, NodeOK, Good, EntryType
      <4>4. grants'[m] = grants[m] \/ grants'[m] = {} \/ grants'[m] = earned  BY <1>0, <1>4, <3>2 DEF Types
      <4>q. QED BY <3>0, <3>2, <4>1, <4>2, <4>3, <4>4 DEF Budget
    <3>q. QED BY <3>1, <3>2
  <2>5. Budgets'  BY <2>4 DEF Budgets
  <2>q. QED BY <1>2, <2>1, <2>2, <2>3, <2>5 DEF IInv
<1>q. QED BY <1>3, <1>7, <1>8

-----------------------------------------------------------------------------
(* The candidates *)

\* One entry after a batch: expire, receive, schedule.
LEMMA BatchEntry ==
  ASSUME IInv, NEW n \in Nodes, NEW k \in Keys, NEW in, NEW links \in [Neighbors(n) -> Reports], NEW adm,
         NEW e1, e1 = ExpireEntry(At(n, k), now),
         NEW e2, e2 = ReceiveEntry(n, e1, in, now),
         NEW e3, e3 = Advanced(n, k, e2, now, links, adm),
         in \subseteq {f \in wire : f.to = n /\ f.key = k},
         \A f \in in : /\ e1.st = "absent" => f.kind = "data"
                       /\ e1.st # "absent" => now < Due(e1.core)
                       /\ f.kind = "data" => now < Due(f.core)
  PROVE  /\ Good(n, e3, now) /\ Turned(n, k, At(n, k), e3)
         /\ e1.st = "absent" <=> At(n, k).st = "absent"
         /\ e2.st = "absent" <=> e3.st = "absent"
         /\ n = "A" => (e3.st = "absent" <=> At(n, k).st = "absent")
         /\ \A i \in Kinds :
              /\ Used(e3.q[i]) >= Used(At(n, k).q[i])
              /\ (e2.q[i].status = "active" /\ e2.q[i].len # MaxLedger
                    /\ Send(e2.q[i].rs, BatchFor(n, i, now, links, <<k, i>> \in adm)))
                   => Used(e3.q[i]) >= Used(At(n, k).q[i]) + 1
<1> DEFINE e == At(n, k)
<1>0. Types /\ (\A f \in wire : Wired(f)) /\ Linked(k)  BY DEF IInv
<1>1. now \in Nat /\ disk[n].now \in Nat /\ disk[n].now <= now /\ Good(n, e, disk[n].now)
  BY <1>0 DEF Types, NodeOK, StateType, At
<1> HIDE DEF e
<1>2. /\ Good(n, e1, now) /\ Live(e1, now) /\ e1.core = e.core
      /\ (e1.st = "absent" <=> e.st = "absent") /\ e1.custodySeen = e.custodySeen
      /\ \A i \in Kinds : Used(e1.q[i]) = Used(e.q[i])
  BY <1>1, ExpireGood DEF e
<1>3. (e1.st = e.st \/ e1.st = "expired") /\ (e.st \in Terminal => e1.st = e.st)
  <2>1. CASE e.st = "absent" \/ now < Due(e.core)  BY <2>1 DEF ExpireEntry, e
  <2>2. CASE ~(e.st = "absent" \/ now < Due(e.core))
    <3>1. e \in EntryType  BY <1>1 DEF Good
    <3>2. e1.st = IF e.st \in {"committed", "destination_delivered"} THEN e.st ELSE "expired"
      BY <1>1, <2>2, <3>1, ExpireFields DEF e
    <3>q. QED BY <3>2 DEF Terminal
  <2>q. QED BY <2>1, <2>2
<1>4. ASSUME NEW f \in in
      PROVE  /\ At("A", k).st # "absent" /\ f.core = At("A", k).core
             /\ f.core \in CoreType /\ f.core.orig <= now
             /\ n = "A" => f.kind \in {"custody", "delivery"}
             /\ n = "B" => f.kind \in {"data", "delivery"}
             /\ n = "C" => f.kind = "data"
             /\ f.kind = "custody" => At("B", k).st # "absent"
             /\ f.kind = "delivery" => At("C", k).st # "absent"
  <2>1. Wired(f) /\ f.to = n /\ f.key = k  BY <1>0
  <2>2. At("A", k).st # "absent" /\ f.core = At("A", k).core  BY <2>1 DEF Wired
  <2>3. Good("A", At("A", k), disk["A"].now) /\ disk["A"].now <= now /\ disk["A"].now \in Nat
    BY <1>0 DEF Types, NodeOK, StateType, At, Nodes
  <2>4. At("A", k).core \in CoreType /\ At("A", k).core.orig <= disk["A"].now /\ At("A", k).core.orig \in Nat
    BY <2>2, <2>3 DEF Good, EntryType, ValidEntry, CoreType
  <2>5. f.core \in CoreType /\ f.core.orig <= now  BY <1>1, <2>2, <2>3, <2>4
  <2>6. /\ n = "A" => f.from = "B" /\ f.kind \in {"custody", "delivery"}
        /\ n = "B" => f.kind \in {"data", "delivery"}
        /\ n = "C" => f.kind = "data"
        /\ f.kind = "custody" => f.from = "B"
    BY <2>1 DEF Wired, Nodes, KindsOf, Kinds, Target
  <2>q. QED BY <2>1, <2>2, <2>5, <2>6 DEF Wired
<1>5. Inputs(n, e1, in, now)  BY <1>4 DEF Inputs
<1>6. Moved(n, e1, e2, in, now)  BY <1>1, <1>2, <1>5, ReceiveMoves
<1>7. Good(n, e2, now) /\ Live(e2, now)  BY <1>6 DEF Moved
<1>8. /\ Good(n, e3, now) /\ e3.st = e2.st /\ e3.core = e2.core /\ e3.custodySeen = e2.custodySeen
      /\ \A i \in Kinds :
           /\ Used(e3.q[i]) >= Used(e2.q[i])
           /\ (e2.q[i].status = "active" /\ e2.q[i].len # MaxLedger
                 /\ Send(e2.q[i].rs, BatchFor(n, i, now, links, <<k, i>> \in adm)))
                => Used(e3.q[i]) >= Used(e2.q[i]) + 1
  BY <1>1, <1>7, ScheduleMoves
<1>9. ASSUME NEW i \in Kinds
      PROVE  /\ Used(e3.q[i]) >= Used(e.q[i])
             /\ (e2.q[i].status = "active" /\ e2.q[i].len # MaxLedger
                   /\ Send(e2.q[i].rs, BatchFor(n, i, now, links, <<k, i>> \in adm)))
                  => Used(e3.q[i]) >= Used(e.q[i]) + 1
  <2>1. e.q[i] \in QueueType /\ e2.q[i] \in QueueType /\ e3.q[i] \in QueueType
    BY <1>1, <1>7, <1>8 DEF Good, EntryType
  <2>2. Used(e.q[i]) \in Nat /\ Used(e2.q[i]) \in Nat /\ Used(e3.q[i]) \in Nat  BY <2>1, UsedIsNat
  <2>3. Used(e2.q[i]) >= Used(e.q[i])  BY <1>2, <1>6 DEF Moved
  <2>q. QED BY <1>8, <2>2, <2>3
<1>10. e.st # "absent" => e3.st # "absent" /\ e3.core = e.core  BY <1>2, <1>6, <1>8 DEF Moved
<1>11. e.st = "absent" /\ e3.st # "absent" => \E f \in in : f.kind = "data" /\ e3.core = f.core /\ now < Due(f.core)
  BY <1>2, <1>6, <1>8 DEF Moved
<1>12. e.st # "destination_delivered" /\ e3.st = "destination_delivered" =>
         At("C", k).st # "absent" /\ now < Due(e3.core)
  <2> SUFFICES ASSUME e.st # "destination_delivered", e3.st = "destination_delivered"
               PROVE  At("C", k).st # "absent" /\ now < Due(e3.core)
    OBVIOUS
  <2>1. e1.st # "destination_delivered"  BY <1>3
  <2>2. (\E f \in in : f.kind = "delivery") /\ now < Due(e1.core)  BY <1>6, <1>8, <2>1 DEF Moved
  <2>3. e1.st # "absent"  BY <2>2, <1>4, <1>5 DEF Inputs
  <2>q. QED BY <1>4, <1>6, <1>8, <2>2, <2>3 DEF Moved
<1>13. e3.custodySeen => e.custodySeen \/ (n = "A" /\ At("B", k).st # "absent")
  BY <1>2, <1>4, <1>6, <1>8 DEF Moved, Nodes
<1>14. e.st \in Terminal => e3.st = e.st  BY <1>3, <1>6, <1>8 DEF Moved
<1>15. Turned(n, k, e, e3)  BY <1>4, <1>10, <1>11, <1>12, <1>13, <1>14 DEF Turned
<1>q. QED BY <1>2, <1>4, <1>8, <1>9, <1>10, <1>11, <1>15 DEF e

LEMMA StepCandidate ==
  ASSUME IInv, NEW n \in Nodes, NEW inputs \in SUBSET {f \in wire : f.to = n},
         NEW links \in [Neighbors(n) -> Reports], NEW adm,
         NEW d1, d1 = Expired(disk[n], now), Acceptable(d1, inputs, now),
         NEW d2, d2 = Received(n, d1, inputs, now)
  PROVE  Candidate(n, Scheduled(n, d2, links, adm), Earned(n, d2, links, adm))
<1> DEFINE d == disk[n]
           in(k) == {f \in inputs : f.key = k}
           e1(k) == ExpireEntry(At(n, k), now)
           e2(k) == ReceiveEntry(n, e1(k), in(k), now)
           e3(k) == Advanced(n, k, e2(k), now, links, adm)
           s == Scheduled(n, d2, links, adm)
           fresh == {k \in Keys : e1(k).st = "absent" /\ e2(k).st # "absent"}
           steps == IF n = "C" THEN d.steps + Cardinality(fresh) ELSE d.steps
<1>0. Types /\ now \in Nat /\ d \in StateType /\ NodeOK(n, d)  BY DEF IInv, Types, NodeOK
<1>1. d1.now = now /\ d1.steps = d.steps /\ d1.box = [k \in Keys |-> e1(k)]
  <2>1. d1 = [d EXCEPT !.now = now, !.box = [k \in Keys |-> e1(k)]]  BY DEF Expired, At
  <2>q. QED BY <1>0, <2>1 DEF StateType
<1>2. d2.now = now /\ d2.steps = steps /\ d2.box = [k \in Keys |-> e2(k)]
  <2>1. PICK box : box = [k \in Keys |-> e2(k)]  OBVIOUS
  <2>2. box = [k \in Keys |-> ReceiveEntry(n, d1.box[k], {f \in inputs : f.key = k}, now)]  BY <1>1, <2>1
  <2>3. fresh = {k \in Keys : d1.box[k].st = "absent" /\ box[k].st # "absent"}  BY <1>1, <2>1
  <2>4. d2 = [d1 EXCEPT !.box = box, !.steps = steps]  BY <1>1, <2>2, <2>3 DEF Received
  <2>5. DOMAIN d1 = {"now", "steps", "box"}  BY <1>0 DEF Expired, StateType
  <2>q. QED BY <1>1, <2>1, <2>4, <2>5
<1>3. s.now = now /\ s.steps = steps /\ s.box = [k \in Keys |-> e3(k)]
  <2>1. PICK box : box = [k \in Keys |-> e3(k)]  OBVIOUS
  <2>2. box = [k \in Keys |-> [d2.box[k] EXCEPT !.q = [i \in Kinds |->
                 IF d2.box[k].q[i].status # "active" THEN d2.box[k].q[i]
                 ELSE AdvanceQueue(d2.box[k].q[i], BatchFor(n, i, d2.now, links, <<k, i>> \in adm))]]]
    BY <1>2, <2>1 DEF Advanced
  <2>3. s = [d2 EXCEPT !.box = box]  BY <2>2 DEF Scheduled
  <2>4. DOMAIN d2 = {"now", "steps", "box"}  BY <1>0 DEF Expired, Received, StateType
  <2>q. QED BY <1>2, <2>1, <2>3, <2>4
<1>4. ASSUME NEW k \in Keys
      PROVE  /\ Good(n, e3(k), now) /\ Turned(n, k, At(n, k), e3(k))
             /\ e1(k).st = "absent" <=> At(n, k).st = "absent"
             /\ e2(k).st = "absent" <=> e3(k).st = "absent"
             /\ n = "A" => (e3(k).st = "absent" <=> At(n, k).st = "absent")
             /\ \A i \in Kinds :
                  /\ Used(e3(k).q[i]) >= Used(At(n, k).q[i])
                  /\ (e2(k).q[i].status = "active" /\ e2(k).q[i].len # MaxLedger
                        /\ Send(e2(k).q[i].rs, BatchFor(n, i, now, links, <<k, i>> \in adm)))
                       => Used(e3(k).q[i]) >= Used(At(n, k).q[i]) + 1
  <2>1. in(k) \subseteq {f \in wire : f.to = n /\ f.key = k}  OBVIOUS
  <2>2. ASSUME NEW f \in in(k)
        PROVE  /\ e1(k).st = "absent" => f.kind = "data"
               /\ e1(k).st # "absent" => now < Due(e1(k).core)
               /\ f.kind = "data" => now < Due(f.core)
    <3>1. f \in inputs /\ d1.box[f.key] = e1(k)  BY <1>1
    <3>q. QED BY <3>1 DEF Acceptable
  <2>3. PICK x1, x2, x3, inp : x1 = e1(k) /\ x2 = e2(k) /\ x3 = e3(k) /\ inp = in(k)  OBVIOUS
  <2>4. x1 = ExpireEntry(At(n, k), now) /\ x2 = ReceiveEntry(n, x1, inp, now) /\ x3 = Advanced(n, k, x2, now, links, adm)
    BY <2>3
  <2>5. /\ inp \subseteq {f \in wire : f.to = n /\ f.key = k}
        /\ \A f \in inp : /\ x1.st = "absent" => f.kind = "data"
                          /\ x1.st # "absent" => now < Due(x1.core)
                          /\ f.kind = "data" => now < Due(f.core)
    BY <2>1, <2>2, <2>3
  <2> HIDE DEF e1, e2, e3, in
  <2>6. /\ Good(n, x3, now) /\ Turned(n, k, At(n, k), x3)
        /\ x1.st = "absent" <=> At(n, k).st = "absent"
        /\ x2.st = "absent" <=> x3.st = "absent"
        /\ n = "A" => (x3.st = "absent" <=> At(n, k).st = "absent")
        /\ \A i \in Kinds :
             /\ Used(x3.q[i]) >= Used(At(n, k).q[i])
             /\ (x2.q[i].status = "active" /\ x2.q[i].len # MaxLedger
                   /\ Send(x2.q[i].rs, BatchFor(n, i, now, links, <<k, i>> \in adm)))
                  => Used(x3.q[i]) >= Used(At(n, k).q[i]) + 1
    BY <2>4, <2>5, BatchEntry
  <2>q. QED BY <2>3, <2>6
<1> HIDE DEF e1, e2, e3, in
<1>5. NodeOK(n, s)
  <2>1. \A k \in Keys : e3(k) \in EntryType  BY <1>4 DEF Good
  <2>2. fresh \subseteq Keys /\ IsFiniteSet(fresh) /\ Cardinality(fresh) \in Nat
    <3>1. fresh \in SUBSET Keys  OBVIOUS
    <3>2. IsFiniteSet(fresh)  BY <3>1, RelayAssumption, FS_Subset
    <3>q. QED BY <3>1, <3>2, FS_CardinalityType
  <2>3. steps \in Nat
    <3> HIDE DEF fresh
    <3>q. QED BY <1>0, <2>2 DEF StateType
  <2>4. s \in StateType
    <3>1. PICK z \in Nat, box \in [Keys -> EntryType] : z = steps /\ box = [k \in Keys |-> e3(k)]  BY <2>1, <2>3
    <3>2. s = [now |-> now, steps |-> z, box |-> box]
      <4>1. DOMAIN s = {"now", "steps", "box"}
        BY <1>0 DEF Expired, Received, Scheduled, StateType
      <4>2. s = [now |-> s.now, steps |-> s.steps, box |-> s.box]
        <5>1. s = [x \in {"now", "steps", "box"} |-> s[x]]  BY <4>1, <1>0 DEF Expired, Received, Scheduled, StateType
        <5>q. QED BY <5>1
      <4>q. QED BY <1>3, <3>1, <4>2
    <3>q. QED BY <1>0, <3>2 DEF StateType
  <2>5. \A k \in Keys : Good(n, s.box[k], s.now)  BY <1>3, <1>4
  <2>6. s.steps = IF n = "B" THEN 0 ELSE Cardinality(Present(s))
    <3>0. d.steps = IF n = "B" THEN 0 ELSE Cardinality(Present(d))  BY <1>0 DEF NodeOK
    <3>1. CASE n = "A"
      <4>1. Present(s) = Present(d)  BY <1>3, <1>4, <3>1 DEF Present, At
      <4>q. QED BY <1>3, <3>0, <3>1, <4>1
    <3>2. CASE n = "B"  BY <1>3, <3>0, <3>2
    <3>3. CASE n = "C"
      <4>1. \A k \in Keys : (k \in Present(s) <=> e3(k).st # "absent") /\ (k \in Present(d) <=> At(n, k).st # "absent")
        BY <1>3 DEF Present, At
      <4>2. \A k \in Keys : At(n, k).st # "absent" => e3(k).st # "absent"  BY <1>4 DEF Turned
      <4>3. \A k \in Keys : k \in fresh <=> At(n, k).st = "absent" /\ e3(k).st # "absent"  BY <1>4
      <4>4. Present(s) \subseteq Keys /\ Present(d) \subseteq Keys  BY DEF Present
      <4> HIDE DEF fresh, s, d
      <4>5. Present(s) = Present(d) \cup fresh /\ Present(d) \cap fresh = {}  BY <2>2, <4>1, <4>2, <4>3, <4>4
      <4>6. IsFiniteSet(Present(d)) /\ Cardinality(Present(d)) \in Nat  BY PresentFinite
      <4>7. Cardinality(Present(s)) = Cardinality(Present(d)) + Cardinality(fresh)
        BY <2>2, <4>5, <4>6, FS_Union, FS_EmptySet
      <4>q. QED BY <1>3, <3>0, <3>3, <4>7
    <3>q. QED BY <3>1, <3>2, <3>3 DEF Nodes
  <2>q. QED BY <2>4, <2>5, <2>6 DEF NodeOK
<1>6. \A k \in Keys : Turned(n, k, At(n, k), s.box[k])  BY <1>3, <1>4
<1>7. Earned(n, d2, links, adm) \in SUBSET (Keys \X Kinds)  BY DEF Earned, Active
<1>8. ASSUME NEW k \in Keys, NEW i \in Kinds
      PROVE  Used(s.box[k].q[i]) >= Used(At(n, k).q[i]) + (IF <<k, i>> \in Earned(n, d2, links, adm) THEN 1 ELSE 0)
  <2>1. s.box[k] = e3(k) /\ d2.box[k] = e2(k)  BY <1>2, <1>3
  <2>2. CASE <<k, i>> \notin Earned(n, d2, links, adm)
    <3>1. Used(At(n, k).q[i]) \in Nat  BY <1>0, UsedIsNat DEF NodeOK, Good, EntryType, At
    <3>q. QED BY <1>4, <2>1, <2>2, <3>1
  <2>3. CASE <<k, i>> \in Earned(n, d2, links, adm)
    <3>1. ~LimitReached(d2) /\ <<k, i>> \in Active(d2)
          /\ Send(d2.box[k].q[i].rs, BatchFor(n, i, d2.now, links, <<k, i>> \in adm))
      BY <2>3 DEF Earned
    <3>2. d2.box[k].q[i].status = "active" /\ d2.box[k].q[i].len # MaxLedger
      BY <3>1 DEF LimitReached, Active
    <3>3. Used(e3(k).q[i]) >= Used(At(n, k).q[i]) + 1  BY <1>2, <1>4, <2>1, <3>1, <3>2
    <3>q. QED BY <2>1, <2>3, <3>3
  <2>q. QED BY <2>2, <2>3
<1>9. Candidate(n, s, Earned(n, d2, links, adm))
  <2> HIDE DEF s
  <2>q. QED BY <1>3, <1>5, <1>6, <1>7, <1>8 DEF Candidate
<1>q. QED BY <1>9

\* A refused batch settles deadlines only.
LEMMA ExpiredCandidate ==
  ASSUME IInv, NEW n \in Nodes
  PROVE  Candidate(n, Expired(disk[n], now), {})
<1> DEFINE d == disk[n]
           e1(k) == ExpireEntry(At(n, k), now)
           s == Expired(d, now)
<1>0. Types /\ now \in Nat /\ NodeOK(n, d) /\ d \in StateType /\ d.now <= now /\ d.now \in Nat
  BY DEF IInv, Types, NodeOK, StateType
<1>1. ASSUME NEW k \in Keys
      PROVE  /\ Good(n, e1(k), now) /\ Turned(n, k, At(n, k), e1(k))
             /\ e1(k).st = "absent" <=> At(n, k).st = "absent"
             /\ \A i \in Kinds : Used(e1(k).q[i]) >= Used(At(n, k).q[i])
  <2>1. PICK e, x : e = At(n, k) /\ x = e1(k)  OBVIOUS
  <2>2. Good(n, e, d.now)  BY <1>0, <2>1 DEF NodeOK, At
  <2>3. x = ExpireEntry(e, now)  BY <2>1
  <2>4. Good(n, x, now) /\ x.core = e.core /\ (x.st = "absent" <=> e.st = "absent") /\ x.custodySeen = e.custodySeen
    BY <1>0, <2>2, <2>3, ExpireGood
  <2>5. \A i \in Kinds : Used(x.q[i]) = Used(e.q[i])  BY <1>0, <2>2, <2>3, ExpireGood
  <2>6. \A i \in Kinds : Used(e.q[i]) \in Nat  BY <2>2, UsedIsNat DEF Good, EntryType
  <2>7. (x.st = e.st \/ x.st = "expired") /\ (e.st \in Terminal => x.st = e.st)
    <3>1. CASE e.st = "absent" \/ now < Due(e.core)  BY <2>3, <3>1 DEF ExpireEntry
    <3>2. CASE ~(e.st = "absent" \/ now < Due(e.core))
      <4>1. e \in EntryType  BY <2>2 DEF Good
      <4>2. x.st = IF e.st \in {"committed", "destination_delivered"} THEN e.st ELSE "expired"
        BY <1>0, <2>3, <3>2, <4>1, ExpireFields
      <4>q. QED BY <4>2 DEF Terminal
    <3>q. QED BY <3>1, <3>2
  <2>8. Turned(n, k, e, x)  BY <2>4, <2>7 DEF Turned
  <2>q. QED BY <2>1, <2>4, <2>5, <2>6, <2>8
<1>2. PICK box \in [Keys -> EntryType] : box = [k \in Keys |-> e1(k)]  BY <1>1 DEF Good
<1>3. s = [d EXCEPT !.now = now, !.box = box]  BY <1>2 DEF Expired, At
<1> HIDE DEF s
<1>4. s \in StateType /\ s.now = now /\ s.steps = d.steps /\ s.box = box  BY <1>0, <1>3 DEF StateType
<1>5. \A k \in Keys : s.box[k] = e1(k)  BY <1>2, <1>4
<1> HIDE DEF e1
<1>6. Present(s) = Present(d)  BY <1>1, <1>5 DEF Present, At
<1>7. NodeOK(n, s)  BY <1>0, <1>1, <1>4, <1>5, <1>6 DEF NodeOK
<1>8. Candidate(n, s, {})
  <2>1. \A k \in Keys, i \in Kinds : Used(s.box[k].q[i]) \in Nat /\ Used(At(n, k).q[i]) \in Nat
    BY <1>0, <1>7, UsedIsNat DEF NodeOK, Good, EntryType, At
  <2>2. \A k \in Keys, i \in Kinds : Used(s.box[k].q[i]) >= Used(At(n, k).q[i]) + (IF <<k, i>> \in {} THEN 1 ELSE 0)
    BY <1>1, <1>5, <2>1
  <2>q. QED BY <1>1, <1>4, <1>5, <1>7, <2>2 DEF Candidate
<1>q. QED BY <1>8 DEF s

\* The entry Submit makes.
Submission(core, t) ==
  [Absent EXCEPT !.st = "queued", !.core = core, !.transport = TRUE,
     !.history = TRUE, !.body = TRUE, !.q["data"] = NewQueue(core, t)]

LEMMA SubmittedEntry ==
  ASSUME NEW core \in CoreType, NEW t \in Nat, core.orig = t
  PROVE  /\ Good("A", Submission(core, t), t) /\ Submission(core, t).st = "queued"
         /\ Submission(core, t).core = core /\ ~Submission(core, t).custodySeen
         /\ \A i \in Kinds : Used(Submission(core, t).q[i]) = 0
<1> DEFINE new == NewQueue(core, t)
           e == Submission(core, t)
<1>1. /\ new \in QueueType /\ new.status = "active" /\ new.len = 0 /\ new.rs.start = t
      /\ new.rs.deadline = Due(core) /\ new.rs.phase = "active" /\ Used(new) = 0
  BY NewQueueFacts
<1> HIDE DEF new
<1>2. Absent.q \in [Kinds -> QueueType] /\ "data" \in Kinds  BY AbsentFacts DEF EntryType, Kinds
<1>3. PICK qq \in [Kinds -> QueueType] : qq = [Absent.q EXCEPT !["data"] = new]  BY <1>1, <1>2
<1>4. qq["data"] = new /\ \A i \in Kinds : i # "data" => qq[i] = NoQueue  BY <1>2, <1>3, AbsentFacts
<1>5. e = [Absent EXCEPT !.st = "queued", !.core = core, !.transport = TRUE, !.history = TRUE, !.body = TRUE, !.q = qq]
  BY <1>3 DEF new, Submission
<1> HIDE DEF e
<1>6. e \in EntryType /\ e.st = "queued" /\ e.core = core /\ e.q = qq  BY <1>5, AbsentFacts DEF EntryType, Stages
<1>7. e.custodySeen = FALSE /\ e.history = TRUE /\ e.transport = TRUE /\ e.body = TRUE /\ e.tomb = FALSE
  BY <1>5, AbsentFacts DEF EntryType
<1>8. ValidQueue("A", e, "data", t)
  <2>1. e.q["data"] = new /\ t <= t /\ 0 <= MaxLedger  BY <1>4, <1>6, RelayAssumption
  <2>q. QED BY <1>1, <1>6, <1>7, <2>1 DEF ValidQueue
<1>9. \A i \in Kinds : i \in KindsOf("A") <=> e.q[i].status # "none"
  BY <1>1, <1>4, <1>6 DEF KindsOf, NoQueue
<1>10. e.core.orig <= t  BY <1>6
<1>11. ValidEntry("A", e, t)  BY <1>6, <1>7, <1>8, <1>9, <1>10 DEF ValidEntry, KindsOf, Terminal
<1>12. Good("A", e, t)  BY <1>6, <1>11 DEF Good, Tracked
<1>13. \A i \in Kinds : Used(e.q[i]) = 0  BY <1>1, <1>4, <1>6, BlankTypes
<1>q. QED BY <1>6, <1>7, <1>12, <1>13 DEF e

LEMMA SubmitStep ==
  ASSUME IInv, NEW k \in Keys, NEW body \in Bodies, Submit(k, body)
  PROVE  \E s : Candidate("A", s, {}) /\ Commit("A", s, {}) /\ UNCHANGED <<now, wire, writes>>
<1> DEFINE d == disk["A"]
           c == [body |-> body, orig |-> now]
           y == Submission(c, now)
           s == [d EXCEPT !.now = now, !.steps = @ + 1, !.box[k] = y]
<1>0. /\ "A" \in Nodes /\ Types /\ now \in Nat /\ now \in Instants /\ NodeOK("A", d) /\ d \in StateType
      /\ d.now <= now /\ d.now \in Nat
  BY DEF IInv, Types, NodeOK, StateType, Nodes
<1>1. At("A", k).st = "absent" /\ Commit("A", s, {}) /\ UNCHANGED <<now, wire, writes>>  BY DEF Submit, At, Submission
<1>2. c \in CoreType /\ c \in Core /\ c.orig = now  BY <1>0 DEF CoreType, Core
<1>3. PICK core \in CoreType : core = c  BY <1>2
<1>4. PICK e : e = y  OBVIOUS
<1>5. e = Submission(core, now)  BY <1>3, <1>4
<1>6. core.orig = now /\ core \in Core  BY <1>2, <1>3
<1> HIDE DEF c, y
<1>7. /\ Good("A", e, now) /\ e.st = "queued" /\ e.core = core /\ ~e.custodySeen
      /\ \A i \in Kinds : Used(e.q[i]) = 0
  BY <1>0, <1>5, <1>6, SubmittedEntry
<1>a. PICK z \in Nat : z = d.steps + 1  BY <1>0 DEF StateType
<1>8. PICK box \in [Keys -> EntryType] : box = [d.box EXCEPT ![k] = e]
  <2>1. e \in EntryType /\ d.box \in [Keys -> EntryType]  BY <1>0, <1>7 DEF StateType, Good
  <2>q. QED BY <2>1
<1>9. s = [d EXCEPT !.now = now, !.steps = z, !.box = box]  BY <1>0, <1>4, <1>8, <1>a DEF StateType
<1>10. box[k] = e /\ \A j \in Keys : j # k => box[j] = At("A", j)  BY <1>0, <1>8 DEF StateType, At
<1>11. PICK u : u = s  OBVIOUS
<1>12. u \in StateType /\ u.now = now /\ u.steps = z /\ u.box = box  BY <1>0, <1>9, <1>11 DEF StateType
<1> HIDE DEF s
<1>13. \A j \in Keys : Good("A", At("A", j), now)  BY <1>0, GoodLater DEF NodeOK, At
<1>14. \A j \in Keys : Good("A", u.box[j], u.now)  BY <1>7, <1>10, <1>12, <1>13
<1>15. u.steps = Cardinality(Present(u))
  <2>1. Present(u) = Present(d) \cup {k} /\ k \notin Present(d)  BY <1>1, <1>7, <1>10, <1>12 DEF Present, At
  <2>2. IsFiniteSet(Present(d)) /\ Cardinality(Present(d)) \in Nat  BY PresentFinite
  <2>3. Cardinality(Present(u)) = Cardinality(Present(d)) + 1  BY <2>1, <2>2, FS_AddElement
  <2>q. QED BY <1>0, <1>a, <1>12, <2>3 DEF NodeOK
<1>16. NodeOK("A", u)  BY <1>12, <1>14, <1>15 DEF NodeOK
<1>17. \A j \in Keys : Turned("A", j, At("A", j), u.box[j])
  BY <1>1, <1>6, <1>7, <1>10, <1>12 DEF Turned, Terminal
<1>18. \A j \in Keys, i \in Kinds : Used(u.box[j].q[i]) >= Used(At("A", j).q[i]) + (IF <<j, i>> \in {} THEN 1 ELSE 0)
  <2>1. \A j \in Keys, i \in Kinds : Used(At("A", j).q[i]) \in Nat
    BY <1>0, UsedIsNat DEF NodeOK, Good, EntryType, At
  <2>2. At("A", k) = Absent  BY <1>1, <1>13 DEF Good
  <2>3. \A i \in Kinds : Used(At("A", k).q[i]) = 0  BY <2>2, AbsentFacts, BlankTypes
  <2>q. QED BY <1>7, <1>10, <1>12, <2>1, <2>3
<1>19. Candidate("A", u, {})  BY <1>12, <1>16, <1>17, <1>18 DEF Candidate
<1>q. QED BY <1>1, <1>11, <1>19

-----------------------------------------------------------------------------
(* The steps *)

\* Every step that changes a node's state commits a candidate.
LEMMA Commits ==
  ASSUME IInv, [Next]_vars
  PROVE  \/ \E n \in Nodes : \E s, earned : Candidate(n, s, earned) /\ Commit(n, s, earned) /\ UNCHANGED <<now, wire, writes>>
         \/ \E n \in Nodes, k \in Keys, kind \in Kinds : Write(n, k, kind)
         \/ \E n \in Nodes : Reopen(n)
         \/ Tick
         \/ UNCHANGED vars
<1>1. ASSUME NEW k \in Keys, NEW body \in Bodies, Submit(k, body)
      PROVE  \E n \in Nodes : \E s, earned : Candidate(n, s, earned) /\ Commit(n, s, earned) /\ UNCHANGED <<now, wire, writes>>
  BY <1>1, SubmitStep DEF Nodes
<1>2. ASSUME NEW n \in Nodes, NEW inputs \in SUBSET {f \in wire : f.to = n},
             NEW links \in [Neighbors(n) -> Reports], StepAccepted(n, inputs, links)
      PROVE  \E s, earned : Candidate(n, s, earned) /\ Commit(n, s, earned) /\ UNCHANGED <<now, wire, writes>>
  <2>1. PICK d1, d2 : d1 = Expired(disk[n], now) /\ d2 = Received(n, d1, inputs, now)  OBVIOUS
  <2>2. PICK adm : Commit(n, Scheduled(n, d2, links, adm), Earned(n, d2, links, adm))  BY <1>2, <2>1 DEF StepAccepted
  <2>3. Acceptable(d1, inputs, now) /\ UNCHANGED <<now, wire, writes>>  BY <1>2, <2>1 DEF StepAccepted
  <2>4. Candidate(n, Scheduled(n, d2, links, adm), Earned(n, d2, links, adm))  BY <2>1, <2>3, StepCandidate
  <2>q. QED BY <2>2, <2>3, <2>4
<1>3. ASSUME NEW n \in Nodes, StepRejected(n)
      PROVE  UNCHANGED vars \/ \E s, earned : Candidate(n, s, earned) /\ Commit(n, s, earned) /\ UNCHANGED <<now, wire, writes>>
  <2>1. UNCHANGED <<disk, halted, failures, grants, refused>> \/ Commit(n, Expired(disk[n], now), {})  BY <1>3 DEF StepRejected
  <2>2. UNCHANGED <<now, wire, writes>>  BY <1>3 DEF StepRejected
  <2>3. Candidate(n, Expired(disk[n], now), {})  BY ExpiredCandidate
  <2>q. QED BY <2>1, <2>2, <2>3 DEF vars
<1>4. ASSUME NEW n \in Nodes, StepNode(n)
      PROVE  UNCHANGED vars \/ \E s, earned : Candidate(n, s, earned) /\ Commit(n, s, earned) /\ UNCHANGED <<now, wire, writes>>
  BY <1>2, <1>3, <1>4 DEF StepNode
<1>q. QED BY <1>1, <1>4 DEF Next

\* A frame is written by an active queue: its node has the message, and
\* whoever queues a delivery fact knows of a delivery.
LEMMA WriteStep ==
  ASSUME IInv, NEW n \in Nodes, NEW k \in Keys, NEW kind \in Kinds, Write(n, k, kind)
  PROVE  IInv'
<1> DEFINE e == At(n, k)
           p == <<k, kind>>
<1>0. Types /\ (\A f \in wire : Wired(f)) /\ (\A j \in Keys : Linked(j)) /\ Budgets  BY DEF IInv
<1>1. UNCHANGED <<now, disk, refused>> /\ grants' = [grants EXCEPT ![n] = @ \ {p}] /\ p \in grants[n]  BY DEF Write
<1>2. \A m, j : At(m, j)' = At(m, j)  BY <1>1 DEF At
<1>3. \/ UNCHANGED <<wire, writes>>
      \/ /\ e.q[kind].status = "active" /\ wire' = wire \cup {Frame(n, kind, k, e.core)}
         /\ writes' = [writes EXCEPT ![n][p] = @ + 1]
  BY DEF Write, At
<1>4. p \in Keys \X Kinds /\ writes[n] \in [Keys \X Kinds -> Nat]  BY <1>0 DEF Types
<1>5. grants' \in [Nodes -> SUBSET (Keys \X Kinds)] /\ grants'[n] = grants[n] \ {p} /\ \A m \in Nodes : m # n => grants'[m] = grants[m]
  BY <1>0, <1>1 DEF Types
<1>6. /\ writes' \in [Nodes -> [Keys \X Kinds -> Nat]]
      /\ \A m \in Nodes, j \in Keys, i \in Kinds :
           \/ writes'[m][<<j, i>>] = writes[m][<<j, i>>]
           \/ m = n /\ <<j, i>> = p /\ writes'[m][<<j, i>>] = writes[m][<<j, i>>] + 1
  <2>1. CASE writes' = writes  BY <1>0, <2>1 DEF Types
  <2>2. CASE writes' = [writes EXCEPT ![n][p] = @ + 1]
    <3> HIDE DEF p
    <3>1. PICK g \in [Keys \X Kinds -> Nat] : g = [writes[n] EXCEPT ![p] = @ + 1]
      <4>1. writes[n][p] + 1 \in Nat  BY <1>4
      <4>q. QED BY <1>4, <4>1
    <3>2. writes' = [writes EXCEPT ![n] = g]  BY <1>0, <2>2, <3>1 DEF Types
    <3>3. \A q \in Keys \X Kinds : g[q] = IF q = p THEN writes[n][p] + 1 ELSE writes[n][q]  BY <1>4, <3>1
    <3>4. \A j \in Keys, i \in Kinds : <<j, i>> \in Keys \X Kinds  OBVIOUS
    <3>5. writes' \in [Nodes -> [Keys \X Kinds -> Nat]] /\ writes'[n] = g /\ \A m \in Nodes : m # n => writes'[m] = writes[m]
      BY <1>0, <3>2 DEF Types
    <3>q. QED BY <3>3, <3>4, <3>5
  <2>q. QED BY <1>3, <2>1, <2>2
<1>7. ASSUME NEW m \in Nodes, NEW j \in Keys, NEW i \in Kinds  PROVE Budget(m, j, i)'
  <2>0. Budget(m, j, i) /\ At(m, j)' = At(m, j) /\ writes[m][<<j, i>>] \in Nat /\ Used(At(m, j).q[i]) \in Nat
    <3>1. writes[m] \in [Keys \X Kinds -> Nat] /\ <<j, i>> \in Keys \X Kinds  BY <1>0 DEF Types
    <3>2. Used(At(m, j).q[i]) \in Nat  BY <1>0, UsedIsNat DEF Types, NodeOK, Good, EntryType, At
    <3>q. QED BY <1>0, <1>2, <3>1, <3>2 DEF Budgets
  <2>1. CASE m = n /\ <<j, i>> = p
    <3>1. <<j, i>> \in grants[m] /\ <<j, i>> \notin grants'[m]  BY <1>1, <1>5, <2>1
    <3>2. writes'[m][<<j, i>>] = writes[m][<<j, i>>] \/ writes'[m][<<j, i>>] = writes[m][<<j, i>>] + 1  BY <1>6
    <3>q. QED BY <2>0, <3>1, <3>2 DEF Budget
  <2>2. CASE ~(m = n /\ <<j, i>> = p)
    <3>1. writes'[m][<<j, i>>] = writes[m][<<j, i>>] /\ (<<j, i>> \in grants'[m] <=> <<j, i>> \in grants[m])
      BY <1>5, <1>6, <2>2
    <3>q. QED BY <2>0, <3>1 DEF Budget
  <2>q. QED BY <2>1, <2>2
<1>8. ASSUME e.q[kind].status = "active"  PROVE Wired(Frame(n, kind, k, e.core))
  <2>0. Good(n, e, disk[n].now) /\ Linked(k)  BY <1>0 DEF Types, NodeOK, At
  <2>1. e.st # "absent"  BY <1>8, <2>0, AbsentFacts DEF Good, NoQueue
  <2>2. ValidEntry(n, e, disk[n].now)  BY <2>0, <2>1 DEF Good
  <2>3. kind \in KindsOf(n) /\ ValidQueue(n, e, kind, disk[n].now)  BY <1>8, <2>2 DEF ValidEntry
  <2>4. kind = "delivery" => e.st \in {"committed", "destination_delivered"}  BY <1>8, <2>3 DEF ValidQueue
  <2>5. kind = "delivery" => At("C", k).st # "absent"
    BY <2>0, <2>1, <2>2, <2>3, <2>4 DEF Linked, Nodes, ValidEntry, KindsOf
  <2>6. At("A", k).st # "absent" /\ e.core = At("A", k).core  BY <2>0, <2>1 DEF Linked, Nodes
  <2>7. PICK f : f = Frame(n, kind, k, e.core)  OBVIOUS
  <2>8. f.from = n /\ f.to = Target(n, kind) /\ f.kind = kind /\ f.key = k /\ f.core = e.core  BY <2>7 DEF Frame
  <2>9. Wired(f)  BY <2>1, <2>3, <2>5, <2>6, <2>8 DEF Wired
  <2>q. QED BY <2>7, <2>9
<1>9. ASSUME NEW f \in wire'  PROVE Wired(f)'
  <2>1. Wired(f)  BY <1>0, <1>3, <1>8
  <2>q. QED BY <1>2, <2>1 DEF Wired
<1>10. Types'  BY <1>0, <1>1, <1>5, <1>6 DEF Types
<1>11. \A j \in Keys : Linked(j)'  BY <1>0, <1>2 DEF Linked
<1>12. Budgets'  BY <1>7 DEF Budgets
<1>q. QED BY <1>1, <1>9, <1>10, <1>11, <1>12 DEF IInv

LEMMA ReopenStep ==
  ASSUME IInv, NEW n \in Nodes, Reopen(n)
  PROVE  IInv'
<1>0. Types /\ (\A f \in wire : Wired(f)) /\ (\A j \in Keys : Linked(j)) /\ Budgets  BY DEF IInv
<1>1. UNCHANGED <<now, disk, wire, writes, refused>> /\ grants' = [grants EXCEPT ![n] = {}]  BY DEF Reopen
<1>2. grants' \in [Nodes -> SUBSET (Keys \X Kinds)] /\ \A m \in Nodes : grants'[m] \subseteq grants[m]
  BY <1>0, <1>1 DEF Types
<1>3. \A m, j : At(m, j)' = At(m, j)  BY <1>1 DEF At
<1>4. ASSUME NEW m \in Nodes, NEW j \in Keys, NEW i \in Kinds  PROVE Budget(m, j, i)'
  <2>1. writes[m] \in [Keys \X Kinds -> Nat] /\ <<j, i>> \in Keys \X Kinds  BY <1>0 DEF Types
  <2>2. Used(At(m, j).q[i]) \in Nat  BY <1>0, UsedIsNat DEF Types, NodeOK, Good, EntryType, At
  <2>3. Budget(m, j, i)  BY <1>0 DEF Budgets
  <2>q. QED BY <1>1, <1>2, <1>3, <2>1, <2>2, <2>3 DEF Budget
<1>5. Types' /\ (\A f \in wire' : Wired(f)') /\ (\A j \in Keys : Linked(j)')
  BY <1>0, <1>1, <1>2, <1>3 DEF Types, Wired, Linked
<1>q. QED BY <1>1, <1>4, <1>5 DEF IInv, Budgets

LEMMA TickStep ==
  ASSUME IInv, Tick
  PROVE  IInv'
<1>0. Types /\ (\A f \in wire : Wired(f)) /\ (\A j \in Keys : Linked(j)) /\ Budgets  BY DEF IInv
<1>1. UNCHANGED <<disk, grants, wire, writes, refused>> /\ now' \in Instants /\ now' > now /\ now' \in Nat
  BY RelayAssumption DEF Tick
<1>2. \A n \in Nodes : disk[n].now \in Nat  BY <1>0 DEF Types, NodeOK, StateType
<1>3. Types'
  <2>1. \A n \in Nodes : NodeOK(n, disk[n])' /\ disk'[n].now <= now'
    <3>1. now \in Nat /\ disk' = disk /\ \A n \in Nodes : NodeOK(n, disk[n]) /\ disk[n].now <= now  BY <1>0, <1>1 DEF Types
    <3>2. \A n \in Nodes : disk'[n].now <= now'  BY <1>1, <1>2, <3>1
    <3>q. QED BY <3>1, <3>2
  <2>2. /\ DOMAIN disk' = Nodes /\ disk' = [n \in Nodes |-> disk'[n]]
        /\ grants' \in [Nodes -> SUBSET (Keys \X Kinds)] /\ writes' \in [Nodes -> [Keys \X Kinds -> Nat]]
    BY <1>0, <1>1 DEF Types
  <2>q. QED BY <1>1, <2>1, <2>2 DEF Types
<1>4. Budgets' /\ (\A f \in wire' : Wired(f)') /\ (\A j \in Keys : Linked(j)')
  BY <1>0, <1>1 DEF Budgets, Budget, Wired, Linked, At
<1>q. QED BY <1>1, <1>3, <1>4 DEF IInv

LEMMA InitIInv == Init => IInv
<1> SUFFICES ASSUME Init  PROVE IInv  OBVIOUS
<1>1. PICK box \in [Keys -> EntryType] : box = [k \in Keys |-> Absent]  BY AbsentFacts
<1>2. NewState = [now |-> 0, steps |-> 0, box |-> box]  BY <1>1 DEF NewState
<1>3. NewState \in StateType /\ NewState.now = 0 /\ NewState.steps = 0 /\ NewState.box = box
  BY <1>2 DEF StateType
<1>4. \A k \in Keys : NewState.box[k] = Absent  BY <1>1, <1>3
<1>5. Present(NewState) = {}  BY <1>4, AbsentFacts DEF Present
<1>6. \A n \in Nodes : NodeOK(n, NewState)  BY <1>3, <1>4, <1>5, AbsentFacts, FS_EmptySet DEF NodeOK
<1>7. disk = [n \in Nodes |-> NewState] /\ now = 0 /\ wire = {} /\ refused = {}  BY DEF Init
<1>8. \A n \in Nodes : disk[n] = NewState  BY <1>7
<1>9. \A n \in Nodes, k \in Keys : At(n, k) = Absent  BY <1>4, <1>8 DEF At
<1>10. Types
  <2>1. grants \in [Nodes -> SUBSET (Keys \X Kinds)]  BY DEF Init
  <2>2. writes \in [Nodes -> [Keys \X Kinds -> Nat]]
    <3>1. [p \in Keys \X Kinds |-> 0] \in [Keys \X Kinds -> Nat]  OBVIOUS
    <3>q. QED BY <3>1 DEF Init
  <2>3. now \in Instants /\ now \in Nat  BY <1>7, RelayAssumption
  <2>4. \A n \in Nodes : NodeOK(n, disk[n]) /\ disk[n].now <= now  BY <1>3, <1>6, <1>7, <1>8
  <2>q. QED BY <1>7, <2>1, <2>2, <2>3, <2>4 DEF Types
<1>11. \A k \in Keys : Linked(k)  BY <1>9, AbsentFacts DEF Linked, Nodes
<1>12. Cardinality(Present(disk["A"])) <= MaxActions
  <2>1. disk["A"] = NewState  BY <1>8 DEF Nodes
  <2>q. QED BY <1>5, <2>1, FS_EmptySet, RelayAssumption
<1>13. Budgets
  <2>1. ASSUME NEW n \in Nodes, NEW k \in Keys, NEW i \in Kinds  PROVE Budget(n, k, i)
    <3>1. grants[n] = {} /\ writes[n] = [p \in Keys \X Kinds |-> 0] /\ <<k, i>> \in Keys \X Kinds  BY DEF Init
    <3>2. Used(At(n, k).q[i]) = 0  BY <1>9, AbsentFacts, BlankTypes
    <3>3. writes[n][<<k, i>>] = 0 /\ <<k, i>> \notin grants[n]  BY <3>1
    <3>q. QED BY <3>2, <3>3 DEF Budget
  <2>q. QED BY <2>1 DEF Budgets
<1>q. QED BY <1>7, <1>10, <1>11, <1>12, <1>13 DEF IInv

LEMMA StepIInv == IInv /\ [Next]_vars => IInv'
<1> SUFFICES ASSUME IInv, [Next]_vars  PROVE IInv'  OBVIOUS
<1>1. CASE \E n \in Nodes : \E s, earned : Candidate(n, s, earned) /\ Commit(n, s, earned) /\ UNCHANGED <<now, wire, writes>>
  BY <1>1, CommitStep
<1>2. CASE \E n \in Nodes, k \in Keys, kind \in Kinds : Write(n, k, kind)  BY <1>2, WriteStep
<1>3. CASE \E n \in Nodes : Reopen(n)  BY <1>3, ReopenStep
<1>4. CASE Tick  BY <1>4, TickStep
<1>5. CASE UNCHANGED vars
  BY <1>5 DEF vars, IInv, Types, Wired, Linked, Budgets, Budget, At
<1>q. QED BY <1>1, <1>2, <1>3, <1>4, <1>5, Commits

LEMMA Always == Spec => []IInv
BY InitIInv, StepIInv, PTL DEF Spec

-----------------------------------------------------------------------------
(* The promise of the chain *)

\* A commit changes, of what the promise is about, one entry per key.
LEMMA CommitPromise ==
  ASSUME IInv, NEW n \in Nodes, NEW s, NEW earned, Candidate(n, s, earned), disk' = [disk EXCEPT ![n] = s],
         NEW k \in Keys
  PROVE  \/ Promise!Same(k) \/ Promise!Accept(k) \/ Promise!Arrive(k)
         \/ Promise!Confirm(k) \/ Promise!GiveUp(k)
<1> DEFINE a == At("A", k)
           c == At("C", k)
           x == s.box[k]
<1>0. /\ Types /\ Linked(k) /\ NodeOK(n, s) /\ s.now = now /\ Turned(n, k, At(n, k), x)
      /\ "A" \in Nodes /\ "C" \in Nodes /\ now \in Nat
  BY DEF IInv, Types, Candidate, Nodes
<1>1. /\ n = "A" => a' = x /\ c' = c
      /\ n = "B" => a' = a /\ c' = c
      /\ n = "C" => a' = a /\ c' = x
  BY <1>0 DEF At, Types
<1>2. Good("A", a, disk["A"].now) /\ Good("C", c, disk["C"].now) /\ Good(n, x, now)
  BY <1>0 DEF Types, NodeOK, At
<1>3. Due(a.core) \in Nat /\ Due(x.core) \in Nat  BY <1>2, RelayAssumption DEF Good, EntryType, CoreType, Due
<1>4. CASE n = "A"
  <2>1. At(n, k) = a  BY <1>4
  <2>2. CASE a.st = "absent" /\ x.st = "absent"
    <3>1. a = x  BY <1>2, <2>2 DEF Good
    <3>q. QED BY <1>1, <1>4, <3>1 DEF Promise!Same, At
  <2>3. CASE a.st = "absent" /\ x.st # "absent"
    <3>1. x.st = "queued" /\ x.core \in Core /\ x.core.orig = now  BY <1>0, <1>4, <2>1, <2>3 DEF Turned
    <3>2. OriginView(a) = "none" /\ OriginView(x) = "pending"  BY <2>3, <3>1 DEF OriginView
    <3>q. QED BY <1>1, <1>4, <3>1, <3>2 DEF Promise!Accept, At
  <2>4. CASE a.st # "absent"
    <3>1. x.st # "absent" /\ x.core = a.core  BY <1>0, <2>1, <2>4 DEF Turned
    <3>2. x.st \in {"queued", "destination_delivered", "expired"} /\ a.st \in {"queued", "destination_delivered", "expired"}
      BY <1>2, <1>4, <2>4, <3>1 DEF Good, ValidEntry
    <3>3. CASE x.st = a.st
      <4>1. OriginView(x) = OriginView(a)  BY <3>3 DEF OriginView
      <4>q. QED BY <1>1, <1>4, <3>1, <4>1 DEF Promise!Same, At
    <3>4. CASE a.st = "queued" /\ x.st = "destination_delivered"
      <4>1. c.st # "absent" /\ now < Due(x.core)  BY <1>0, <2>1, <3>4 DEF Turned
      <4>2. c.core = a.core  BY <1>0, <4>1 DEF Linked
      <4>3. OriginView(a) = "pending" /\ OriginView(x) = "delivered"  BY <3>4 DEF OriginView
      <4>q. QED BY <1>1, <1>4, <3>1, <4>1, <4>2, <4>3 DEF Promise!Confirm, At
    <3>5. CASE a.st = "queued" /\ x.st = "expired"
      <4>1. now >= Due(x.core)  BY <1>2, <1>4, <3>5 DEF Good, Tracked
      <4>2. OriginView(a) = "pending" /\ OriginView(x) = "expired"  BY <3>5 DEF OriginView
      <4>q. QED BY <1>1, <1>4, <3>1, <4>1, <4>2 DEF Promise!GiveUp, At
    <3>q. QED BY <1>0, <2>1, <3>2, <3>3, <3>4, <3>5 DEF Turned, Terminal
  <2>q. QED BY <2>2, <2>3, <2>4
<1>5. CASE n = "B"  BY <1>1, <1>5 DEF Promise!Same, At
<1>6. CASE n = "C"
  <2>1. At(n, k) = c  BY <1>6
  <2>2. CASE c.st = "absent" /\ x.st # "absent"
    <3>1. a.st # "absent" /\ x.core = a.core /\ now < Due(x.core)  BY <1>0, <1>6, <2>1, <2>2 DEF Turned
    <3>2. c.core = NoCore  BY <1>2, <2>2, AbsentFacts DEF Good
    <3>3. OriginView(a) # "none"  BY <1>2, <3>1 DEF OriginView, Good, ValidEntry
    <3>q. QED BY <1>1, <1>6, <3>1, <3>2, <3>3 DEF Promise!Arrive, At
  <2>3. CASE ~(c.st = "absent" /\ x.st # "absent")
    <3>1. x.core = c.core  BY <1>0, <1>2, <2>1, <2>3 DEF Turned, Good
    <3>q. QED BY <1>1, <1>6, <3>1 DEF Promise!Same, At
  <2>q. QED BY <2>2, <2>3
<1>q. QED BY <1>4, <1>5, <1>6 DEF Nodes

-----------------------------------------------------------------------------
(* Results *)

\* Frames written and transmissions available never exceed the opportunities
\* the node's store has consumed.
THEOREM BudgetIsKept == Spec => []WriteBudget
<1>1. IInv => WriteBudget  BY BudgetByEntry DEF IInv
<1>q. QED BY <1>1, Always, PTL

\* The chain agrees on what a key stands for, and validate refuses nothing that
\* the operations produce but a submission over the origin's quota.
THEOREM ChainIsCoherent == Spec => []ChainCoherent
<1>1. IInv => ChainCoherent
  <2> SUFFICES ASSUME IInv  PROVE ChainCoherent  OBVIOUS
  <2>1. \A f \in wire : At("A", f.key).core = f.core  BY DEF IInv, Wired
  <2>2. \A n \in {"B", "C"} : \A k \in Present(disk[n]) : At(n, k).core = At("A", k).core
    BY DEF IInv, Linked, Present, At
  <2>q. QED BY <2>1, <2>2 DEF IInv, ChainCoherent
<1>q. QED BY <1>1, Always, PTL

\* Whenever the origin is silent because of a custody fact, the relay carries
\* the message, or the destination has it, or its deadline has passed.
THEOREM NoGapInCustody == Spec => []NoCustodyGap
<1>1. IInv => NoCustodyGap
  <2> SUFFICES ASSUME IInv, NEW k \in Keys, At("A", k).custodySeen
               PROVE  \/ /\ At("B", k).st = "custody_held" /\ At("B", k).body
                         /\ At("B", k).q["data"].status \in {"active", "schedule_limit"}
                      \/ At("B", k).st = "destination_delivered" /\ At("C", k).st = "committed"
                      \/ At("B", k).st = "expired" /\ now >= Due(At("B", k).core)
    BY DEF NoCustodyGap
  <2> DEFINE e == At("B", k)
  <2>0. Types /\ Linked(k) /\ "B" \in Nodes /\ "C" \in Nodes  BY DEF IInv, Nodes
  <2>1. e.st # "absent"  BY <2>0 DEF Linked
  <2>2. Good("B", e, disk["B"].now) /\ disk["B"].now <= now /\ disk["B"].now \in Nat /\ now \in Nat
    BY <2>0 DEF Types, NodeOK, StateType, At
  <2>3. ValidEntry("B", e, disk["B"].now) /\ Tracked("B", e, disk["B"].now) /\ Due(e.core) \in Nat
    BY <2>1, <2>2, RelayAssumption DEF Good, EntryType, CoreType, Due
  <2> HIDE DEF e
  <2>4. CASE e.st = "custody_held"  BY <2>3, <2>4 DEF ValidEntry, Tracked, Terminal, e
  <2>5. CASE e.st = "destination_delivered"
    <3>1. At("C", k).st # "absent"  BY <2>0, <2>5 DEF Linked, e
    <3>2. Good("C", At("C", k), disk["C"].now)  BY <2>0 DEF Types, NodeOK, At
    <3>q. QED BY <2>5, <3>1, <3>2 DEF Good, ValidEntry, e
  <2>6. CASE e.st = "expired"  BY <2>2, <2>3, <2>6 DEF Tracked, e
  <2>q. QED BY <2>3, <2>4, <2>5, <2>6 DEF ValidEntry
<1>q. QED BY <1>1, Always, PTL

\* The chain implements the promise to the user of the origin: every step of a
\* node, the clock or the wire is a step of DeliveryPromise or leaves its state
\* alone.
THEOREM ChainKeepsPromise == Spec => PromiseKept
<1>1. Init => Promise!PromiseInit
  <2> SUFFICES ASSUME Init  PROVE Promise!PromiseInit  OBVIOUS
  <2>1. \A k \in Keys : disk["A"].box[k] = Absent /\ disk["C"].box[k] = Absent  BY DEF Init, NewState, Nodes
  <2>2. \A k \in Keys : OriginView(disk["A"].box[k]) = "none"  BY <2>1, AbsentFacts DEF OriginView
  <2>q. QED BY <2>1, <2>2, AbsentFacts DEF Init, Promise!PromiseInit
<1>2. IInv /\ [Next]_vars => [Promise!Settle \/ Promise!Elapse]_(Promise!pvars)
  <2> SUFFICES ASSUME IInv, [Next]_vars  PROVE [Promise!Settle \/ Promise!Elapse]_(Promise!pvars)  OBVIOUS
  <2>1. CASE now' = now /\ disk' = disk  BY <2>1 DEF Promise!pvars
  <2>2. ASSUME NEW n \in Nodes, NEW s, NEW earned, Candidate(n, s, earned), Commit(n, s, earned), now' = now
        PROVE  [Promise!Settle \/ Promise!Elapse]_(Promise!pvars)
    <3>1. disk' = disk \/ disk' = [disk EXCEPT ![n] = s]  BY <2>2 DEF Commit
    <3>2. CASE disk' = [disk EXCEPT ![n] = s]
      <4>1. \A k \in Keys : \/ Promise!Same(k) \/ Promise!Accept(k) \/ Promise!Arrive(k)
                            \/ Promise!Confirm(k) \/ Promise!GiveUp(k)
        BY <2>2, <3>2, CommitPromise
      <4>q. QED BY <2>2, <4>1 DEF Promise!Settle
    <3>q. QED BY <2>1, <2>2, <3>1, <3>2
  <2>3. CASE Tick
    <3>1. now' \in Instants /\ now' > now /\ disk' = disk  BY <2>3 DEF Tick
    <3>q. QED BY <3>1 DEF Promise!Elapse
  <2>4. (\E n \in Nodes, k \in Keys, kind \in Kinds : Write(n, k, kind)) \/ (\E n \in Nodes : Reopen(n)) \/ UNCHANGED vars
          => now' = now /\ disk' = disk
    BY DEF Write, Reopen, vars
  <2>q. QED BY <2>1, <2>2, <2>3, <2>4, Commits
<1>q. QED BY <1>1, <1>2, Always, PTL DEF Spec, PromiseKept, Promise!PromiseSpec

=============================================================================
