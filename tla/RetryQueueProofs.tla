-------------------------- MODULE RetryQueueProofs --------------------------
(***************************************************************************)
(* Proofs about RetryQueue, for every start, deadline, initial link, set   *)
(* of batches and ledger bound.                                            *)
(***************************************************************************)
EXTENDS RetryQueue, TLAPS

-----------------------------------------------------------------------------
(* Facts about Advance *)

\* The loop over the offsets stops at exactly one place: every slot it passed
\* was due and the next one is not.
LEMMA NextSlotStops ==
  ASSUME NEW s \in RetryState, NEW b \in RetryBatch
  PROVE  /\ NextSlot(s, b) \in s.nextSlot..MaxSlots
         /\ \A i \in (s.nextSlot + 1)..NextSlot(s, b) : SlotDue(s, i, b.now)
<1> DEFINE P(k) == /\ \A i \in (s.nextSlot + 1)..k : SlotDue(s, i, b.now)
                   /\ k < MaxSlots => ~SlotDue(s, k + 1, b.now)
<1>1. s.nextSlot \in 0..5 /\ s.nextSlot \in Int
  BY DEF RetryState, MaxSlots
<1>2. CASE ~Running(s, b)
  BY <1>1, <1>2 DEF NextSlot, MaxSlots
<1>3. CASE Running(s, b)
  <2>1. \E k \in s.nextSlot..MaxSlots : P(k)
    <3> DEFINE D(i) == SlotDue(s, i, b.now)
    <3> HIDE DEF D
    <3>1. \E k \in s.nextSlot..5 : /\ \A i \in (s.nextSlot + 1)..k : D(i)
                                   /\ k < 5 => ~D(k + 1)
      <4> DEFINE E(n) == \E k \in n..5 :
                        /\ \A i \in (n + 1)..k : D(i)
                        /\ k < 5 => ~D(k + 1)
      <4>1. E(5)  OBVIOUS
      <4>2. ASSUME NEW n \in 0..4, E(n + 1) PROVE E(n)
        <5>1. CASE ~D(n + 1)  BY <5>1
        <5>2. CASE D(n + 1)   BY <4>2, <5>2
        <5>q. QED BY <5>1, <5>2
      <4> HIDE DEF E
      <4>3. E(4) /\ E(3) /\ E(2) /\ E(1) /\ E(0)
        <5>1. E(4)  BY <4>1, <4>2
        <5>2. E(3)  BY <5>1, <4>2
        <5>3. E(2)  BY <5>2, <4>2
        <5>4. E(1)  BY <5>3, <4>2
        <5>5. E(0)  BY <5>4, <4>2
        <5>q. QED BY <5>1, <5>2, <5>3, <5>4, <5>5
      <4>4. E(s.nextSlot)  BY <1>1, <4>1, <4>3
      <4>q. QED BY <4>4 DEF E
    <3>q. QED BY <3>1 DEF D, MaxSlots
  <2> HIDE DEF P
  <2>2. NextSlot(s, b) = CHOOSE k \in s.nextSlot..MaxSlots : P(k)
    BY <1>3 DEF NextSlot, P
  <2>3. NextSlot(s, b) \in s.nextSlot..MaxSlots /\ P(NextSlot(s, b))
    BY <2>1, <2>2
  <2>q. QED BY <2>3 DEF P
<1>q. QED BY <1>2, <1>3

\* The bound a consumed slot gives on the time.
LEMMA SlotPace ==
  ASSUME NEW s \in RetryState, NEW b \in RetryBatch,
         s.nextSlot > 0 => s.last.now >= s.start + Offsets[s.nextSlot],
         Fresh(s, b)
  PROVE  NextSlot(s, b) > 0 => b.now >= s.start + Offsets[NextSlot(s, b)]
<1> DEFINE k == NextSlot(s, b)
<1>1. /\ k \in s.nextSlot..MaxSlots
      /\ \A i \in (s.nextSlot + 1)..k : SlotDue(s, i, b.now)
  BY NextSlotStops
<1>2. /\ s.nextSlot \in 0..5 /\ s.start \in Nat /\ b.now \in Nat
      /\ s.last.now \in Int
  BY DEF RetryState, RetryBatch, NoBatch, MaxSlots
<1>3. CASE k = s.nextSlot
  <2>1. \A i \in 1..5 : Offsets[i] \in Nat  BY DEF Offsets
  <2>q. QED BY <1>2, <1>3, <2>1 DEF Fresh
<1>4. CASE k > s.nextSlot
  <2>1. SlotDue(s, k, b.now)  BY <1>1, <1>2, <1>4 DEF MaxSlots
  <2>2. Offsets[k] \in Nat    BY <1>1, <1>2, <1>4 DEF Offsets, MaxSlots
  <2>q. QED BY <2>1, <2>2, <1>2 DEF SlotDue
<1>q. QED BY <1>1, <1>2, <1>3, <1>4 DEF MaxSlots

\* Advance maps states to states.
LEMMA AdvanceType ==
  ASSUME NEW s \in RetryState, NEW b \in RetryBatch
  PROVE  Advance(s, b) \in RetryState
<1>1. NextSlot(s, b) \in 0..MaxSlots
  BY NextSlotStops DEF RetryState, MaxSlots
<1>2. NextPhase(s, b) \in Phases
  BY DEF NextPhase, Phases, RetryState
<1>3. NextLink(s, b) \in LinkStates
  BY DEF NextLink, LinkStates, RetryState
<1>4. (s.recoveryUsed \/ RecoveryConsumed(s, b)) \in BOOLEAN
  BY Zenon DEF RecoveryConsumed, RetryState
<1> HIDE DEF Phases
<1>q. QED BY <1>1, <1>2, <1>3, <1>4 DEF Advance, RetryState

\* A send needs a running queue inside its window, an admitted batch, and a
\* link that this batch did not take down.
LEMMA SendFacts ==
  ASSUME NEW s \in RetryState, NEW b \in RetryBatch, Send(s, b)
  PROVE  /\ s.phase = "active" /\ b.signal = "continue"
         /\ b.now < s.deadline /\ s.start <= b.now
         /\ b.admission = "admit" /\ b.link # "became_down"
<1>1. Attempt(s, b) /\ NextLink(s, b) = "up" /\ b.admission = "admit"
  BY DEF Send
<1>2. s.nextSlot \in 0..5 /\ s.start \in Nat /\ b.now \in Nat /\ s.deadline \in Nat
  BY DEF RetryState, RetryBatch, MaxSlots
<1>3. Running(s, b)
  <2>1. ~Running(s, b) => ~Attempt(s, b)
    BY <1>2 DEF Attempt, TimedSlotsConsumed, NextSlot, RecoveryConsumed
  <2>q. QED BY <1>1, <2>1
<1>4. s.phase = "active" /\ b.signal = "continue" /\ b.now < s.deadline
  BY <1>2, <1>3 DEF Running, NextPhase, RetryState, RetryBatch, Phases, Signals
<1>5. b.link # "became_down"
  BY <1>1, <1>3 DEF NextLink
<1>6. s.start <= b.now
  <2>1. CASE RecoveryConsumed(s, b)
    BY <2>1, <1>2 DEF RecoveryConsumed
  <2>2. CASE TimedSlotsConsumed(s, b) > 0
    <3> DEFINE k == NextSlot(s, b)
    <3>1. /\ k \in s.nextSlot..MaxSlots
          /\ \A i \in (s.nextSlot + 1)..k : SlotDue(s, i, b.now)
      BY NextSlotStops
    <3>2. k \in 1..5 /\ SlotDue(s, k, b.now)
      BY <3>1, <2>2, <1>2 DEF TimedSlotsConsumed, MaxSlots
    <3>3. Offsets[k] \in Nat  BY <3>2 DEF Offsets
    <3>q. QED BY <3>2, <3>3, <1>2 DEF SlotDue
  <2>q. QED BY <1>1, <2>1, <2>2 DEF Attempt
<1>q. QED BY <1>1, <1>4, <1>5, <1>6

-----------------------------------------------------------------------------
(* Replay.  Its value is a recursive function; the two facts below say that *)
(* such a function exists for the ledger and that each one ends in rs.      *)
(* They are preserved by Append, so the induction over the ledger is the    *)
(* induction over the behaviour.                                            *)

RunOf(f, l) ==
  f = [i \in 0..Len(l) |-> IF i = 0 THEN Fresh0 ELSE Advance(f[i - 1], l[i])]

ReplayRuns ==
  /\ \E f : RunOf(f, ledger)
  /\ \A f : RunOf(f, ledger) => f[Len(ledger)] = rs

\* Replay returns the last value of a run.
LEMMA ReplayIsRun ==
  ASSUME NEW l, \E f : RunOf(f, l)
  PROVE  \E f : RunOf(f, l) /\ Replay(l) = f[Len(l)]
<1> DEFINE run == CHOOSE f : RunOf(f, l)
<1>1. RunOf(run, l)  OBVIOUS
<1>2. Replay(l) = run[Len(l)]  BY DEF Replay, RunOf
<1>q. QED BY <1>1, <1>2

\* The runs of a ledger extended by one batch extend the runs of the ledger.
LEMMA RunExtends ==
  ASSUME NEW l \in Seq(RetryBatch), NEW b \in RetryBatch, NEW r,
         \E f : RunOf(f, l),
         \A f : RunOf(f, l) => f[Len(l)] = r
  PROVE  /\ \E g : RunOf(g, Append(l, b))
         /\ \A g : RunOf(g, Append(l, b)) => g[Len(l) + 1] = Advance(r, b)
<1> DEFINE n == Len(l)  m == Append(l, b)
<1>1. /\ n \in Nat /\ Len(m) = n + 1 /\ m[n + 1] = b
      /\ \A i \in 1..n : m[i] = l[i]
  OBVIOUS
<1> HIDE DEF m, n
<1>2. PICK f : RunOf(f, l)  OBVIOUS
<1>3. /\ f[n] = r
      /\ f = [i \in 0..n |-> IF i = 0 THEN Fresh0 ELSE Advance(f[i - 1], l[i])]
  BY <1>2 DEF RunOf, n
<1>4. \E g : RunOf(g, m)
  <2> DEFINE g == [i \in 0..(n + 1) |-> IF i = n + 1 THEN Advance(r, b) ELSE f[i]]
  <2>1. ASSUME NEW i \in 0..(n + 1)
        PROVE  g[i] = IF i = 0 THEN Fresh0 ELSE Advance(g[i - 1], m[i])
    <3>1. CASE i = 0
      <4>1. g[i] = f[0]  BY <1>1, <3>1
      <4>2. f[0] = Fresh0  BY <1>1, <1>3
      <4>q. QED BY <3>1, <4>1, <4>2
    <3>2. CASE i = n + 1
      <4>1. g[i - 1] = r  BY <1>1, <1>3, <3>2
      <4>2. g[i] = Advance(r, b)  BY <3>2, <1>1
      <4>3. m[i] = b /\ i # 0  BY <3>2, <1>1
      <4>q. QED BY <4>1, <4>2, <4>3
    <3>3. CASE i \in 1..n
      <4>1. g[i] = f[i] /\ g[i - 1] = f[i - 1]  BY <1>1, <3>3
      <4>2. f[i] = Advance(f[i - 1], l[i])  BY <1>1, <1>3, <3>3
      <4>3. m[i] = l[i] /\ i # 0  BY <1>1, <3>3
      <4>q. QED BY <4>1, <4>2, <4>3
    <3>q. QED BY <1>1, <3>1, <3>2, <3>3
  <2>2. g = [i \in 0..(n + 1) |-> IF i = 0 THEN Fresh0 ELSE Advance(g[i - 1], m[i])]
    <3> DEFINE h == [i \in 0..(n + 1) |-> IF i = 0 THEN Fresh0 ELSE Advance(g[i - 1], m[i])]
    <3>1. \A i \in 0..(n + 1) : g[i] = h[i]  BY <2>1
    <3>2. DOMAIN g = DOMAIN h  OBVIOUS
    <3> HIDE DEF g
    <3>3. g = [i \in 0..(n + 1) |-> g[i]]  BY DEF g
    <3>q. QED BY <3>1, <3>3
  <2> HIDE DEF g
  <2>3. RunOf(g, m)  BY <1>1, <2>2 DEF RunOf
  <2>q. QED BY <2>3
<1>5. ASSUME NEW g, RunOf(g, m)  PROVE g[n + 1] = Advance(r, b)
  <2>1. g = [i \in 0..(n + 1) |-> IF i = 0 THEN Fresh0 ELSE Advance(g[i - 1], m[i])]
    BY <1>1, <1>5 DEF RunOf
  <2> DEFINE f2 == [i \in 0..n |-> g[i]]
  <2>2. \A i \in 0..n : f2[i] = IF i = 0 THEN Fresh0 ELSE Advance(f2[i - 1], l[i])
    <3> SUFFICES ASSUME NEW i \in 0..n
                 PROVE  f2[i] = IF i = 0 THEN Fresh0 ELSE Advance(f2[i - 1], l[i])
      OBVIOUS
    <3>1. CASE i = 0   BY <3>1, <2>1, <1>1
    <3>2. CASE i \in 1..n
      <4>1. g[i] = Advance(g[i - 1], m[i])  BY <2>1, <1>1, <3>2
      <4>2. f2[i] = g[i] /\ f2[i - 1] = g[i - 1] /\ m[i] = l[i] /\ i # 0
        BY <1>1, <3>2
      <4>q. QED BY <4>1, <4>2
    <3>q. QED BY <1>1, <3>1, <3>2
  <2>3. f2[n] = g[n]  BY <1>1
  <2>4. f2 = [i \in 0..n |-> f2[i]]  OBVIOUS
  <2> HIDE DEF f2
  <2>5. RunOf(f2, l)  BY <2>2, <2>4 DEF RunOf, n
  <2>6. g[n] = r  BY <2>3, <2>5 DEF n
  <2>7. g[n + 1] = Advance(g[n], m[n + 1])  BY <1>1, <2>1
  <2>q. QED BY <2>6, <2>7, <1>1
<1>q. QED BY <1>4, <1>5 DEF m, n

-----------------------------------------------------------------------------
(* The inductive invariant *)

\* The window of the queue never moves.
Window == rs.start = Start /\ rs.deadline = Deadline

\* A link that is down went down in the ledger, or was down to begin with.
DownLedgered ==
  rs.link = "down" =>
    InitialLink = "down" \/ \E j \in 1..Len(ledger) : ledger[j].link = "became_down"

IInv ==
  /\ TypeOK /\ Window /\ ReplayRuns
  /\ AttemptBudget /\ SlotNeverEarly
  /\ SendInWindow /\ SendLedgered
  /\ DownLedgered /\ RecoveryNeedsOutage

\* A restart reads back exactly the state the decisions were made from.
LEMMA ReplayIsState == IInv => Replay(ledger) = rs
<1> SUFFICES ASSUME IInv PROVE Replay(ledger) = rs  OBVIOUS
<1>1. PICK f : RunOf(f, ledger) /\ Replay(ledger) = f[Len(ledger)]
  BY ReplayIsRun DEF IInv, ReplayRuns
<1>q. QED BY <1>1 DEF IInv, ReplayRuns

LEMMA InitIInv == Init => IInv
<1> SUFFICES ASSUME Init PROVE IInv  OBVIOUS
<1> USE QueueAssumption DEF Init
<1>1. rs \in RetryState
  BY DEF Fresh0, NewRetryState, RetryState, MaxSlots, Phases, LinkStates
<1>2. TypeOK
  <2>1. ledger \in Seq(RetryBatch) /\ Len(ledger) <= MaxLedger  OBVIOUS
  <2>2. limited \in BOOLEAN  BY Zenon
  <2>q. QED BY <1>1, <2>1, <2>2 DEF TypeOK
<1>3. Window /\ rs.nextSlot = 0 /\ rs.recoveryUsed = FALSE /\ rs.link = InitialLink
  BY DEF Window, Fresh0, NewRetryState
<1>4. ReplayRuns
  <2>1. Len(ledger) = 0 /\ 0..0 = {0}  OBVIOUS
  <2> DEFINE f == [i \in 0..0 |-> Fresh0]
  <2>2. \A g : RunOf(g, ledger) => g[0] = Fresh0
    BY <2>1 DEF RunOf
  <2>3. RunOf(f, ledger)
    <3>1. [i \in 0..Len(ledger) |-> IF i = 0 THEN Fresh0 ELSE Advance(f[i - 1], ledger[i])]
          = [i \in 0..0 |-> Fresh0]
      BY <2>1
    <3>q. QED BY <3>1 DEF RunOf
  <2>q. QED BY <2>1, <2>2, <2>3 DEF ReplayRuns
<1>5. AttemptBudget /\ SlotNeverEarly /\ RecoveryNeedsOutage
  BY <1>3 DEF AttemptBudget, Recovery, SlotNeverEarly, RecoveryNeedsOutage
<1>6. SendInWindow /\ SendLedgered
  BY DEF SendInWindow, SendLedgered
<1>7. DownLedgered  BY <1>3 DEF DownLedgered
<1>q. QED BY <1>2, <1>3, <1>4, <1>5, <1>6, <1>7 DEF IInv

\* Applying a fresh batch keeps the invariant.
LEMMA ApplyIInv ==
  ASSUME IInv, NEW b \in Batches, Apply(b)
  PROVE  IInv'
<1>1. /\ b \in RetryBatch /\ rs \in RetryState /\ ledger \in Seq(RetryBatch)
      /\ rs' = Advance(rs, b) /\ Fresh(rs, b)
      /\ ledger' = Append(ledger, b) /\ Len(ledger) < MaxLedger
  BY QueueAssumption DEF Apply, IInv, TypeOK
<1>2. /\ Len(ledger) \in Nat /\ Len(ledger') = Len(ledger) + 1
      /\ ledger'[Len(ledger) + 1] = b
      /\ \A i \in 1..Len(ledger) : ledger'[i] = ledger[i]
      /\ ledger' \in Seq(RetryBatch)
  BY <1>1
<1>3. /\ rs' \in RetryState
      /\ rs'.start = Start /\ rs'.deadline = Deadline
      /\ rs'.nextSlot = NextSlot(rs, b) /\ rs'.link = NextLink(rs, b)
      /\ rs'.recoveryUsed = (rs.recoveryUsed \/ RecoveryConsumed(rs, b))
      /\ rs'.last = b
  <2>1. rs' \in RetryState  BY <1>1, AdvanceType
  <2>q. QED BY <1>1, <2>1 DEF Advance, RetryState, IInv, Window
<1>4. /\ rs.nextSlot \in 0..5 /\ NextSlot(rs, b) \in rs.nextSlot..5
      /\ rs.start = Start /\ rs.deadline = Deadline
      /\ b.now \in Nat /\ attempts \in Nat
      /\ rs.recoveryUsed \in BOOLEAN
  BY <1>1, NextSlotStops DEF IInv, TypeOK, Window, RetryState, RetryBatch, MaxSlots
<1>5. TypeOK'
  <2>1. attempts' \in Nat /\ sent' \subseteq Nat /\ limited' \in BOOLEAN
    <3>1. attempts' \in Nat  BY <1>4 DEF Apply
    <3>2. sent' \subseteq Nat  BY <1>4 DEF Apply, IInv, TypeOK
    <3>3. limited' \in BOOLEAN  BY Zenon DEF Apply, IInv, TypeOK
    <3>q. QED BY <3>1, <3>2, <3>3
  <2>2. Len(ledger') <= MaxLedger  BY <1>1, <1>2, QueueAssumption
  <2>q. QED BY <1>2, <1>3, <2>1, <2>2 DEF TypeOK
<1>6. Window'  BY <1>3 DEF Window
<1>7. ReplayRuns'
  BY <1>1, <1>2, RunExtends DEF IInv, ReplayRuns
<1>8. AttemptBudget'
  <2>1. attempts <= rs.nextSlot + Recovery(rs)  BY DEF IInv, AttemptBudget
  <2>2. attempts' = attempts + (IF Attempt(rs, b) THEN 1 ELSE 0)  BY DEF Apply
  <2>3. CASE ~Attempt(rs, b)
    <3>1. ~RecoveryConsumed(rs, b)  BY <2>3 DEF Attempt
    <3>2. Recovery(rs') = Recovery(rs)  BY <1>3, <3>1 DEF Recovery
    <3>3. Recovery(rs) \in 0..1  BY DEF Recovery
    <3>q. QED BY <1>3, <1>4, <2>1, <2>2, <2>3, <3>2, <3>3 DEF AttemptBudget
  <2>4. CASE RecoveryConsumed(rs, b)
    <3>1. Recovery(rs) = 0 /\ Recovery(rs') = 1
      BY <1>3, <2>4 DEF Recovery, RecoveryConsumed
    <3>q. QED BY <1>3, <1>4, <2>1, <2>2, <3>1 DEF AttemptBudget
  <2>5. CASE ~RecoveryConsumed(rs, b) /\ TimedSlotsConsumed(rs, b) > 0
    <3>1. Recovery(rs') = Recovery(rs) /\ Recovery(rs) \in 0..1
      <4>1. rs'.recoveryUsed = rs.recoveryUsed
        BY <1>3, <1>4, <2>5, Zenon
      <4>q. QED BY <4>1 DEF Recovery
    <3>2. NextSlot(rs, b) >= rs.nextSlot + 1
      BY <1>4, <2>5 DEF TimedSlotsConsumed
    <3>q. QED BY <1>3, <1>4, <2>1, <2>2, <3>1, <3>2 DEF AttemptBudget
  <2>q. QED BY <2>3, <2>4, <2>5 DEF Attempt
<1>9. SlotNeverEarly'
  <2>1. rs.nextSlot > 0 => rs.last.now >= rs.start + Offsets[rs.nextSlot]
    BY <1>4 DEF IInv, SlotNeverEarly
  <2>2. NextSlot(rs, b) > 0 => b.now >= rs.start + Offsets[NextSlot(rs, b)]
    BY <1>1, <2>1, SlotPace
  <2>q. QED BY <1>3, <1>4, <2>2 DEF SlotNeverEarly
<1>10. sent' = sent \/ (sent' = sent \cup {b.now} /\ Send(rs, b))
  BY DEF Apply
<1>11. SendInWindow'
  <2>1. Send(rs, b) => Start <= b.now /\ b.now < Deadline
    BY <1>1, <1>4, SendFacts
  <2>q. QED BY <1>10, <2>1 DEF IInv, SendInWindow
<1>12. SendLedgered'
  <2> SUFFICES ASSUME NEW t \in sent'
               PROVE  \E i \in 1..Len(ledger') :
                        /\ ledger'[i].now = t
                        /\ ledger'[i].admission = "admit" /\ ledger'[i].signal = "continue"
                        /\ ledger'[i].link # "became_down"
    BY DEF SendLedgered
  <2>1. CASE t \in sent
    <3>1. PICK i \in 1..Len(ledger) :
             /\ ledger[i].now = t
             /\ ledger[i].admission = "admit" /\ ledger[i].signal = "continue"
             /\ ledger[i].link # "became_down"
      BY <2>1 DEF IInv, SendLedgered
    <3>2. i \in 1..Len(ledger') /\ ledger'[i] = ledger[i]  BY <1>2
    <3>q. QED BY <3>1, <3>2
  <2>2. CASE t = b.now /\ Send(rs, b)
    <3>1. Len(ledger) + 1 \in 1..Len(ledger')  BY <1>2
    <3>2. b.admission = "admit" /\ b.signal = "continue" /\ b.link # "became_down"
      BY <1>1, <2>2, SendFacts
    <3>q. QED BY <1>2, <2>2, <3>1, <3>2
  <2>q. QED BY <1>10, <2>1, <2>2
<1>13. DownLedgered'
  <2> SUFFICES ASSUME rs'.link = "down", InitialLink # "down"
               PROVE  \E j \in 1..Len(ledger') : ledger'[j].link = "became_down"
    BY DEF DownLedgered
  <2>1. CASE rs.link = "down"
    BY <1>2, <2>1 DEF IInv, DownLedgered
  <2>2. CASE rs.link # "down"
    <3>1. b.link = "became_down"
      BY <1>1, <1>3, <2>2 DEF NextLink, RetryBatch, LinkEvents
    <3>2. Len(ledger) + 1 \in 1..Len(ledger')  BY <1>2
    <3>q. QED BY <1>2, <3>1, <3>2
  <2>q. QED BY <2>1, <2>2
<1>14. RecoveryNeedsOutage'
  <2> SUFFICES ASSUME rs'.recoveryUsed
               PROVE  \E i \in 1..Len(ledger') :
                        /\ ledger'[i].link = "became_up"
                        /\ \/ InitialLink = "down"
                           \/ \E j \in 1..(i - 1) : ledger'[j].link = "became_down"
    BY DEF RecoveryNeedsOutage
  <2>1. CASE rs.recoveryUsed
    <3>1. PICK i \in 1..Len(ledger) :
             /\ ledger[i].link = "became_up"
             /\ \/ InitialLink = "down"
                \/ \E j \in 1..(i - 1) : ledger[j].link = "became_down"
      BY <2>1 DEF IInv, RecoveryNeedsOutage
    <3>2. i \in 1..Len(ledger') /\ ledger'[i] = ledger[i]  BY <1>2
    <3>3. \A j \in 1..(i - 1) : ledger'[j] = ledger[j]  BY <1>2
    <3>q. QED BY <3>1, <3>2, <3>3
  <2>2. CASE RecoveryConsumed(rs, b)
    <3>1. rs.link = "down" /\ b.link = "became_up"  BY <2>2 DEF RecoveryConsumed
    <3>2. \/ InitialLink = "down"
          \/ \E j \in 1..Len(ledger) : ledger[j].link = "became_down"
      BY <3>1 DEF IInv, DownLedgered
    <3> DEFINE i == Len(ledger) + 1
    <3>3. i \in 1..Len(ledger') /\ i - 1 = Len(ledger) /\ ledger'[i] = b  BY <1>2
    <3>q. QED BY <1>2, <3>1, <3>2, <3>3
  <2>q. QED BY <1>3, <2>1, <2>2
<1>q. QED
  BY <1>5, <1>6, <1>7, <1>8, <1>9, <1>11, <1>12, <1>13, <1>14 DEF IInv

\* Every step keeps the invariant.
LEMMA NextIInv == IInv /\ [Next]_vars => IInv'
<1> SUFFICES ASSUME IInv, [Next]_vars PROVE IInv'  OBVIOUS
<1>1. ASSUME NEW b \in Batches, Apply(b) PROVE IInv'
  BY <1>1, ApplyIInv
<1>2. ASSUME UNCHANGED <<ledger, rs, attempts, sent>>, limited' \in BOOLEAN
      PROVE  IInv'
  BY <1>2 DEF IInv, TypeOK, Window, ReplayRuns, RunOf, AttemptBudget, Recovery,
     SlotNeverEarly, SendInWindow, SendLedgered, DownLedgered, RecoveryNeedsOutage
<1>3. limited \in BOOLEAN  BY DEF IInv, TypeOK
<1>4. ASSUME NEW b \in Batches, LedgerFull(b) PROVE IInv'
  BY <1>2, <1>4 DEF LedgerFull
<1>5. ASSUME NEW b \in Batches, Inert(b) PROVE IInv'
  BY <1>2, <1>3, <1>5 DEF Inert, vars
<1>6. CASE Restart
  <2>1. rs' = rs  BY <1>6, ReplayIsState DEF Restart
  <2>q. QED BY <1>2, <1>3, <1>6, <2>1 DEF Restart
<1>7. CASE UNCHANGED vars
  BY <1>2, <1>3, <1>7 DEF vars
<1>q. QED BY <1>1, <1>4, <1>5, <1>6, <1>7 DEF Next

\* The invariant holds in every reachable state.
LEMMA AlwaysIInv == Spec => []IInv
BY InitIInv, NextIInv, PTL DEF Spec

-----------------------------------------------------------------------------
(* Theorems *)

\* Type correctness of the queue.
THEOREM TypeCorrect == Spec => []TypeOK
<1>1. IInv => TypeOK  BY DEF IInv
<1>q. QED BY <1>1, AlwaysIInv, PTL

\* Replaying the ledger of queue.Batches always gives the state from which
\* the decisions were made.
THEOREM ReplayIsExact == Spec => []ReplayExact
<1>1. IInv => ReplayExact  BY ReplayIsState DEF ReplayExact
<1>q. QED BY <1>1, AlwaysIInv, PTL

\* The attempts over all restarts stay within the consumed slots and the one
\* recovery of RetryState.
THEOREM BudgetHolds == Spec => []AttemptBudget
<1>1. IInv => AttemptBudget  BY DEF IInv
<1>q. QED BY <1>1, AlwaysIInv, PTL

\* No slot of RetryState is consumed before its instant.
THEOREM SlotsOnTime == Spec => []SlotNeverEarly
<1>1. IInv => SlotNeverEarly  BY DEF IInv
<1>q. QED BY <1>1, AlwaysIInv, PTL

\* Advance grants sends only between start and deadline, and each one is in
\* the ledger.
THEOREM SendsAccounted == Spec => [](SendInWindow /\ SendLedgered)
<1>1. IInv => SendInWindow /\ SendLedgered  BY DEF IInv
<1>q. QED BY <1>1, AlwaysIInv, PTL

\* The recovery opportunity of RetryState is spent only after an outage.
THEOREM RecoveryJustified == Spec => []RecoveryNeedsOutage
<1>1. IInv => RecoveryNeedsOutage  BY DEF IInv
<1>q. QED BY <1>1, AlwaysIInv, PTL

\* Every attempt granted by queue.advance over all restarts is earned.
THEOREM AttemptsAreEarned == Spec => []AttemptsEarned
<1>1. IInv => AttemptsEarned  BY DEF IInv, AttemptsEarned
<1>q. QED BY <1>1, AlwaysIInv, PTL

\* The instance of RetrySchedule brings the operators of Retry again.
LEMMA SameOperators ==
  ASSUME NEW s, NEW b
  PROVE  /\ Schedule!Fresh(s, b) <=> Fresh(s, b)
         /\ Schedule!Attempt(s, b) <=> Attempt(s, b)
         /\ Schedule!Send(s, b) <=> Send(s, b)
         /\ Schedule!Advance(s, b) = Advance(s, b)
<1>1. Schedule!Fresh(s, b) <=> Fresh(s, b)  BY Zenon DEF Fresh, Schedule!Fresh
<1>2. Schedule!NextPhase(s, b) = NextPhase(s, b)  BY Zenon DEF NextPhase, Schedule!NextPhase
<1>3. Schedule!Running(s, b) <=> Running(s, b)  BY <1>2, Zenon DEF Running, Schedule!Running
<1>4. Schedule!NextLink(s, b) = NextLink(s, b)  BY <1>3, Zenon DEF NextLink, Schedule!NextLink
<1>5. Schedule!NextSlot(s, b) = NextSlot(s, b)
  <2> DEFINE First(n, t, st) ==
        CHOOSE k \in n..5 :
          /\ \A i \in (n + 1)..k : st + <<0, 250, 750, 1750, 3750>>[i] <= t
          /\ k < 5 => ~(st + <<0, 250, 750, 1750, 3750>>[k + 1] <= t)
  <2>1. NextSlot(s, b) = IF ~Running(s, b) THEN s.nextSlot
                         ELSE First(s.nextSlot, b.now, s.start)
    BY Zenon DEF NextSlot, SlotDue, MaxSlots, Offsets
  <2>2. Schedule!NextSlot(s, b) = IF ~Schedule!Running(s, b) THEN s.nextSlot
                                  ELSE First(s.nextSlot, b.now, s.start)
    BY Zenon DEF Schedule!NextSlot, Schedule!SlotDue, Schedule!MaxSlots, Schedule!Offsets
  <2> HIDE DEF First
  <2>q. QED BY <1>3, <2>1, <2>2
<1>6. Schedule!RecoveryConsumed(s, b) <=> RecoveryConsumed(s, b)
  BY <1>3, Zenon DEF RecoveryConsumed, Schedule!RecoveryConsumed
<1>7. Schedule!TimedSlotsConsumed(s, b) = TimedSlotsConsumed(s, b)
  BY <1>5, Zenon DEF TimedSlotsConsumed, Schedule!TimedSlotsConsumed
<1>8. Schedule!Attempt(s, b) <=> Attempt(s, b)
  BY <1>6, <1>7, Zenon DEF Attempt, Schedule!Attempt
<1>9. Schedule!Send(s, b) <=> Send(s, b)
  BY <1>4, <1>8, Zenon DEF Send, Schedule!Send
<1>10. Schedule!Advance(s, b) = Advance(s, b)
  BY <1>2, <1>4, <1>5, <1>6, Zenon DEF Advance, Schedule!Advance
<1>q. QED BY <1>1, <1>8, <1>9, <1>10

-----------------------------------------------------------------------------
(* Any owner of a RetryState *)

ScheduleInv ==
  /\ rs \in RetryState /\ rs.start = Start /\ rs.deadline = Deadline
  /\ sent \subseteq Nat
  /\ Schedule!SendsInWindow

\* The schedule keeps its type and its window.
LEMMA ScheduleInvariant == Schedule!ScheduleSpec => []ScheduleInv
<1>1. Schedule!ScheduleInit => ScheduleInv
  <2>1. Fresh0 \in RetryState /\ Fresh0.start = Start /\ Fresh0.deadline = Deadline
    BY QueueAssumption DEF Fresh0, NewRetryState, RetryState, Phases, MaxSlots
  <2>q. QED BY <2>1 DEF Fresh0, NewRetryState, NoBatch, ScheduleInv, Schedule!ScheduleInit,
                     Schedule!SendsInWindow, Schedule!NewRetryState, Schedule!NoBatch
<1>2. ScheduleInv /\ [Schedule!ScheduleNext]_Schedule!svars => ScheduleInv'
  <2> SUFFICES ASSUME ScheduleInv, [Schedule!ScheduleNext]_Schedule!svars PROVE ScheduleInv'
    OBVIOUS
  <2>1. ASSUME NEW b \in Batches, Schedule!Advanced(b) PROVE ScheduleInv'
    <3>1. rs \in RetryState /\ b \in RetryBatch /\ b.now \in Nat
      BY QueueAssumption DEF ScheduleInv, RetryBatch
    <3>2. rs' = Advance(rs, b) /\ sent' = sent \cup (IF Send(rs, b) THEN {b.now} ELSE {})
      BY <2>1, SameOperators DEF Schedule!Advanced
    <3>3. rs' \in RetryState  BY <3>1, <3>2, AdvanceType
    <3>4. rs'.start = Start /\ rs'.deadline = Deadline
      BY <3>1, <3>2 DEF Advance, ScheduleInv, RetryState
    <3>5. sent' \subseteq Nat  BY <3>1, <3>2 DEF ScheduleInv
    <3>6. \A t \in sent' : Start <= t /\ t < Deadline
      <4>1. Send(rs, b) => rs.start <= b.now /\ b.now < rs.deadline  BY <3>1, SendFacts
      <4>q. QED BY <3>2, <4>1 DEF ScheduleInv, Schedule!SendsInWindow
    <3>q. QED BY <3>3, <3>4, <3>5, <3>6 DEF ScheduleInv, Schedule!SendsInWindow
  <2>2. ASSUME NEW b \in Batches, Schedule!Ignored(b) PROVE ScheduleInv'
    BY <2>2 DEF Schedule!Ignored, Schedule!svars, ScheduleInv, Schedule!SendsInWindow
  <2>3. CASE UNCHANGED Schedule!svars
    BY <2>3 DEF Schedule!svars, ScheduleInv, Schedule!SendsInWindow
  <2>q. QED BY <2>1, <2>2, <2>3 DEF Schedule!ScheduleNext
<1>q. QED BY <1>1, <1>2, PTL DEF Schedule!ScheduleSpec

\* Whoever owns the RetryState: sends lie in the window of NewRetryState.
THEOREM WindowKept == Schedule!ScheduleSpec => []Schedule!SendsInWindow
<1>1. ScheduleInv => Schedule!SendsInWindow  BY DEF ScheduleInv
<1>q. QED BY <1>1, ScheduleInvariant, PTL

\* Whoever owns the RetryState: a paused, stopped or expired schedule never
\* runs again (the early returns of Advance).
THEOREM TerminalIsFinal == Schedule!ScheduleSpec => Schedule!TerminalAbsorbs
<1>1. ScheduleInv /\ [Schedule!ScheduleNext]_Schedule!svars
        => [Schedule!TerminalStep]_Schedule!svars
  <2> SUFFICES ASSUME ScheduleInv, Schedule!ScheduleNext, rs.phase # "active"
               PROVE  /\ rs'.phase \in {rs.phase, "stopped"}
                      /\ rs'.nextSlot = rs.nextSlot
                      /\ sent' = sent
    BY DEF Schedule!TerminalStep
  <2>1. ASSUME NEW b \in Batches, Schedule!Advanced(b)
        PROVE  /\ rs'.phase \in {rs.phase, "stopped"}
               /\ rs'.nextSlot = rs.nextSlot
               /\ sent' = sent
    <3>1. rs \in RetryState /\ b \in RetryBatch  BY QueueAssumption DEF ScheduleInv
    <3>2. rs' = Advance(rs, b) /\ sent' = sent \cup (IF Send(rs, b) THEN {b.now} ELSE {})
      BY <2>1, SameOperators DEF Schedule!Advanced
    <3>3. NextPhase(rs, b) \in {rs.phase, "stopped"} /\ ~Running(rs, b)
      BY <3>1 DEF NextPhase, Running, RetryState, Phases
    <3>4. ~Send(rs, b)  BY <3>1, SendFacts
    <3>q. QED BY <3>1, <3>2, <3>3, <3>4 DEF Advance, NextSlot, RetryState
  <2>2. ASSUME NEW b \in Batches, Schedule!Ignored(b)
        PROVE  rs' = rs /\ sent' = sent
    BY <2>2 DEF Schedule!Ignored, Schedule!svars
  <2>q. QED BY <2>1, <2>2 DEF Schedule!ScheduleNext
<1>q. QED BY <1>1, ScheduleInvariant, PTL DEF Schedule!ScheduleSpec, Schedule!TerminalAbsorbs

-----------------------------------------------------------------------------
(* The durable queue is such an owner *)

\* Every step of the durable queue is a step of the schedule or does not
\* touch it (queue.advance, replayCounted).
THEOREM QueueRefinesSchedule == Spec => ScheduleRefined
<1>1. Init => Schedule!ScheduleInit
  BY DEF Init, Fresh0, NewRetryState, NoBatch, Schedule!ScheduleInit,
         Schedule!NewRetryState, Schedule!NoBatch
<1>2. IInv /\ [Next]_vars => [Schedule!ScheduleNext]_<<rs, attempts, sent>>
  <2> SUFFICES ASSUME IInv, [Next]_vars
               PROVE  [Schedule!ScheduleNext]_<<rs, attempts, sent>>
    OBVIOUS
  <2>1. ASSUME NEW b \in Batches, Apply(b) PROVE Schedule!ScheduleNext
    <3>1. Schedule!Advanced(b)
      BY <2>1, SameOperators DEF Apply, Schedule!Advanced
    <3>q. QED BY <3>1 DEF Schedule!ScheduleNext
  <2>2. ASSUME NEW b \in Batches, LedgerFull(b) \/ Inert(b)
        PROVE  UNCHANGED <<rs, attempts, sent>>
    BY <2>2 DEF LedgerFull, Inert, vars
  <2>3. CASE Restart
    BY <2>3, ReplayIsState DEF Restart
  <2>4. CASE UNCHANGED vars
    BY <2>4 DEF vars
  <2>q. QED BY <2>1, <2>2, <2>3, <2>4 DEF Next
<1>q. QED BY <1>1, <1>2, AlwaysIInv, PTL DEF Spec, ScheduleRefined, Schedule!ScheduleSpec, Schedule!svars
=============================================================================
