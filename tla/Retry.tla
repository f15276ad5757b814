------------------------------- MODULE Retry -------------------------------
(***************************************************************************)
(* The retry schedule of one delivery queue: the value type RetryState of  *)
(* tools/t0/internal/delivery/retry.go and the pure function Advance.      *)
(* Every operator here is a function of its arguments; the modules that    *)
(* keep such a value (RetryQueue, SyntheticRelay) decide when it is        *)
(* committed.  Times are logical milliseconds.                             *)
(***************************************************************************)
EXTENDS Integers

LinkStates == {"up", "down"}
LinkEvents == {"unchanged", "became_up", "became_down"}
Signals    == {"continue", "pause", "stop"}
Admissions == {"admit", "reject_quota", "reject_hop"}
Phases     == {"active", "paused", "stopped", "expired"}

\* The five planned slots: startMS + 0/250/750/1750/3750.
Offsets  == <<0, 250, 750, 1750, 3750>>
MaxSlots == 5

RetryBatch ==
  [now: Nat, link: LinkEvents, signal: Signals, admission: Admissions]

\* hasBatch = FALSE: a batch older than every real one.
NoBatch ==
  [now |-> -1, link |-> "unchanged", signal |-> "continue", admission |-> "admit"]

RetryState ==
  [start: Nat, deadline: Nat, nextSlot: 0..MaxSlots, recoveryUsed: BOOLEAN,
   link: LinkStates, phase: Phases, last: RetryBatch \cup {NoBatch}]

NewRetryState(start, deadline, link) ==
  [start |-> start, deadline |-> deadline, nextSlot |-> 0, recoveryUsed |-> FALSE,
   link |-> link, phase |-> "active", last |-> NoBatch]

-----------------------------------------------------------------------------
(* How a batch relates to the one applied last. *)

\* Time moved backward, or a different batch for an instant already settled.
Refused(s, b) ==
  \/ b.now < s.last.now
  \/ b.now = s.last.now /\ b # s.last

DuplicateBatch(s, b) == b = s.last

Fresh(s, b) == b.now > s.last.now

-----------------------------------------------------------------------------
(* The parts of Advance on a fresh batch. *)

\* A stop wins over everything, a past expiry over a pause, and a pause over
\* the deadline.
NextPhase(s, b) ==
  IF s.phase = "stopped" \/ b.signal = "stop" THEN "stopped"
  ELSE IF s.phase = "expired" THEN "expired"
  ELSE IF s.phase = "paused" \/ b.signal = "pause" THEN "paused"
  ELSE IF b.now >= s.deadline THEN "expired"
  ELSE "active"

Running(s, b) == NextPhase(s, b) = "active"

\* Link events are observed only while the queue runs.
NextLink(s, b) ==
  IF ~Running(s, b) \/ b.link = "unchanged" THEN s.link
  ELSE IF b.link = "became_up" THEN "up" ELSE "down"

SlotDue(s, i, now) == s.start + Offsets[i] <= now

\* Where the loop over the remaining offsets stops.
NextSlot(s, b) ==
  IF ~Running(s, b) THEN s.nextSlot
  ELSE CHOOSE k \in s.nextSlot..MaxSlots :
         /\ \A i \in (s.nextSlot + 1)..k : SlotDue(s, i, b.now)
         /\ k < MaxSlots => ~SlotDue(s, k + 1, b.now)

TimedSlotsConsumed(s, b) == NextSlot(s, b) - s.nextSlot

\* The single extra opportunity, on the first down-to-up edge that is seen
\* at or after the start.
RecoveryConsumed(s, b) ==
  /\ Running(s, b)
  /\ s.link = "down" /\ b.link = "became_up"
  /\ b.now >= s.start
  /\ ~s.recoveryUsed

Attempt(s, b) == TimedSlotsConsumed(s, b) > 0 \/ RecoveryConsumed(s, b)

Send(s, b) ==
  Attempt(s, b) /\ NextLink(s, b) = "up" /\ b.admission = "admit"

\* The bug "the recovery is granted and not recorded".
Advance_forgetsRecovery(s, b) ==
  [s EXCEPT !.phase    = NextPhase(s, b),
            !.link     = NextLink(s, b),
            !.nextSlot = NextSlot(s, b),
            !.last     = b]

\* The value Advance returns for a fresh batch; for any other it returns s.
Advance(s, b) ==
  [s EXCEPT !.phase        = NextPhase(s, b),
            !.link         = NextLink(s, b),
            !.nextSlot     = NextSlot(s, b),
            !.recoveryUsed = s.recoveryUsed \/ RecoveryConsumed(s, b),
            !.last         = b]
=============================================================================
