----------------------------- MODULE RetryQueue -----------------------------
(***************************************************************************)
(* One queue that owns a retry schedule and survives restarts.  The code   *)
(* (queue.advance and queue.replayCounted of synthetic/state.go) stores no *)
(* RetryState: it stores the ledger of the batches it applied and replays  *)
(* it.  Here `rs' is the value the last replay produced, `ledger' the      *)
(* durable list, and Restart replays the ledger from nothing.  A ledger    *)
(* whose last batch ended the schedule is refused while the queue counts   *)
(* as active.  `attempts' and `sent' record what was granted over the      *)
(* whole history, across restarts; no guard reads them.                    *)
(***************************************************************************)
EXTENDS Retry, Sequences

CONSTANTS
  Start, Deadline,   \* of the queue, fixed at creation
  InitialLink,       \* "up" or "down", fixed at creation
  Batches,           \* the batches the callers may submit
  MaxLedger          \* 64 in the code

ASSUME QueueAssumption ==
  /\ Start \in Nat /\ Deadline \in Nat
  /\ InitialLink \in LinkStates
  /\ Batches \subseteq RetryBatch
  /\ MaxLedger \in Nat

VARIABLES
  ledger,    \* q.Batches
  limited,   \* q.Status = "schedule_limit"
  rs,        \* the RetryState the ledger stands for
  attempts,  \* how many attempts were granted
  sent       \* the instants at which a send was granted

vars == <<ledger, limited, rs, attempts, sent>>

Fresh0 == NewRetryState(Start, Deadline, InitialLink)

\* The bug "replay applies the ledger without its oldest batch".
Replay_dropsFirst(l) ==
  LET run[i \in 0..Len(l)] ==
        IF i <= 1 THEN Fresh0 ELSE Advance(run[i - 1], l[i])
  IN run[Len(l)]

\* replayCounted: the batches applied in order to a fresh RetryState.
Replay(l) ==
  LET run[i \in 0..Len(l)] ==
        IF i = 0 THEN Fresh0 ELSE Advance(run[i - 1], l[i])
  IN run[Len(l)]

\* replayCounted refuses an active queue whose schedule has ended.
Replayable == limited \/ rs.phase = "active"

Init ==
  /\ ledger = <<>>
  /\ limited = FALSE
  /\ rs = Fresh0
  /\ attempts = 0
  /\ sent = {}

\* A fresh batch that fits the ledger: appended, and its decision handed out.
Apply(b) ==
  /\ Replayable /\ ~limited /\ Fresh(rs, b) /\ Len(ledger) < MaxLedger
  /\ ledger' = Append(ledger, b)
  /\ rs' = Advance(rs, b)
  /\ attempts' = attempts + (IF Attempt(rs, b) THEN 1 ELSE 0)
  /\ sent' = sent \cup (IF Send(rs, b) THEN {b.now} ELSE {})
  /\ UNCHANGED limited

\* A fresh batch on a full ledger: the decision is discarded and the queue
\* is retired.
LedgerFull(b) ==
  /\ Replayable /\ ~limited /\ Fresh(rs, b) /\ Len(ledger) = MaxLedger
  /\ limited' = TRUE
  /\ UNCHANGED <<ledger, rs, attempts, sent>>

\* A repeated batch changes nothing; neither does one that is refused, by
\* Advance or by the replay before it.
Inert(b) ==
  /\ ~limited
  /\ ~Replayable \/ DuplicateBatch(rs, b) \/ Refused(rs, b)
  /\ UNCHANGED vars

\* A restart: only the ledger and the status were kept.
Restart ==
  /\ Replayable
  /\ rs' = Replay(ledger)
  /\ UNCHANGED <<ledger, limited, attempts, sent>>

Next ==
  \/ \E b \in Batches : Apply(b) \/ LedgerFull(b) \/ Inert(b)
  \/ Restart

Spec == Init /\ [][Next]_vars

-----------------------------------------------------------------------------
(* Properties *)

Recovery(s) == IF s.recoveryUsed THEN 1 ELSE 0

\* Every variable has its type.
TypeOK ==
  /\ ledger \in Seq(RetryBatch) /\ Len(ledger) <= MaxLedger
  /\ limited \in BOOLEAN
  /\ rs \in RetryState
  /\ attempts \in Nat
  /\ sent \subseteq Nat

\* Replaying the durable ledger gives back the state the decisions were made
\* from, so a restart neither refunds nor loses an opportunity.
ReplayExact == Replay(ledger) = rs

\* Over the whole life of the queue, restarts included, the attempts never
\* exceed the slots consumed plus the one recovery: at most six.
AttemptBudget == attempts <= rs.nextSlot + Recovery(rs)

\* No slot is consumed before its instant: a consumed slot was due at the
\* last applied batch.
SlotNeverEarly ==
  rs.nextSlot > 0 => rs.last.now >= Start + Offsets[rs.nextSlot]

\* A send is granted only inside [Start, Deadline).
SendInWindow == \A t \in sent : Start <= t /\ t < Deadline

\* Every send that was ever granted is recorded in the ledger, by an admitted
\* batch that neither paused nor stopped the queue nor took the link down.
SendLedgered ==
  \A t \in sent : \E i \in 1..Len(ledger) :
    /\ ledger[i].now = t
    /\ ledger[i].admission = "admit" /\ ledger[i].signal = "continue"
    /\ ledger[i].link # "became_down"

\* The recovery opportunity is spent only after an outage: the queue began
\* with the link down, or the ledger shows it going down before it came up.
RecoveryNeedsOutage ==
  rs.recoveryUsed =>
    \E i \in 1..Len(ledger) :
      /\ ledger[i].link = "became_up"
      /\ \/ InitialLink = "down"
         \/ \E j \in 1..(i - 1) : ledger[j].link = "became_down"

\* Every attempt is earned: no opportunity of RetryState is granted twice over
\* restarts, before its instant, or as a recovery that no outage explains.
AttemptsEarned == AttemptBudget /\ SlotNeverEarly /\ RecoveryNeedsOutage

-----------------------------------------------------------------------------
(* Refinement of RetrySchedule *)

Schedule == INSTANCE RetrySchedule

\* The durable queue is a schedule: a restart, a full ledger and a refused
\* batch do not show in what is granted.
ScheduleRefined == Schedule!ScheduleSpec
=============================================================================
