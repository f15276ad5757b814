--------------------------- MODULE RetrySchedule ---------------------------
(***************************************************************************)
(* The owner of one RetryState, as delivery/retry.go asks for it: every    *)
(* value that Advance returns replaces the one before it, and a granted    *)
(* send is acted on once.  `attempts' and `sent' record what was granted;  *)
(* no guard reads them.  RetryQueue is such an owner that survives         *)
(* restarts.                                                               *)
(***************************************************************************)
EXTENDS Retry

CONSTANTS
  Start, Deadline,   \* fixed at creation
  InitialLink,       \* "up" or "down", fixed at creation
  Batches            \* the batches that may be submitted

VARIABLES rs, attempts, sent

svars == <<rs, attempts, sent>>

ScheduleInit ==
  /\ rs = NewRetryState(Start, Deadline, InitialLink)
  /\ attempts = 0
  /\ sent = {}

Advanced(b) ==
  /\ Fresh(rs, b)
  /\ rs' = Advance(rs, b)
  /\ attempts' = attempts + (IF Attempt(rs, b) THEN 1 ELSE 0)
  /\ sent' = sent \cup (IF Send(rs, b) THEN {b.now} ELSE {})

\* A repeated batch changes nothing; neither does one that is refused.
Ignored(b) ==
  /\ DuplicateBatch(rs, b) \/ Refused(rs, b)
  /\ UNCHANGED svars

ScheduleNext == \E b \in Batches : Advanced(b) \/ Ignored(b)

ScheduleSpec == ScheduleInit /\ [][ScheduleNext]_svars

-----------------------------------------------------------------------------
(* Properties *)

\* A send is granted only inside [Start, Deadline), whatever signals, link
\* events and jumps of the clock came before it.
SendsInWindow == \A t \in sent : Start <= t /\ t < Deadline

\* Once a schedule is stopped, expired or paused it never runs again, never
\* consumes a slot, and grants no further send; only a stop may follow.
TerminalStep ==
  rs.phase # "active" =>
    /\ rs'.phase \in {rs.phase, "stopped"}
    /\ rs'.nextSlot = rs.nextSlot
    /\ sent' = sent

TerminalAbsorbs == [][TerminalStep]_svars
=============================================================================
