------------------------------- MODULE Lease -------------------------------
(***************************************************************************)
(* The liveness lease of scripts/sw_i5_preparation_supervisor.py: the      *)
(* holder may go on only while numbered renewals keep arriving, each       *)
(* within the silence window of the one before, and never past an absolute *)
(* deadline.  The same class is held by the host watchdog, by the UTM      *)
(* transport and by the guest supervisor.                                  *)
(*                                                                         *)
(* Frames are bound to one attempt by uuid, nonce and manifest digest; the *)
(* model is of one attempt, so a frame is its sequence number.  No         *)
(* component sends the "cancel" action (the owner closes the channel       *)
(* instead), so every frame is a "renew".                                  *)
(***************************************************************************)
EXTENDS Integers

\* sequence before the first frame: Lease.__init__ sets -1.
NoFrame == -1

\* Lease.__init__: nothing received, the silence window opens at creation.
NewLease(started, total, silence) ==
    [seq |-> NoFrame, last |-> started, deadline |-> started + total, silence |-> silence]

\* Lease.check with require_started=False.  Each conjunct is one require; the
\* clock never runs backwards, so its first require cannot fail.
InTime(l, t) ==
    /\ t < l.deadline
    /\ t - l.last < l.silence

\* Lease.check with require_started=True.
Live(l, t) == InTime(l, t) /\ l.seq # NoFrame

\* feed refuses anything but the next number.
IsNext(l, s) == s = l.seq + 1

\* Mutant: the window is not checked before the frame is taken.
CanFeed_late(l, s, t) == t < l.deadline /\ IsNext(l, s)

\* Lease.feed accepting frame s: the expiry check comes first, so a frame
\* that arrives after the window has closed renews nothing.
CanFeed(l, s, t) == InTime(l, t) /\ IsNext(l, s)

\* The lease after it: the silence window opens again.
Fed(l, s, t) == [l EXCEPT !.seq = s, !.last = t]

=============================================================================
