----------------------------- MODULE LeaseChain -----------------------------
(***************************************************************************)
(* One preparation attempt's renewals on their way from the lifecycle      *)
(* owner to the guest supervisor, and the acknowledgements on their way    *)
(* back (scripts/sw_i5_preparation_{lifecycle,channels,transport,          *)
(* supervisor}.py).  Four processes:                                       *)
(*                                                                         *)
(*   owner      _Owner.host: sends renewal k+1 once k is acknowledged;     *)
(*   watchdog   fork_watchdog/watch_transport: accepts it into the host    *)
(*              lease, relays it and waits for the guest's receipt;        *)
(*   transport  run_transport: accepts it, writes it to the lease slot, a  *)
(*              file of the guest reached through RPCs, and polls the ack  *)
(*              slot;                                                      *)
(*   guest      fork_supervisor + GuestMailbox: polls the lease slot,      *)
(*              accepts, and writes the ack slot.                          *)
(*                                                                         *)
(* Pipes are first-in first-out, so what one holds is the difference of    *)
(* two counters: the owner's pipe holds the frames watch.lease.seq+1 ..    *)
(* own.sent, and so on.  Slots are files written without atomicity: a      *)
(* reader may meet a torn slot, which carries nothing.  Time passes at     *)
(* every point (a process may be slow anywhere), every RPC may be lost and *)
(* the owner may disappear at any moment.                                  *)
(***************************************************************************)
EXTENDS Lease

CONSTANTS
    Silence,      \* LEASE_SECONDS, the window of every lease
    Renewal,      \* min(5, silence / 3), the owner's pause between renewals
    HostTotal,    \* total of the host lease
    GuestTotal,   \* total of the transport's and of the guest's lease
    BootTotal,    \* NativeBudget.init, the guest's window to initialise
    MaxSeq,       \* bound: the last renewal the owner sends
    MaxTime       \* bound: the clock stops here

ASSUME LeaseChainAssumption ==
    /\ Silence \in Nat \ {0}
    /\ Renewal \in Nat
    /\ HostTotal \in Nat
    /\ GuestTotal \in Nat
    /\ BootTotal \in Nat
    /\ MaxSeq \in Nat
    /\ MaxTime \in Nat

VARIABLES
    now,
    own,      \* [phase, sent, acked, next, at]: the owner's loop; "at" is when
              \* the last renewal was sent
    watch,    \* [phase, lease, acked]: the watchdog
    tr,       \* [phase, lease, acked, mode, late]: the transport; "late" is the
              \* RPC whose fate was unknown when it gave up
    guest,    \* [phase, lease]: the guest supervisor
    slot      \* [lease, ack, torn]: the two slot files, and which are torn

vars == <<now, own, watch, tr, guest, slot>>

Seqs == NoFrame..MaxSeq
Times == 0..MaxTime

LeaseRecord == [seq: Seqs, last: Times, deadline: Nat, silence: {Silence}]

(***************************************************************************)
(* Phases.  "failed" is a loss (timeout, expiry, closed channel, lost      *)
(* RPC), "broken" a frame that a binding or ordering check refused.        *)
(***************************************************************************)
WatchEnded == watch.phase \in {"done", "failed", "broken"}
TransportEnded == tr.phase \in {"done", "failed", "broken"}
GuestEnded == guest.phase \in {"passed", "failed", "broken"}

\* The transport gives up or is killed; an RPC it was waiting for may still
\* take effect in the guest.
GivenUp ==
    [tr EXCEPT !.phase = "failed",
               !.late = IF tr.phase \in {"execute", "write"} THEN tr.phase ELSE "none"]

\* A started guest process; until its supervisor runs, its lease record only
\* holds the deadline of the initialisation.
Booting == [phase |-> "booting", lease |-> NewLease(now, BootTotal, Silence)]

Init ==
    /\ now = 0
    /\ own = [phase |-> "open", sent |-> NoFrame, acked |-> NoFrame, next |-> 0, at |-> 0]
    /\ watch = [phase |-> "initial", lease |-> NewLease(0, HostTotal, Silence), acked |-> NoFrame]
    /\ \E mode \in {"native", "legacy"} :
          tr = [phase |-> "off", lease |-> NewLease(0, GuestTotal, Silence),
                acked |-> NoFrame, mode |-> mode, late |-> "none"]
    /\ guest = [phase |-> "off", lease |-> NewLease(0, GuestTotal, Silence)]
    /\ slot = [lease |-> NoFrame, ack |-> NoFrame, torn |-> {}]

-----------------------------------------------------------------------------
(* The owner: _Owner.host. *)

\* A renewal goes out only when the last one has been acknowledged.
OwnerRenew ==
    /\ own.phase = "open"
    /\ ~WatchEnded
    /\ own.sent = own.acked
    /\ now >= own.next
    /\ own.sent < MaxSeq
    /\ own' = [own EXCEPT !.sent = @ + 1, !.next = now + Renewal, !.at = now]
    /\ UNCHANGED <<now, watch, tr, guest, slot>>

\* The host ACK must carry the pending sequence.
OwnerTakeAck ==
    /\ own.phase = "open"
    /\ watch.acked > own.acked
    /\ own' = IF watch.acked = own.sent THEN [own EXCEPT !.acked = watch.acked]
                                        ELSE [own EXCEPT !.phase = "broken"]
    /\ UNCHANGED <<now, watch, tr, guest, slot>>

\* Cancelled, failed, out of time or killed: the renewal pipe closes.  A
\* cancelling owner also signals the watchdog and kills the transport's
\* group; one that is killed itself does neither.
OwnerStop ==
    /\ own.phase = "open"
    /\ own' = [own EXCEPT !.phase = "closed"]
    /\ \/ UNCHANGED <<watch, tr>>
       \/ /\ ~WatchEnded
          /\ watch' = [watch EXCEPT !.phase = "failed"]
          /\ tr' = IF TransportEnded \/ tr.phase = "off" THEN tr ELSE GivenUp
    /\ UNCHANGED <<now, guest, slot>>

-----------------------------------------------------------------------------
(* The watchdog: fork_watchdog with its relay, and watch_transport. *)

HostFrame == own.sent > watch.lease.seq

\* initial_lease, then fork the transport and relay frame 0 to it.
WatchInitial ==
    /\ watch.phase = "initial"
    /\ HostFrame
    /\ CanFeed(watch.lease, own.sent, now)
    /\ watch' = [watch EXCEPT !.phase = "relay", !.lease = Fed(@, own.sent, now)]
    /\ tr' = [tr EXCEPT !.phase = "initial", !.lease = NewLease(now, GuestTotal, Silence)]
    /\ UNCHANGED <<now, own, guest, slot>>

\* relay waiting: the guest's receipt for this sequence is passed on.
WatchAck ==
    /\ watch.phase = "relay"
    /\ Live(watch.lease, now)
    /\ tr.acked > watch.acked
    /\ watch' = IF tr.acked = watch.lease.seq
                THEN [watch EXCEPT !.phase = "watch", !.acked = tr.acked]
                ELSE [watch EXCEPT !.phase = "broken"]
    /\ UNCHANGED <<now, own, tr, guest, slot>>

\* relay waiting: a second renewal, or the end of the receipts.
WatchEarly ==
    /\ watch.phase = "relay"
    /\ \/ /\ HostFrame
          /\ InTime(watch.lease, now)
          /\ watch' = [watch EXCEPT !.phase = "broken"]
       \/ /\ TransportEnded
          /\ tr.acked = watch.acked
          /\ watch' = [watch EXCEPT !.phase = "closed"]
    /\ UNCHANGED <<now, own, tr, guest, slot>>

\* Mutant: the watchdog acknowledges what it has only relayed.
WatchRenew_acksAtOnce ==
    /\ watch.phase \in {"watch", "closed"}
    /\ HostFrame
    /\ CanFeed(watch.lease, own.sent, now)
    /\ watch' = [watch EXCEPT !.lease = Fed(@, own.sent, now), !.acked = own.sent]
    /\ UNCHANGED <<now, own, tr, guest, slot>>

\* watch_transport's loop: accept the next renewal and relay it.  "closed" is
\* guest_closed: control ended before this renewal.  A frame accepted into
\* the lease after that is refused.
WatchRenew ==
    /\ watch.phase \in {"watch", "closed"}
    /\ HostFrame
    /\ CanFeed(watch.lease, own.sent, now)
    /\ watch' = [watch EXCEPT !.lease = Fed(@, own.sent, now),
                              !.phase = IF @ = "closed" THEN "broken"
                                        ELSE IF TransportEnded THEN "closed" ELSE "relay"]
    /\ UNCHANGED <<now, own, tr, guest, slot>>

\* The result pipe ended: the export must validate and say "passed".
WatchResult ==
    /\ watch.phase \in {"watch", "closed"}
    /\ TransportEnded
    /\ Live(watch.lease, now)
    /\ watch' = [watch EXCEPT !.phase = IF tr.phase = "done" /\ guest.phase = "passed"
                                        THEN "done" ELSE "failed"]
    /\ UNCHANGED <<now, own, tr, guest, slot>>

\* The lease ran out, or its channel closed with nothing left to read.
WatchLost ==
    /\ ~WatchEnded
    /\ \/ ~InTime(watch.lease, now)
       \/ own.phase # "open" /\ ~HostFrame
    /\ watch' = [watch EXCEPT !.phase = "failed"]
    /\ UNCHANGED <<now, own, tr, guest, slot>>

-----------------------------------------------------------------------------
(* The transport: run_transport.  Every action but the last ends an RPC that *)
(* succeeded within the transport's deadline.                                *)

\* What the watchdog has relayed: the frame it is waiting on, or the last one.
Relayed == watch.lease.seq
GuestFrame == Relayed > tr.lease.seq

\* initial_lease.  A native attempt executes before it may open the mailbox.
TrInitial ==
    /\ tr.phase = "initial"
    /\ GuestFrame
    /\ CanFeed(tr.lease, Relayed, now)
    /\ tr' = [tr EXCEPT !.phase = IF tr.mode = "native" THEN "execute" ELSE "write",
                        !.lease = Fed(@, Relayed, now)]
    /\ UNCHANGED <<now, own, watch, guest, slot>>

\* The one execute.
TrExecute ==
    /\ tr.phase = "execute"
    /\ now < tr.lease.deadline
    /\ tr' = [tr EXCEPT !.phase = IF tr.mode = "native" THEN "ready" ELSE "loop"]
    /\ guest' = Booting
    /\ UNCHANGED <<now, own, watch, slot>>

\* native-ready: the guest has reported its initialisation; a renewal that
\* arrives before that is refused.
TrReady ==
    /\ tr.phase = "ready"
    /\ Live(tr.lease, now)
    /\ \/ /\ GuestFrame
          /\ tr' = [tr EXCEPT !.phase = "broken"]
       \/ /\ ~GuestFrame
          /\ guest.phase # "booting"
          /\ tr' = [tr EXCEPT !.phase = "write"]
    /\ UNCHANGED <<now, own, watch, guest, slot>>

\* The lease slot while the write RPC runs, and after its readback.
TrTear ==
    /\ tr.phase = "write"
    /\ now < tr.lease.deadline
    /\ slot' = [slot EXCEPT !.torn = @ \cup {"lease"}]
    /\ UNCHANGED <<now, own, watch, tr, guest>>

TrWrite ==
    /\ tr.phase = "write"
    /\ now < tr.lease.deadline
    /\ slot' = [slot EXCEPT !.lease = tr.lease.seq, !.torn = @ \ {"lease"}]
    /\ tr' = [tr EXCEPT !.phase = IF guest.phase = "off" THEN "execute" ELSE "loop"]
    /\ UNCHANGED <<now, own, watch, guest>>

\* The loop: the next renewal is taken only when none is pending.
TrRenew ==
    /\ tr.phase = "loop"
    /\ GuestFrame
    /\ CanFeed(tr.lease, Relayed, now)
    /\ tr' = [tr EXCEPT !.lease = Fed(@, Relayed, now),
                        !.phase = IF tr.acked = tr.lease.seq THEN "write" ELSE "broken"]
    /\ UNCHANGED <<now, own, watch, guest, slot>>

\* Mutant: the previous acknowledgement is not expected in the slot.
TrAck_strict ==
    /\ tr.phase = "loop"
    /\ Live(tr.lease, now)
    /\ tr.acked # tr.lease.seq
    /\ "ack" \notin slot.torn
    /\ slot.ack # NoFrame
    /\ tr' = IF slot.ack = tr.lease.seq THEN [tr EXCEPT !.acked = slot.ack]
                                        ELSE [tr EXCEPT !.phase = "broken"]
    /\ UNCHANGED <<now, own, watch, guest, slot>>

\* The ack slot: empty, torn and the previous acknowledgement carry nothing;
\* anything else must be the pending one.
TrAck ==
    /\ tr.phase = "loop"
    /\ Live(tr.lease, now)
    /\ tr.acked # tr.lease.seq
    /\ "ack" \notin slot.torn
    /\ slot.ack \notin {NoFrame, tr.acked}
    /\ tr' = IF slot.ack = tr.lease.seq THEN [tr EXCEPT !.acked = slot.ack]
                                        ELSE [tr EXCEPT !.phase = "broken"]
    /\ UNCHANGED <<now, own, watch, guest, slot>>

\* The guest process has exited with a report.
TrResult ==
    /\ tr.phase = "loop"
    /\ Live(tr.lease, now)
    /\ GuestEnded
    /\ tr' = [tr EXCEPT !.phase = "done"]
    /\ UNCHANGED <<now, own, watch, guest, slot>>

\* Lease over, control closed, or an RPC lost or out of time.
TrLost ==
    /\ tr.phase # "off"
    /\ ~TransportEnded
    /\ tr' = GivenUp
    /\ UNCHANGED <<now, own, watch, guest, slot>>

\* The guest agent carries out a request nobody waits for any more.  Neither
\* request is ever repeated.
TrLate ==
    /\ tr.phase = "failed"
    /\ now < tr.lease.deadline
    /\ tr' = [tr EXCEPT !.late = "none"]
    /\ \/ /\ tr.late = "execute"
          /\ guest' = Booting
          /\ UNCHANGED slot
       \/ /\ tr.late = "write"
          /\ slot' = [slot EXCEPT !.lease = tr.lease.seq, !.torn = @ \ {"lease"}]
          /\ UNCHANGED guest
    /\ UNCHANGED <<now, own, watch>>

-----------------------------------------------------------------------------
(* The guest: fork_supervisor waiting for its first lease, then draining it  *)
(* between the steps of supervise.                                           *)

\* Initialisation is over; then the supervisor starts and its lease with it.
GuestReady ==
    /\ now < guest.lease.deadline
    /\ \/ /\ guest.phase = "booting"
          /\ guest' = [guest EXCEPT !.phase = "ready"]
       \/ /\ guest.phase = "ready"
          /\ guest' = [phase |-> "poll", lease |-> NewLease(now, GuestTotal, Silence)]
    /\ UNCHANGED <<now, own, watch, tr, slot>>

\* read_pending: a slot that is whole and not the one read before.  The
\* acknowledgement is written before the lease is next looked at.
GuestRead ==
    /\ guest.phase = "poll"
    /\ "lease" \notin slot.torn
    /\ slot.lease # guest.lease.seq
    /\ \/ /\ CanFeed(guest.lease, slot.lease, now)
          /\ guest' = [guest EXCEPT !.phase = "acking", !.lease = Fed(@, slot.lease, now)]
          /\ slot' = [slot EXCEPT !.torn = @ \cup {"ack"}]
       \/ /\ InTime(guest.lease, now) /\ ~IsNext(guest.lease, slot.lease)
          /\ guest' = [guest EXCEPT !.phase = "broken"]
          /\ UNCHANGED slot
    /\ UNCHANGED <<now, own, watch, tr>>

GuestAck ==
    /\ guest.phase = "acking"
    /\ guest' = [guest EXCEPT !.phase = "poll"]
    /\ slot' = [slot EXCEPT !.ack = guest.lease.seq, !.torn = @ \ {"ack"}]
    /\ UNCHANGED <<now, own, watch, tr>>

\* The supervised work ended and its report is written under a live lease.
GuestFinish ==
    /\ guest.phase = "poll"
    /\ Live(guest.lease, now)
    /\ \E verdict \in {"passed", "failed"} : guest' = [guest EXCEPT !.phase = verdict]
    /\ UNCHANGED <<now, own, watch, tr, slot>>

\* Mutant: the wait for the first frame has no limit.
GuestExpire_onceStarted ==
    /\ \/ guest.phase \in {"booting", "ready"}
       \/ guest.phase = "poll" /\ guest.lease.seq # NoFrame /\ ~InTime(guest.lease, now)
    /\ guest' = [guest EXCEPT !.phase = "failed"]
    /\ UNCHANGED <<now, own, watch, tr, slot>>

\* Lease.check refused (the supervisor kills its worker and reports), or the
\* guest's initialisation failed.
GuestExpire ==
    /\ \/ guest.phase \in {"booting", "ready"}
       \/ guest.phase = "poll" /\ ~InTime(guest.lease, now)
    /\ guest' = [guest EXCEPT !.phase = "failed"]
    /\ UNCHANGED <<now, own, watch, tr, slot>>

-----------------------------------------------------------------------------
Tick ==
    /\ now < MaxTime
    /\ now' = now + 1
    /\ UNCHANGED <<own, watch, tr, guest, slot>>

Owner == OwnerRenew \/ OwnerTakeAck \/ OwnerStop
Watchdog == WatchInitial \/ WatchAck \/ WatchEarly \/ WatchRenew \/ WatchResult \/ WatchLost
Transport == TrInitial \/ TrExecute \/ TrReady \/ TrTear \/ TrWrite \/ TrRenew \/ TrAck
             \/ TrResult \/ TrLost \/ TrLate
Guest == GuestReady \/ GuestRead \/ GuestAck \/ GuestFinish \/ GuestExpire

Next == Tick \/ Owner \/ Watchdog \/ Transport \/ Guest

Spec == Init /\ [][Next]_vars

\* The monotonic clock advances and the guest supervisor polls its mailbox and
\* its lease in sleeps of 0.01 to 0.05 s.  Nothing is asked of the other
\* three: the watchdog and the transport may hang or be dead.
FairSpec ==
    /\ Spec
    /\ WF_vars(Tick)
    /\ WF_vars(GuestReady \/ GuestRead \/ GuestAck)
    /\ WF_vars(GuestExpire)

-----------------------------------------------------------------------------
(* Properties. *)

\* Every variable has its type.
TypeOK ==
    /\ now \in Times
    /\ own \in [phase: {"open", "closed", "broken"}, sent: Seqs, acked: Seqs,
               next: Nat, at: Times]
    /\ watch \in [phase: {"initial", "relay", "watch", "closed", "done", "failed", "broken"},
                 lease: LeaseRecord, acked: Seqs]
    /\ tr \in [phase: {"off", "initial", "execute", "ready", "write", "loop",
                      "done", "failed", "broken"},
              lease: LeaseRecord, acked: Seqs, mode: {"native", "legacy"},
              late: {"none", "execute", "write"}]
    /\ guest \in [phase: {"off", "booting", "ready", "poll", "acking", "passed", "failed", "broken"},
                 lease: LeaseRecord]
    /\ slot \in [lease: Seqs, ack: Seqs, torn: SUBSET {"lease", "ack"}]

\* "Caller receives an ACK only after guest acceptance" (fork_watchdog) and "it
\* cannot queue future renewals": along the whole chain no stage is ahead of
\* the one it hears from, no acknowledgement runs ahead of an acceptance, and
\* at most one renewal is anywhere between the owner and the guest.
InStep ==
    /\ own.acked <= watch.acked
    /\ watch.acked <= tr.acked
    /\ tr.acked <= slot.ack
    /\ slot.ack <= guest.lease.seq
    /\ guest.lease.seq <= slot.lease
    /\ slot.lease <= tr.lease.seq
    /\ tr.lease.seq <= watch.lease.seq
    /\ watch.lease.seq <= own.sent
    /\ own.sent <= own.acked + 1

\* Work never outlives a lost owner for long: once the first renewal after
\* admission has been accepted, a live guest lease proves that the owner sent
\* something less than two silence windows ago, however slow or dead the
\* watchdog and the transport in between may be.
OrphanBound ==
    /\ guest.phase \in {"poll", "acking"}
    /\ guest.lease.seq >= 1
    /\ Live(guest.lease, now)
    => now < own.at + 2 * Silence

\* The strict frame checks of the four parties never refuse each other: with
\* torn and stale slots, slow processes and lost RPCs, an attempt ends in a
\* loss, never in "renewal before acknowledgement", "stale/invalid lease
\* message" or an "ACK binding" error.
NeverBroken ==
    "broken" \notin {own.phase, watch.phase, tr.phase, guest.phase}

\* Once the owner is gone the guest's supervisor ends too, so that it can
\* reclaim its worker.
OrphansEnd == (own.phase # "open") ~> (guest.phase = "off" \/ GuestEnded)

=============================================================================
