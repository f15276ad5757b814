------------------------------ MODULE T0Relay ------------------------------
(***************************************************************************)
(* The test relay of tools/t0/internal/t0node on a line of nodes 1..N:     *)
(* messages go from node 1 to node N, acknowledgements back.               *)
(*                                                                         *)
(* Every change of a node's state runs under its mutex and ends with       *)
(* Save (mutateLocked).  A Save may fail before or after the file was      *)
(* replaced; memory is reverted either way, so memory and disk may differ  *)
(* until the next Save.  The retry loop takes a snapshot under the mutex   *)
(* and forwards it frame by frame without it: the requests it sends are    *)
(* stale copies.  A request may be lost, its response may be lost, and it  *)
(* may be served after its sender gave up.  Counters of drops and          *)
(* duplicates are left out; the Save that records them is not.             *)
(***************************************************************************)
EXTENDS Integers, FiniteSets

CONSTANTS
  N,          \* number of nodes on the line
  Msgs,       \* message identifiers
  Exp,        \* per message, when it expires
  HopLimit,   \* hop limit of a submitted message
  AckHops,    \* AckHopLimit
  AckLife,    \* lifetime of an acknowledgement (30 s)
  MaxTime,    \* bound on the clock
  MaxFaults,  \* bound on crashes and failed saves
  MaxOrphans  \* bound on the requests that are under way when a sender gives up

ASSUME T0Assumption ==
  /\ N \in Nat /\ N >= 2
  /\ Exp \in [Msgs -> Nat]
  /\ HopLimit \in Nat \ {0} /\ AckHops \in Nat \ {0} /\ AckLife \in Nat \ {0}
  /\ MaxTime \in Nat /\ MaxFaults \in Nat /\ MaxOrphans \in Nat

VARIABLES
  now,       \* the clock
  mem,       \* per node, node.state
  disk,      \* per node, what the state file holds
  todo,      \* per node, the frames of the snapshot not yet forwarded
  call,      \* per node, the Call that forward is waiting for
  orphans,   \* requests whose sender gave up and which may still be served
  faults,    \* crashes and failed saves so far
  accepted,  \* messages whose submission was answered with "queued"
  reported   \* per message, how often "delivered" was reported

vars == <<now, mem, disk, todo, call, orphans, faults, accepted, reported>>

Nodes == 1..N

Frame == [kind: {"msg", "ack"}, m: Msgs, hop: 0..32, exp: Nat]

\* The frame's ID: a message's own, or the one derived for its ack.
SameId(f, g) == f.kind = g.kind /\ f.m = g.m

State == [pending: SUBSET Frame, delivered: SUBSET Msgs, acked: SUBSET Msgs]
NewState == [pending |-> {}, delivered |-> {}, acked |-> {}]

Destination(f) == IF f.kind = "msg" THEN N ELSE 1

\* The routes of the line.
NextHop(n, f) == IF f.kind = "msg" THEN n + 1 ELSE n - 1

NoFrame == [kind |-> "none", m |-> "none", hop |-> 0, exp |-> 0]
NoCall == [frame |-> NoFrame, stage |-> "idle"]
Stages == {"idle", "sent", "accepted", "rejected"}

Holds(s, m) == \E f \in s.pending : f.kind = "msg" /\ f.m = m

Init ==
  /\ now = 0
  /\ mem = [n \in Nodes |-> NewState]
  /\ disk = [n \in Nodes |-> NewState]
  /\ todo = [n \in Nodes |-> {}]
  /\ call = [n \in Nodes |-> NoCall]
  /\ orphans = {}
  /\ faults = 0
  /\ accepted = {}
  /\ reported = [m \in Msgs |-> 0]

-----------------------------------------------------------------------------
(* mutateLocked *)

\* The bug "the new state is kept in memory only".
Saved_memoryOnly(n, s) ==
  /\ mem' = [mem EXCEPT ![n] = s]
  /\ UNCHANGED <<disk, faults>>

Saved(n, s) ==
  /\ mem' = [mem EXCEPT ![n] = s]
  /\ disk' = [disk EXCEPT ![n] = s]
  /\ UNCHANGED faults

\* Save failed: memory is reverted, the file may have been replaced.
SaveFailed(n, s) ==
  /\ faults < MaxFaults /\ faults' = faults + 1
  /\ disk' \in {disk, [disk EXCEPT ![n] = s]}
  /\ UNCHANGED mem

-----------------------------------------------------------------------------
(* Submit at node 1 *)

SubmitGuard(m, force) ==
  /\ now < Exp[m]
  /\ ~Holds(mem[1], m)
  /\ m \notin mem[1].acked \/ force

Submitted(m, force) ==
  [mem[1] EXCEPT !.acked = IF force THEN @ \ {m} ELSE @,
                 !.pending = @ \cup {[kind |-> "msg", m |-> m, hop |-> HopLimit, exp |-> Exp[m]]}]

\* The bug "a submission is confirmed although its save failed".
Submit_ignoresError(m, force) ==
  /\ SubmitGuard(m, force)
  /\ Saved(1, Submitted(m, force)) \/ SaveFailed(1, Submitted(m, force))
  /\ accepted' = accepted \cup {m}
  /\ UNCHANGED <<now, todo, call, orphans, reported>>

\* A message that is pending or acknowledged already changes nothing.
Submit(m, force) ==
  /\ SubmitGuard(m, force)
  /\ \/ Saved(1, Submitted(m, force)) /\ accepted' = accepted \cup {m}
     \/ SaveFailed(1, Submitted(m, force)) /\ UNCHANGED accepted
  /\ UNCHANGED <<now, todo, call, orphans, reported>>

-----------------------------------------------------------------------------
(* Receive *)

AckFor(f) == [kind |-> "ack", m |-> f.m, hop |-> AckHops, exp |-> now + AckLife]

\* receiveAtDestination: a message is recorded once and acknowledged always.
AtDestination(s, f) ==
  IF f.kind = "msg"
  THEN [s EXCEPT !.delivered = @ \cup {f.m},
                 !.pending = {g \in @ : ~SameId(g, AckFor(f))} \cup {AckFor(f)}]
  ELSE [s EXCEPT !.acked = @ \cup {f.m},
                 !.pending = {g \in @ : ~(g.kind = "msg" /\ g.m = f.m)}]

\* At a relay an acknowledgement ends the custody of its message; a frame
\* already queued under the same ID is kept as it is.
AtRelay(s, f) ==
  LET kept == IF f.kind = "ack" THEN {g \in s.pending : ~(g.kind = "msg" /\ g.m = f.m)}
              ELSE s.pending
  IN [s EXCEPT !.pending = IF \E g \in kept : SameId(g, f) THEN kept ELSE kept \cup {f}]

\* Refused frames are counted as drops, which saves the state unchanged.
Refused(n, f) == now >= f.exp \/ (n # Destination(f) /\ f.hop = 0)

Received(n, f) ==
  IF Refused(n, f) THEN mem[n]
  ELSE IF n = Destination(f) THEN AtDestination(mem[n], f) ELSE AtRelay(mem[n], f)

\* Whether this frame's delivery is reported, and the answer to the sender.
Delivers(n, f) ==
  ~Refused(n, f) /\ n = Destination(f) /\ f.kind = "msg" /\ f.m \notin mem[n].delivered

Answer(n, f) == IF Refused(n, f) THEN "rejected" ELSE "accepted"

\* Receive of f at n; `reply' is what the sender is told.
Receive(n, f, reply) ==
  \/ /\ Saved(n, Received(n, f))
     /\ reported' = IF Delivers(n, f) THEN [reported EXCEPT ![f.m] = @ + 1] ELSE reported
     /\ reply = Answer(n, f)
  \/ /\ SaveFailed(n, Received(n, f))
     /\ UNCHANGED reported
     /\ reply = "rejected"

\* The request of a waiting sender is served.
Serve(n) ==
  /\ call[n].stage = "sent"
  /\ \E reply \in {"accepted", "rejected"} :
       /\ Receive(NextHop(n, call[n].frame), [call[n].frame EXCEPT !.hop = @ - 1], reply)
       /\ call' = [call EXCEPT ![n].stage = reply]
  /\ UNCHANGED <<now, todo, orphans, accepted>>

\* A request is served whose sender is gone.
ServeOrphan(r) ==
  /\ \E reply \in {"accepted", "rejected"} : Receive(r.to, r.frame, reply)
  /\ orphans' = orphans \ {r}
  /\ UNCHANGED <<now, todo, call, accepted>>

-----------------------------------------------------------------------------
(* retryOnce and forward *)

Idle(n) == todo[n] = {} /\ call[n] = NoCall

\* The bug "a frame is dropped one instant before it expires".
Unexpired_early(s, t) == [s EXCEPT !.pending = {f \in @ : t + 1 < f.exp}]

\* The bug "only expired messages are dropped from the queue".
Unexpired_keepsAcks(s, t) ==
  [s EXCEPT !.pending = {f \in @ : f.kind = "ack" \/ t < f.exp}]

Unexpired(s, t) == [s EXCEPT !.pending = {f \in @ : t < f.exp}]

\* The critical section of retryOnce, with the time of a tick that may have
\* waited while the round before it ran: drop what expired, take a snapshot.
Snapshot(n, t) ==
  /\ Idle(n)
  /\ \/ /\ Unexpired(mem[n], t) = mem[n]
        /\ todo' = [todo EXCEPT ![n] = mem[n].pending]
        /\ UNCHANGED <<mem, disk, faults>>
     \/ /\ Unexpired(mem[n], t) # mem[n]
        /\ Saved(n, Unexpired(mem[n], t))
        /\ todo' = [todo EXCEPT ![n] = Unexpired(mem[n], t).pending]
     \/ /\ Unexpired(mem[n], t) # mem[n]
        /\ SaveFailed(n, Unexpired(mem[n], t))
        /\ UNCHANGED todo
  /\ UNCHANGED <<now, call, orphans, accepted, reported>>

\* forward: acknowledgements first; a frame without hops is skipped.
Forward(n, f) ==
  /\ f \in todo[n] /\ call[n] = NoCall
  /\ f.kind = "msg" => \A g \in todo[n] : g.kind = "msg"
  /\ todo' = [todo EXCEPT ![n] = @ \ {f}]
  /\ call' = IF f.hop = 0 THEN call ELSE [call EXCEPT ![n] = [frame |-> f, stage |-> "sent"]]
  /\ UNCHANGED <<now, mem, disk, orphans, faults, accepted, reported>>

\* An acknowledgement the next hop took over is dropped, if it is still the
\* one that was sent.
Relinquished(s, f) == [s EXCEPT !.pending = @ \ {f}]

\* The response arrived.
Finish(n) ==
  /\ call[n].stage \in {"accepted", "rejected"}
  /\ call' = [call EXCEPT ![n] = NoCall]
  /\ IF call[n].stage = "accepted" /\ call[n].frame.kind = "ack"
     THEN \/ Saved(n, Relinquished(mem[n], call[n].frame))
          \/ SaveFailed(n, Relinquished(mem[n], call[n].frame))
     ELSE UNCHANGED <<mem, disk, faults>>
  /\ UNCHANGED <<now, todo, orphans, accepted, reported>>

\* The sender gives up: the request was lost, is still on its way, or was
\* served and the response is lost.
GiveUp(n) ==
  /\ call[n].stage # "idle"
  /\ call' = [call EXCEPT ![n] = NoCall]
  /\ \/ orphans' = orphans
     \/ /\ call[n].stage = "sent" /\ Cardinality(orphans) < MaxOrphans
        /\ orphans' = orphans \cup
             {[to |-> NextHop(n, call[n].frame), frame |-> [call[n].frame EXCEPT !.hop = @ - 1]]}
  /\ UNCHANGED <<now, mem, disk, todo, faults, accepted, reported>>

-----------------------------------------------------------------------------
(* The environment *)

\* The process of n ends and is started again from its file; requests to it
\* are lost, those it sent may still be served.
Crash(n) ==
  /\ faults < MaxFaults /\ faults' = faults + 1
  /\ mem' = [mem EXCEPT ![n] = disk[n]]
  /\ todo' = [todo EXCEPT ![n] = {}]
  /\ call' = [k \in Nodes |->
                IF k = n THEN NoCall
                ELSE IF call[k].stage = "sent" /\ NextHop(k, call[k].frame) = n
                THEN [call[k] EXCEPT !.stage = "rejected"] ELSE call[k]]
  /\ orphans' \in LET rest == {r \in orphans : r.to # n}
                  IN {rest} \cup (IF call[n].stage # "sent" THEN {}
                                  ELSE {rest \cup {[to |-> NextHop(n, call[n].frame),
                                                    frame |-> [call[n].frame EXCEPT !.hop = @ - 1]]}})
  /\ UNCHANGED <<now, disk, accepted, reported>>

Tick ==
  /\ now < MaxTime /\ now' = now + 1
  /\ UNCHANGED <<mem, disk, todo, call, orphans, faults, accepted, reported>>

Next ==
  \/ \E m \in Msgs, force \in BOOLEAN : Submit(m, force)
  \/ \E n \in Nodes : Serve(n) \/ Finish(n) \/ GiveUp(n) \/ Crash(n)
  \/ \E r \in orphans : ServeOrphan(r)
  \/ \E n \in Nodes, t \in {now - 1, now} : Snapshot(n, t)
  \/ \E n \in Nodes : \E f \in todo[n] : Forward(n, f)
  \/ Tick

Spec == Init /\ [][Next]_vars

-----------------------------------------------------------------------------
(* Properties *)

\* A message the origin counts as acknowledged has been delivered, in memory
\* and on the disk of the destination, and no delivery is reported twice,
\* whatever was reverted, repeated or restarted.
DeliveryIsTrue ==
  /\ \A m \in mem[1].acked \cup disk[1].acked :
       m \in mem[N].delivered /\ m \in disk[N].delivered
  /\ \A m \in Msgs : reported[m] <= 1

\* A message whose submission was accepted is never lost: until it expires
\* the origin holds it, in memory and on disk, or knows it acknowledged.
AcceptedKept ==
  \A m \in accepted : now < Exp[m] =>
    \A s \in {mem[1], disk[1]} : Holds(s, m) \/ m \in s.acked

\* A node lets go of a message it has taken over only when the destination
\* has it for good or it has expired; no failed save and no restart breaks it.
CustodyKept ==
  [][\A n \in Nodes, m \in Msgs :
       Holds(mem[n], m) /\ ~Holds(mem'[n], m)
         => m \in disk[N].delivered \/ now >= Exp[m]]_vars

-----------------------------------------------------------------------------
(* Liveness *)

\* The ticker of the retry loop never stops, and only one tick can have waited
\* from before an instant: rounds at the present time do not cease (strong
\* fairness, since there may be late ones between them).  forward goes through
\* its frames; a request that is repeated for ever is answered in
\* the end, for messages and for acknowledgements.
Fairness ==
  /\ \A n \in Nodes :
       /\ SF_vars(Snapshot(n, now))
       /\ WF_vars(Finish(n) \/ \E f \in todo[n] : Forward(n, f))
  /\ \A n \in 1..(N - 1) : SF_vars(call[n].frame.kind = "msg" /\ Serve(n))
  /\ \A n \in 2..N : SF_vars(call[n].frame.kind = "ack" /\ Serve(n))

FairSpec == Spec /\ Fairness

\* Every accepted message is acknowledged at its origin, unless it expires
\* first: no combination of stale copies and lost answers blocks it, nor does an
\* acknowledgement that expired on the way, at a relay that refuses to queue a
\* second one under the same ID while it holds the first.
AckedOrExpired ==
  \A m \in Msgs : m \in accepted ~> (m \in mem[1].acked \/ now >= Exp[m])
=============================================================================
