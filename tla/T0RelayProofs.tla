--------------------------- MODULE T0RelayProofs ---------------------------
(***************************************************************************)
(* On a line of any length, for any messages, hop limits and lifetimes and *)
(* any number of crashes and failed saves: DeliveryIsTrue, AcceptedKept    *)
(* and CustodyKept of T0Relay.                                             *)
(*                                                                         *)
(* A failed save may leave a file that is ahead of memory, or behind it    *)
(* again after the next one.  What no step takes back is the memory of the *)
(* destination: what it has delivered there is on its disk too, and only   *)
(* such a message has an acknowledgement outside the destination.          *)
(***************************************************************************)
EXTENDS T0Relay, TLAPS

Delivered == mem[N].delivered

AnyFrame == [kind : {"msg", "ack"}, m : Msgs, hop : Nat, exp : Nat]

StateType == [pending : SUBSET AnyFrame, delivered : SUBSET Msgs, acked : SUBSET Msgs]

\* A frame where the routes put it: messages before the destination and with
\* the expiry of their submission, acknowledgements past the origin and for
\* messages that are in d.
Placed(n, f, d) ==
    /\ n \in Nodes /\ f \in AnyFrame
    /\ f.kind = "msg" => n < N /\ f.exp = Exp[f.m]
    /\ f.kind = "ack" => n > 1 /\ f.m \in d

\* The same for a request on its way to a node.
Requested(n, f, d) ==
    /\ n \in Nodes /\ f \in AnyFrame
    /\ f.kind = "msg" => n > 1 /\ f.exp = Exp[f.m]
    /\ f.kind = "ack" => n < N /\ f.m \in d

\* The state of a node, in memory or on disk.
Sound(n, s, d) == s \in StateType /\ \A f \in s.pending : Placed(n, f, d)

\* What may be let go of.
Done(m) == m \in Delivered \/ now >= Exp[m]

\* The acknowledgements on the destination's disk are for what is on that disk.
OnDisk(n) == IF n = N THEN disk[N].delivered ELSE Delivered

Stores ==
    /\ mem \in [Nodes -> StateType] /\ disk \in [Nodes -> StateType]
    /\ \A n \in Nodes : Sound(n, mem[n], Delivered) /\ Sound(n, disk[n], OnDisk(n))
    /\ Delivered \subseteq disk[N].delivered
    /\ mem[1].acked \subseteq Delivered /\ disk[1].acked \subseteq Delivered
    /\ \A n \in Nodes, m \in Msgs : Holds(mem[n], m) /\ ~Holds(disk[n], m) => Done(m)

Flights ==
    /\ \A n \in Nodes : \A f \in todo[n] : Placed(n, f, Delivered)
    /\ \A n \in Nodes : call[n].stage # "idle" => Placed(n, call[n].frame, Delivered) /\ call[n].frame.hop > 0
    /\ \A r \in orphans : Requested(r.to, r.frame, Delivered)

FlightTypes ==
    /\ todo \in [Nodes -> SUBSET AnyFrame]
    /\ call \in [Nodes -> [frame : AnyFrame \cup {NoFrame}, stage : Stages]]

Reports ==
    /\ reported \in [Msgs -> {0, 1}]
    /\ \A m \in Msgs : reported[m] = 1 => m \in Delivered

IInv ==
    /\ now \in Nat /\ accepted \subseteq Msgs
    /\ Stores /\ Flights /\ FlightTypes /\ Reports /\ AcceptedKept

----------------------------------------------------------------------------
(***************************************************************************)
(* What every change of a node's state does.                               *)
(***************************************************************************)

\* A state that node n may try to save: what it lets go of is done with, and
\* the destination forgets no delivery.
Successor(n, s) ==
    /\ Sound(n, s, IF n = N THEN s.delivered ELSE Delivered)
    /\ n = N => Delivered \subseteq s.delivered
    /\ n = 1 => s.acked \subseteq Delivered
    /\ \A m \in Msgs : Holds(mem[n], m) /\ ~Holds(s, m) => Done(m)
    /\ n = 1 => \A m \in Msgs : now < Exp[m] /\ (Holds(mem[1], m) \/ m \in mem[1].acked) => Holds(s, m) \/ m \in s.acked

LEMMA Line == 1 \in Nodes /\ N \in Nodes /\ N # 1 /\ N \in Nat /\ N >= 2 /\ \A n \in Nodes : n \in Nat /\ 1 <= n /\ n <= N
BY T0Assumption DEF Nodes

\* More deliveries leave every frame where it may be.
LEMMA PlacedGrows ==
  ASSUME NEW n, NEW f, NEW d, NEW e, d \subseteq e
  PROVE  (Placed(n, f, d) => Placed(n, f, e)) /\ (Requested(n, f, d) => Requested(n, f, e))
BY DEF Placed, Requested

LEMMA SoundGrows ==
  ASSUME NEW n, NEW s, NEW d, NEW e, d \subseteq e, Sound(n, s, d)
  PROVE  Sound(n, s, e)
BY PlacedGrows DEF Sound

\* Messages held by a state are those of its pending frames.
LEMMA HoldsSame ==
  ASSUME NEW s, NEW t, NEW m,
         \A f \in s.pending : f.kind = "msg" /\ f.m = m => f \in t.pending
  PROVE  Holds(s, m) => Holds(t, m)
BY DEF Holds

\* Saved or not, a successor keeps memory and disk sound, and deliveries grow.
LEMMA WriteStep ==
  ASSUME Stores, now' = now, NEW n \in Nodes, NEW s, Successor(n, s), Saved(n, s) \/ SaveFailed(n, s)
  PROVE  Stores' /\ Delivered \subseteq Delivered'
<1>0. s \in StateType /\ mem \in [Nodes -> StateType] /\ disk \in [Nodes -> StateType]
  BY DEF Stores, Successor, Sound
<1>1. CASE Saved(n, s)
  <2>1. /\ mem' = [mem EXCEPT ![n] = s] /\ disk' = [disk EXCEPT ![n] = s]  BY <1>1 DEF Saved
  <2>2. /\ mem' \in [Nodes -> StateType] /\ disk' \in [Nodes -> StateType]
        /\ mem'[n] = s /\ disk'[n] = s
        /\ \A k \in Nodes : k # n => mem'[k] = mem[k] /\ disk'[k] = disk[k]
    BY <1>0, <2>1
  <2>3. Delivered \subseteq Delivered'
    BY <2>2, Line DEF Delivered, Successor
  <2>4. ASSUME NEW k \in Nodes  PROVE Sound(k, mem'[k], Delivered') /\ Sound(k, disk'[k], OnDisk(k)')
    <3>1. CASE k = n
      <4>1. CASE n = N
        BY <2>2, <3>1, <4>1 DEF Successor, Delivered, OnDisk
      <4>2. CASE n # N
        BY <2>2, <2>3, <3>1, <4>2, SoundGrows DEF Successor, OnDisk
      <4>q. QED BY <4>1, <4>2
    <3>2. CASE k # n
      <4>1. Sound(k, mem'[k], Delivered')  BY <2>2, <2>3, <3>2, SoundGrows DEF Stores
      <4>2. CASE k = N  BY <2>2, <3>2, <4>1, <4>2 DEF Stores, OnDisk
      <4>3. CASE k # N
        <5>1. Sound(k, disk[k], Delivered)  BY <4>3 DEF Stores, OnDisk
        <5>q. QED BY <2>2, <2>3, <3>2, <4>1, <4>3, <5>1, SoundGrows DEF OnDisk
      <4>q. QED BY <4>2, <4>3, <4>1
    <3>q. QED BY <3>1, <3>2
  <2>5. Delivered' \subseteq disk'[N].delivered  BY <2>2, Line DEF Delivered, Stores
  <2>6. mem'[1].acked \subseteq Delivered' /\ disk'[1].acked \subseteq Delivered'
    BY <2>2, <2>3, Line DEF Stores, Successor
  <2>7. ASSUME NEW k \in Nodes, NEW m \in Msgs, Holds(mem'[k], m), ~Holds(disk'[k], m)  PROVE Done(m)'
    BY <2>2, <2>3, <2>7 DEF Stores, Done
  <2>q. QED BY <2>2, <2>3, <2>4, <2>5, <2>6, <2>7 DEF Stores
<1>2. CASE SaveFailed(n, s)
  <2>1. mem' = mem /\ (disk' = disk \/ disk' = [disk EXCEPT ![n] = s])  BY <1>2 DEF SaveFailed
  <2>2. Delivered' = Delivered  BY <2>1 DEF Delivered
  <2>3. CASE disk' = disk  BY <2>1, <2>3 DEF Stores, OnDisk, Done, Delivered, Sound
  <2>4. CASE disk' = [disk EXCEPT ![n] = s]
    <3>1. /\ disk' \in [Nodes -> StateType] /\ disk'[n] = s
          /\ \A k \in Nodes : k # n => disk'[k] = disk[k]
      BY <1>0, <2>4
    <3>2. ASSUME NEW k \in Nodes  PROVE Sound(k, mem'[k], Delivered') /\ Sound(k, disk'[k], OnDisk(k)')
      <4>1. Sound(k, mem'[k], Delivered')  BY <2>1, <2>2 DEF Stores
      <4>2. CASE k = n  BY <2>2, <3>1, <4>1, <4>2 DEF Successor, OnDisk
      <4>3. CASE k # n  BY <2>2, <3>1, <4>1, <4>3 DEF Stores, OnDisk
      <4>q. QED BY <4>2, <4>3
    <3>3. Delivered' \subseteq disk'[N].delivered
      BY <2>2, <3>1, Line DEF Stores, Successor
    <3>4. mem'[1].acked \subseteq Delivered' /\ disk'[1].acked \subseteq Delivered'
      BY <2>1, <2>2, <3>1, Line DEF Stores, Successor
    <3>5. ASSUME NEW k \in Nodes, NEW m \in Msgs, Holds(mem'[k], m), ~Holds(disk'[k], m)  PROVE Done(m)'
      BY <2>1, <2>2, <3>1, <3>5 DEF Stores, Done, Successor
    <3>q. QED BY <1>0, <2>1, <2>2, <3>1, <3>2, <3>3, <3>4, <3>5 DEF Stores
  <2>q. QED BY <2>1, <2>2, <2>3, <2>4
<1>q. QED BY <1>1, <1>2

\* Saved or not, a successor keeps what was accepted.
LEMMA KeptStep ==
  ASSUME Stores, AcceptedKept, accepted \subseteq Msgs, now' = now, accepted' = accepted,
         NEW n \in Nodes, NEW s, Successor(n, s), Saved(n, s) \/ SaveFailed(n, s)
  PROVE  AcceptedKept'
<1>0. mem \in [Nodes -> StateType] /\ disk \in [Nodes -> StateType] /\ 1 \in Nodes  BY Line DEF Stores
<1>1. /\ mem'[1] = mem[1] \/ (n = 1 /\ mem'[1] = s)
      /\ disk'[1] = disk[1] \/ (n = 1 /\ disk'[1] = s)
  BY <1>0 DEF Saved, SaveFailed
<1>2. ASSUME NEW m \in accepted, now < Exp[m], NEW u \in {mem'[1], disk'[1]}  PROVE Holds(u, m) \/ m \in u.acked
  <2>0. m \in Msgs  OBVIOUS
  <2>1. \A v \in {mem[1], disk[1]} : Holds(v, m) \/ m \in v.acked  BY <1>2 DEF AcceptedKept
  <2>2. n = 1 => Holds(s, m) \/ m \in s.acked  BY <1>2, <2>0, <2>1 DEF Successor
  <2>q. QED BY <1>1, <1>2, <2>1, <2>2
<1>q. QED BY <1>2 DEF AcceptedKept

\* Requests and snapshots stay where they may be when deliveries grow.
LEMMA FlightsGrow ==
  ASSUME Flights, Delivered \subseteq Delivered', todo' = todo, call' = call, orphans' = orphans
  PROVE  Flights'
BY PlacedGrows DEF Flights

----------------------------------------------------------------------------
(***************************************************************************)
(* The states the operations save.                                         *)
(***************************************************************************)
LEMMA Unchanged ==
  ASSUME Stores, NEW n \in Nodes
  PROVE  Successor(n, mem[n])
BY Line DEF Stores, Successor, Delivered

\* A state with other pending frames, each of which may be there, and without
\* only such messages as are done with; deliveries and acknowledgements as
\* they were.
LEMMA Repended ==
  ASSUME Stores, NEW n \in Nodes, NEW q \in SUBSET AnyFrame,
         \A f \in q : Placed(n, f, Delivered),
         \A m \in Msgs : Holds(mem[n], m) /\ ~(\E f \in q : f.kind = "msg" /\ f.m = m) => Done(m),
         n = 1 => \A m \in Msgs : now < Exp[m] /\ Holds(mem[1], m) => \E f \in q : f.kind = "msg" /\ f.m = m
  PROVE  Successor(n, [mem[n] EXCEPT !.pending = q])
<1> DEFINE s == [mem[n] EXCEPT !.pending = q]
<1>0. mem[n] \in StateType  BY DEF Stores
<1>1. s \in StateType /\ s.pending = q /\ s.delivered = mem[n].delivered /\ s.acked = mem[n].acked
  BY <1>0 DEF StateType
<1>2. \A m : Holds(s, m) <=> \E f \in q : f.kind = "msg" /\ f.m = m  BY <1>1 DEF Holds
<1> HIDE DEF s
<1>3. n = N => s.delivered = Delivered  BY <1>1 DEF Delivered
<1>4. Sound(n, s, IF n = N THEN s.delivered ELSE Delivered)  BY <1>1, <1>3 DEF Sound
<1>5. n = 1 => s.acked \subseteq Delivered  BY <1>1 DEF Stores
<1>6. \A m \in Msgs : Holds(mem[n], m) /\ ~Holds(s, m) => Done(m)  BY <1>2
<1>7. n = 1 => \A m \in Msgs : now < Exp[m] /\ (Holds(mem[1], m) \/ m \in mem[1].acked) => Holds(s, m) \/ m \in s.acked
  BY <1>1, <1>2
<1>8. Successor(n, s)  BY <1>3, <1>4, <1>5, <1>6, <1>7 DEF Successor
<1>q. QED BY <1>8 DEF s

\* Submit: the message is queued with its own expiry; a forced one forgets
\* only its own acknowledgement.
LEMMA SubmittedSuccessor ==
  ASSUME Stores, NEW m \in Msgs, NEW force \in BOOLEAN
  PROVE  Successor(1, Submitted(m, force)) /\ Holds(Submitted(m, force), m)
<1> DEFINE new == [kind |-> "msg", m |-> m, hop |-> HopLimit, exp |-> Exp[m]]
           left == IF force THEN mem[1].acked \ {m} ELSE mem[1].acked
           s == Submitted(m, force)
<1>0. mem[1] \in StateType /\ Sound(1, mem[1], Delivered)  BY Line DEF Stores
<1>1. new \in AnyFrame /\ new.kind = "msg" /\ new.m = m /\ new.exp = Exp[m]  BY T0Assumption DEF AnyFrame
<1>2. left \subseteq mem[1].acked /\ mem[1].acked \ {m} \subseteq left  OBVIOUS
<1>3. s = [mem[1] EXCEPT !.acked = left, !.pending = mem[1].pending \cup {new}]  BY DEF Submitted
<1> HIDE DEF new, left, s
<1>4. /\ s \in StateType /\ s.pending = mem[1].pending \cup {new}
      /\ s.delivered = mem[1].delivered /\ s.acked = left
  BY <1>0, <1>1, <1>2, <1>3 DEF StateType
<1>5. Placed(1, new, Delivered)  BY <1>1, Line DEF Placed
<1>6. Sound(1, s, Delivered)  BY <1>0, <1>4, <1>5 DEF Sound
<1>7. s.acked \subseteq Delivered  BY <1>2, <1>4 DEF Stores
<1>8. Holds(s, m)  BY <1>1, <1>4 DEF Holds
<1>9. \A k \in Msgs : Holds(mem[1], k) => Holds(s, k)  BY <1>4 DEF Holds
<1>10. \A k \in Msgs : k \in mem[1].acked => Holds(s, k) \/ k \in s.acked  BY <1>2, <1>4, <1>8
<1>11. Successor(1, s)  BY <1>6, <1>7, <1>9, <1>10, Line DEF Successor
<1>q. QED BY <1>8, <1>11 DEF s

\* retryOnce drops what has expired, by a clock that may be behind.
LEMMA UnexpiredSuccessor ==
  ASSUME Stores, now \in Nat, NEW n \in Nodes, NEW t \in {now - 1, now}
  PROVE  /\ Successor(n, Unexpired(mem[n], t))
         /\ \A f \in Unexpired(mem[n], t).pending : Placed(n, f, Delivered)
<1> DEFINE q == {f \in mem[n].pending : t < f.exp}
<1>0. mem[n] \in StateType /\ Sound(n, mem[n], Delivered)  BY DEF Stores
<1>1. q \in SUBSET AnyFrame /\ \A f \in q : Placed(n, f, Delivered)  BY <1>0 DEF StateType, Sound
<1>2. ASSUME NEW m \in Msgs, Holds(mem[n], m)  PROVE now >= Exp[m] \/ \E f \in q : f.kind = "msg" /\ f.m = m
  <2>1. PICK f \in mem[n].pending : f.kind = "msg" /\ f.m = m  BY <1>2 DEF Holds
  <2>2. f.exp = Exp[m] /\ Exp[m] \in Nat  BY <1>0, <2>1, T0Assumption DEF Sound, Placed
  <2>3. f \in q \/ now >= Exp[m]  BY <2>2
  <2>q. QED BY <2>1, <2>3
<1>3. \A m \in Msgs : now \in Nat /\ Exp[m] \in Nat  BY T0Assumption
<1>4. Unexpired(mem[n], t) = [mem[n] EXCEPT !.pending = q]  BY DEF Unexpired
<1>5. [mem[n] EXCEPT !.pending = q].pending = q  BY <1>0 DEF StateType
<1> HIDE DEF q
<1>6. Successor(n, [mem[n] EXCEPT !.pending = q])  BY <1>1, <1>2, <1>3, Repended DEF Done
<1>q. QED BY <1>1, <1>4, <1>5, <1>6

\* An acknowledgement that the next hop took over is no message.
LEMMA RelinquishedSuccessor ==
  ASSUME Stores, NEW n \in Nodes, NEW f, f.kind = "ack"
  PROVE  Successor(n, Relinquished(mem[n], f))
<1> DEFINE q == mem[n].pending \ {f}
<1>0. mem[n] \in StateType /\ Sound(n, mem[n], Delivered)  BY DEF Stores
<1>1. q \in SUBSET AnyFrame /\ \A g \in q : Placed(n, g, Delivered)  BY <1>0 DEF StateType, Sound
<1>2. \A m \in Msgs : Holds(mem[n], m) => \E g \in q : g.kind = "msg" /\ g.m = m  BY DEF Holds
<1>3. Relinquished(mem[n], f) = [mem[n] EXCEPT !.pending = q]  BY DEF Relinquished
<1> HIDE DEF q
<1>q. QED BY <1>1, <1>2, <1>3, Repended

\* receiveAtDestination, for a message: it is delivered and acknowledged.
LEMMA DeliverySuccessor ==
  ASSUME Stores, now \in Nat, NEW f, Requested(N, f, Delivered), f.kind = "msg"
  PROVE  Successor(N, AtDestination(mem[N], f)) /\ f.m \in AtDestination(mem[N], f).delivered
<1> DEFINE ack == AckFor(f)
           q == {g \in mem[N].pending : ~SameId(g, ack)} \cup {ack}
           s == AtDestination(mem[N], f)
<1>0. mem[N] \in StateType /\ Sound(N, mem[N], Delivered)  BY Line DEF Stores
<1>1. f.m \in Msgs  BY DEF Requested, AnyFrame
<1>2. ack \in AnyFrame /\ ack.kind = "ack" /\ ack.m = f.m  BY <1>1, T0Assumption DEF AckFor, AnyFrame
<1>3. s = [mem[N] EXCEPT !.delivered = mem[N].delivered \cup {f.m}, !.pending = q]  BY DEF AtDestination
<1>4. q \in SUBSET AnyFrame  BY <1>0, <1>2 DEF StateType
<1>5. /\ s \in StateType /\ s.pending = q /\ s.delivered = mem[N].delivered \cup {f.m} /\ s.acked = mem[N].acked
  <2> HIDE DEF q, s
  <2>q. QED BY <1>0, <1>1, <1>3, <1>4 DEF StateType
<1>6. Delivered \subseteq s.delivered  BY <1>5 DEF Delivered
<1>7. ASSUME NEW g \in q  PROVE Placed(N, g, s.delivered)
  <2>1. CASE g = ack  BY <1>2, <1>5, <2>1, Line DEF Placed
  <2>2. CASE g # ack
    <3>1. Placed(N, g, Delivered)  BY <1>0, <1>7, <2>2 DEF Sound
    <3>q. QED BY <1>6, <3>1, PlacedGrows
  <2>q. QED BY <2>1, <2>2
<1>8. \A m \in Msgs : ~Holds(mem[N], m)  BY <1>0, Line DEF Holds, Sound, Placed
<1> HIDE DEF q, s
<1>9. Sound(N, s, s.delivered)  BY <1>5, <1>7 DEF Sound
<1>10. Successor(N, s)  BY <1>6, <1>8, <1>9, Line DEF Successor
<1>q. QED BY <1>5, <1>10 DEF s

\* receiveAtDestination, for an acknowledgement: its message is let go of.
LEMMA AckSuccessor ==
  ASSUME Stores, NEW f, Requested(1, f, Delivered), f.kind = "ack"
  PROVE  Successor(1, AtDestination(mem[1], f))
<1> DEFINE q == {g \in mem[1].pending : ~(g.kind = "msg" /\ g.m = f.m)}
           s == AtDestination(mem[1], f)
<1>0. mem[1] \in StateType /\ Sound(1, mem[1], Delivered) /\ mem[1].acked \subseteq Delivered  BY Line DEF Stores
<1>1. f.m \in Msgs /\ f.m \in Delivered  BY DEF Requested, AnyFrame
<1>2. s = [mem[1] EXCEPT !.acked = mem[1].acked \cup {f.m}, !.pending = q]  BY DEF AtDestination
<1>3. q \in SUBSET AnyFrame  BY <1>0 DEF StateType
<1>4. s \in StateType /\ s.pending = q /\ s.delivered = mem[1].delivered /\ s.acked = mem[1].acked \cup {f.m}
  <2> HIDE DEF q, s
  <2>q. QED BY <1>0, <1>1, <1>2, <1>3 DEF StateType
<1>5. Sound(1, s, Delivered)  BY <1>0, <1>4 DEF Sound
<1>6. \A m \in Msgs : Holds(mem[1], m) => m = f.m \/ Holds(s, m)  BY <1>4 DEF Holds
<1>7. Successor(1, s)
  <2> HIDE DEF q, s
  <2>q. QED BY <1>0, <1>1, <1>4, <1>5, <1>6, Line DEF Successor, Done
<1>q. QED BY <1>7 DEF s

\* receiveAtRelay: a message is queued, an acknowledgement replaces it.
LEMMA RelaySuccessor ==
  ASSUME Stores, NEW n \in Nodes, NEW f, Requested(n, f, Delivered), n # Destination(f)
  PROVE  Successor(n, AtRelay(mem[n], f))
<1> DEFINE kept == IF f.kind = "ack" THEN {g \in mem[n].pending : ~(g.kind = "msg" /\ g.m = f.m)}
                   ELSE mem[n].pending
           q == IF \E g \in kept : SameId(g, f) THEN kept ELSE kept \cup {f}
<1>0. mem[n] \in StateType /\ Sound(n, mem[n], Delivered)  BY DEF Stores
<1>1. AtRelay(mem[n], f) = [mem[n] EXCEPT !.pending = q]  BY DEF AtRelay
<1>2. kept \subseteq mem[n].pending /\ kept \subseteq q /\ q \subseteq mem[n].pending \cup {f}  OBVIOUS
<1>3. Placed(n, f, Delivered)
  <2>1. f \in AnyFrame /\ (f.kind = "msg" \/ f.kind = "ack")  BY DEF Requested, AnyFrame
  <2>q. QED BY <2>1, Line DEF Requested, Placed, Destination
<1>4. q \in SUBSET AnyFrame /\ \A g \in q : Placed(n, g, Delivered)
  <2> HIDE DEF kept, q
  <2>q. QED BY <1>0, <1>2, <1>3 DEF StateType, Sound, Placed
<1>5. \A g \in mem[n].pending : g \in kept \/ (f.kind = "ack" /\ g.kind = "msg" /\ g.m = f.m)  OBVIOUS
<1>6. \A m \in Msgs : Holds(mem[n], m) => (\E g \in q : g.kind = "msg" /\ g.m = m) \/ (f.kind = "ack" /\ m = f.m)
  <2> HIDE DEF kept, q
  <2>q. QED BY <1>2, <1>5 DEF Holds
<1>7. n = 1 => f.kind # "ack"  BY Line DEF Destination
<1>8. f.kind = "ack" => f.m \in Delivered  BY DEF Requested
<1> HIDE DEF kept, q
<1>q. QED BY <1>1, <1>4, <1>6, <1>7, <1>8, Repended DEF Done

LEMMA ReceivedSuccessor ==
  ASSUME Stores, now \in Nat, NEW n \in Nodes, NEW f, Requested(n, f, Delivered)
  PROVE  Successor(n, Received(n, f)) /\ (Delivers(n, f) => n = N /\ f.m \in Received(n, f).delivered)
<1>0. f.kind = "msg" \/ f.kind = "ack"  BY DEF Requested, AnyFrame
<1>1. CASE Refused(n, f)  BY <1>1, Unchanged DEF Received, Delivers
<1>2. CASE ~Refused(n, f) /\ n # Destination(f)  BY <1>2, RelaySuccessor DEF Received, Delivers
<1>3. CASE ~Refused(n, f) /\ n = Destination(f) /\ f.kind = "msg"
  BY <1>3, DeliverySuccessor DEF Received, Delivers, Destination
<1>4. CASE ~Refused(n, f) /\ n = Destination(f) /\ f.kind = "ack"
  BY <1>4, AckSuccessor DEF Received, Delivers, Destination
<1>q. QED BY <1>0, <1>1, <1>2, <1>3, <1>4

----------------------------------------------------------------------------
(***************************************************************************)
(* The steps.                                                              *)
(***************************************************************************)
LEMMA InitIInv == Init => IInv
<1> SUFFICES ASSUME Init  PROVE IInv  OBVIOUS
<1> DEFINE empty == NewState
<1>1. /\ NewState \in StateType /\ NewState.pending = {} /\ NewState.delivered = {} /\ NewState.acked = {}
  BY DEF NewState, StateType
<1>2. mem = [n \in Nodes |-> NewState] /\ disk = [n \in Nodes |-> NewState]  BY DEF Init
<1>3. \A n \in Nodes : mem[n] = NewState /\ disk[n] = NewState  BY <1>2
<1>4. Stores
  <2>1. mem \in [Nodes -> StateType] /\ disk \in [Nodes -> StateType]  BY <1>1, <1>2
  <2>2. \A n \in Nodes : \A d : Sound(n, NewState, d)  BY <1>1 DEF Sound
  <2>3. \A m : ~Holds(NewState, m)  BY <1>1 DEF Holds
  <2>q. QED BY <1>1, <1>3, <2>1, <2>2, <2>3, Line DEF Stores, Delivered
<1>5. FlightTypes /\ Flights
  <2>1. \A n \in Nodes : todo[n] = {} /\ call[n] = NoCall  BY DEF Init
  <2>2. NoCall \in [frame : AnyFrame \cup {NoFrame}, stage : Stages] /\ NoCall.stage = "idle"  BY DEF NoCall, Stages
  <2>3. todo \in [Nodes -> SUBSET AnyFrame]  BY DEF Init
  <2>4. call = [n \in Nodes |-> NoCall] /\ orphans = {}  BY DEF Init
  <2>5. call \in [Nodes -> [frame : AnyFrame \cup {NoFrame}, stage : Stages]]  BY <2>2, <2>4
  <2>q. QED BY <2>1, <2>2, <2>3, <2>4, <2>5 DEF FlightTypes, Flights
<1>6. Reports  BY DEF Init, Reports
<1>7. AcceptedKept /\ now \in Nat /\ accepted \subseteq Msgs  BY DEF Init, AcceptedKept
<1>q. QED BY <1>4, <1>5, <1>6, <1>7 DEF IInv

\* A delivery is reported by the save that records it.
LEMMA ReceiveStep ==
  ASSUME IInv, now' = now, accepted' = accepted, NEW n \in Nodes, NEW f, NEW reply,
         Requested(n, f, Delivered), Receive(n, f, reply)
  PROVE  Stores' /\ Delivered \subseteq Delivered' /\ AcceptedKept' /\ Reports'
<1>0. Stores /\ now \in Nat /\ AcceptedKept /\ accepted \subseteq Msgs /\ Reports  BY DEF IInv
<1>1. Successor(n, Received(n, f)) /\ (Delivers(n, f) => n = N /\ f.m \in Received(n, f).delivered)
  BY <1>0, ReceivedSuccessor
<1>2. Saved(n, Received(n, f)) \/ SaveFailed(n, Received(n, f))  BY DEF Receive
<1>3. Stores' /\ Delivered \subseteq Delivered'  BY <1>0, <1>1, <1>2, WriteStep
<1>4. AcceptedKept'  BY <1>0, <1>1, <1>2, KeptStep
<1>5. Reports'
  <2>1. CASE reported' = reported  BY <1>0, <1>3, <2>1 DEF Reports
  <2>2. CASE Saved(n, Received(n, f)) /\ Delivers(n, f) /\ reported' = [reported EXCEPT ![f.m] = @ + 1]
    <3>1. f.m \in Msgs  BY DEF Requested, AnyFrame
    <3>2. f.m \notin Delivered  BY <1>1, <2>2 DEF Delivers, Delivered
    <3>3. reported[f.m] = 0  BY <1>0, <3>1, <3>2 DEF Reports
    <3>4. f.m \in Delivered'
      <4>1. mem' = [mem EXCEPT ![N] = Received(N, f)]  BY <1>1, <2>2 DEF Saved
      <4>2. mem'[N] = Received(N, f)  BY <1>0, <4>1, Line DEF Stores
      <4>q. QED BY <1>1, <2>2, <4>2 DEF Delivered
    <3>5. reported' \in [Msgs -> {0, 1}] /\ \A m \in Msgs : m # f.m => reported'[m] = reported[m]
      BY <1>0, <2>2, <3>1, <3>3 DEF Reports
    <3>6. ASSUME NEW m \in Msgs, reported'[m] = 1  PROVE m \in Delivered'
      <4>1. CASE m = f.m  BY <3>4, <4>1
      <4>2. CASE m # f.m  BY <1>0, <1>3, <3>5, <3>6, <4>2 DEF Reports
      <4>q. QED BY <4>1, <4>2
    <3>q. QED BY <3>5, <3>6 DEF Reports
  <2>q. QED BY <2>1, <2>2 DEF Receive
<1>q. QED BY <1>3, <1>4, <1>5

\* What forward sends is a request to the next hop.
LEMMA SentRequest ==
  ASSUME NEW n, NEW f, Placed(n, f, Delivered), f.hop > 0
  PROVE  Requested(NextHop(n, f), [f EXCEPT !.hop = @ - 1], Delivered)
<1> DEFINE g == [f EXCEPT !.hop = @ - 1]
<1>1. f \in AnyFrame /\ f.hop \in Nat /\ f.hop - 1 \in Nat  BY DEF Placed, AnyFrame
<1>2. g \in AnyFrame /\ g.kind = f.kind /\ g.m = f.m /\ g.exp = f.exp  BY <1>1 DEF AnyFrame
<1>3. f.kind = "msg" \/ f.kind = "ack"  BY <1>1 DEF AnyFrame
<1> HIDE DEF g
<1>4. CASE f.kind = "msg"
  <2>1. n \in Nodes /\ n < N /\ NextHop(n, f) = n + 1  BY <1>4 DEF Placed, NextHop
  <2>2. n + 1 \in Nodes /\ n + 1 > 1  BY <2>1, T0Assumption DEF Nodes
  <2>q. QED BY <1>2, <1>4, <2>1, <2>2 DEF Placed, Requested, g
<1>5. CASE f.kind = "ack"
  <2>1. n \in Nodes /\ n > 1 /\ NextHop(n, f) = n - 1  BY <1>5 DEF Placed, NextHop
  <2>2. n - 1 \in Nodes /\ n - 1 < N  BY <2>1, T0Assumption DEF Nodes
  <2>q. QED BY <1>2, <1>5, <2>1, <2>2 DEF Placed, Requested, g
<1>q. QED BY <1>3, <1>4, <1>5

LEMMA SubmitStep ==
  ASSUME IInv, NEW m \in Msgs, NEW force \in BOOLEAN, Submit(m, force)
  PROVE  IInv'
<1>0. Stores /\ now \in Nat /\ AcceptedKept /\ accepted \subseteq Msgs  BY DEF IInv
<1>1. UNCHANGED <<now, todo, call, orphans, reported>>  BY DEF Submit
<1>2. Successor(1, Submitted(m, force)) /\ Holds(Submitted(m, force), m)  BY <1>0, SubmittedSuccessor
<1>3. Saved(1, Submitted(m, force)) \/ SaveFailed(1, Submitted(m, force))  BY DEF Submit
<1>4. Stores' /\ Delivered \subseteq Delivered'  BY <1>0, <1>1, <1>2, <1>3, Line, WriteStep
<1>5. Flights' /\ FlightTypes' /\ Reports'
  BY <1>1, <1>4, FlightsGrow DEF IInv, FlightTypes, Reports
<1>6. AcceptedKept' /\ accepted' \subseteq Msgs
  <2>1. CASE accepted' = accepted  BY <1>0, <1>1, <1>2, <1>3, <2>1, Line, KeptStep
  <2>2. CASE Saved(1, Submitted(m, force)) /\ accepted' = accepted \cup {m}
    <3>1. mem'[1] = Submitted(m, force) /\ disk'[1] = Submitted(m, force)
      BY <1>0, <2>2, Line DEF Saved, Stores
    <3>2. ASSUME NEW k \in accepted', now < Exp[k]
          PROVE  Holds(Submitted(m, force), k) \/ k \in Submitted(m, force).acked
      <4>1. CASE k = m  BY <1>2, <4>1
      <4>2. CASE k \in accepted
        <5>1. Holds(mem[1], k) \/ k \in mem[1].acked  BY <1>0, <3>2, <4>2 DEF AcceptedKept
        <5>q. QED BY <1>0, <1>2, <3>2, <4>2, <5>1 DEF Successor
      <4>q. QED BY <2>2, <4>1, <4>2
    <3>q. QED BY <1>0, <1>1, <2>2, <3>1, <3>2 DEF AcceptedKept
  <2>q. QED BY <2>1, <2>2 DEF Submit
<1>q. QED BY <1>0, <1>1, <1>4, <1>5, <1>6 DEF IInv

LEMMA ServeStep ==
  ASSUME IInv, NEW n \in Nodes, Serve(n)
  PROVE  IInv'
<1> DEFINE f == [call[n].frame EXCEPT !.hop = @ - 1]
           to == NextHop(n, call[n].frame)
<1>0. call[n].stage = "sent" /\ UNCHANGED <<now, todo, orphans, accepted>>  BY DEF Serve
<1>1. Placed(n, call[n].frame, Delivered) /\ call[n].frame.hop > 0  BY <1>0 DEF IInv, Flights
<1>2. Requested(to, f, Delivered)  BY <1>1, SentRequest
<1>3. PICK reply \in {"accepted", "rejected"} : Receive(to, f, reply) /\ call' = [call EXCEPT ![n].stage = reply]
  BY DEF Serve
<1>4. to \in Nodes  BY <1>2 DEF Requested
<1> HIDE DEF f, to
<1>5. Stores' /\ Delivered \subseteq Delivered' /\ AcceptedKept' /\ Reports'  BY <1>0, <1>2, <1>3, <1>4, ReceiveStep
<1>6. FlightTypes' /\ (\A k \in Nodes : call'[k].frame = call[k].frame /\ (call'[k].stage = "idle" <=> call[k].stage = "idle"))
  BY <1>0, <1>3 DEF IInv, FlightTypes, Stages
<1>7. Flights'  BY <1>0, <1>5, <1>6, PlacedGrows DEF IInv, Flights
<1>q. QED BY <1>0, <1>5, <1>6, <1>7 DEF IInv

LEMMA ServeOrphanStep ==
  ASSUME IInv, NEW r \in orphans, ServeOrphan(r)
  PROVE  IInv'
<1>0. UNCHANGED <<now, todo, call, accepted>> /\ orphans' = orphans \ {r}  BY DEF ServeOrphan
<1>1. Requested(r.to, r.frame, Delivered)  BY DEF IInv, Flights
<1>2. PICK reply \in {"accepted", "rejected"} : Receive(r.to, r.frame, reply)  BY DEF ServeOrphan
<1>3. r.to \in Nodes  BY <1>1 DEF Requested
<1>4. Stores' /\ Delivered \subseteq Delivered' /\ AcceptedKept' /\ Reports'  BY <1>0, <1>1, <1>2, <1>3, ReceiveStep
<1>5. FlightTypes'  BY <1>0 DEF IInv, FlightTypes
<1>6. Flights'  BY <1>0, <1>4, PlacedGrows DEF IInv, Flights
<1>q. QED BY <1>0, <1>4, <1>5, <1>6 DEF IInv

LEMMA SnapshotStep ==
  ASSUME IInv, NEW n \in Nodes, NEW t \in {now - 1, now}, Snapshot(n, t)
  PROVE  IInv'
<1> DEFINE s == Unexpired(mem[n], t)
<1>0. UNCHANGED <<now, call, orphans, accepted, reported>>  BY DEF Snapshot
<1>1. Stores /\ now \in Nat /\ AcceptedKept /\ accepted \subseteq Msgs /\ FlightTypes /\ Flights /\ Reports  BY DEF IInv
<1>2. Successor(n, s) /\ \A f \in s.pending : Placed(n, f, Delivered)  BY <1>1, UnexpiredSuccessor
<1>3. /\ UNCHANGED <<mem, disk>> \/ Saved(n, s) \/ SaveFailed(n, s)
      /\ todo' = todo \/ todo' = [todo EXCEPT ![n] = s.pending]
  BY DEF Snapshot
<1> HIDE DEF s
<1>4. Stores' /\ Delivered \subseteq Delivered' /\ AcceptedKept'
  <2>1. CASE UNCHANGED <<mem, disk>>  BY <1>0, <1>1, <2>1 DEF Stores, Delivered, OnDisk, Done, AcceptedKept, Sound
  <2>2. CASE Saved(n, s) \/ SaveFailed(n, s)  BY <1>0, <1>1, <1>2, <2>2, WriteStep, KeptStep
  <2>q. QED BY <1>3, <2>1, <2>2
<1>5. s.pending \in SUBSET AnyFrame  BY <1>2 DEF Placed
<1>6. FlightTypes'  BY <1>0, <1>1, <1>3, <1>5 DEF FlightTypes
<1>7. \A k \in Nodes : \A f \in todo'[k] : Placed(k, f, Delivered)  BY <1>1, <1>2, <1>3 DEF FlightTypes, Flights
<1>8. Flights'  BY <1>0, <1>1, <1>4, <1>7, PlacedGrows DEF Flights
<1>9. Reports'  BY <1>0, <1>1, <1>4 DEF Reports
<1>q. QED BY <1>0, <1>1, <1>4, <1>6, <1>8, <1>9 DEF IInv

LEMMA ForwardStep ==
  ASSUME IInv, NEW n \in Nodes, NEW f \in todo[n], Forward(n, f)
  PROVE  IInv'
<1>0. UNCHANGED <<now, mem, disk, orphans, accepted, reported>>  BY DEF Forward
<1>1. FlightTypes /\ Flights /\ Placed(n, f, Delivered)  BY DEF IInv, Flights
<1>2. f \in AnyFrame /\ f.hop \in Nat  BY <1>1 DEF Placed, AnyFrame
<1>3. todo' = [todo EXCEPT ![n] = @ \ {f}]  BY DEF Forward
<1>4. call' = call \/ (f.hop # 0 /\ call' = [call EXCEPT ![n] = [frame |-> f, stage |-> "sent"]])  BY DEF Forward
<1>5. FlightTypes'  BY <1>1, <1>2, <1>3, <1>4 DEF FlightTypes, Stages
<1>6. Delivered' = Delivered  BY <1>0 DEF Delivered
<1>7. \A k \in Nodes : todo'[k] \subseteq todo[k]  BY <1>1, <1>3 DEF FlightTypes
<1>8. \A k \in Nodes : call'[k] = call[k] \/ (k = n /\ f.hop > 0 /\ call'[k] = [frame |-> f, stage |-> "sent"])
  BY <1>1, <1>2, <1>4 DEF FlightTypes
<1>9. Flights'  BY <1>0, <1>1, <1>6, <1>7, <1>8 DEF Flights
<1>10. Stores' /\ Reports' /\ AcceptedKept'
  BY <1>0 DEF IInv, Stores, Reports, Delivered, OnDisk, Done, AcceptedKept, Sound
<1>q. QED BY <1>0, <1>5, <1>9, <1>10 DEF IInv

\* A call that ends leaves nothing in flight.
LEMMA CallEnds ==
  ASSUME FlightTypes, NEW n \in Nodes, call' = [call EXCEPT ![n] = NoCall], todo' = todo
  PROVE  FlightTypes' /\ \A k \in Nodes : call'[k] = call[k] \/ call'[k].stage = "idle"
<1>1. NoCall \in [frame : AnyFrame \cup {NoFrame}, stage : Stages] /\ NoCall.stage = "idle"  BY DEF NoCall, Stages
<1>q. QED BY <1>1 DEF FlightTypes

LEMMA FinishStep ==
  ASSUME IInv, NEW n \in Nodes, Finish(n)
  PROVE  IInv'
<1> DEFINE f == call[n].frame
<1>0. UNCHANGED <<now, todo, orphans, accepted, reported>> /\ call' = [call EXCEPT ![n] = NoCall]  BY DEF Finish
<1>1. Stores /\ now \in Nat /\ AcceptedKept /\ accepted \subseteq Msgs /\ FlightTypes /\ Flights /\ Reports  BY DEF IInv
<1>2. Stores' /\ Delivered \subseteq Delivered' /\ AcceptedKept'
  <2>1. CASE UNCHANGED <<mem, disk>>  BY <1>0, <1>1, <2>1 DEF Stores, Delivered, OnDisk, Done, AcceptedKept, Sound
  <2>2. CASE f.kind = "ack" /\ (Saved(n, Relinquished(mem[n], f)) \/ SaveFailed(n, Relinquished(mem[n], f)))
    <3>1. Successor(n, Relinquished(mem[n], f))  BY <1>1, <2>2, RelinquishedSuccessor
    <3>q. QED BY <1>0, <1>1, <2>2, <3>1, WriteStep, KeptStep
  <2>q. QED BY <2>1, <2>2 DEF Finish
<1>3. FlightTypes' /\ \A k \in Nodes : call'[k] = call[k] \/ call'[k].stage = "idle"  BY <1>0, <1>1, CallEnds
<1>4. Flights'  BY <1>0, <1>1, <1>2, <1>3, PlacedGrows DEF Flights
<1>5. Reports'  BY <1>0, <1>1, <1>2 DEF Reports
<1>q. QED BY <1>0, <1>1, <1>2, <1>3, <1>4, <1>5 DEF IInv

LEMMA GiveUpStep ==
  ASSUME IInv, NEW n \in Nodes, GiveUp(n)
  PROVE  IInv'
<1> DEFINE r == [to |-> NextHop(n, call[n].frame), frame |-> [call[n].frame EXCEPT !.hop = @ - 1]]
<1>0. UNCHANGED <<now, mem, disk, todo, accepted, reported>> /\ call' = [call EXCEPT ![n] = NoCall]  BY DEF GiveUp
<1>1. FlightTypes /\ Flights /\ Placed(n, call[n].frame, Delivered) /\ call[n].frame.hop > 0
  BY DEF IInv, Flights, GiveUp
<1>2. Requested(r.to, r.frame, Delivered)  BY <1>1, SentRequest
<1>3. orphans' \subseteq orphans \cup {r}  BY DEF GiveUp
<1> HIDE DEF r
<1>4. FlightTypes' /\ \A k \in Nodes : call'[k] = call[k] \/ call'[k].stage = "idle"  BY <1>0, <1>1, CallEnds
<1>5. Delivered' = Delivered  BY <1>0 DEF Delivered
<1>6. Flights'  BY <1>0, <1>1, <1>2, <1>3, <1>4, <1>5 DEF Flights
<1>7. Stores' /\ Reports' /\ AcceptedKept'
  BY <1>0 DEF IInv, Stores, Reports, Delivered, OnDisk, Done, AcceptedKept, Sound
<1>q. QED BY <1>0, <1>4, <1>6, <1>7 DEF IInv

\* A restart reads a file that may be ahead of the memory it replaces, or
\* behind it only in messages that are done with.
LEMMA CrashStores ==
  ASSUME IInv, NEW n \in Nodes, Crash(n)
  PROVE  Stores' /\ Delivered \subseteq Delivered' /\ AcceptedKept'
<1>0. Stores /\ AcceptedKept /\ mem' = [mem EXCEPT ![n] = disk[n]] /\ UNCHANGED <<now, disk, accepted>>
  BY DEF IInv, Crash
<1>1. /\ mem' \in [Nodes -> StateType] /\ mem'[n] = disk[n]
      /\ \A k \in Nodes : k # n => mem'[k] = mem[k]
  BY <1>0 DEF Stores
<1>2. Delivered \subseteq Delivered' /\ Delivered' \subseteq disk[N].delivered
  BY <1>0, <1>1, Line DEF Delivered, Stores
<1>3. n = N => Delivered' = disk[N].delivered  BY <1>1 DEF Delivered
<1>4. ASSUME NEW k \in Nodes  PROVE Sound(k, mem'[k], Delivered') /\ Sound(k, disk'[k], OnDisk(k)')
  <2>0. Sound(k, mem[k], Delivered) /\ Sound(k, disk[k], OnDisk(k))  BY <1>0 DEF Stores
  <2>1. Sound(k, disk[k], OnDisk(k)')
    <3>1. OnDisk(k) \subseteq OnDisk(k)'  BY <1>0, <1>2 DEF OnDisk
    <3>q. QED BY <2>0, <3>1, SoundGrows
  <2>2. Sound(k, mem'[k], Delivered')
    <3>1. CASE k = n
      <4>1. OnDisk(k) \subseteq Delivered'  BY <1>2, <1>3, <3>1 DEF OnDisk
      <4>q. QED BY <1>1, <2>0, <3>1, <4>1, SoundGrows
    <3>2. CASE k # n  BY <1>1, <1>2, <2>0, <3>2, SoundGrows
    <3>q. QED BY <3>1, <3>2
  <2>q. QED BY <1>0, <2>1, <2>2
<1>5. mem'[1].acked \subseteq Delivered' /\ disk'[1].acked \subseteq Delivered'
  BY <1>0, <1>1, <1>2, Line DEF Stores
<1>6. ASSUME NEW k \in Nodes, NEW m \in Msgs, Holds(mem'[k], m), ~Holds(disk'[k], m)  PROVE Done(m)'
  <2>1. k # n /\ mem'[k] = mem[k]  BY <1>0, <1>1, <1>6
  <2>2. Done(m)  BY <1>0, <1>6, <2>1 DEF Stores
  <2>q. QED BY <1>0, <1>2, <2>2 DEF Done
<1>7. Stores'  BY <1>0, <1>1, <1>2, <1>4, <1>5, <1>6 DEF Stores
<1>8. AcceptedKept'
  <2>1. mem'[1] = mem[1] \/ mem'[1] = disk[1]  BY <1>1, Line
  <2>q. QED BY <1>0, <2>1 DEF AcceptedKept
<1>q. QED BY <1>2, <1>7, <1>8

LEMMA CrashStep ==
  ASSUME IInv, NEW n \in Nodes, Crash(n)
  PROVE  IInv'
<1> DEFINE r == [to |-> NextHop(n, call[n].frame), frame |-> [call[n].frame EXCEPT !.hop = @ - 1]]
<1>0. UNCHANGED <<now, accepted, reported>> /\ todo' = [todo EXCEPT ![n] = {}]  BY DEF Crash
<1>1. FlightTypes /\ Flights /\ Reports  BY DEF IInv
<1>2. Stores' /\ Delivered \subseteq Delivered' /\ AcceptedKept'  BY CrashStores
<1>3. orphans' \subseteq orphans \/ (call[n].stage = "sent" /\ orphans' \subseteq orphans \cup {r})  BY DEF Crash
<1>4. call[n].stage = "sent" => Requested(r.to, r.frame, Delivered)
  <2>1. call[n].stage = "sent" => Placed(n, call[n].frame, Delivered) /\ call[n].frame.hop > 0  BY <1>1 DEF Flights
  <2>q. QED BY <2>1, SentRequest
<1> HIDE DEF r
<1>5. \A k \in Nodes :
        \/ call'[k] = call[k]
        \/ call'[k] = NoCall
        \/ call[k].stage = "sent" /\ call'[k] = [call[k] EXCEPT !.stage = "rejected"]
  BY DEF Crash
<1>6. NoCall \in [frame : AnyFrame \cup {NoFrame}, stage : Stages] /\ NoCall.stage = "idle"  BY DEF NoCall, Stages
<1>7. ASSUME NEW k \in Nodes
      PROVE  /\ call'[k] \in [frame : AnyFrame \cup {NoFrame}, stage : Stages]
             /\ call'[k].stage # "idle" => call'[k].frame = call[k].frame /\ call[k].stage # "idle"
  BY <1>1, <1>5, <1>6 DEF FlightTypes, Stages
<1>8. FlightTypes'
  <2>1. call' = [k \in Nodes |-> call'[k]]  BY DEF Crash
  <2>2. call' \in [Nodes -> [frame : AnyFrame \cup {NoFrame}, stage : Stages]]  BY <1>7, <2>1
  <2>q. QED BY <1>0, <1>1, <2>2 DEF FlightTypes
<1>9. \A k \in Nodes : todo'[k] \subseteq todo[k]  BY <1>0, <1>1 DEF FlightTypes
<1>10. Flights'  BY <1>1, <1>2, <1>3, <1>4, <1>7, <1>9, PlacedGrows DEF Flights
<1>11. Reports'  BY <1>0, <1>1, <1>2 DEF Reports
<1>q. QED BY <1>0, <1>2, <1>8, <1>10, <1>11 DEF IInv

LEMMA TickStep == IInv /\ Tick => IInv'
<1> SUFFICES ASSUME IInv, Tick  PROVE IInv'  OBVIOUS
<1>0. UNCHANGED <<mem, disk, todo, call, orphans, accepted, reported>> /\ now' = now + 1 /\ now \in Nat  BY DEF IInv, Tick
<1>1. Delivered' = Delivered /\ \A n : OnDisk(n)' = OnDisk(n)  BY <1>0 DEF Delivered, OnDisk
<1>2. \A m \in Msgs : Done(m) => Done(m)'
  <2>1. \A m \in Msgs : Exp[m] \in Nat  BY T0Assumption
  <2>q. QED BY <1>0, <1>1, <2>1 DEF Done
<1>3. Stores'  BY <1>0, <1>1, <1>2 DEF IInv, Stores
<1>4. Flights' /\ FlightTypes' /\ Reports'  BY <1>0, <1>1 DEF IInv, Flights, FlightTypes, Reports
<1>5. AcceptedKept'
  <2>1. \A m \in accepted : Exp[m] \in Nat  BY T0Assumption DEF IInv
  <2>q. QED BY <1>0, <2>1 DEF IInv, AcceptedKept
<1>q. QED BY <1>0, <1>3, <1>4, <1>5 DEF IInv

LEMMA StepIInv == IInv /\ [Next]_vars => IInv'
<1> SUFFICES ASSUME IInv, [Next]_vars  PROVE IInv'  OBVIOUS
<1>1. CASE \E m \in Msgs, force \in BOOLEAN : Submit(m, force)  BY <1>1, SubmitStep
<1>2. ASSUME NEW n \in Nodes, Serve(n) \/ Finish(n) \/ GiveUp(n) \/ Crash(n)  PROVE IInv'
  BY <1>2, ServeStep, FinishStep, GiveUpStep, CrashStep
<1>3. CASE \E r \in orphans : ServeOrphan(r)  BY <1>3, ServeOrphanStep
<1>4. CASE \E n \in Nodes, t \in {now - 1, now} : Snapshot(n, t)  BY <1>4, SnapshotStep
<1>5. CASE \E n \in Nodes : \E f \in todo[n] : Forward(n, f)  BY <1>5, ForwardStep
<1>6. CASE Tick  BY <1>6, TickStep
<1>7. CASE UNCHANGED vars
  BY <1>7 DEF vars, IInv, Stores, Flights, FlightTypes, Reports, Delivered, OnDisk, Done, AcceptedKept, Sound
<1>q. QED BY <1>1, <1>2, <1>3, <1>4, <1>5, <1>6, <1>7 DEF Next

LEMMA Always == Spec => []IInv
BY InitIInv, StepIInv, PTL DEF Spec

----------------------------------------------------------------------------
(***************************************************************************)
(* The results.                                                            *)
(***************************************************************************)

\* A message the origin counts as acknowledged is in the destination's memory
\* and file, and no delivery is reported twice, whatever is lost, late,
\* repeated, reverted or restarted.
THEOREM DeliveryIsAlwaysTrue == Spec => []DeliveryIsTrue
<1>1. IInv => DeliveryIsTrue
  <2> SUFFICES ASSUME IInv  PROVE DeliveryIsTrue  OBVIOUS
  <2>1. \A m \in Msgs : reported[m] <= 1  BY DEF IInv, Reports
  <2>q. QED BY <2>1 DEF IInv, Stores, Delivered, DeliveryIsTrue
<1>q. QED BY <1>1, Always, PTL

\* Until it expires, an accepted message is held or known acknowledged at its
\* origin, in memory and on disk.
THEOREM AcceptedIsAlwaysKept == Spec => []AcceptedKept
<1>1. IInv => AcceptedKept  BY DEF IInv
<1>q. QED BY <1>1, Always, PTL

\* Only states that let go of nothing but what is done with are ever put in
\* the place of a node's memory.
LEMMA MemoryWrites ==
  ASSUME IInv, [Next]_vars
  PROVE  \/ UNCHANGED mem
         \/ \E n \in Nodes : mem' = [mem EXCEPT ![n] = disk[n]]
         \/ \E n \in Nodes : \E s : Successor(n, s) /\ mem' = [mem EXCEPT ![n] = s]
<1>0. Stores /\ now \in Nat /\ Flights  BY DEF IInv
<1>1. ASSUME NEW n \in Nodes, NEW s, Successor(n, s), Saved(n, s) \/ SaveFailed(n, s)
      PROVE  UNCHANGED mem \/ \E k \in Nodes : \E u : Successor(k, u) /\ mem' = [mem EXCEPT ![k] = u]
  BY <1>1 DEF Saved, SaveFailed
<1>2. ASSUME NEW n, NEW f, NEW reply, Requested(n, f, Delivered), Receive(n, f, reply)
      PROVE  UNCHANGED mem \/ \E k \in Nodes : \E u : Successor(k, u) /\ mem' = [mem EXCEPT ![k] = u]
  <2>1. n \in Nodes  BY <1>2 DEF Requested
  <2>2. Successor(n, Received(n, f))  BY <1>0, <1>2, <2>1, ReceivedSuccessor
  <2>q. QED BY <1>1, <1>2, <2>1, <2>2 DEF Receive
<1>3. ASSUME NEW m \in Msgs, NEW force \in BOOLEAN, Submit(m, force)
      PROVE  UNCHANGED mem \/ \E k \in Nodes : \E u : Successor(k, u) /\ mem' = [mem EXCEPT ![k] = u]
  <2>1. Successor(1, Submitted(m, force)) /\ 1 \in Nodes  BY <1>0, SubmittedSuccessor, Line
  <2>q. QED BY <1>1, <1>3, <2>1 DEF Submit
<1>4. ASSUME NEW n \in Nodes, Serve(n)
      PROVE  UNCHANGED mem \/ \E k \in Nodes : \E u : Successor(k, u) /\ mem' = [mem EXCEPT ![k] = u]
  <2>1. Placed(n, call[n].frame, Delivered) /\ call[n].frame.hop > 0  BY <1>0, <1>4 DEF Flights, Serve
  <2>2. Requested(NextHop(n, call[n].frame), [call[n].frame EXCEPT !.hop = @ - 1], Delivered)  BY <2>1, SentRequest
  <2>q. QED BY <1>2, <1>4, <2>2 DEF Serve
<1>5. ASSUME NEW r \in orphans, ServeOrphan(r)
      PROVE  UNCHANGED mem \/ \E k \in Nodes : \E u : Successor(k, u) /\ mem' = [mem EXCEPT ![k] = u]
  <2>1. Requested(r.to, r.frame, Delivered)  BY <1>0 DEF Flights
  <2>q. QED BY <1>2, <1>5, <2>1 DEF ServeOrphan
<1>6. ASSUME NEW n \in Nodes, NEW t \in {now - 1, now}, Snapshot(n, t)
      PROVE  UNCHANGED mem \/ \E k \in Nodes : \E u : Successor(k, u) /\ mem' = [mem EXCEPT ![k] = u]
  <2>1. Successor(n, Unexpired(mem[n], t))  BY <1>0, UnexpiredSuccessor
  <2>q. QED BY <1>1, <1>6, <2>1 DEF Snapshot
<1>7. ASSUME NEW n \in Nodes, Finish(n)
      PROVE  UNCHANGED mem \/ \E k \in Nodes : \E u : Successor(k, u) /\ mem' = [mem EXCEPT ![k] = u]
  <2>1. CASE call[n].frame.kind = "ack"
    <3>1. Successor(n, Relinquished(mem[n], call[n].frame))  BY <1>0, <2>1, RelinquishedSuccessor
    <3>q. QED BY <1>1, <1>7, <3>1 DEF Finish
  <2>2. CASE call[n].frame.kind # "ack"  BY <1>7, <2>2 DEF Finish
  <2>q. QED BY <2>1, <2>2
<1>8. CASE \E n \in Nodes : Crash(n)  BY <1>8 DEF Crash
<1>9. CASE Tick \/ UNCHANGED vars \/ (\E n \in Nodes : GiveUp(n)) \/ (\E n \in Nodes : \E f \in todo[n] : Forward(n, f))
  BY <1>9 DEF Tick, vars, GiveUp, Forward
<1>q. QED BY <1>3, <1>4, <1>5, <1>6, <1>7, <1>8, <1>9 DEF Next

\* No save, failed save, restart or late request makes a node let go of a
\* message before the destination has it for good or it has expired.
THEOREM CustodyIsAlwaysKept == Spec => CustodyKept
<1>1. ASSUME IInv, [Next]_vars, NEW n \in Nodes, NEW m \in Msgs, Holds(mem[n], m), ~Holds(mem'[n], m)
      PROVE  m \in disk[N].delivered \/ now >= Exp[m]
  <2>0. Stores  BY <1>1 DEF IInv
  <2>1. Done(m)
    <3>1. CASE UNCHANGED mem  BY <1>1, <3>1
    <3>2. ASSUME NEW k \in Nodes, mem' = [mem EXCEPT ![k] = disk[k]]  PROVE Done(m)
      <4>1. k = n /\ mem'[n] = disk[n]  BY <1>1, <2>0, <3>2 DEF Stores
      <4>q. QED BY <1>1, <2>0, <4>1 DEF Stores
    <3>3. ASSUME NEW k \in Nodes, NEW s, Successor(k, s), mem' = [mem EXCEPT ![k] = s]  PROVE Done(m)
      <4>1. k = n /\ mem'[n] = s  BY <1>1, <2>0, <3>3 DEF Stores
      <4>q. QED BY <1>1, <3>3, <4>1 DEF Successor
    <3>q. QED BY <1>1, <3>1, <3>2, <3>3, MemoryWrites
  <2>q. QED BY <2>0, <2>1 DEF Done, Stores
<1>2. IInv /\ [Next]_vars =>
        [\A n \in Nodes, m \in Msgs :
           Holds(mem[n], m) /\ ~Holds(mem'[n], m) => m \in disk[N].delivered \/ now >= Exp[m]]_vars
  BY <1>1
<1>q. QED BY <1>2, Always, PTL DEF Spec, CustodyKept

=============================================================================
