---------------------------- MODULE LeaseProofs ----------------------------
(***************************************************************************)
(* The lease from the owner to the guest, and the supervisor that holds    *)
(* the far end of it.                                                      *)
(*                                                                         *)
(* LeaseChain, for any windows and bounds: the chain stays in step, its    *)
(* strict checks never refuse a frame, and a guest outlives its owner's    *)
(* last renewal by less than two silence windows.  InStep alone nearly is  *)
(* inductive: it squeezes every counter between own.acked and              *)
(* own.acked + 1.  What it lacks is which phases wait for an               *)
(* acknowledgement (Waiting), that a stage that has not started holds      *)
(* nothing (Fresh), and, for the bound in time, that the guest had         *)
(* accepted the previous renewal before the owner sent the current one     *)
(* (Timed).                                                                *)
(*                                                                         *)
(* Supervisor: its group is its own and its report is true, whenever it is *)
(* killed, whatever the worker does and whichever calls fail.              *)
(***************************************************************************)
EXTENDS LeaseChain, Supervisor, TLAPS

\* A stage that has not started has received nothing and caused nothing.
Fresh ==
    /\ watch.phase = "initial" => tr.phase = "off"
    /\ tr.phase = "off" => tr.lease.seq = NoFrame
    /\ tr.phase \in {"off", "initial", "execute"} => guest.phase = "off"
    /\ tr.late # "none" => tr.phase = "failed"
    /\ tr.late = "execute" => guest.phase = "off"
    /\ guest.phase \in {"off", "booting", "ready"} => guest.lease.seq = NoFrame

\* These phases hold a renewal that has not been acknowledged.
Waiting ==
    /\ watch.phase \in {"relay", "closed"} => watch.acked < watch.lease.seq
    /\ tr.phase \in {"execute", "ready", "write"} => tr.acked < tr.lease.seq

\* The guest accepted renewal k before the owner sent k + 1, and accepts it
\* less than one window after the owner sent it.
Timed ==
    /\ own.at <= now
    /\ guest.lease.last <= now
    /\ guest.lease.seq >= 0 /\ guest.lease.seq < own.sent => guest.lease.last <= own.at
    /\ guest.lease.seq >= 1 /\ guest.lease.seq = own.sent
         => guest.lease.last < own.at + Silence

ChainInv == TypeOK /\ InStep /\ Fresh /\ Waiting /\ Timed /\ NeverBroken

\* A new lease and a renewed one are lease records.
LEMMA LeaseRecords ==
    ASSUME NEW t \in Times, NEW total \in Nat
    PROVE  /\ NewLease(t, total, Silence) \in LeaseRecord
           /\ NewLease(t, total, Silence).seq = NoFrame
           /\ NewLease(t, total, Silence).last = t
           /\ \A l \in LeaseRecord, s \in Seqs :
                /\ Fed(l, s, t) \in LeaseRecord
                /\ Fed(l, s, t).seq = s
                /\ Fed(l, s, t).last = t
<1>1. NewLease(t, total, Silence) \in LeaseRecord
  BY LeaseChainAssumption DEF NewLease, LeaseRecord, Seqs, Times, NoFrame
<1>2. NewLease(t, total, Silence).seq = NoFrame /\ NewLease(t, total, Silence).last = t
  BY DEF NewLease
<1>3. ASSUME NEW l \in LeaseRecord, NEW s \in Seqs
      PROVE  Fed(l, s, t) \in LeaseRecord /\ Fed(l, s, t).seq = s /\ Fed(l, s, t).last = t
  BY DEF Fed, LeaseRecord
<1> QED BY <1>1, <1>2, <1>3

\* The counters and instants of a well-typed state are integers.
LEMMA Numbers ==
    TypeOK => /\ now \in Int
              /\ own.sent \in Int /\ own.acked \in Int /\ own.at \in Int
              /\ watch.acked \in Int /\ watch.lease.seq \in Int
              /\ tr.acked \in Int /\ tr.lease.seq \in Int
              /\ guest.lease.seq \in Int /\ guest.lease.last \in Int
              /\ guest.lease.silence = Silence
              /\ slot.lease \in Int /\ slot.ack \in Int
BY LeaseChainAssumption DEF TypeOK, LeaseRecord, Seqs, Times, NoFrame

\* Initially nothing has been sent.
LEMMA InitChain == Init => ChainInv
<1> SUFFICES ASSUME Init PROVE ChainInv OBVIOUS
<1>1. 0 \in Times /\ NoFrame \in Seqs
  BY LeaseChainAssumption DEF Times, Seqs, NoFrame
<1>2. /\ NewLease(0, HostTotal, Silence) \in LeaseRecord
      /\ NewLease(0, HostTotal, Silence).seq = NoFrame
      /\ NewLease(0, GuestTotal, Silence) \in LeaseRecord
      /\ NewLease(0, GuestTotal, Silence).seq = NoFrame
      /\ NewLease(0, GuestTotal, Silence).last = 0
  BY <1>1, LeaseRecords, LeaseChainAssumption
<1>3. TypeOK
  BY <1>1, <1>2 DEF Init, TypeOK
<1>4. InStep /\ Timed
  BY <1>2 DEF Init, InStep, Timed, NoFrame
<1>5. Fresh /\ Waiting /\ NeverBroken
  BY <1>2 DEF Init, Fresh, Waiting, NeverBroken
<1> QED BY <1>3, <1>4, <1>5 DEF ChainInv

\* What a transport leaves when it gives up.
LEMMA GivenUpKeeps ==
    ASSUME TypeOK
    PROVE  /\ GivenUp \in [phase: {"off", "initial", "execute", "ready", "write", "loop",
                                   "done", "failed", "broken"},
                            lease: LeaseRecord, acked: Seqs, mode: {"native", "legacy"},
                            late: {"none", "execute", "write"}]
           /\ GivenUp.phase = "failed"
           /\ GivenUp.lease = tr.lease
           /\ GivenUp.acked = tr.acked
           /\ GivenUp.late = "execute" => tr.phase = "execute"
<1>1. tr.phase \in {"execute", "write"} =>
        GivenUp = [tr EXCEPT !.phase = "failed", !.late = tr.phase]
  BY DEF GivenUp
<1>2. tr.phase \notin {"execute", "write"} =>
        GivenUp = [tr EXCEPT !.phase = "failed", !.late = "none"]
  BY DEF GivenUp
<1> QED BY <1>1, <1>2 DEF TypeOK

\* The owner's steps.
LEMMA OwnerKeeps == ChainInv /\ Owner => ChainInv'
<1> SUFFICES ASSUME ChainInv, Owner PROVE ChainInv' OBVIOUS
<1> USE LeaseChainAssumption DEF ChainInv
<1>1. CASE OwnerRenew
  <2>5. own.sent + 1 \in Seqs /\ now \in Times /\ now + Renewal \in Nat
    BY <1>1, Numbers DEF OwnerRenew, TypeOK, Seqs, Times, NoFrame
  <2>6. /\ own' = [own EXCEPT !.sent = own.sent + 1, !.next = now + Renewal, !.at = now]
        /\ UNCHANGED <<now, watch, tr, guest, slot>>
    BY <1>1 DEF OwnerRenew
  <2>7. own' \in [phase: {"open", "closed", "broken"}, sent: Seqs, acked: Seqs,
                  next: Nat, at: Times]
    BY <2>5, <2>6 DEF TypeOK
  <2>1. TypeOK'
    BY <2>6, <2>7 DEF TypeOK
  <2>2. /\ own'.sent = own.sent + 1 /\ own'.acked = own.acked /\ own'.at = now
        /\ own.sent = own.acked
        /\ UNCHANGED <<now, watch, tr, guest, slot>>
    BY <1>1 DEF OwnerRenew, TypeOK
  <2>4. InStep' /\ Timed'
    BY <2>2, Numbers DEF InStep, Timed
  <2>3. Fresh' /\ Waiting' /\ NeverBroken'
    BY <1>1 DEF OwnerRenew, TypeOK, Fresh, Waiting, NeverBroken
  <2> QED BY <2>1, <2>3, <2>4
<1>2. CASE OwnerTakeAck
  <2>1. watch.acked = own.sent
    BY <1>2, Numbers DEF OwnerTakeAck, InStep
  <2>2. own' = [own EXCEPT !.acked = watch.acked] /\ UNCHANGED <<now, watch, tr, guest, slot>>
    BY <1>2, <2>1 DEF OwnerTakeAck
  <2>3. TypeOK'
    BY <2>2 DEF TypeOK
  <2>4. own'.sent = own.sent /\ own'.acked = watch.acked /\ own'.at = own.at /\ own'.phase = own.phase
    BY <2>2 DEF TypeOK
  <2>5. InStep' /\ Timed'
    BY <2>1, <2>2, <2>4, Numbers DEF InStep, Timed
  <2>6. Fresh' /\ Waiting' /\ NeverBroken'
    BY <2>2, <2>4 DEF Fresh, Waiting, NeverBroken
  <2> QED BY <2>3, <2>5, <2>6
<1>3. CASE OwnerStop
  <2>1. /\ own' = [own EXCEPT !.phase = "closed"]
        /\ watch' \in {watch, [watch EXCEPT !.phase = "failed"]}
        /\ tr' = tr \/ (tr' = GivenUp /\ tr.phase # "off")
        /\ watch' = watch => tr' = tr
        /\ UNCHANGED <<now, guest, slot>>
    BY <1>3 DEF OwnerStop, WatchEnded, TypeOK
  <2>2. TypeOK'
    BY <2>1, GivenUpKeeps DEF TypeOK
  <2>3. /\ own'.sent = own.sent /\ own'.acked = own.acked /\ own'.at = own.at
        /\ own'.phase = "closed"
        /\ watch'.lease = watch.lease /\ watch'.acked = watch.acked
        /\ watch'.phase \in {watch.phase, "failed"}
        /\ tr'.lease = tr.lease /\ tr'.acked = tr.acked
    BY <2>1 DEF GivenUp, TypeOK
  <2>4. InStep' /\ Timed'
    BY <2>1, <2>3 DEF InStep, Timed
  <2>5. \/ tr' = tr
        \/ /\ tr'.phase = "failed" /\ tr.phase # "off" /\ watch'.phase = "failed"
           /\ tr'.late = "execute" => tr.phase = "execute"
    BY <2>1 DEF GivenUp, TypeOK
  <2>6. Fresh' /\ Waiting' /\ NeverBroken'
    BY <2>1, <2>3, <2>5 DEF Fresh, Waiting, NeverBroken
  <2> QED BY <2>2, <2>4, <2>6
<1> QED BY <1>1, <1>2, <1>3 DEF Owner

\* The watchdog's steps.
LEMMA WatchdogKeeps == ChainInv /\ Watchdog => ChainInv'
<1> SUFFICES ASSUME ChainInv, Watchdog PROVE ChainInv' OBVIOUS
<1> USE LeaseChainAssumption DEF ChainInv
<1>0. own.sent \in Seqs /\ now \in Times /\ watch.lease \in LeaseRecord
  BY DEF TypeOK
<1>f. /\ Fed(watch.lease, own.sent, now) \in LeaseRecord
      /\ Fed(watch.lease, own.sent, now).seq = own.sent
  BY <1>0, LeaseRecords
<1>1. CASE WatchInitial
  <2> DEFINE n == NewLease(now, GuestTotal, Silence)
  <2>1. n \in LeaseRecord /\ n.seq = NoFrame
    BY <1>0, LeaseRecords
  <2> HIDE DEF n
  <2>2. /\ watch.phase = "initial" /\ own.sent > watch.lease.seq
        /\ watch' = [watch EXCEPT !.phase = "relay", !.lease = Fed(watch.lease, own.sent, now)]
        /\ tr' = [tr EXCEPT !.phase = "initial", !.lease = n]
        /\ UNCHANGED <<now, own, guest, slot>>
    BY <1>1 DEF WatchInitial, HostFrame, n
  <2>3. TypeOK'
    BY <2>1, <2>2, <1>f DEF TypeOK
  <2>4. /\ watch'.phase = "relay" /\ watch'.lease.seq = own.sent /\ watch'.acked = watch.acked
        /\ tr'.phase = "initial" /\ tr'.lease.seq = NoFrame
        /\ tr'.acked = tr.acked /\ tr'.late = tr.late
    BY <2>1, <2>2, <1>f DEF TypeOK
  <2>5. tr.phase = "off" /\ tr.lease.seq = NoFrame
    BY <2>2 DEF Fresh
  <2>6. InStep' /\ Timed'
    BY <2>2, <2>4, <2>5, Numbers DEF InStep, Timed
  <2>7. Fresh' /\ NeverBroken'
    BY <2>2, <2>4, <2>5 DEF Fresh, NeverBroken
  <2>8. Waiting'
    BY <2>2, <2>4, Numbers DEF Waiting, InStep
  <2> QED BY <2>3, <2>6, <2>7, <2>8
<1>2. CASE WatchAck
  <2>1. tr.acked = watch.lease.seq
    BY <1>2, Numbers DEF WatchAck, InStep
  <2>2. /\ watch.phase = "relay"
        /\ watch' = [watch EXCEPT !.phase = "watch", !.acked = tr.acked]
        /\ UNCHANGED <<now, own, tr, guest, slot>>
    BY <1>2, <2>1 DEF WatchAck
  <2>3. TypeOK'
    BY <2>2 DEF TypeOK
  <2>4. watch'.phase = "watch" /\ watch'.lease = watch.lease /\ watch'.acked = tr.acked
    BY <2>2 DEF TypeOK
  <2>5. InStep' /\ Timed'
    BY <2>2, <2>4, Numbers DEF InStep, Timed
  <2>6. Fresh' /\ Waiting' /\ NeverBroken'
    BY <2>2, <2>4 DEF Fresh, Waiting, NeverBroken
  <2> QED BY <2>3, <2>5, <2>6
<1>3. CASE WatchEarly
  <2>1. watch.phase = "relay" /\ watch.acked < watch.lease.seq
    BY <1>3 DEF WatchEarly, Waiting
  <2>2. ~HostFrame
    BY <2>1, Numbers DEF HostFrame, InStep
  <2>3. /\ watch' = [watch EXCEPT !.phase = "closed"]
        /\ UNCHANGED <<now, own, tr, guest, slot>>
    BY <1>3, <2>2 DEF WatchEarly
  <2>4. TypeOK'
    BY <2>3 DEF TypeOK
  <2>5. watch'.phase = "closed" /\ watch'.lease = watch.lease /\ watch'.acked = watch.acked
    BY <2>3 DEF TypeOK
  <2>6. InStep' /\ Timed'
    BY <2>3, <2>5 DEF InStep, Timed
  <2>7. Fresh' /\ Waiting' /\ NeverBroken'
    BY <2>1, <2>3, <2>5 DEF Fresh, Waiting, NeverBroken
  <2> QED BY <2>4, <2>6, <2>7
<1>4. CASE WatchRenew
  <2>1. watch.phase = "watch"
    BY <1>4, Numbers DEF WatchRenew, HostFrame, Waiting, InStep
  <2>2. /\ own.sent > watch.lease.seq
        /\ UNCHANGED <<now, own, tr, guest, slot>>
        /\ \/ watch' = [watch EXCEPT !.lease = Fed(watch.lease, own.sent, now), !.phase = "closed"]
           \/ watch' = [watch EXCEPT !.lease = Fed(watch.lease, own.sent, now), !.phase = "relay"]
    BY <1>4, <2>1 DEF WatchRenew, HostFrame
  <2>3. watch' \in [phase: {"closed", "relay"}, lease: LeaseRecord, acked: Seqs]
    BY <2>2, <1>f DEF TypeOK
  <2>4. TypeOK'
    BY <2>2, <2>3 DEF TypeOK
  <2>5. /\ watch'.phase \in {"closed", "relay"}
        /\ watch'.lease.seq = own.sent /\ watch'.acked = watch.acked
    BY <2>2, <1>f DEF TypeOK
  <2>6. InStep' /\ Timed'
    BY <2>2, <2>5, Numbers DEF InStep, Timed
  <2>7. Fresh' /\ NeverBroken'
    BY <2>2, <2>5 DEF Fresh, NeverBroken
  <2>8. Waiting'
    BY <2>2, <2>5, Numbers DEF Waiting, InStep
  <2> QED BY <2>4, <2>6, <2>7, <2>8
<1>5. CASE WatchResult \/ WatchLost
  <2>1. /\ UNCHANGED <<now, own, tr, guest, slot>>
        /\ \/ watch' = [watch EXCEPT !.phase = "done"]
           \/ watch' = [watch EXCEPT !.phase = "failed"]
    BY <1>5 DEF WatchResult, WatchLost
  <2>3. TypeOK'
    BY <2>1 DEF TypeOK
  <2>4. /\ watch'.phase \in {"done", "failed"}
        /\ watch'.lease = watch.lease /\ watch'.acked = watch.acked
    BY <2>1 DEF TypeOK
  <2>5. InStep' /\ Timed'
    BY <2>1, <2>4 DEF InStep, Timed
  <2>6. Fresh' /\ Waiting' /\ NeverBroken'
    BY <2>1, <2>4 DEF Fresh, Waiting, NeverBroken
  <2> QED BY <2>3, <2>5, <2>6
<1> QED BY <1>1, <1>2, <1>3, <1>4, <1>5 DEF Watchdog

\* The transport's steps.
LEMMA TransportKeeps == ChainInv /\ Transport => ChainInv'
<1> SUFFICES ASSUME ChainInv, Transport PROVE ChainInv' OBVIOUS
<1> USE LeaseChainAssumption DEF ChainInv
<1> DEFINE fed == Fed(tr.lease, watch.lease.seq, now)
<1>0. /\ watch.lease.seq \in Seqs /\ now \in Times /\ tr.lease \in LeaseRecord
      /\ tr.lease.seq \in Seqs
  BY DEF TypeOK, LeaseRecord
<1>f. fed \in LeaseRecord /\ fed.seq = watch.lease.seq
  BY <1>0, LeaseRecords
<1>b. /\ Booting \in [phase: {"booting"}, lease: LeaseRecord]
      /\ Booting.lease.seq = NoFrame /\ Booting.lease.last = now
  BY <1>0, LeaseRecords DEF Booting
<1> HIDE DEF fed
<1>1. CASE TrInitial
  <2>1. /\ tr.phase = "initial" /\ watch.lease.seq > tr.lease.seq
        /\ \/ tr' = [tr EXCEPT !.phase = "execute", !.lease = fed]
           \/ tr' = [tr EXCEPT !.phase = "write", !.lease = fed]
        /\ UNCHANGED <<now, own, watch, guest, slot>>
    BY <1>1 DEF TrInitial, GuestFrame, Relayed, fed
  <2>2. tr' \in [phase: {"execute", "write"}, lease: LeaseRecord, acked: Seqs,
                mode: {"native", "legacy"}, late: {"none", "execute", "write"}]
    BY <2>1, <1>f DEF TypeOK
  <2>3. TypeOK'
    BY <2>1, <2>2 DEF TypeOK
  <2>4. /\ tr'.phase \in {"execute", "write"} /\ tr'.lease.seq = watch.lease.seq
        /\ tr'.acked = tr.acked /\ tr'.late = tr.late
    BY <2>1, <1>f DEF TypeOK
  <2>5. InStep' /\ Timed'
    BY <2>1, <2>4, Numbers DEF InStep, Timed
  <2>6. Fresh' /\ NeverBroken'
    BY <2>1, <2>4 DEF Fresh, NeverBroken
  <2>7. Waiting'
    BY <2>1, <2>4, Numbers DEF Waiting, InStep
  <2> QED BY <2>3, <2>5, <2>6, <2>7
<1>2. CASE TrExecute
  <2>1. /\ tr.phase = "execute"
        /\ \/ tr' = [tr EXCEPT !.phase = "ready"]
           \/ tr' = [tr EXCEPT !.phase = "loop"]
        /\ guest' = Booting
        /\ UNCHANGED <<now, own, watch, slot>>
    BY <1>2 DEF TrExecute
  <2>2. TypeOK'
    BY <2>1, <1>b DEF TypeOK
  <2>3. /\ tr'.phase \in {"ready", "loop"} /\ tr'.lease = tr.lease
        /\ tr'.acked = tr.acked /\ tr'.late = tr.late
        /\ guest'.phase = "booting" /\ guest'.lease.seq = NoFrame /\ guest'.lease.last = now
    BY <2>1, <1>b DEF TypeOK
  <2>4. guest.lease.seq = NoFrame /\ tr.late = "none"
    BY <2>1 DEF Fresh
  <2>5. InStep'
    BY <2>1, <2>3, <2>4 DEF InStep
  <2>6. Timed'
    BY <2>1, <2>3, Numbers DEF Timed, NoFrame
  <2>7. Fresh' /\ Waiting' /\ NeverBroken'
    BY <2>1, <2>3, <2>4 DEF Fresh, Waiting, NeverBroken
  <2> QED BY <2>2, <2>5, <2>6, <2>7
<1>3. CASE TrReady
  <2>1. ~GuestFrame
    BY <1>3, Numbers DEF TrReady, GuestFrame, Relayed, Waiting, InStep
  <2>2. /\ tr.phase = "ready" /\ tr' = [tr EXCEPT !.phase = "write"]
        /\ UNCHANGED <<now, own, watch, guest, slot>>
    BY <1>3, <2>1 DEF TrReady
  <2>3. TypeOK'
    BY <2>2 DEF TypeOK
  <2>4. /\ tr'.phase = "write" /\ tr'.lease = tr.lease
        /\ tr'.acked = tr.acked /\ tr'.late = tr.late
    BY <2>2 DEF TypeOK
  <2>5. InStep' /\ Timed'
    BY <2>2, <2>4 DEF InStep, Timed
  <2>6. Fresh' /\ Waiting' /\ NeverBroken'
    BY <2>2, <2>4 DEF Fresh, Waiting, NeverBroken
  <2> QED BY <2>3, <2>5, <2>6
<1>4. CASE TrTear
  <2>1. TypeOK'
    BY <1>4 DEF TrTear, TypeOK
  <2>2. /\ slot'.lease = slot.lease /\ slot'.ack = slot.ack
        /\ UNCHANGED <<now, own, watch, tr, guest>>
    BY <1>4 DEF TrTear, TypeOK
  <2>3. InStep' /\ Timed'
    BY <2>2 DEF InStep, Timed
  <2>4. Fresh' /\ Waiting' /\ NeverBroken'
    BY <2>2 DEF Fresh, Waiting, NeverBroken
  <2> QED BY <2>1, <2>3, <2>4
<1>5. CASE TrWrite
  <2>1. /\ tr.phase = "write"
        /\ slot' = [slot EXCEPT !.lease = tr.lease.seq, !.torn = slot.torn \ {"lease"}]
        /\ \/ tr' = [tr EXCEPT !.phase = "execute"] /\ guest.phase = "off"
           \/ tr' = [tr EXCEPT !.phase = "loop"]
        /\ UNCHANGED <<now, own, watch, guest>>
    BY <1>5 DEF TrWrite
  <2>2. slot' \in [lease: Seqs, ack: Seqs, torn: SUBSET {"lease", "ack"}]
    BY <2>1, <1>0 DEF TypeOK
  <2>3. TypeOK'
    BY <2>1, <2>2 DEF TypeOK
  <2>4. /\ tr'.phase \in {"execute", "loop"} /\ tr'.lease = tr.lease
        /\ tr'.phase = "execute" => guest.phase = "off"
        /\ tr'.acked = tr.acked /\ tr'.late = tr.late
        /\ slot'.lease = tr.lease.seq /\ slot'.ack = slot.ack
    BY <2>1 DEF TypeOK
  <2>5. InStep' /\ Timed'
    BY <2>1, <2>4, Numbers DEF InStep, Timed
  <2>6. Fresh' /\ Waiting' /\ NeverBroken'
    BY <2>1, <2>4 DEF Fresh, Waiting, NeverBroken
  <2> QED BY <2>3, <2>5, <2>6
<1>6. CASE TrRenew
  <2>1. tr.acked = tr.lease.seq
    BY <1>6, Numbers DEF TrRenew, GuestFrame, Relayed, InStep
  <2>2. /\ tr.phase = "loop" /\ watch.lease.seq > tr.lease.seq
        /\ tr' = [tr EXCEPT !.lease = fed, !.phase = "write"]
        /\ UNCHANGED <<now, own, watch, guest, slot>>
    BY <1>6, <2>1 DEF TrRenew, GuestFrame, Relayed, fed
  <2>3. TypeOK'
    BY <2>2, <1>f DEF TypeOK
  <2>4. /\ tr'.phase = "write" /\ tr'.lease.seq = watch.lease.seq
        /\ tr'.acked = tr.acked /\ tr'.late = tr.late
    BY <2>2, <1>f DEF TypeOK
  <2>5. InStep' /\ Timed'
    BY <2>2, <2>4, Numbers DEF InStep, Timed
  <2>6. Fresh' /\ NeverBroken'
    BY <2>2, <2>4 DEF Fresh, NeverBroken
  <2>7. Waiting'
    BY <2>1, <2>2, <2>4 DEF Waiting
  <2> QED BY <2>3, <2>5, <2>6, <2>7
<1>7. CASE TrAck
  <2>1. slot.ack = tr.lease.seq
    BY <1>7, Numbers DEF TrAck, InStep
  <2>2. /\ tr.phase = "loop" /\ tr' = [tr EXCEPT !.acked = slot.ack]
        /\ UNCHANGED <<now, own, watch, guest, slot>>
    BY <1>7, <2>1 DEF TrAck
  <2>3. TypeOK'
    BY <2>2 DEF TypeOK
  <2>4. /\ tr'.phase = "loop" /\ tr'.lease = tr.lease
        /\ tr'.acked = slot.ack /\ tr'.late = tr.late
    BY <2>2 DEF TypeOK
  <2>5. InStep' /\ Timed'
    BY <2>1, <2>2, <2>4, Numbers DEF InStep, Timed
  <2>6. Fresh' /\ Waiting' /\ NeverBroken'
    BY <2>2, <2>4 DEF Fresh, Waiting, NeverBroken
  <2> QED BY <2>3, <2>5, <2>6
<1>8. CASE TrResult
  <2>1. /\ tr.phase = "loop" /\ tr' = [tr EXCEPT !.phase = "done"]
        /\ UNCHANGED <<now, own, watch, guest, slot>>
    BY <1>8 DEF TrResult
  <2>2. TypeOK'
    BY <2>1 DEF TypeOK
  <2>3. /\ tr'.phase = "done" /\ tr'.lease = tr.lease
        /\ tr'.acked = tr.acked /\ tr'.late = tr.late
    BY <2>1 DEF TypeOK
  <2>4. InStep' /\ Timed'
    BY <2>1, <2>3 DEF InStep, Timed
  <2>5. Fresh' /\ Waiting' /\ NeverBroken'
    BY <2>1, <2>3 DEF Fresh, Waiting, NeverBroken
  <2> QED BY <2>2, <2>4, <2>5
<1>9. CASE TrLost
  <2>1. tr.phase # "off" /\ tr' = GivenUp /\ UNCHANGED <<now, own, watch, guest, slot>>
    BY <1>9 DEF TrLost
  <2>2. TypeOK'
    BY <2>1, GivenUpKeeps DEF TypeOK
  <2>3. /\ tr'.phase = "failed" /\ tr'.lease = tr.lease /\ tr'.acked = tr.acked
        /\ tr'.late = "execute" => tr.phase = "execute"
    BY <2>1, GivenUpKeeps
  <2>4. InStep' /\ Timed'
    BY <2>1, <2>3 DEF InStep, Timed
  <2>5. Fresh' /\ Waiting' /\ NeverBroken'
    BY <2>1, <2>3 DEF Fresh, Waiting, NeverBroken
  <2> QED BY <2>2, <2>4, <2>5
<1>10. CASE TrLate /\ tr.late = "execute"
  <2>1. /\ tr.phase = "failed" /\ guest' = Booting /\ tr' = [tr EXCEPT !.late = "none"]
        /\ UNCHANGED <<now, own, watch, slot>>
    BY <1>10 DEF TrLate
  <2>2. TypeOK'
    BY <2>1, <1>b DEF TypeOK
  <2>3. /\ tr'.phase = "failed" /\ tr'.lease = tr.lease
        /\ tr'.acked = tr.acked /\ tr'.late = "none"
        /\ guest'.phase = "booting" /\ guest'.lease.seq = NoFrame /\ guest'.lease.last = now
    BY <2>1, <1>b DEF TypeOK
  <2>4. guest.lease.seq = NoFrame
    BY <1>10 DEF Fresh
  <2>5. InStep'
    BY <2>1, <2>3, <2>4 DEF InStep
  <2>6. Timed'
    BY <2>1, <2>3, Numbers DEF Timed, NoFrame
  <2>7. Fresh' /\ Waiting' /\ NeverBroken'
    BY <2>1, <2>3 DEF Fresh, Waiting, NeverBroken
  <2> QED BY <2>2, <2>5, <2>6, <2>7
<1>11. CASE TrLate /\ tr.late # "execute"
  <2>1. /\ tr.phase = "failed" /\ tr' = [tr EXCEPT !.late = "none"]
        /\ slot' = [slot EXCEPT !.lease = tr.lease.seq, !.torn = slot.torn \ {"lease"}]
        /\ UNCHANGED <<now, own, watch, guest>>
    BY <1>11 DEF TrLate
  <2>2. slot' \in [lease: Seqs, ack: Seqs, torn: SUBSET {"lease", "ack"}]
    BY <2>1, <1>0 DEF TypeOK
  <2>3. TypeOK'
    BY <2>1, <2>2 DEF TypeOK
  <2>4. /\ tr'.phase = "failed" /\ tr'.lease = tr.lease
        /\ tr'.acked = tr.acked /\ tr'.late = "none"
        /\ slot'.lease = tr.lease.seq /\ slot'.ack = slot.ack
    BY <2>1 DEF TypeOK
  <2>5. InStep' /\ Timed'
    BY <2>1, <2>4, Numbers DEF InStep, Timed
  <2>6. Fresh' /\ Waiting' /\ NeverBroken'
    BY <2>1, <2>4 DEF Fresh, Waiting, NeverBroken
  <2> QED BY <2>3, <2>5, <2>6
<1> QED BY <1>1, <1>2, <1>3, <1>4, <1>5, <1>6, <1>7, <1>8, <1>9, <1>10, <1>11 DEF Transport

\* The guest's steps.
LEMMA GuestKeeps == ChainInv /\ Guest => ChainInv'
<1> SUFFICES ASSUME ChainInv, Guest PROVE ChainInv' OBVIOUS
<1> USE LeaseChainAssumption DEF ChainInv
<1>0. /\ slot.lease \in Seqs /\ now \in Times /\ guest.lease \in LeaseRecord
      /\ guest.lease.seq \in Seqs
  BY DEF TypeOK, LeaseRecord
<1>1. CASE GuestReady
  <2> DEFINE n == NewLease(now, GuestTotal, Silence)
  <2>1. n \in LeaseRecord /\ n.seq = NoFrame /\ n.last = now
    BY <1>0, LeaseRecords
  <2> HIDE DEF n
  <2>2. /\ guest.phase \in {"booting", "ready"}
        /\ \/ guest' = [guest EXCEPT !.phase = "ready"]
           \/ guest' = [phase |-> "poll", lease |-> n]
        /\ UNCHANGED <<now, own, watch, tr, slot>>
    BY <1>1 DEF GuestReady, n
  <2>3. TypeOK'
    BY <2>1, <2>2 DEF TypeOK
  <2>4. guest.lease.seq = NoFrame /\ tr.phase \notin {"off", "initial", "execute"} /\ tr.late # "execute"
    BY <2>2 DEF Fresh
  <2>5. /\ guest'.phase \in {"ready", "poll"} /\ guest'.lease.seq = NoFrame
        /\ guest'.lease.last \in {guest.lease.last, now}
    BY <2>1, <2>2, <2>4 DEF TypeOK
  <2>6. InStep'
    BY <2>2, <2>4, <2>5 DEF InStep
  <2>7. Timed'
    BY <2>2, <2>5, Numbers DEF Timed, NoFrame
  <2>8. Fresh' /\ Waiting' /\ NeverBroken'
    BY <2>2, <2>4, <2>5 DEF Fresh, Waiting, NeverBroken
  <2> QED BY <2>3, <2>6, <2>7, <2>8
<1>2. CASE GuestRead
  <2> DEFINE fed == Fed(guest.lease, slot.lease, now)
  <2>1. fed \in LeaseRecord /\ fed.seq = slot.lease /\ fed.last = now
    BY <1>0, LeaseRecords
  <2> HIDE DEF fed
  <2>2. slot.lease = guest.lease.seq + 1
    BY <1>2, Numbers DEF GuestRead, InStep
  <2>3. /\ guest.phase = "poll" /\ now - guest.lease.last < Silence
        /\ guest' = [guest EXCEPT !.phase = "acking", !.lease = fed]
        /\ slot' = [slot EXCEPT !.torn = slot.torn \cup {"ack"}]
        /\ UNCHANGED <<now, own, watch, tr>>
    BY <1>2, <2>2, Numbers DEF GuestRead, CanFeed, IsNext, InTime, fed
  <2>4. TypeOK'
    BY <2>1, <2>3 DEF TypeOK
  <2>5. /\ guest'.phase = "acking" /\ guest'.lease.seq = slot.lease /\ guest'.lease.last = now
        /\ slot'.lease = slot.lease /\ slot'.ack = slot.ack
    BY <2>1, <2>3 DEF TypeOK
  <2>6. InStep'
    BY <2>2, <2>3, <2>5, Numbers DEF InStep
  <2>7. slot.lease = own.sent
    BY <2>2, Numbers DEF InStep
  <2>8. Timed'
    BY <2>2, <2>3, <2>5, <2>7, Numbers DEF Timed
  <2>9. Fresh' /\ Waiting' /\ NeverBroken'
    BY <2>3, <2>5 DEF Fresh, Waiting, NeverBroken
  <2> QED BY <2>4, <2>6, <2>8, <2>9
<1>3. CASE GuestAck
  <2>1. /\ guest.phase = "acking" /\ guest' = [guest EXCEPT !.phase = "poll"]
        /\ slot' = [slot EXCEPT !.ack = guest.lease.seq, !.torn = slot.torn \ {"ack"}]
        /\ UNCHANGED <<now, own, watch, tr>>
    BY <1>3 DEF GuestAck
  <2>2. TypeOK'
    BY <2>1, <1>0 DEF TypeOK
  <2>3. /\ guest'.phase = "poll" /\ guest'.lease = guest.lease
        /\ slot'.lease = slot.lease /\ slot'.ack = guest.lease.seq
    BY <2>1 DEF TypeOK
  <2>4. InStep' /\ Timed'
    BY <2>1, <2>3, Numbers DEF InStep, Timed
  <2>5. Fresh' /\ Waiting' /\ NeverBroken'
    BY <2>1, <2>3 DEF Fresh, Waiting, NeverBroken
  <2> QED BY <2>2, <2>4, <2>5
<1>4. CASE GuestFinish \/ GuestExpire
  <2>1. /\ guest.phase \in {"booting", "ready", "poll"}
        /\ \/ guest' = [guest EXCEPT !.phase = "passed"]
           \/ guest' = [guest EXCEPT !.phase = "failed"]
        /\ UNCHANGED <<now, own, watch, tr, slot>>
    BY <1>4 DEF GuestFinish, GuestExpire
  <2>2. TypeOK'
    BY <2>1 DEF TypeOK
  <2>3. guest'.phase \in {"passed", "failed"} /\ guest'.lease = guest.lease
    BY <2>1 DEF TypeOK
  <2>4. InStep' /\ Timed'
    BY <2>1, <2>3 DEF InStep, Timed
  <2>5. Fresh' /\ Waiting' /\ NeverBroken'
    BY <2>1, <2>3 DEF Fresh, Waiting, NeverBroken
  <2> QED BY <2>2, <2>4, <2>5
<1> QED BY <1>1, <1>2, <1>3, <1>4 DEF Guest

\* The chain's invariant holds throughout.
LEMMA ChainAlways == Spec => []ChainInv
<1>1. ChainInv /\ [Next]_vars => ChainInv'
  <2> SUFFICES ASSUME ChainInv, [Next]_vars PROVE ChainInv' OBVIOUS
  <2>1. CASE Tick
    <3>1. now + 1 \in Times /\ UNCHANGED <<own, watch, tr, guest, slot>> /\ now' = now + 1
      BY <2>1, LeaseChainAssumption DEF Tick, ChainInv, TypeOK, Times
    <3>2. TypeOK'
      BY <3>1 DEF ChainInv, TypeOK
    <3>3. InStep' /\ Fresh' /\ Waiting' /\ NeverBroken'
      BY <3>1 DEF ChainInv, InStep, Fresh, Waiting, NeverBroken
    <3>4. Timed'
      BY <3>1, Numbers DEF ChainInv, Timed
    <3> QED BY <3>2, <3>3, <3>4 DEF ChainInv
  <2>2. CASE UNCHANGED vars
    BY <2>2 DEF vars, ChainInv, TypeOK, InStep, Fresh, Waiting, Timed, NeverBroken
  <2> QED BY <2>1, <2>2, OwnerKeeps, WatchdogKeeps, TransportKeeps, GuestKeeps DEF Next
<1> QED BY <1>1, InitChain, PTL DEF Spec

\* Every variable keeps its type.
THEOREM ChainTypes == Spec => []TypeOK
<1>1. ChainInv => TypeOK
  BY DEF ChainInv
<1> QED BY <1>1, ChainAlways, PTL

\* An acknowledgement the owner receives was earned by the guest, and at most
\* one renewal is under way (fork_watchdog's contract with its caller).
THEOREM ChainInStep == Spec => []InStep
<1>1. ChainInv => InStep
  BY DEF ChainInv
<1> QED BY <1>1, ChainAlways, PTL

\* No party of the chain ever refuses a frame of another as stale, early or
\* wrongly bound.
THEOREM ChainNeverBroken == Spec => []NeverBroken
<1>1. ChainInv => NeverBroken
  BY DEF ChainInv
<1> QED BY <1>1, ChainAlways, PTL

\* A renewed guest outlives the owner's last renewal by less than two silence
\* windows, whatever the watchdog and the transport do.
THEOREM OrphansBounded == Spec => []OrphanBound
<1>1. ChainInv => OrphanBound
  <2> SUFFICES ASSUME ChainInv, guest.lease.seq >= 1, Live(guest.lease, now)
               PROVE  now < own.at + 2 * Silence
    BY DEF OrphanBound
  <2>1. now - guest.lease.last < Silence
    BY Numbers DEF ChainInv, Live, InTime
  <2>2. guest.lease.seq < own.sent \/ guest.lease.seq = own.sent
    BY Numbers DEF ChainInv, InStep
  <2>3. guest.lease.last < own.at + Silence
    BY <2>2, Numbers, LeaseChainAssumption DEF ChainInv, Timed
  <2> QED BY <2>1, <2>3, Numbers, LeaseChainAssumption DEF ChainInv
<1> QED BY <1>1, ChainAlways, PTL

-----------------------------------------------------------------------------
(***************************************************************************)
(* The supervisor.  Progress and Admission say which bytes the worker was  *)
(* sent at each stage of supervise, and what had been checked before each. *)
(***************************************************************************)


Codes == {0, 2, NoCode}

ReportType ==
    [failure : BOOLEAN, errors : BOOLEAN, attached : BOOLEAN, exit : Codes, empty : BOOLEAN, reaped : BOOLEAN]

SupervisorTypeOK ==
    /\ pc \in Stages \cup {"done", "dead"}
    /\ worker \in Alive \cup {"none", "zombie", "gone"}
    /\ code \in Codes
    /\ kids \in {"none", "alive", "zombie"}
    /\ ready \in {"none", "P", "E"}
    /\ foreign \in BOOLEAN /\ joined \in BOOLEAN /\ bound \in BOOLEAN /\ killed \in BOOLEAN
    /\ pipe \in [wrote : 0..2, open : BOOLEAN]
    /\ world \in [lease : BOOLEAN, signalled : BOOLEAN, failing : BOOLEAN, late : BOOLEAN]
    /\ result \in ReportType

Unspawned == {"lease", "guard", "empty", "spawn"}
Unadmitted == {"register", "attach", "bind", "admit"}
Preparing == {"await", "check", "release"}
Released == {"poll", "wait", "exited"}

\* What each stage of supervise has already established.
Progress ==
    /\ pc \in Unspawned => worker = "none"
    /\ pc \in Stages \ Unspawned => worker # "none"
    /\ pc \in Unadmitted => pipe.wrote = 0
    /\ pc \in Preparing => pipe.wrote = 1
    /\ pc \in Released => pipe.wrote = 2
    /\ pc \in {"bind", "admit"} => joined
    /\ pc = "admit" => bound

\* The worker gets as far as the bytes it was sent, and these are sent only to
\* a worker that is in the group and bound; no group is ever populated by
\* others once there is a worker.
Admission ==
    /\ worker = "none" => kids = "none" /\ pipe.wrote = 0 /\ ~killed
    /\ foreign => worker = "none" /\ pc # "spawn"
    /\ pipe.wrote >= 1 => joined /\ bound
    /\ worker \in {"preparing", "prepared", "working"} => pipe.wrote >= 1
    /\ worker = "working" \/ kids # "none" => pipe.wrote = 2

\* An exit code belongs to a worker that has exited, and 0 to one that worked;
\* the report's exit code is the one that waitpid collected.
ExitCodes ==
    /\ worker \in Alive \cup {"none"} => code = NoCode
    /\ worker \in {"prepared", "working"} => ready = "P"
    /\ code = 0 => pipe.wrote = 2 /\ ready = "P"
    /\ result.exit # NoCode => worker = "gone" /\ result.exit = code

\* Cleanup ends with every process collected, or with an error.
CleanedUp ==
    pc \in {"postflight", "done"} /\ worker # "none" /\ ~result.errors => worker = "gone" /\ kids = "none"

IInv == SupervisorTypeOK /\ Progress /\ Admission /\ ExitCodes /\ CleanedUp

LEMMA InitIInv == SupervisorInit => IInv
<1> SUFFICES ASSUME SupervisorInit  PROVE IInv  OBVIOUS
<1>1. SupervisorTypeOK
  <2>1. result \in ReportType /\ code \in Codes  BY DEF SupervisorInit, ReportType, Codes
  <2>2. /\ pipe \in [wrote : 0..2, open : BOOLEAN]
        /\ world \in [lease : BOOLEAN, signalled : BOOLEAN, failing : BOOLEAN, late : BOOLEAN]
    BY DEF SupervisorInit
  <2>3. pc \in Stages /\ worker = "none" /\ kids = "none" /\ ready = "none"  BY DEF SupervisorInit, Stages
  <2>4. foreign \in BOOLEAN /\ joined \in BOOLEAN /\ bound \in BOOLEAN /\ killed \in BOOLEAN
    BY Zenon DEF SupervisorInit
  <2>q. QED BY <2>1, <2>2, <2>3, <2>4, Zenon DEF SupervisorTypeOK
<1>2. Progress /\ Admission /\ ExitCodes /\ CleanedUp
  BY DEF SupervisorInit, Progress, Admission, ExitCodes, CleanedUp, NoCode, Stages, Alive, Unspawned, Unadmitted, Preparing, Released
<1>q. QED BY <1>1, <1>2 DEF IInv

\* An exception reports a failure, and reclaims only what was spawned.
LEMMA RaisedType ==
  ASSUME result \in ReportType, Raised
  PROVE  /\ result' \in ReportType
         /\ result'.exit = result.exit /\ result'.errors = result.errors
         /\ pc' = IF worker = "none" THEN "done" ELSE "kill"
BY DEF Raised, ReportType

\* The stages that only check.
LEMMA CheckSteps ==
  ASSUME IInv, NEW from \in Stages, NEW to \in Stages, NEW holds, Check(from, to, holds),
         \/ from \in Unspawned /\ to \in Unspawned /\ (to = "spawn" => ~foreign)
         \/ <<from, to>> \in {<<"register", "attach">>, <<"check", "release">>, <<"poll", "wait">>, <<"exited", "kill">>}
  PROVE  IInv'
<1> USE DEF IInv
<1>1. CASE pc' = to /\ UNCHANGED result
  <2>1. SupervisorTypeOK'  BY <1>1 DEF Check, SupervisorTypeOK, process
  <2>2. Progress' /\ Admission' /\ ExitCodes' /\ CleanedUp'
    BY <1>1 DEF Check, SupervisorTypeOK, process, Progress, Admission, ExitCodes, CleanedUp,
                Stages, Unspawned, Unadmitted, Preparing, Released
  <2>q. QED BY <2>1, <2>2
<1>2. CASE Raised
  <2>0. /\ result' \in ReportType
        /\ result'.exit = result.exit /\ result'.errors = result.errors
        /\ pc' = IF worker = "none" THEN "done" ELSE "kill"
    BY <1>2, RaisedType DEF SupervisorTypeOK
  <2>1. SupervisorTypeOK'  BY <2>0 DEF Check, SupervisorTypeOK, process, Stages
  <2>2. Progress' /\ Admission' /\ ExitCodes' /\ CleanedUp'
    BY <2>0 DEF Check, SupervisorTypeOK, process, Progress, Admission, ExitCodes, CleanedUp,
                Stages, Unspawned, Unadmitted, Preparing, Released
  <2>q. QED BY <2>1, <2>2
<1>q. QED BY <1>1, <1>2 DEF Check

\* The stages of the admission.
LEMMA AdmissionSteps ==
  ASSUME IInv, Spawn \/ Attach \/ Bind \/ AdmitSetup \/ AwaitReady \/ Release
  PROVE  IInv'
<1> USE DEF IInv
<1>0. ASSUME Raised
      PROVE  /\ result' \in ReportType
             /\ result'.exit = result.exit /\ result'.errors = result.errors
             /\ pc' = IF worker = "none" THEN "done" ELSE "kill"
  BY <1>0, RaisedType DEF SupervisorTypeOK
<1>1. CASE Spawn
  <2>1. CASE world.failing
    <3>1. SupervisorTypeOK'  BY <1>0, <1>1, <2>1 DEF Spawn, SupervisorTypeOK, Stages
    <3>2. Progress' /\ Admission' /\ ExitCodes' /\ CleanedUp'
      BY <1>0, <1>1, <2>1 DEF Spawn, SupervisorTypeOK, Progress, Admission, ExitCodes, CleanedUp,
            Stages, Unspawned, Unadmitted, Preparing, Released
    <3>q. QED BY <3>1, <3>2
  <2>2. CASE ~world.failing
    <3>0. pipe'.wrote = pipe.wrote  BY <1>1, <2>2 DEF Spawn, SupervisorTypeOK
    <3>1. SupervisorTypeOK'  BY <1>1, <2>2 DEF Spawn, SupervisorTypeOK, Stages, Alive
    <3>2. Progress' /\ Admission' /\ ExitCodes' /\ CleanedUp'
      BY <1>1, <2>2, <3>0 DEF Spawn, SupervisorTypeOK, Progress, Admission, ExitCodes, CleanedUp,
            Stages, Unspawned, Unadmitted, Preparing, Released, Alive
    <3>q. QED BY <3>1, <3>2
  <2>q. QED BY <2>1, <2>2
<1>2. CASE Attach
  <2>1. CASE world.failing
    <3>1. SupervisorTypeOK'  BY <1>0, <1>2, <2>1 DEF Attach, SupervisorTypeOK, Stages, process
    <3>2. Progress' /\ Admission' /\ ExitCodes' /\ CleanedUp'
      BY <1>0, <1>2, <2>1 DEF Attach, SupervisorTypeOK, process, Progress, Admission, ExitCodes, CleanedUp,
            Stages, Unspawned, Unadmitted, Preparing, Released
    <3>q. QED BY <3>1, <3>2
  <2>2. CASE ~world.failing
    <3>0. result' \in ReportType /\ result'.exit = result.exit /\ result'.errors = result.errors
      BY <1>2, <2>2 DEF Attach, SupervisorTypeOK, ReportType
    <3>1. SupervisorTypeOK'  BY <1>2, <2>2, <3>0 DEF Attach, SupervisorTypeOK, Stages, process
    <3>2. Progress' /\ Admission' /\ ExitCodes' /\ CleanedUp'
      BY <1>2, <2>2, <3>0 DEF Attach, SupervisorTypeOK, process, Progress, Admission, ExitCodes, CleanedUp,
            Stages, Unspawned, Unadmitted, Preparing, Released
    <3>q. QED BY <3>1, <3>2
  <2>q. QED BY <2>1, <2>2
<1>3. CASE Bind
  <2>1. SupervisorTypeOK'
    <3>1. pc' \in Stages \cup {"done", "dead"} /\ result' \in ReportType
      BY <1>0, <1>3 DEF Bind, SupervisorTypeOK, Stages
    <3>2. bound' \in BOOLEAN  BY <1>3, Zenon DEF Bind, SupervisorTypeOK
    <3>3. /\ worker' = worker /\ code' = code /\ kids' = kids /\ ready' = ready /\ foreign' = foreign
          /\ joined' = joined /\ pipe' = pipe /\ killed' = killed /\ world' = world
      BY <1>3 DEF Bind, process
    <3>q. QED BY <3>1, <3>2, <3>3 DEF SupervisorTypeOK
  <2>2. Progress' /\ Admission' /\ ExitCodes' /\ CleanedUp'
    BY <1>0, <1>3 DEF Bind, SupervisorTypeOK, process, Progress, Admission, ExitCodes, CleanedUp,
          Stages, Unspawned, Unadmitted, Preparing, Released
  <2>q. QED BY <2>1, <2>2
<1>4. CASE AdmitSetup
  <2>0. pipe' \in [wrote : 0..2, open : BOOLEAN] /\ (pipe'.wrote = 1 \/ pipe' = pipe)
    BY <1>4 DEF AdmitSetup, SupervisorTypeOK
  <2>1. SupervisorTypeOK'  BY <1>0, <1>4, <2>0 DEF AdmitSetup, SupervisorTypeOK, Stages, process
  <2>2. CASE world.failing
    BY <1>0, <1>4, <2>1, <2>2 DEF AdmitSetup, SupervisorTypeOK, process, Progress, Admission, ExitCodes, CleanedUp,
          Stages, Unspawned, Unadmitted, Preparing, Released
  <2>3. CASE ~world.failing
    <3>1. pipe'.wrote = 1  BY <1>4, <2>3 DEF AdmitSetup, SupervisorTypeOK
    <3>q. QED
      BY <1>4, <2>1, <2>3, <3>1 DEF AdmitSetup, SupervisorTypeOK, process, Progress, Admission, ExitCodes, CleanedUp,
          Stages, Unspawned, Unadmitted, Preparing, Released
  <2>q. QED BY <2>2, <2>3
<1>5. CASE AwaitReady
  <2>1. SupervisorTypeOK'  BY <1>0, <1>5 DEF AwaitReady, SupervisorTypeOK, Stages, process
  <2>2. Progress' /\ Admission' /\ ExitCodes' /\ CleanedUp'
    BY <1>0, <1>5 DEF AwaitReady, SupervisorTypeOK, process, Progress, Admission, ExitCodes, CleanedUp,
          Stages, Unspawned, Unadmitted, Preparing, Released
  <2>q. QED BY <2>1, <2>2
<1>6. CASE Release
  <2>0. /\ pipe' \in [wrote : 0..2, open : BOOLEAN]
        /\ \/ pipe'.wrote = 2 /\ pc' = "poll" /\ UNCHANGED result
           \/ pipe'.wrote = pipe.wrote /\ Raised
    <3>1. CASE worker \in Alive /\ ~world.failing  
      <4>1. pipe' = [wrote |-> 2, open |-> FALSE] /\ pc' = "poll" /\ UNCHANGED result
        BY <1>6, <3>1, Zenon DEF Release
      <4>q. QED BY <4>1
    <3>2. CASE ~(worker \in Alive /\ ~world.failing)
      <4>1. pipe' = [pipe EXCEPT !.open = FALSE] /\ Raised  BY <1>6, <3>2, Zenon DEF Release
      <4>2. pipe' \in [wrote : 0..2, open : BOOLEAN] /\ pipe'.wrote = pipe.wrote  BY <4>1 DEF SupervisorTypeOK
      <4>q. QED BY <4>1, <4>2
    <3>q. QED BY <3>1, <3>2
  <2>1. SupervisorTypeOK'  BY <1>0, <1>6, <2>0 DEF Release, SupervisorTypeOK, Stages, process
  <2>2. Progress' /\ Admission' /\ ExitCodes' /\ CleanedUp'
    BY <1>0, <1>6, <2>0 DEF Release, SupervisorTypeOK, process, Progress, Admission, ExitCodes, CleanedUp,
          Stages, Unspawned, Unadmitted, Preparing, Released
  <2>q. QED BY <2>1, <2>2
<1>q. QED BY <1>1, <1>2, <1>3, <1>4, <1>5, <1>6

\* waitpid collects the worker, and the watch goes on otherwise.
LEMMA PollSteps ==
  ASSUME IInv, Poll
  PROVE  IInv'
<1> USE DEF IInv
<1>1. result' \in ReportType /\ result'.errors = result.errors
      /\ ((result'.exit = result.exit /\ worker' = worker) \/ (result'.exit = code /\ worker' = "gone"))
  BY DEF Poll, SupervisorTypeOK, ReportType
<1>2. SupervisorTypeOK'  BY <1>1 DEF Poll, SupervisorTypeOK, Stages, Alive
<1>3. Progress' /\ Admission' /\ ExitCodes' /\ CleanedUp'
  BY <1>1 DEF Poll, SupervisorTypeOK, Progress, Admission, ExitCodes, CleanedUp,
        Stages, Unspawned, Unadmitted, Preparing, Released, Alive
<1>q. QED BY <1>2, <1>3

\* cgroup.kill is written by a supervisor that has spawned.
LEMMA KillSteps ==
  ASSUME IInv, Kill
  PROVE  IInv'
<1> USE DEF IInv
<1>0. (world.failing) \in BOOLEAN  BY DEF SupervisorTypeOK
<1>1. result' \in ReportType /\ result'.exit = result.exit
  <2>1. ASSUME NEW errors \in BOOLEAN
        PROVE  LET r == [result EXCEPT !.errors = errors]
               IN  r \in ReportType /\ r.exit = result.exit
    BY DEF SupervisorTypeOK, ReportType
  <2>q. QED BY <1>0, <2>1, Zenon DEF Kill
<1>2. pipe' \in [wrote : 0..2, open : BOOLEAN] /\ pipe'.wrote = pipe.wrote  BY DEF Kill, SupervisorTypeOK
<1>3. /\ (worker' = worker /\ code' = code) \/ (worker \in Alive /\ worker' = "zombie" /\ code' = 2)
      /\ kids' = kids \/ (kids # "none" /\ kids' = "zombie")
  BY DEF Kill, SupervisorTypeOK
<1>4. SupervisorTypeOK'
  <2>1. worker' \in Alive \cup {"none", "zombie", "gone"} /\ code' \in Codes /\ kids' \in {"none", "alive", "zombie"}
    BY <1>3 DEF SupervisorTypeOK, Codes, Alive
  <2>2. pc' \in Stages /\ killed' = TRUE  BY DEF Kill, Stages
  <2>3. UNCHANGED <<ready, foreign, joined, bound, world>>  BY DEF Kill
  <2>q. QED BY <1>1, <1>2, <2>1, <2>2, <2>3, Zenon DEF SupervisorTypeOK
<1>5. pc = "kill" /\ pc' = "observe" /\ UNCHANGED <<ready, foreign, joined, bound>>  BY DEF Kill
<1>6. Progress'  BY <1>2, <1>3, <1>5 DEF Progress, Stages, Unspawned, Unadmitted, Preparing, Released, Alive
<1>7. Admission'  BY <1>2, <1>3, <1>5 DEF Admission, Progress, SupervisorTypeOK, Stages, Unspawned, Alive
<1>8. ExitCodes'  BY <1>1, <1>2, <1>3, <1>5 DEF ExitCodes, Alive
<1>9. CleanedUp'  BY <1>5 DEF CleanedUp
<1>q. QED BY <1>4, <1>6, <1>7, <1>8, <1>9

\* A round of the cleanup loop ends it only with every process collected.
LEMMA ObserveSteps ==
  ASSUME IInv, Observe
  PROVE  IInv'
<1> USE DEF IInv
<1> DEFINE empty == ~Populated
           reaped == WorkerLeft = "gone" /\ KidsLeft = "none"
<1>0. pc = "observe" /\ UNCHANGED <<code, ready, foreign, joined, bound, pipe, killed, world>>
  BY DEF Observe, Round
<1>1. CASE world.failing
  <2>1. result' \in ReportType /\ result'.exit = result.exit /\ result'.errors = TRUE
    BY <1>1 DEF Observe, Round, SupervisorTypeOK, ReportType
  <2>2. pc' = "postflight" /\ UNCHANGED <<worker, kids>>  BY <1>1 DEF Observe, Round
  <2>3. SupervisorTypeOK'  BY <1>0, <2>1, <2>2 DEF SupervisorTypeOK, Stages
  <2>4. Progress' /\ Admission' /\ ExitCodes' /\ CleanedUp'
    BY <1>0, <2>1, <2>2 DEF SupervisorTypeOK, Progress, Admission, ExitCodes, CleanedUp,
        Stages, Unspawned, Unadmitted, Preparing, Released, Alive
  <2>q. QED BY <2>3, <2>4
<1>2. CASE ~world.failing
  <2>1. /\ worker' = WorkerLeft /\ kids' = KidsLeft
        /\ pc' = IF (empty /\ reaped) \/ world.late THEN "postflight" ELSE "observe"
        /\ result' = [result EXCEPT
               !.empty = empty, !.reaped = reaped,
               !.exit = IF WorkerLeft = "gone" THEN code ELSE @,
               !.errors = @ \/ (world.late /\ ~(empty /\ reaped))]
    BY <1>2, Zenon DEF Observe, Round
  <2>2. /\ worker' = worker \/ (worker = "zombie" /\ worker' = "gone")
        /\ kids' = kids \/ (kids = "zombie" /\ kids' = "none")
    BY <2>1 DEF WorkerLeft, KidsLeft
  <2>3. empty \in BOOLEAN /\ reaped \in BOOLEAN /\ (world.late /\ ~(empty /\ reaped)) \in BOOLEAN
    BY Zenon
  <2>4. (result.errors \/ (world.late /\ ~(empty /\ reaped))) \in BOOLEAN  BY Zenon
  <2>5. ASSUME NEW e \in BOOLEAN, NEW r \in BOOLEAN, NEW x \in Codes, NEW f \in BOOLEAN,
               result' = [result EXCEPT !.empty = e, !.reaped = r, !.exit = x, !.errors = f]
        PROVE  result' \in ReportType /\ result'.exit = x /\ result'.errors = f
    BY <2>5 DEF SupervisorTypeOK, ReportType
  <2>6. (IF WorkerLeft = "gone" THEN code ELSE result.exit) \in Codes  BY DEF SupervisorTypeOK, ReportType
  <2>7. /\ result' \in ReportType
        /\ result'.exit = IF WorkerLeft = "gone" THEN code ELSE result.exit
        /\ result'.errors = (result.errors \/ (world.late /\ ~(empty /\ reaped)))
    <3> DEFINE exit == IF WorkerLeft = "gone" THEN code ELSE result.exit
               errors == result.errors \/ (world.late /\ ~(empty /\ reaped))
    <3>1. result' = [result EXCEPT !.empty = empty, !.reaped = reaped, !.exit = exit, !.errors = errors]  BY <2>1
    <3>2. empty \in BOOLEAN /\ reaped \in BOOLEAN /\ exit \in Codes /\ errors \in BOOLEAN
      BY <2>3, <2>4, <2>6
    <3> HIDE DEF empty, reaped, exit, errors
    <3>3. result' \in ReportType /\ result'.exit = exit /\ result'.errors = errors  BY <2>5, <3>1, <3>2
    <3>q. QED BY <3>3 DEF exit, errors
  <2>8. SupervisorTypeOK'
    <3>1. pc' \in Stages  BY <2>1 DEF Stages
    <3>2. worker' \in Alive \cup {"none", "zombie", "gone"} /\ kids' \in {"none", "alive", "zombie"}
      BY <2>2 DEF SupervisorTypeOK
    <3>q. QED BY <1>0, <2>7, <3>1, <3>2, Zenon DEF SupervisorTypeOK
  <2>9. pc' \in {"observe", "postflight"}  BY <2>1
  <2>10. Progress' /\ Admission'
    BY <1>0, <2>2, <2>9 DEF SupervisorTypeOK, Progress, Admission, Stages, Unspawned, Unadmitted, Preparing, Released, Alive
  <2>11. ExitCodes'
    BY <1>0, <2>1, <2>2, <2>7 DEF ExitCodes, Alive
  <2>12. CleanedUp'
    <3>1. SUFFICES ASSUME pc' = "postflight", ~result'.errors  PROVE worker' = "gone" /\ kids' = "none"
      BY <2>9 DEF CleanedUp
    <3>2. (empty /\ reaped) \/ world.late  BY <2>1, <3>1
    <3>3. ~(world.late /\ ~(empty /\ reaped))  BY <2>7, <3>1, Zenon
    <3>4. reaped  BY <3>2, <3>3, Zenon
    <3>q. QED BY <2>1, <3>4
  <2>q. QED BY <2>8, <2>10, <2>11, <2>12
<1>q. QED BY <1>1, <1>2

\* The last look at the cgroups can only add an error.
LEMMA PostflightSteps ==
  ASSUME IInv, Postflight
  PROVE  IInv'
<1> USE DEF IInv
<1>0. /\ pc = "postflight" /\ pc' = "done"
      /\ UNCHANGED <<process, foreign, joined, bound, pipe, killed, world>>
  BY DEF Postflight
<1>1. (result.errors \/ world.failing) \in BOOLEAN  BY Zenon
<1>2. ASSUME NEW f \in BOOLEAN
      PROVE  LET q == [result EXCEPT !.errors = f]
             IN  q \in ReportType /\ q.exit = result.exit /\ q.errors = f
  BY DEF SupervisorTypeOK, ReportType
<1>3. result' \in ReportType /\ result'.exit = result.exit /\ result'.errors = (result.errors \/ world.failing)
  BY <1>1, <1>2, Zenon DEF Postflight
<1>4. ~result'.errors => ~result.errors  BY <1>3, Zenon
<1>5. SupervisorTypeOK'  BY <1>0, <1>3 DEF SupervisorTypeOK, process, Stages
<1>6. Progress' /\ Admission' /\ ExitCodes' /\ CleanedUp'
  BY <1>0, <1>3, <1>4 DEF SupervisorTypeOK, process, Progress, Admission, ExitCodes, CleanedUp,
      Stages, Unspawned, Unadmitted, Preparing, Released
<1>q. QED BY <1>5, <1>6

\* What the worker and its descendants do by themselves.
LEMMA WorkerSteps ==
  ASSUME IInv, Worker
  PROVE  IInv'
<1> USE DEF IInv
<1>1. UNCHANGED kept
  BY DEF Worker, WorkerReads, WorkerPrepares, WorkerForks, WorkerExits, KidExits
<1>2. CASE WorkerReads
  <2>1. SupervisorTypeOK'  BY <1>1, <1>2 DEF WorkerReads, kept, SupervisorTypeOK, Alive, Codes
  <2>2. Progress' /\ Admission' /\ ExitCodes' /\ CleanedUp'
    BY <1>1, <1>2 DEF WorkerReads, kept, SupervisorTypeOK, Progress, Admission, ExitCodes, CleanedUp, Alive, NoCode
  <2>q. QED BY <2>1, <2>2
<1>3. CASE WorkerPrepares
  <2>1. SupervisorTypeOK'  BY <1>1, <1>3 DEF WorkerPrepares, kept, SupervisorTypeOK, Alive, Codes
  <2>2. Progress' /\ Admission' /\ ExitCodes' /\ CleanedUp'
    BY <1>1, <1>3 DEF WorkerPrepares, kept, SupervisorTypeOK, Progress, Admission, ExitCodes, CleanedUp, Alive, NoCode
  <2>q. QED BY <2>1, <2>2
<1>4. CASE WorkerForks
  <2>1. SupervisorTypeOK'  BY <1>1, <1>4 DEF WorkerForks, kept, SupervisorTypeOK
  <2>2. Progress' /\ Admission' /\ ExitCodes' /\ CleanedUp'
    BY <1>1, <1>4 DEF WorkerForks, kept, SupervisorTypeOK, Progress, Admission, ExitCodes, CleanedUp
  <2>q. QED BY <2>1, <2>2
<1>5. CASE WorkerExits
  <2>1. SupervisorTypeOK'  BY <1>1, <1>5 DEF WorkerExits, kept, SupervisorTypeOK, Alive, Codes
  <2>2. Progress' /\ Admission' /\ ExitCodes' /\ CleanedUp'
    BY <1>1, <1>5 DEF WorkerExits, kept, SupervisorTypeOK, Progress, Admission, ExitCodes, CleanedUp, Alive
  <2>q. QED BY <2>1, <2>2
<1>6. CASE KidExits
  <2>1. SupervisorTypeOK'  BY <1>1, <1>6 DEF KidExits, kept, SupervisorTypeOK
  <2>2. Progress' /\ Admission' /\ ExitCodes' /\ CleanedUp'
    BY <1>1, <1>6 DEF KidExits, kept, SupervisorTypeOK, Progress, Admission, ExitCodes, CleanedUp
  <2>q. QED BY <2>1, <2>2
<1>q. QED BY <1>2, <1>3, <1>4, <1>5, <1>6 DEF Worker

\* The environment, and the death of the supervisor.
LEMMA WorldSteps ==
  ASSUME IInv, Lapse \/ Close \/ Disturb \/ Crash \/ UNCHANGED supervisorVars
  PROVE  IInv'
<1> USE DEF IInv
<1>1. CASE Lapse \/ Close \/ Disturb
  <2>0. UNCHANGED undisturbed  BY <1>1 DEF Lapse, Close, Disturb
  <2>1. world' \in [lease : BOOLEAN, signalled : BOOLEAN, failing : BOOLEAN, late : BOOLEAN]
    <3>1. ASSUME NEW b \in BOOLEAN
          PROVE  [world EXCEPT !.failing = b] \in [lease : BOOLEAN, signalled : BOOLEAN, failing : BOOLEAN, late : BOOLEAN]
      BY DEF SupervisorTypeOK
    <3>2. (~world.failing) \in BOOLEAN  BY Zenon
    <3>3. CASE Disturb /\ world' = [world EXCEPT !.failing = ~@]  BY <3>1, <3>2, <3>3, Zenon
    <3>4. CASE Disturb /\ world' = [world EXCEPT !.signalled = TRUE]  BY <3>4 DEF SupervisorTypeOK
    <3>5. CASE Lapse  BY <3>5 DEF Lapse, SupervisorTypeOK
    <3>6. CASE Close  BY <3>6 DEF Close, SupervisorTypeOK
    <3>q. QED BY <1>1, <3>3, <3>4, <3>5, <3>6, Zenon DEF Disturb
  <2>2. SupervisorTypeOK'  BY <2>0, <2>1 DEF undisturbed, process, SupervisorTypeOK
  <2>3. Progress' /\ Admission' /\ ExitCodes' /\ CleanedUp'
    BY <2>0 DEF undisturbed, process, Progress, Admission, ExitCodes, CleanedUp
  <2>q. QED BY <2>2, <2>3
<1>2. CASE Crash
  <2>0. pipe' \in [wrote : 0..2, open : BOOLEAN] /\ pipe'.wrote = pipe.wrote  BY <1>2 DEF Crash, SupervisorTypeOK
  <2>1. SupervisorTypeOK'  BY <1>2, <2>0 DEF Crash, process, SupervisorTypeOK
  <2>2. Progress' /\ Admission' /\ ExitCodes' /\ CleanedUp'
    BY <1>2, <2>0 DEF Crash, process, SupervisorTypeOK, Progress, Admission, ExitCodes, CleanedUp,
          Stages, Unspawned, Unadmitted, Preparing, Released
  <2>q. QED BY <2>1, <2>2
<1>3. CASE UNCHANGED supervisorVars
  BY <1>3 DEF supervisorVars, process, SupervisorTypeOK, Progress, Admission, ExitCodes, CleanedUp
<1>q. QED BY <1>1, <1>2, <1>3

LEMMA StepIInv == IInv /\ [SupervisorNext]_supervisorVars => IInv'
<1> SUFFICES ASSUME IInv, [SupervisorNext]_supervisorVars  PROVE IInv'  OBVIOUS
<1>1. CASE FirstLease \/ Baseline \/ StartsEmpty \/ RegisterWorker \/ Pin \/ Watch \/ Exited
  <2>0. Stages = {"lease", "guard", "empty", "spawn", "register", "attach", "bind", "admit", "await",
                  "check", "release", "poll", "wait", "exited", "kill", "observe", "postflight"}
    BY DEF Stages
  <2>1. CASE FirstLease  BY <2>0, <2>1, CheckSteps DEF FirstLease, Unspawned
  <2>2. CASE Baseline  BY <2>0, <2>2, CheckSteps DEF Baseline, Unspawned
  <2>3. CASE StartsEmpty
    <3>1. CASE Populated
      <4>1. Check("empty", "guard", ~Populated)  BY <2>3, <3>1 DEF StartsEmpty, Check
      <4>q. QED BY <2>0, <4>1, CheckSteps DEF Unspawned
    <3>2. CASE ~Populated
      <4>1. ~foreign  BY <3>2 DEF Populated
      <4>q. QED BY <2>0, <2>3, <4>1, CheckSteps DEF StartsEmpty, Unspawned
    <3>q. QED BY <3>1, <3>2
  <2>4. CASE RegisterWorker  BY <2>0, <2>4, CheckSteps DEF RegisterWorker
  <2>5. CASE Pin  BY <2>0, <2>5, CheckSteps DEF Pin
  <2>6. CASE Watch  BY <2>0, <2>6, CheckSteps DEF Watch
  <2>7. CASE Exited  BY <2>0, <2>7, CheckSteps DEF Exited
  <2>q. QED BY <1>1, <2>1, <2>2, <2>3, <2>4, <2>5, <2>6, <2>7
<1>2. CASE Worker \/ Lapse \/ Close \/ Disturb \/ Crash \/ UNCHANGED supervisorVars  BY <1>2, WorkerSteps, WorldSteps
<1>q. QED
  BY <1>1, <1>2, AdmissionSteps, PollSteps, KillSteps, ObserveSteps, PostflightSteps DEF SupervisorNext, Supervise

LEMMA Invariance == SupervisorSpec => []IInv
BY InitIInv, StepIInv, PTL DEF SupervisorSpec

\* The variables keep their types: every stage, process state and exit code is
\* one that supervise and ForkWorker know.
THEOREM TypeCorrect == SupervisorSpec => []SupervisorTypeOK
BY Invariance, PTL DEF IInv

\* Whenever the supervisor dies and whichever of its calls fail, the caller's
\* work runs only inside the bound group, and a group that somebody else was in
\* is never killed.
THEOREM GroupIsOwnAlways == SupervisorSpec => []GroupIsOwn
<1>1. IInv => GroupIsOwn
  <2> SUFFICES ASSUME IInv  PROVE GroupIsOwn  OBVIOUS
  <2>1. worker = "working" \/ kids # "none" => pipe.wrote >= 1  BY DEF IInv, Admission, SupervisorTypeOK
  <2>q. QED BY <2>1 DEF IInv, Admission, GroupIsOwn
<1>q. QED BY <1>1, Invariance, PTL

\* A finished report without cleanup errors leaves no process, and a pass is a
\* released worker that exited with 0 by itself and left nothing behind.
THEOREM ReportIsTrueAlways == SupervisorSpec => []ReportIsTrue
<1>1. IInv => ReportIsTrue
  <2> SUFFICES ASSUME IInv, pc = "done"
               PROVE  /\ worker # "none" /\ ~result.errors => worker = "gone" /\ kids = "none"
                      /\ Passed => /\ pipe.wrote = 2 /\ ready = "P"
                                   /\ worker = "gone" /\ code = 0 /\ kids = "none"
    BY DEF ReportIsTrue
  <2>1. worker # "none" /\ ~result.errors => worker = "gone" /\ kids = "none"  BY DEF IInv, CleanedUp
  <2>2. ASSUME Passed  PROVE pipe.wrote = 2 /\ ready = "P" /\ worker = "gone" /\ code = 0 /\ kids = "none"
    <3>1. result.exit = 0 /\ ~result.errors  BY <2>2 DEF Passed
    <3>2. worker = "gone" /\ code = 0  BY <3>1 DEF IInv, ExitCodes, NoCode
    <3>q. QED BY <2>1, <3>1, <3>2 DEF IInv, ExitCodes
  <2>q. QED BY <2>1, <2>2
<1>q. QED BY <1>1, Invariance, PTL
=============================================================================
