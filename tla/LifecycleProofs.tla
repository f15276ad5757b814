-------------------------- MODULE LifecycleProofs --------------------------
(***************************************************************************)
(* The four invariants of Lifecycle, for every list of guest objects and   *)
(* every number of staged sources.                                         *)
(*                                                                         *)
(* None of them is inductive: each is about the end of an attempt, or      *)
(* about one side of two pipes.  IInv adds, in this order:                 *)
(*   Facts, Place     each fact of the owner rests on earlier ones, and    *)
(*                    where run() is says which it has                     *)
(*   Running          what still runs when the owner has taken leave of it *)
(*                    is a cleanup error                                   *)
(*   Ordered, Mail    registrations and acknowledgements of one object are *)
(*                    on their way in the order of its events, and each    *)
(*                    bounds what the two sides can hold                   *)
(*   Hand             an operation makes only what nobody has a trace of,  *)
(*                    after the owner recorded it                          *)
(*   GuestOnce, CleanOnce           each command is given once, and what a *)
(*                    cleanup without errors has passed is gone            *)
(*   GuestComplete, HostComplete    so a complete cleanup leaves nothing,  *)
(*                    and nothing more comes                               *)
(*   Sealed           what is being persisted is what the owner froze      *)
(*   PlainIsBare      without initialisation there are no objects          *)
(*                                                                         *)
(* The proof takes the parts of IInv one after the other; each has a lemma *)
(* per action, or per group of actions, that can disturb it.  The last     *)
(* section puts them together and derives the theorems.                    *)
(***************************************************************************)
EXTENDS Lifecycle, TLAPS

(***************************************************************************)
(* Messages and records.                                                   *)
(***************************************************************************)
Guest == ToSet(GuestRoles)
HostRoles == {Root, Source}

Marks ==
    {"failed", "cleanup", "frozen", "attempt", "hostReady", "startTried", "started", "ready", "guestReady",
     "registered", "hostPassed", "shutTried", "passed"}
States == {"none", "intent", "bound"}
Events == {"intent", "bound", "cleaned"}
OwnerOps == {"guest", "guest-cleanup", "host-cleanup"}
Disks == {"none", "attempt", "report", "passed", "failed"}

Commitments ==
    [t : {"commit"}, facts : SUBSET Marks, shut : {"none", "normal", "recovery", "forced"},
     guest : {"not-attempted", "unconfirmed", "complete"},
     host : {"not-attempted", "unconfirmed", "complete"},
     registry : [Roles -> States], report : {"none", "passed"}]

Acks == [t : {"ack"}, role : Roles, state : Events]
Ops == [t : {"op"}, op : OwnerOps]
Commands == Acks \cup Ops \cup Commitments

Regs == [t : {"reg"}, role : Roles, state : Events]
Readies == {m \in [t : {"ready"}, attempt : BOOLEAN, ok : BOOLEAN] : m.ok => m.attempt}
Dones == [t : {"done"}, op : OwnerOps, errs : BOOLEAN]
Receipts == [t : {"receipt"}, passed : Disks]
Answered == Regs \cup Readies \cup Dones \cup Receipts \cup [t : {"error", "garbage"}]

OwnerStages ==
    {"begin", "evidence", "start", "startWait", "readiness", "readinessWait", "guest0", "guest", "host0", "host",
     "unwind", "guestClean0", "guestClean", "stop", "stopWait", "hostClean0", "hostClean", "freeze",
     "commit0", "commit", "reap", "packet", "exit"}

OwnShape(o) ==
    /\ DOMAIN o = {"pc", "facts", "shut", "guest", "host", "registry", "safe", "report", "late", "receipt"}
    /\ o.pc \in OwnerStages /\ o.facts \subseteq Marks /\ o.registry \in [Roles -> States]
    /\ o.shut \in {"none", "normal", "recovery", "forced"}
    /\ o.guest \in {"not-attempted", "unconfirmed", "complete"}
    /\ o.host \in {"not-attempted", "unconfirmed", "complete"}
    /\ o.report \in {"none", "passed"}

WkShape(w) ==
    /\ DOMAIN w = {"pc", "op", "todo", "step", "wait", "ents", "src", "errs", "sent"}
    /\ w.ents \in [Roles -> States] /\ w.todo \in Seq(Roles) /\ IsInjective(w.todo)
    /\ w.errs \in BOOLEAN /\ w.src \in BOOLEAN /\ w.wait \in BOOLEAN

PipeShape == cmd \in Seq(Commands) /\ res \in Seq(Answered)

Shape ==
    /\ mode \in {"plain", "init"} /\ cancel \in BOOLEAN
    /\ OwnShape(own)
    /\ DOMAIN kid = {"act", "at", "said"} /\ kid.act \in {"none", "start", "readiness", "normal", "recovery"}
    /\ DOMAIN net = {"wd", "tr", "reg", "admit", "stage", "staged", "told"}
    /\ WkShape(wk)
    /\ objs \subseteq Roles
    /\ PipeShape
    /\ disk \in Disks

(***************************************************************************)
(* What the owner knows.                                                   *)
(***************************************************************************)
BeforeHost == {"begin", "evidence", "start", "startWait", "readiness", "readinessWait", "guest0", "guest", "host0"}
Deciding == {"commit0", "commit", "reap", "packet", "exit"}
Stopping == {"hostClean0", "hostClean", "freeze"}

\* Each fact rests on those before it.
Facts ==
    LET f == own.facts IN
    /\ "startTried" \in f => {"attempt", "hostReady"} \subseteq f
    /\ "started" \in f => "startTried" \in f
    /\ "ready" \in f => "started" \in f /\ (mode = "init" => "guestReady" \in f)
    /\ "guestReady" \in f => "ready" \in f /\ mode = "init"
    /\ "registered" \in f => "ready" \in f
    /\ "hostPassed" \in f => own.report = "passed"
    /\ own.report = "passed" => "registered" \in f /\ net.wd = "passed"
    /\ "shutTried" \in f => "startTried" \in f
    /\ own.shut # "none" => "shutTried" \in f
    /\ own.shut = "normal" => own.report = "passed"
    /\ "cleanup" \in f => "failed" \in f
    /\ "passed" \in f => "hostPassed" \in f /\ "failed" \notin f
    /\ "frozen" \in f <=> own.pc \in Deciding
    /\ "passed" \in f => "frozen" \in f
    /\ "frozen" \in f /\ "passed" \notin f => "failed" \in f

\* Where the owner is says what it has seen.
Place ==
    LET f == own.facts IN
    /\ own.pc = "begin" => wk.pc = "none"
    /\ wk.pc = "none" => "attempt" \notin f /\ cmd = <<>> /\ res = <<>>
    /\ own.pc = "start" => {"attempt", "hostReady"} \subseteq f
    /\ own.pc = "startWait" => "startTried" \in f
    /\ own.pc \in {"readiness", "readinessWait", "guest0", "guest"} => "started" \in f
    /\ own.pc \in {"guest0", "guest"} => mode = "init"
    /\ own.pc \in {"host0", "host"} => "ready" \in f
    /\ own.pc = "stopWait" => "shutTried" \in f
    /\ own.pc \in BeforeHost \cup {"host"} => own.report = "none"
    /\ own.pc \in BeforeHost \cup {"host", "unwind", "guestClean0", "guestClean", "stop"} => "shutTried" \notin f
    /\ own.pc \in Stopping \cup Deciding =>
          /\ "startTried" \in f => "shutTried" \in f
          /\ "shutTried" \in f /\ "hostPassed" \in f /\ "failed" \notin f => own.shut = "normal"
    /\ own.pc \in {"stop", "stopWait"} \cup Stopping \cup Deciding /\ "cleanup" \notin f
          /\ mode = "init" /\ wk.pc # "none" => own.guest = "complete"
    /\ own.pc \in {"freeze"} \cup Deciding /\ "cleanup" \notin f
          /\ mode = "init" /\ wk.pc # "none" => own.host = "complete"
    /\ own.host = "complete" => own.pc \in {"freeze"} \cup Deciding
    /\ own.guest = "complete" => own.pc \in {"stop", "stopWait"} \cup Stopping \cup Deciding
    /\ cancel /\ "frozen" \in f => "failed" \in f

\* What is still running, once the owner has taken leave of it, is a cleanup
\* error.
Running ==
    LET f == own.facts IN
    /\ own.pc \notin {"startWait", "readinessWait", "stopWait"} => kid.at = "none"
    /\ own.pc = "startWait" => kid.act = "start"
    /\ own.pc = "readinessWait" => kid.act = "readiness"
    /\ own.pc = "stopWait" => kid.act \in {"normal", "recovery"}
    /\ own.pc = "stopWait" /\ kid.act = "normal" => own.report = "passed"
    /\ own.pc = "stopWait" /\ "hostPassed" \in f /\ "failed" \notin f => kid.act = "normal"
    /\ left # {} => {"cleanup", "startTried"} \subseteq f
    /\ vm = "on" => "startTried" \in f
    /\ own.pc = "stopWait" /\ kid.at \in {"acted", "exited"} /\ (kid.at = "exited" => kid.said # "bad")
          /\ left = {} => vm = "off"
    /\ own.pc \in Stopping \cup Deciding /\ "cleanup" \notin f => vm = "off"
    /\ own.pc \in BeforeHost => net.wd = "none" /\ net.tr = "none" /\ net.admit = "none"
    /\ own.pc \notin BeforeHost \cup {"host"} =>
          /\ ~WatchRuns
          /\ (net.wd = "stuck" \/ TransportRuns \/ net.tr = "stuck") => "cleanup" \in f
    /\ net.admit = "1" \/ net.tr \in {"work", "ended"} => "registered" \in f
    /\ net.wd = "passed" => net.tr = "ended"
    /\ vm \in {"on", "off"}

(***************************************************************************)
(* Registrations and acknowledgements.                                     *)
(***************************************************************************)
Reg(r, s) == [t |-> "reg", role |-> r, state |-> s]
Ack(r, s) == [t |-> "ack", role |-> r, state |-> s]
Op(op) == [t |-> "op", op |-> op]

\* The answer to an operation that met no error.
Done(op) == [t |-> "done", op |-> op, errs |-> FALSE]
Sealing == [t |-> "receipt", passed |-> "passed"]

\* A message in a pipe, and one that is in it ahead of another.
Has(s, m) == \E i \in DOMAIN s : s[i] = m
Prior(s, a, b) == \E i, j \in DOMAIN s : i < j /\ s[i] = a /\ s[j] = b

RegIn(r, s) == Has(res, Reg(r, s))
AckIn(r, s) == Has(cmd, Ack(r, s))
OpIn(op) == Has(cmd, Op(op))
DoneIn(op) == Has(res, Done(op))

Quiet(r) == \A s \in Events : ~RegIn(r, s) /\ ~AckIn(r, s)
Clear(r) == Quiet(r) /\ own.registry[r] = "none" /\ wk.ents[r] = "none" /\ r \notin objs
InHand(r) == wk.pc = "work" /\ wk.todo # <<>> /\ Role = r

\* The order of an object's events.
Before(s1, s2) == (s1 = "intent" /\ s2 # "intent") \/ (s1 = "bound" /\ s2 = "cleaned")

\* What is on its way about an object, in the order of its events: first the
\* acknowledgements, then the registrations.
Ordered ==
    \A r \in Roles, s1, s2 \in Events :
        /\ Prior(res, Reg(r, s1), Reg(r, s2)) => Before(s1, s2)
        /\ Prior(cmd, Ack(r, s1), Ack(r, s2)) => Before(s1, s2)
        /\ AckIn(r, s1) /\ RegIn(r, s2) => Before(s1, s2)

\* What both sides hold of an object while something is on its way about it.
Mail ==
    \A r \in Roles :
        /\ wk.ents[r] = "none" => r \notin objs
        /\ RegIn(r, "intent") => wk.ents[r] = "intent" /\ own.registry[r] = "none"
        /\ AckIn(r, "intent") => wk.ents[r] = "intent" /\ own.registry[r] = "intent"
        /\ RegIn(r, "bound") \/ AckIn(r, "bound") => wk.ents[r] # "intent"
        /\ RegIn(r, "cleaned") \/ AckIn(r, "cleaned") => wk.ents[r] = "none"
        /\ AckIn(r, "cleaned") => own.registry[r] = "none"
        /\ r \in objs => own.registry[r] # "none"

\* What the worker's operations are about.
Of(op) ==
    IF op = "host" THEN {Root}
    ELSE IF op \in {"guest", "guest-cleanup"} THEN Guest
    ELSE IF op \in {"stage", "clean"} THEN {Source}
    ELSE HostRoles

\* The object in hand, and those an operation that creates has still before it.
Hand ==
    /\ wk.pc = "work" =>
          /\ wk.op \in {"host", "guest", "stage", "clean", "guest-cleanup", "host-cleanup"}
          /\ ToSet(wk.todo) \subseteq Of(wk.op)
          /\ wk.step \in IF First(wk.op) = "intent" THEN {"intent", "make", "bound"} ELSE {"remove", "cleaned"}
          /\ wk.wait => wk.todo # <<>> /\ wk.step \in Events
    /\ wk.pc # "work" => wk.op = "none" /\ ~wk.wait
    /\ \A r \in Roles : InHand(r) =>
          /\ ~wk.wait /\ wk.step = "intent" => Clear(r)
          /\ ~wk.wait /\ wk.step \in {"make", "bound"} =>
                wk.ents[r] = "intent" /\ own.registry[r] = "intent" /\ Quiet(r)
          /\ ~wk.wait /\ wk.step = "cleaned" => wk.ents[r] = "bound" /\ r \notin objs
          /\ wk.wait => wk.ents[r] = IF wk.step = "cleaned" THEN "none" ELSE wk.step
    /\ wk.pc = "work" /\ First(wk.op) = "intent" =>
          \A r \in ToSet(wk.todo) : ~InHand(r) => Clear(r)
    /\ wk.pc \in {"none", "boot"} => \A r \in Roles : Clear(r)
    /\ ~wk.src => Clear(Source)
    /\ wk.op \in {"stage", "clean"} /\ wk.todo # <<>> => wk.src

(***************************************************************************)
(* What a complete cleanup leaves.                                         *)
(***************************************************************************)
EarlyGuest == BeforeHost \ {"guest", "host0"}
BeforeGuestClean == BeforeHost \cup {"host", "unwind", "guestClean0"}
BeforeHostClean == BeforeGuestClean \cup {"guestClean", "stop", "stopWait", "hostClean0"}

\* An object that is not known has left nothing.
Kept(roles) == \A r \in roles : ~Known(r) => Clear(r)

Walked(op) == IF op = "guest-cleanup" THEN Guest ELSE HostRoles
BeforeClean(op) == IF op = "guest-cleanup" THEN BeforeGuestClean ELSE BeforeHostClean

GuestOnce ==
    /\ own.pc \in EarlyGuest => ~OpIn("guest") /\ wk.op # "guest" /\ \A r \in Guest : Clear(r)
    /\ OpIn("guest") => wk.op # "guest" /\ \A r \in Guest : Clear(r)
    /\ ~Prior(cmd, Op("guest"), Op("guest")) /\ ~Prior(cmd, Op("guest-cleanup"), Op("guest"))

CleanOnce ==
    \A op \in {"guest-cleanup", "host-cleanup"} :
        /\ own.pc \in BeforeClean(op) => ~OpIn(op) /\ wk.op # op /\ ~DoneIn(op) /\ Kept(Walked(op))
        /\ OpIn(op) => wk.op # op /\ ~DoneIn(op) /\ Kept(Walked(op))
        /\ ~Prior(cmd, Op(op), Op(op))
        /\ wk.op = op => ~DoneIn(op)
        /\ wk.op = op /\ ~wk.errs =>
              \A r \in Walked(op) :
                  /\ r \notin ToSet(wk.todo) => Clear(r)
                  /\ ~Known(r) /\ ~(InHand(r) /\ wk.wait) => Clear(r)

\* No object of the guest, and none to come.
GuestComplete ==
    /\ wk.op = "guest-cleanup" => ~OpIn("guest")
    /\ DoneIn("guest-cleanup") \/ own.guest = "complete" =>
          ~OpIn("guest") /\ wk.op # "guest" /\ \A r \in Guest : Clear(r)

\* No object of the host, and none that the owner would still acknowledge.
Settled(r) == r \notin objs /\ (\A s \in Events : ~AckIn(r, s)) /\ (InHand(r) => wk.step # "make")

HostComplete ==
    \A r \in HostRoles :
        /\ DoneIn("host-cleanup") =>
              /\ Settled(r) /\ own.registry[r] = "none"
              /\ \A s \in Events : ~Prior(res, Reg(r, s), Done("host-cleanup"))
        /\ own.host = "complete" =>
              Settled(r) /\ (own.pc \in {"freeze", "commit0"} => own.registry[r] = "none")

(***************************************************************************)
(* The commitment and what becomes of it.                                  *)
(***************************************************************************)
SameFacts(m) == m.facts = own.facts /\ m.report = own.report

Sealed ==
    /\ \A i \in DOMAIN cmd : cmd[i].t = "commit" => own.pc \in Deciding \ {"commit0"} /\ SameFacts(cmd[i])
    /\ wk.pc \in {"persist", "seal", "answer"} => own.pc \in Deciding \ {"commit0"} /\ SameFacts(wk.sent)
    /\ disk = "passed" => "passed" \in own.facts /\ wk.pc \in {"answer", "done", "dead", "stuck"}
    /\ Has(res, Sealing) \/ own.receipt = "passed" \/ packet = "passed" => disk = "passed"

\* Without initialisation there is nothing to register.
PlainIsBare ==
    mode = "plain" =>
        /\ objs = {} /\ wk.pc # "work" /\ net.stage = "none"
        /\ own.pc \notin CleanStages /\ \A op \in OwnerOps : ~OpIn(op)

IInv ==
    /\ Shape /\ Facts /\ Place /\ Running
    /\ Ordered /\ Mail /\ Hand
    /\ GuestOnce /\ CleanOnce /\ GuestComplete /\ HostComplete
    /\ Sealed /\ PlainIsBare

(***************************************************************************)
(* Pipes: what a message sent, read or overwritten changes.                *)
(***************************************************************************)

\* A message sent is behind all the others.
LEMMA SentLast ==
    ASSUME NEW S, NEW s \in Seq(S), NEW e \in S
    PROVE  /\ Append(s, e) \in Seq(S) /\ Append(s, e) # <<>>
           /\ \A m : Has(Append(s, e), m) <=> Has(s, m) \/ m = e
           /\ \A a, b : Prior(Append(s, e), a, b) <=> Prior(s, a, b) \/ (Has(s, a) /\ b = e)
<1>1. /\ Append(s, e) \in Seq(S) /\ Len(Append(s, e)) = Len(s) + 1
      /\ Len(s) \in Nat /\ DOMAIN s = 1..Len(s) /\ DOMAIN Append(s, e) = 1..(Len(s) + 1)
      /\ \A i \in 1..Len(s) : Append(s, e)[i] = s[i]
      /\ Append(s, e)[Len(s) + 1] = e
      /\ Append(s, e) # <<>>
    OBVIOUS
<1>2. \A m : Has(Append(s, e), m) <=> Has(s, m) \/ m = e
    BY <1>1 DEF Has
<1>3. \A a, b : Prior(Append(s, e), a, b) <=> Prior(s, a, b) \/ (Has(s, a) /\ b = e)
    BY <1>1 DEF Has, Prior
<1> QED  BY <1>1, <1>2, <1>3

\* Reading takes the first message, which was ahead of all the others.
LEMMA ReadFirst ==
    ASSUME NEW S, NEW s \in Seq(S), s # <<>>
    PROVE  /\ Tail(s) \in Seq(S) /\ Head(s) \in S /\ Has(s, Head(s))
           /\ \A m : Has(s, m) <=> m = Head(s) \/ Has(Tail(s), m)
           /\ \A a, b : Prior(s, a, b) <=> Prior(Tail(s), a, b) \/ (a = Head(s) /\ Has(Tail(s), b))
<1> DEFINE t == Tail(s)
<1>1. /\ t \in Seq(S) /\ Head(s) \in S /\ Head(s) = s[1]
      /\ Len(s) \in Nat /\ Len(s) > 0 /\ DOMAIN s = 1..Len(s) /\ Len(t) = Len(s) - 1
      /\ DOMAIN t = 1..(Len(s) - 1)
      /\ \A i \in 1..(Len(s) - 1) : t[i] = s[i + 1]
    OBVIOUS
<1>2. \A i \in DOMAIN s : i = 1 \/ (i - 1 \in DOMAIN t /\ s[i] = t[i - 1])
    BY <1>1
<1>3. \A i \in DOMAIN t : i + 1 \in DOMAIN s /\ i + 1 > 1 /\ s[i + 1] = t[i]
    BY <1>1
<1>4. 1 \in DOMAIN s
    BY <1>1
<1> HIDE DEF t
<1>5. \A m : Has(s, m) <=> m = Head(s) \/ Has(t, m)
    <2>1. \A m : Has(s, m) => m = Head(s) \/ Has(t, m)
        BY <1>1, <1>2 DEF Has
    <2>2. \A m : Has(t, m) => Has(s, m)
        BY <1>3 DEF Has
    <2>3. Has(s, Head(s))
        BY <1>1, <1>4 DEF Has
    <2> QED  BY <2>1, <2>2, <2>3
<1>6. \A a, b : Prior(t, a, b) => Prior(s, a, b)
    BY <1>1, <1>3 DEF Prior
<1>7. \A a, b : a = Head(s) /\ Has(t, b) => Prior(s, a, b)
    BY <1>1, <1>3, <1>4 DEF Has, Prior
<1>8. \A a, b : Prior(s, a, b) => Prior(t, a, b) \/ (a = Head(s) /\ Has(t, b))
    <2> SUFFICES ASSUME NEW a, NEW b, Prior(s, a, b)
                 PROVE  Prior(t, a, b) \/ (a = Head(s) /\ Has(t, b))
        OBVIOUS
    <2>1. PICK i \in DOMAIN s, j \in DOMAIN s : i < j /\ s[i] = a /\ s[j] = b
        BY DEF Prior
    <2>2. j - 1 \in DOMAIN t /\ t[j - 1] = b
        BY <1>1, <1>2, <2>1
    <2>3. CASE i = 1
        BY <1>1, <2>1, <2>2, <2>3 DEF Has
    <2>4. CASE i # 1
        <3>1. i - 1 \in DOMAIN t /\ t[i - 1] = a /\ i - 1 < j - 1
            BY <1>1, <1>2, <2>1, <2>4
        <3> QED  BY <2>2, <3>1 DEF Prior
    <2> QED  BY <2>3, <2>4
<1> QED  BY <1>1, <1>4, <1>5, <1>6, <1>7, <1>8 DEF t, Has

\* A first message that was read in part becomes another one; the rest stays.
LEMMA ReadInPart ==
    ASSUME NEW S, NEW s \in Seq(S), s # <<>>, NEW e \in S
    PROVE  /\ [s EXCEPT ![1] = e] \in Seq(S)
           /\ \A m : Has([s EXCEPT ![1] = e], m) => Has(s, m) \/ m = e
           /\ \A a, b : Prior([s EXCEPT ![1] = e], a, b) => Prior(s, a, b) \/ a = e \/ b = e
<1>1. /\ [s EXCEPT ![1] = e] \in Seq(S)
      /\ DOMAIN [s EXCEPT ![1] = e] = DOMAIN s
      /\ \A i \in DOMAIN s : [s EXCEPT ![1] = e][i] = s[i] \/ [s EXCEPT ![1] = e][i] = e
    OBVIOUS
<1> QED  BY <1>1 DEF Has, Prior

\* An empty pipe holds nothing.
LEMMA NothingThere == \A m, a, b : ~Has(<<>>, m) /\ ~Prior(<<>>, a, b)
BY DEF Has, Prior

\* The kinds of messages are told apart by their tags.
LEMMA Kinds ==
    /\ \A r, s : Reg(r, s).t = "reg" /\ Reg(r, s).role = r /\ Reg(r, s).state = s
    /\ \A r, s : Ack(r, s).t = "ack" /\ Ack(r, s).role = r /\ Ack(r, s).state = s
    /\ \A o : Op(o).t = "op" /\ Op(o).op = o /\ Done(o).t = "done" /\ Done(o).op = o
    /\ Sealing.t = "receipt" /\ Sealing.passed = "passed"
BY DEF Reg, Ack, Op, Done, Sealing

\* A registration names an object and one of its events.
LEMMA Registration ==
    ASSUME NEW m \in Answered, m.t = "reg"
    PROVE  m = Reg(m.role, m.state) /\ m.role \in Roles /\ m.state \in Events
BY DEF Answered, Regs, Readies, Dones, Receipts, Reg

\* A command is an acknowledgement, an operation or the commitment.
LEMMA Ordering ==
    ASSUME NEW m \in Commands
    PROVE  /\ m.t = "ack" => m = Ack(m.role, m.state) /\ m.role \in Roles /\ m.state \in Events
           /\ m.t = "op" => m = Op(m.op) /\ m.op \in OwnerOps
           /\ m.t \in {"ack", "op", "commit"}
BY DEF Commands, Acks, Ops, Commitments, Ack, Op

(***************************************************************************)
(* Sequences of objects.                                                   *)
(***************************************************************************)

\* An object is walked once: the first is not among the rest.
LEMMA FirstAndRest ==
    ASSUME NEW S, NEW s \in Seq(S), IsInjective(s), s # <<>>
    PROVE  /\ Tail(s) \in Seq(S) /\ IsInjective(Tail(s)) /\ Head(s) \in S
           /\ ToSet(s) = {Head(s)} \cup ToSet(Tail(s))
           /\ Head(s) \notin ToSet(Tail(s))
<1> DEFINE t == Tail(s)
<1>1. /\ t \in Seq(S) /\ Head(s) \in S /\ Head(s) = s[1]
      /\ Len(s) \in Nat /\ Len(s) > 0 /\ DOMAIN s = 1..Len(s) /\ Len(t) = Len(s) - 1
      /\ DOMAIN t = 1..(Len(s) - 1)
      /\ \A i \in 1..(Len(s) - 1) : t[i] = s[i + 1]
    OBVIOUS
<1>2. \A i \in DOMAIN s : i = 1 \/ (i - 1 \in DOMAIN t /\ s[i] = t[i - 1])
    BY <1>1
<1>3. \A i \in DOMAIN t : i + 1 \in DOMAIN s /\ i + 1 # 1 /\ s[i + 1] = t[i]
    BY <1>1
<1>4. 1 \in DOMAIN s
    BY <1>1
<1>5. \A i, j \in DOMAIN s : s[i] = s[j] => i = j
    BY DEF IsInjective
<1>6. \A i, j \in DOMAIN t : t[i] = t[j] => i = j
    <2> SUFFICES ASSUME NEW i \in DOMAIN t, NEW j \in DOMAIN t, t[i] = t[j]
                 PROVE  i = j
        OBVIOUS
    <2>1. i + 1 = j + 1
        BY <1>3, <1>5
    <2> QED  BY <1>1, <2>1
<1> HIDE DEF t
<1>7. \A i \in DOMAIN t : t[i] # Head(s)
    BY <1>1, <1>3, <1>4, <1>5
<1>8. IsInjective(t)
    BY <1>6 DEF IsInjective
<1>9. ToSet(s) = {Head(s)} \cup ToSet(t)
    <2>1. ASSUME NEW x \in ToSet(s)  PROVE x \in {Head(s)} \cup ToSet(t)
        BY <1>1, <1>2, <2>1 DEF ToSet
    <2>2. ASSUME NEW x \in ToSet(t)  PROVE x \in ToSet(s)
        BY <1>3, <2>2 DEF ToSet
    <2>3. Head(s) \in ToSet(s)
        BY <1>1, <1>4 DEF ToSet
    <2> QED  BY <2>1, <2>2, <2>3
<1>10. Head(s) \notin ToSet(t)
    BY <1>7 DEF ToSet
<1> QED  BY <1>1, <1>8, <1>9, <1>10 DEF t

\* The reverse order walks the same objects, each once.
LEMMA Backwards ==
    ASSUME NEW S, NEW s \in Seq(S), IsInjective(s)
    PROVE  Reverse(s) \in Seq(S) /\ IsInjective(Reverse(s)) /\ ToSet(Reverse(s)) = ToSet(s)
<1> DEFINE b == [i \in 1..Len(s) |-> s[(Len(s) - i) + 1]]
<1>1. Reverse(s) = b
    BY DEF Reverse
<1>2. Len(s) \in Nat /\ DOMAIN s = 1..Len(s) /\ DOMAIN b = 1..Len(s)
    OBVIOUS
<1>3. \A i \in 1..Len(s) : (Len(s) - i) + 1 \in 1..Len(s) /\ b[i] = s[(Len(s) - i) + 1] /\ s[i] = b[(Len(s) - i) + 1]
    BY <1>2
<1>4. \A i, j \in 1..Len(s) : s[i] = s[j] => i = j
    BY <1>2 DEF IsInjective
<1>5. b \in Seq(S)
    OBVIOUS
<1>6. ASSUME NEW i \in 1..Len(s), NEW j \in 1..Len(s), b[i] = b[j]
      PROVE  i = j
    <2>1. (Len(s) - i) + 1 = (Len(s) - j) + 1
        BY <1>3, <1>4, <1>6
    <2> QED  BY <1>2, <2>1
<1> HIDE DEF b
<1>7. ToSet(b) = ToSet(s)
    BY <1>2, <1>3 DEF ToSet
<1> QED  BY <1>1, <1>2, <1>5, <1>6, <1>7 DEF IsInjective

\* A sequence is one over any set that holds its elements.
LEMMA OwnElements ==
    ASSUME NEW S, NEW s \in Seq(S), NEW T, ToSet(s) \subseteq T
    PROVE  s \in Seq(T)
<1>1. Len(s) \in Nat /\ DOMAIN s = 1..Len(s) /\ s = [i \in 1..Len(s) |-> s[i]]
    OBVIOUS
<1>2. \A i \in 1..Len(s) : s[i] \in T
    BY <1>1 DEF ToSet
<1> QED  BY <1>1, <1>2

(***************************************************************************)
(* The shape of every state.                                               *)
(***************************************************************************)

\* The objects are the guest's and the host's two, and these are not the guest's.
LEMMA RolesOfGuest ==
    /\ GuestRoles \in Seq(Roles) /\ IsInjective(GuestRoles) /\ Guest \subseteq Roles
    /\ <<Root>> \in Seq(Roles) /\ <<Source>> \in Seq(Roles) /\ <<Source, Root>> \in Seq(Roles)
    /\ Root # Source /\ Root \notin Guest /\ Source \notin Guest
    /\ Roles = Guest \cup HostRoles
<1>1. GuestRoles \in Seq(STRING) /\ IsInjective(GuestRoles)
    BY LifecycleAssumption
<1>2. Root # Source /\ Root \notin Guest /\ Source \notin Guest
    BY LifecycleAssumption DEF Root, Source, Guest
<1>3. Roles = Guest \cup HostRoles /\ Root \in Roles /\ Source \in Roles
    BY DEF Roles, Guest, HostRoles
<1>4. GuestRoles \in Seq(Roles)
    BY <1>1, <1>3, OwnElements DEF Guest
<1> QED  BY <1>1, <1>2, <1>3, <1>4

\* Every operation walks objects, each at most once.
LEMMA Walks ==
    ASSUME NEW op
    PROVE  Walk(op) \in Seq(Roles) /\ IsInjective(Walk(op))
<1>1. Reverse(GuestRoles) \in Seq(Roles) /\ IsInjective(Reverse(GuestRoles))
    BY RolesOfGuest, Backwards
<1>2. IsInjective(<<Source, Root>>)
    BY RolesOfGuest DEF IsInjective
<1> QED  BY <1>1, <1>2, RolesOfGuest DEF Walk

\* What a registration that the owner takes says, and what it records.
LEMMA Recording ==
    ASSUME Shape, RegistrationComes
    PROVE  \E r \in Roles, s \in Events :
              /\ res # <<>> /\ Head(res) = Reg(r, s)
              /\ own.registry[r] = IF s = "intent" THEN "none" ELSE IF s = "bound" THEN "intent" ELSE "bound"
              /\ Recorded(Head(res)) = [own.registry EXCEPT ![r] = IF s = "cleaned" THEN "none" ELSE s]
              /\ Recorded(Head(res)) \in [Roles -> States]
<1> DEFINE e == Head(res)
<1>1. e \in Answered /\ res # <<>> /\ e.t = "reg" /\ Registrable(e)
    BY DEF Shape, PipeShape, RegistrationComes
<1> HIDE DEF e
<1>2. e = Reg(e.role, e.state) /\ e.role \in Roles /\ e.state \in Events
    BY <1>1, Registration
<1>3. own.registry[e.role] = IF e.state = "intent" THEN "none" ELSE IF e.state = "bound" THEN "intent" ELSE "bound"
    BY <1>1, <1>2 DEF Registrable, Events
<1>4. Recorded(e) = [own.registry EXCEPT ![e.role] = IF e.state = "cleaned" THEN "none" ELSE e.state]
    BY DEF Recorded
<1>5. Recorded(e) \in [Roles -> States]
    BY <1>2, <1>4 DEF Shape, OwnShape, States, Events
<1> QED  BY <1>1, <1>2, <1>3, <1>4, <1>5 DEF e

\* The worker's record keeps its shape between operations and inside one.
LEMMA WkShapes ==
    ASSUME WkShape(wk)
    PROVE  /\ \A pc : WkShape(WkAt(pc)) /\ WkAt(pc).ents = wk.ents /\ WkAt(pc).src = wk.src
                      /\ WkAt(pc).pc = pc /\ WkAt(pc).op = "none" /\ WkAt(pc).todo = <<>>
           /\ wk.todo # <<>> => WkShape(Onward) /\ Role \in Roles
           /\ \A op, todo : todo \in Seq(Roles) /\ IsInjective(todo) /\ Starts(op, todo) => WkShape(wk')
<1>1. <<>> \in Seq(Roles) /\ IsInjective(<<>>)
    BY DEF IsInjective
<1>2. ASSUME wk.todo # <<>>
      PROVE  WkShape(Onward) /\ Role \in Roles
    <2>1. Tail(wk.todo) \in Seq(Roles) /\ IsInjective(Tail(wk.todo)) /\ Head(wk.todo) \in Roles
        BY <1>2, FirstAndRest DEF WkShape
    <2> QED  BY <2>1 DEF WkShape, Onward, Role
<1>3. \A pc : WkShape(WkAt(pc)) /\ WkAt(pc).ents = wk.ents /\ WkAt(pc).src = wk.src
              /\ WkAt(pc).pc = pc /\ WkAt(pc).op = "none" /\ WkAt(pc).todo = <<>>
    BY <1>1 DEF WkShape, WkAt
<1>4. ASSUME NEW op, NEW todo, todo \in Seq(Roles), IsInjective(todo), Starts(op, todo)
      PROVE  WkShape(wk')
    BY <1>4 DEF WkShape, Starts
<1> QED  BY <1>2, <1>3, <1>4

\* A failure and a cleanup error add marks and nothing else.
LEMMA MarksOnly ==
    ASSUME NEW f, f \subseteq Marks
    PROVE  Fail(f) \subseteq Marks /\ CleanupError(f) \subseteq Marks /\ Noticed(f) \subseteq Marks
BY DEF Fail, CleanupError, Noticed, Marks

\* Moving on changes the place and the facts only.
LEMMA GoShape ==
    ASSUME OwnShape(own), NEW pc \in OwnerStages, NEW f, f \subseteq Marks, Go(pc, f)
    PROVE  OwnShape(own') /\ own'.pc = pc /\ own'.facts = f
           /\ own'.shut = own.shut /\ own'.guest = own.guest /\ own'.host = own.host
           /\ own'.registry = own.registry /\ own'.report = own.report /\ own'.receipt = own.receipt
           /\ own'.safe = own.safe
BY DEF OwnShape, Go

\* The end of a cleanup changes the place, its own status and, if it was not complete, the
\* facts.
LEMMA CleanedShape ==
    ASSUME OwnShape(own), own.pc \in CleanStages \cup CleanWaits,
           NEW status \in {"unconfirmed", "complete"}
    PROVE  LET o == Cleaned(status) IN
              /\ OwnShape(o) /\ o.pc = AfterClean(own.pc)
              /\ o.facts = IF status = "complete" THEN own.facts ELSE CleanupError(own.facts)
              /\ o.guest = IF own.pc \in {"guestClean0", "guestClean"} THEN status ELSE own.guest
              /\ o.host = IF own.pc \in {"guestClean0", "guestClean"} THEN own.host ELSE status
              /\ o.shut = own.shut /\ o.registry = own.registry /\ o.report = own.report /\ o.receipt = own.receipt
<1>1. CleanupError(own.facts) \subseteq Marks
    BY MarksOnly DEF OwnShape
<1>2. AfterClean(own.pc) \in OwnerStages
    BY DEF AfterClean, OwnerStages
<1> QED  BY <1>1, <1>2 DEF Cleaned, OwnShape, CleanOp, CleanStages, CleanWaits

\* A wait that is given up ends in the unwinding, or as an unconfirmed cleanup.
LEMMA GivenUpShape ==
    ASSUME OwnShape(own), own.pc \in {"evidence", "guest"} \cup CleanWaits
    PROVE  /\ OwnShape(GivenUp)
           /\ GivenUp = IF own.pc \in CleanWaits THEN Cleaned("unconfirmed") ELSE [own EXCEPT !.pc = "unwind", !.facts = Fail(@)]
<1>1. CASE own.pc \in CleanWaits
    BY <1>1, CleanedShape DEF GivenUp
<1>2. CASE own.pc \notin CleanWaits
    BY <1>2, MarksOnly DEF GivenUp, OwnShape, OwnerStages
<1> QED  BY <1>1, <1>2

\* What host's finally block leaves of the owner and of its processes.
LEMMA HostEndShape ==
    ASSUME Shape, NEW f, f \subseteq Marks, NEW report \in {"none", "passed"},
           NEW registry \in [Roles -> States], HostEnd(f, report, registry)
    PROVE  /\ OwnShape(own') /\ own'.pc = "unwind" /\ own'.report = report /\ own'.registry = registry
           /\ own'.facts \in {f, CleanupError(f)}
           /\ TransportRuns \/ net.tr = "stuck" \/ "registered" \notin f => own'.facts = CleanupError(f)
           /\ own'.shut = own.shut /\ own'.guest = own.guest /\ own'.host = own.host /\ own'.receipt = own.receipt
           /\ DOMAIN net' = {"wd", "tr", "reg", "admit", "stage", "staged", "told"}
           /\ net'.admit = "closed" /\ net'.stage \in {net.stage, "none"}
           /\ net'.wd = IF net.wd = "passed" THEN "passed" ELSE net'.wd
           /\ net.wd # "passed" => net'.wd \in {"dead", "stuck"}
           /\ net'.wd = "stuck" => own'.facts = CleanupError(f)
           /\ net'.tr # net.tr => TransportRuns /\ net'.tr \in {"gone", "stuck"}
<1> DEFINE known == "registered" \in f
           dirty(reaped) == ~reaped \/ (known /\ (TransportRuns \/ net.tr = "stuck")) \/ Unconfirmed(f)
<1>1. PICK reaped \in BOOLEAN, gone \in BOOLEAN :
         /\ own' = [own EXCEPT !.pc = "unwind", !.report = report, !.registry = registry,
                               !.facts = IF dirty(reaped) THEN CleanupError(f) ELSE f]
         /\ net' = [net EXCEPT !.admit = "closed", !.reg = "none", !.told = FALSE, !.staged = MaxStaged,
                       !.stage = IF @ \in {"stage", "clean", "busy"} THEN @ ELSE "none",
                       !.wd = IF @ = "passed" THEN @ ELSE IF WatchRuns /\ ~reaped THEN "stuck" ELSE "dead",
                       !.tr = IF known /\ TransportRuns THEN IF gone THEN "gone" ELSE "stuck" ELSE @]
    BY Zenon DEF HostEnd
<1>2. dirty(reaped) => own'.facts = CleanupError(f)
    BY <1>1 DEF Shape, OwnShape
<1>3. own'.facts \in {f, CleanupError(f)}
    BY <1>1 DEF Shape, OwnShape
<1>4. CleanupError(f) \subseteq Marks
    BY MarksOnly
<1>5. OwnShape(own') /\ own'.pc = "unwind" /\ own'.report = report /\ own'.registry = registry
      /\ own'.shut = own.shut /\ own'.guest = own.guest /\ own'.host = own.host /\ own'.receipt = own.receipt
    BY <1>1, <1>4 DEF Shape, OwnShape, OwnerStages
<1>6. /\ DOMAIN net' = {"wd", "tr", "reg", "admit", "stage", "staged", "told"}
      /\ net'.admit = "closed" /\ net'.stage \in {net.stage, "none"}
      /\ net'.wd = IF net.wd = "passed" THEN net.wd ELSE IF WatchRuns /\ ~reaped THEN "stuck" ELSE "dead"
      /\ net'.tr = IF known /\ TransportRuns THEN IF gone THEN "gone" ELSE "stuck" ELSE net.tr
    BY <1>1 DEF Shape
<1>7. TransportRuns \/ net.tr = "stuck" \/ "registered" \notin f => dirty(reaped)
    BY DEF Unconfirmed
<1>8. net'.wd = "stuck" => dirty(reaped)
    BY <1>6 DEF WatchRuns
<1>9. net'.tr # net.tr => TransportRuns /\ net'.tr \in {"gone", "stuck"}
    BY <1>6
<1> HIDE DEF dirty
<1> QED  BY <1>2, <1>3, <1>5, <1>6, <1>7, <1>8, <1>9

\* Every message is one of those the two sides know.
LEMMA Messages ==
    /\ \A r \in Roles, s \in Events : Reg(r, s) \in Answered /\ Ack(r, s) \in Commands
    /\ \A a \in BOOLEAN, b \in BOOLEAN : (b => a) => [t |-> "ready", attempt |-> a, ok |-> b] \in Answered
    /\ \A op \in OwnerOps : Op(op) \in Commands
    /\ \A op \in OwnerOps, errs \in BOOLEAN : [t |-> "done", op |-> op, errs |-> errs] \in Answered
    /\ \A d \in Disks : [t |-> "receipt", passed |-> d] \in Answered
    /\ [t |-> "error"] \in Answered /\ [t |-> "garbage"] \in Answered
BY DEF Reg, Ack, Op, Answered, Commands, Acks, Ops, Regs, Readies, Dones, Receipts

\* The commitment carries the owner's facts and report.
LEMMA CommitmentShape ==
    ASSUME OwnShape(own)
    PROVE  Commitment \in Commands /\ Commitment.t = "commit"
           /\ Commitment.facts = own.facts /\ Commitment.report = own.report
BY DEF Commitment, Commands, Commitments, OwnShape

Parts(o, w, k, n) ==
    /\ OwnShape(o) /\ WkShape(w)
    /\ DOMAIN k = {"act", "at", "said"} /\ k.act \in {"none", "start", "readiness", "normal", "recovery"}
    /\ DOMAIN n = {"wd", "tr", "reg", "admit", "stage", "staged", "told"}

\* No step of the owner disturbs the records.
LEMMA OwnerShape ==
    ASSUME Shape, Running, Owner
    PROVE  Parts(own', wk', kid', net')
<1>0. /\ Parts(own, wk, kid, net) /\ own.facts \subseteq Marks
      /\ \A f : f \subseteq Marks => Fail(f) \subseteq Marks /\ CleanupError(f) \subseteq Marks /\ Noticed(f) \subseteq Marks
    BY MarksOnly DEF Shape, Parts, OwnShape
<1> DEFINE Keeps == UNCHANGED <<wk, kid, net>>
           Moves == \E pc \in OwnerStages, f \in SUBSET Marks : Go(pc, f)
<1>a. Moves => OwnShape(own')
    BY <1>0, GoShape DEF Parts
<1> HIDE DEF Moves
<1>1. CASE EvidenceStart
    <2>1. Moves
        BY <1>0, <1>1 DEF EvidenceStart, Unwind, OwnerStages, Moves
    <2>2. WkShape(wk')
        BY <1>0, <1>1 DEF EvidenceStart, WkShape, Parts
    <2> QED  BY <1>0, <1>1, <1>a, <2>1, <2>2 DEF EvidenceStart, Parts
<1>2. CASE Register
    <2>1. own' = [own EXCEPT !.registry = Recorded(Head(res))] /\ RegistrationComes /\ Keeps
        BY <1>2 DEF Register
    <2>2. Recorded(Head(res)) \in [Roles -> States]
        BY <2>1, Recording
    <2>3. OwnShape(own')
        BY <1>0, <2>1, <2>2 DEF OwnShape, Parts
    <2> QED  BY <1>0, <2>1, <2>3 DEF Parts
<1>3. CASE EvidenceReady
    <2>1. Moves
        BY <1>0, <1>3 DEF EvidenceReady, Unwind, OwnerStages, Marks, Moves
    <2> QED  BY <1>0, <1>3, <1>a, <2>1 DEF EvidenceReady, Parts
<1>4. CASE Action
    <2>1. Moves
        BY <1>0, <1>4 DEF Action, Unwind, OwnerStages, Marks, Moves
    <2>2. kid' \in {kid, [act |-> own.pc, at |-> "run", said |-> "none"]} /\ own.pc \in {"start", "readiness"}
        BY <1>4 DEF Action
    <2> QED  BY <1>0, <1>4, <1>a, <2>1, <2>2 DEF Action, Parts
<1>5. CASE ActionDone
    <2>1. Moves
        BY <1>0, <1>5 DEF ActionDone, Finish, OwnerStages, Marks, Moves
    <2> QED  BY <1>0, <1>5, <1>a, <2>1 DEF ActionDone, Parts, NoKid
<1>6. CASE ActionLost
    <2>1. Moves
        BY <1>0, <1>6 DEF ActionLost, Finish, OwnerStages, Moves
    <2> QED  BY <1>0, <1>6, <1>a, <2>1 DEF ActionLost, Parts, NoKid
<1>7. CASE GuestInit
    <2>1. Moves
        BY <1>0, <1>7 DEF GuestInit, Unwind, OwnerStages, Moves
    <2> QED  BY <1>0, <1>7, <1>a, <2>1 DEF GuestInit, Parts
<1>8. CASE GuestReady
    <2>1. Moves
        BY <1>0, <1>8 DEF GuestReady, Unwind, OwnerStages, Marks, Moves
    <2> QED  BY <1>0, <1>8, <1>a, <2>1 DEF GuestReady, Parts
<1>9. CASE HostFork
    <2>1. Moves
        BY <1>0, <1>9 DEF HostFork, Unwind, OwnerStages, Moves
    <2>2. net' = net \/ net' = [net EXCEPT !.wd = "run"]
        BY <1>9 DEF HostFork
    <2> QED  BY <1>0, <1>9, <1>a, <2>1, <2>2 DEF HostFork, Parts
<1>10. CASE RegisterTransport
    <2>1. Moves
        BY <1>0, <1>10 DEF RegisterTransport, OwnerStages, Marks, Moves
    <2> QED  BY <1>0, <1>10, <1>a, <2>1 DEF RegisterTransport, Parts
<1>11. CASE HostCancel
    <2>1. Moves
        BY <1>0, <1>11 DEF HostCancel, OwnerStages, Moves
    <2>2. DOMAIN net' = DOMAIN net
        BY <1>0, <1>11 DEF HostCancel, Parts
    <2> QED  BY <1>0, <1>11, <1>a, <2>1, <2>2 DEF HostCancel, Parts
<1>12. CASE HostDone
    <2>1. \E f \in SUBSET Marks, report \in {"none", "passed"} : HostEnd(f, report, own.registry)
        BY <1>0, <1>12 DEF HostDone, Marks
    <2>2. OwnShape(own') /\ DOMAIN net' = {"wd", "tr", "reg", "admit", "stage", "staged", "told"}
        <3>1. PICK f \in SUBSET Marks, report \in {"none", "passed"} : HostEnd(f, report, own.registry)
            BY <2>1
        <3>2. own.registry \in [Roles -> States]
            BY <1>0 DEF Parts, OwnShape
        <3> QED  BY <3>1, <3>2, HostEndShape
    <2> QED  BY <1>0, <1>12, <2>2 DEF HostDone, Parts
<1>13. CASE HostLost
    <2>1. \E report \in {"none", "passed"} :
             \/ HostEnd(Fail(own.facts), report, own.registry)
             \/ RegistrationComes /\ HostEnd(Fail(own.facts), report, Recorded(Head(res)))
        BY <1>13, Zenon DEF HostLost
    <2>2. RegistrationComes => Recorded(Head(res)) \in [Roles -> States]
        BY Recording
    <2>3. OwnShape(own') /\ DOMAIN net' = {"wd", "tr", "reg", "admit", "stage", "staged", "told"}
        <3>1. PICK report \in {"none", "passed"} :
                 \/ HostEnd(Fail(own.facts), report, own.registry)
                 \/ RegistrationComes /\ HostEnd(Fail(own.facts), report, Recorded(Head(res)))
            BY <2>1
        <3>2. own.registry \in [Roles -> States] /\ Fail(own.facts) \subseteq Marks
            BY <1>0 DEF Parts, OwnShape
        <3> QED  BY <2>2, <3>1, <3>2, HostEndShape
    <2> QED  BY <1>0, <1>13, <2>3 DEF HostLost, Parts
<1>14. CASE UnwindBegins
    BY <1>0, <1>14 DEF UnwindBegins, World, Parts, OwnShape, OwnerStages
<1>15. CASE Clean
    <2>1. Moves \/ own' = Cleaned("unconfirmed")
        BY <1>0, <1>15 DEF Clean, OwnerStages, Moves
    <2>2. OwnShape(own')
        BY <1>0, <1>15, <1>a, <2>1, CleanedShape DEF Clean, Parts
    <2> QED  BY <1>0, <1>15, <2>2 DEF Clean, Parts
<1>16. CASE CleanDone
    <2>1. \E status \in {"unconfirmed", "complete"} : own' = Cleaned(status)
        BY <1>16 DEF CleanDone
    <2>2. OwnShape(own')
        BY <1>0, <1>16, <2>1, CleanedShape DEF CleanDone, Parts
    <2> QED  BY <1>0, <1>16, <2>2 DEF CleanDone, Parts
<1>17. CASE WaitLost
    <2>1. OwnShape(GivenUp)
        BY <1>0, <1>17, GivenUpShape DEF WaitLost, Parts
    <2>2. own' = GivenUp \/ (RegistrationComes /\ own' = [GivenUp EXCEPT !.registry = Recorded(Head(res))])
        BY <1>17 DEF WaitLost
    <2>3. OwnShape(own')
        BY <2>1, <2>2, Recording DEF OwnShape
    <2> QED  BY <1>0, <1>17, <2>3 DEF WaitLost, Parts
<1>18. CASE Stop
    <2>1. AfterStop \in OwnerStages
        BY DEF AfterStop, OwnerStages
    <2>2. Moves \/ own' = [own EXCEPT !.pc = "stopWait", !.facts = own.facts \cup {"shutTried"}, !.shut = "none"]
        BY <1>0, <1>18, <2>1 DEF Stop, Marks, Moves
    <2>3. OwnShape(own')
        <3>1. own.facts \cup {"shutTried"} \subseteq Marks
            BY <1>0 DEF Marks
        <3>2. CASE own' = [own EXCEPT !.pc = "stopWait", !.facts = own.facts \cup {"shutTried"}, !.shut = "none"]
            BY <1>0, <3>1, <3>2 DEF Parts, OwnShape, OwnerStages
        <3> QED  BY <1>a, <2>2, <3>2
    <2>4. kid' = kid \/ \E m \in {"normal", "recovery"} : kid' = [act |-> m, at |-> "run", said |-> "none"]
        BY <1>18 DEF Stop
    <2> QED  BY <1>0, <1>18, <2>3, <2>4 DEF Stop, Parts
<1>19. CASE Stopped
    <2>1. AfterStop \in OwnerStages
        BY DEF AfterStop, OwnerStages
    <2>2. kid.act \in {"normal", "recovery"}
        BY <1>19 DEF Stopped, Running
    <2>3. OwnShape(own')
        BY <1>0, <1>19, <2>1, <2>2 DEF Stopped, Parts, OwnShape
    <2> QED  BY <1>0, <1>19, <2>3 DEF Stopped, Parts, NoKid
<1>20. CASE StopLost
    <2>1. Moves
        BY <1>0, <1>20 DEF StopLost, AfterStop, OwnerStages, Moves
    <2> QED  BY <1>0, <1>20, <1>a, <2>1 DEF StopLost, Parts, NoKid
<1>21. CASE Freeze
    <2>1. \E f \in SUBSET Marks : own' = [own EXCEPT !.pc = "commit0", !.facts = f]
        BY <1>0, <1>21 DEF Freeze, Frozen, Marks
    <2> QED  BY <1>0, <1>21, <2>1 DEF Freeze, World, Parts, OwnShape, OwnerStages
<1>22. CASE Commit
    <2>1. Moves
        BY <1>0, <1>22 DEF Commit, OwnerStages, Moves
    <2> QED  BY <1>0, <1>22, <1>a, <2>1 DEF Commit, Parts
<1>23. CASE Receipt
    <2>1. Head(res).t = "reg" /\ Registrable(Head(res)) => Recorded(Head(res)) \in [Roles -> States]
        BY <1>23, Recording DEF Receipt, RegistrationComes
    <2> QED  BY <1>0, <1>23, <2>1 DEF Receipt, Parts, OwnShape, OwnerStages
<1>24. CASE ReceiptLost
    <2>1. Moves
        BY <1>0, <1>24 DEF ReceiptLost, OwnerStages, Moves
    <2> QED  BY <1>0, <1>24, <1>a, <2>1 DEF ReceiptLost, World, Parts
<1>25. CASE Reap
    <2>1. OwnShape(own')
        <3>1. CleanupError(own.facts) \subseteq Marks
            BY <1>0
        <3>2. \E late \in BOOLEAN, f \in {own.facts, CleanupError(own.facts)} :
                 own' = [own EXCEPT !.pc = "packet", !.late = late, !.facts = f]
            BY <1>25 DEF Reap
        <3> QED  BY <1>0, <3>1, <3>2 DEF Parts, OwnShape, OwnerStages
    <2>2. wk' = wk \/ \E pc : wk' = WkAt(pc)
        BY <1>25 DEF Reap
    <2>3. WkShape(wk')
        BY <1>0, <2>2, WkShapes DEF Parts
    <2> QED  BY <1>0, <1>25, <2>1, <2>3 DEF Reap, Parts
<1>26. CASE Report
    <2>1. Moves
        BY <1>0, <1>26 DEF Report, OwnerStages, Moves
    <2> QED  BY <1>0, <1>26, <1>a, <2>1 DEF Report, Parts
<1> QED  BY <1>1, <1>2, <1>3, <1>4, <1>5, <1>6, <1>7, <1>8, <1>9, <1>10, <1>11, <1>12, <1>13, <1>14, <1>15,
            <1>16, <1>17, <1>18, <1>19, <1>20, <1>21, <1>22, <1>23, <1>24, <1>25, <1>26 DEF Owner

\* What the owner sends is a command, and what it leaves to be read an answer.
LEMMA OwnerPipes ==
    ASSUME Shape, Owner
    PROVE  PipeShape'
<1>0. /\ cmd \in Seq(Commands) /\ res \in Seq(Answered)
      /\ res # <<>> => Tail(res) \in Seq(Answered)
      /\ \A m \in Commands : Append(cmd, m) \in Seq(Commands)
      /\ res # <<>> => \A m \in Answered : [res EXCEPT ![1] = m] \in Seq(Answered)
    <2>1. cmd \in Seq(Commands) /\ res \in Seq(Answered)
        BY DEF Shape, PipeShape
    <2>2. res # <<>> => Tail(res) \in Seq(Answered)
        BY <2>1, ReadFirst
    <2>3. \A m \in Commands : Append(cmd, m) \in Seq(Commands)
        BY <2>1, SentLast
    <2>4. res # <<>> => \A m \in Answered : [res EXCEPT ![1] = m] \in Seq(Answered)
        BY <2>1, ReadInPart
    <2> QED  BY <2>1, <2>2, <2>3, <2>4
<1>z. <<>> \in Seq(Commands) /\ <<>> \in Seq(Answered)
    OBVIOUS
<1>1. CASE UNCHANGED <<cmd, res>>
    BY <1>0, <1>1 DEF PipeShape
<1>2. CASE Register
    <2>1. Ack(Head(res).role, Head(res).state) \in Commands
        BY <1>2, Recording, Kinds, Messages DEF Register
    <2> QED  BY <1>0, <1>2, <2>1 DEF Register, RegistrationComes, PipeShape, Ack
<1>3. CASE res # <<>> /\ res' = Tail(res) /\ cmd' = cmd
    BY <1>0, <1>3 DEF PipeShape
<1>4. CASE GuestInit
    BY <1>0, <1>4, Messages DEF GuestInit, Command, PipeShape, Op, OwnerOps
<1>5. CASE Clean
    BY <1>0, <1>5, Messages DEF Clean, Command, PipeShape, Op, OwnerOps, CleanOp
<1>6. CASE Commit
    BY <1>0, <1>6, CommitmentShape DEF Commit, PipeShape, Shape
<1>7. CASE HostLost
    <2>1. /\ cmd' = cmd /\ res' \in {res, Tail(res), [res EXCEPT ![1] = [t |-> "garbage"]]}
          /\ res' = res \/ res # <<>>
        BY <1>7 DEF HostLost, RegistrationComes
    <2> QED  BY <1>0, <2>1, Messages DEF PipeShape
<1>8. CASE WaitLost
    <2>1. cmd' = cmd /\ (res' \in {res, <<>>} \/ (res # <<>> /\ res' = Tail(res)))
        BY <1>8 DEF WaitLost, RegistrationComes
    <2> QED  BY <1>0, <1>z, <2>1 DEF PipeShape
<1>9. CASE Reap
    <2>1. cmd' = <<>> /\ res' = <<>>
        BY <1>9 DEF Reap
    <2> QED  BY <1>z, <2>1 DEF PipeShape
<1>10. CASE Receipt \/ CleanDone \/ GuestReady \/ EvidenceReady
    BY <1>3, <1>10 DEF Receipt, CleanDone, GuestReady, EvidenceReady
<1>11. CASE EvidenceStart
    BY <1>1, <1>11 DEF EvidenceStart
<1>12. CASE Action
    BY <1>1, <1>12 DEF Action
<1>13. CASE ActionDone
    BY <1>1, <1>13 DEF ActionDone
<1>14. CASE ActionLost
    BY <1>1, <1>14 DEF ActionLost
<1>15. CASE HostFork
    BY <1>1, <1>15 DEF HostFork
<1>16. CASE RegisterTransport
    BY <1>1, <1>16 DEF RegisterTransport
<1>17. CASE HostCancel
    BY <1>1, <1>17 DEF HostCancel
<1>18. CASE HostDone
    BY <1>1, <1>18 DEF HostDone
<1>19. CASE UnwindBegins
    BY <1>1, <1>19 DEF UnwindBegins, World
<1>20. CASE Stop
    BY <1>1, <1>20 DEF Stop
<1>21. CASE Stopped
    BY <1>1, <1>21 DEF Stopped
<1>22. CASE StopLost
    BY <1>1, <1>22 DEF StopLost
<1>23. CASE Freeze
    BY <1>1, <1>23 DEF Freeze, World
<1>24. CASE ReceiptLost
    BY <1>1, <1>24 DEF ReceiptLost, World
<1>25. CASE Report
    BY <1>1, <1>25 DEF Report
<1> QED  BY <1>2, <1>4, <1>5, <1>6, <1>7, <1>8, <1>9, <1>10, <1>11, <1>12, <1>13, <1>14, <1>15, <1>16,
            <1>17, <1>18, <1>19, <1>20, <1>21, <1>22, <1>23, <1>24, <1>25 DEF Owner

\* What an exception inside an operation does.
LEMMA OpErrorEffect ==
    ASSUME Shape, wk.pc = "work", OpError,
           wk.op \in {"guest-cleanup", "host-cleanup"} => wk.todo # <<>>
    PROVE  /\ WkShape(wk') /\ wk'.ents = wk.ents /\ wk'.src = wk.src
           /\ \/ wk'.pc = "idle" /\ wk'.op = "none" /\ wk'.todo = <<>>
                 /\ wk.op \notin {"guest-cleanup", "host-cleanup"}
              \/ /\ wk.op \in {"guest-cleanup", "host-cleanup"} /\ res' = res
                 /\ wk'.pc = "work" /\ wk'.op = wk.op /\ wk'.errs = TRUE
                 /\ wk'.step = "remove" /\ wk'.wait = FALSE /\ wk'.todo \in {<<>>, Tail(wk.todo)}
           /\ res' = res \/ \E m \in Answered : /\ res' = Append(res, m)
                                                /\ m.t = "done" => m.errs = TRUE
                                                /\ m.t \in {"ready", "done"}
           /\ net' = net \/ net' = [net EXCEPT !.stage = net'.stage]
           /\ net' # net => wk.op \in {"stage", "clean"}
<1>0. /\ WkShape(wk) /\ WkShape(WkAt("idle")) /\ WkAt("idle").ents = wk.ents /\ WkAt("idle").src = wk.src
      /\ WkAt("idle").pc = "idle" /\ WkAt("idle").op = "none" /\ WkAt("idle").todo = <<>>
    BY WkShapes DEF Shape
<1>1. CASE wk.op = "host"
    <2>1. [t |-> "ready", attempt |-> TRUE, ok |-> FALSE] \in Answered
        BY Messages
    <2> QED  BY <1>0, <1>1, <2>1 DEF OpError, Replied
<1>2. CASE wk.op = "guest"
    <2>1. [t |-> "done", op |-> "guest", errs |-> TRUE] \in Answered
        BY Messages DEF OwnerOps
    <2> QED  BY <1>0, <1>2, <2>1 DEF OpError, Replied
<1>3. CASE wk.op \in {"stage", "clean"}
    BY <1>0, <1>3 DEF OpError, Replied
<1>4. CASE wk.op = "guest-cleanup"
    <2>1. WkShape(Onward)
        BY <1>4, WkShapes DEF Shape
    <2>2. /\ Onward.pc = wk.pc /\ Onward.op = wk.op /\ Onward.todo = Tail(wk.todo) /\ Onward.step = "remove"
          /\ Onward.wait = FALSE /\ Onward.ents = wk.ents /\ Onward.src = wk.src
        BY <1>0, <1>4 DEF Onward, WkShape, First
    <2>3. wk' = [Onward EXCEPT !.errs = TRUE] /\ UNCHANGED <<net, res>>
        BY <1>4 DEF OpError, Replied
    <2> QED  BY <1>4, <2>1, <2>2, <2>3 DEF WkShape
<1>5. CASE wk.op = "host-cleanup"
    <2>1. WkShape(Onward) /\ <<>> \in Seq(Roles) /\ IsInjective(<<>>)
        BY <1>5, WkShapes DEF Shape, IsInjective
    <2>2. /\ Onward.pc = wk.pc /\ Onward.op = wk.op /\ Onward.todo = Tail(wk.todo) /\ Onward.step = "remove"
          /\ Onward.wait = FALSE /\ Onward.ents = wk.ents /\ Onward.src = wk.src
        BY <1>0, <1>5 DEF Onward, WkShape, First
    <2>3. wk' = [Onward EXCEPT !.errs = TRUE, !.todo = <<>>] /\ UNCHANGED <<net, res>>
        BY <1>5 DEF OpError, Replied
    <2> QED  BY <1>5, <2>1, <2>2, <2>3 DEF WkShape
<1> QED  BY <1>1, <1>2, <1>3, <1>4, <1>5 DEF OpError, Replied

(***************************************************************************)
(* What each step of the worker does to its record and to the pipes.       *)
(***************************************************************************)

\* The parts of the worker's record that an object passes through.
SameOp == wk'.pc = wk.pc /\ wk'.op = wk.op
NextObject == wk'.todo = Tail(wk.todo) /\ wk'.step = First(wk.op) /\ wk'.wait = FALSE

\* Going on with the next object changes no entry.
LEMMA OnwardFields ==
    ASSUME Shape, wk.todo # <<>>
    PROVE  /\ WkShape(Onward) /\ Onward.pc = wk.pc /\ Onward.op = wk.op /\ Onward.todo = Tail(wk.todo)
           /\ Onward.step = First(wk.op) /\ Onward.wait = FALSE /\ Onward.ents = wk.ents
           /\ Onward.src = wk.src /\ Onward.errs = wk.errs
           /\ Role \in Roles /\ Role = Head(wk.todo)
<1>1. WkShape(Onward) /\ Role \in Roles
    BY WkShapes DEF Shape
<1> QED  BY <1>1 DEF Onward, Shape, WkShape, Role

\* An event is noted, sent and waited for.
LEMMA EventEffect ==
    ASSUME Shape, WkEvent
    PROVE  /\ WkShape(wk') /\ SameOp /\ wk'.todo = wk.todo /\ wk'.step = wk.step /\ wk'.wait = TRUE
           /\ wk'.src = wk.src /\ wk'.errs = wk.errs
           /\ wk'.ents = [wk.ents EXCEPT ![Role] = IF wk.step = "cleaned" THEN "none" ELSE wk.step]
           /\ wk.pc = "work" /\ wk.todo # <<>> /\ ~wk.wait /\ wk.step \in Events
           /\ Role \in Roles /\ InHand(Role) /\ Reg(Role, wk.step) \in Answered
           /\ res' = Append(res, Reg(Role, wk.step)) /\ cmd' = cmd
<1>1. /\ wk.pc = "work" /\ wk.todo # <<>> /\ ~wk.wait /\ wk.step \in Events
      /\ wk' = [wk EXCEPT !.ents = Noted, !.wait = TRUE]
      /\ res' = Append(res, Reg(Role, wk.step)) /\ cmd' = cmd
    BY DEF WkEvent, Working, Events, Reg
<1>2. Role \in Roles
    BY <1>1, WkShapes DEF Shape
<1>3. Noted \in [Roles -> States]
    BY <1>1, <1>2 DEF Noted, Shape, WkShape, States, Events
<1>4. WkShape(wk') /\ wk'.pc = wk.pc /\ wk'.op = wk.op /\ wk'.todo = wk.todo /\ wk'.step = wk.step
      /\ wk'.wait = TRUE /\ wk'.src = wk.src /\ wk'.errs = wk.errs /\ wk'.ents = Noted
    BY <1>1, <1>3 DEF Shape, WkShape
<1> QED  BY <1>1, <1>2, <1>4, Messages DEF SameOp, Noted, InHand

\* After an acknowledgement the object is made, or the next one taken up.
LEMMA AckEffect ==
    ASSUME Shape, wk.pc = "work", wk.todo # <<>>, wk.step \in Events, wk' = Acknowledged
    PROVE  /\ WkShape(wk') /\ SameOp /\ wk'.wait = FALSE /\ wk'.ents = wk.ents /\ wk'.errs = wk.errs
           /\ wk.step = "intent" => wk'.todo = wk.todo /\ wk'.step = "make" /\ wk'.src = wk.src
           /\ wk.step # "intent" => NextObject /\ wk'.src = (wk.src /\ ~(wk.step = "cleaned" /\ Role = Source))
<1>1. CASE wk.step = "intent"
    <2>1. wk' = [wk EXCEPT !.step = "make", !.wait = FALSE]
        BY <1>1 DEF Acknowledged
    <2> QED  BY <1>1, <2>1 DEF Shape, WkShape, SameOp
<1>2. CASE wk.step # "intent"
    <2>1. wk' = [Onward EXCEPT !.src = Onward.src /\ ~(wk.step = "cleaned" /\ Role = Source)]
        BY <1>2 DEF Acknowledged
    <2> QED  BY <1>2, <2>1, OnwardFields DEF WkShape, SameOp, NextObject
<1> QED  BY <1>1, <1>2

\* An operation begins with the first object of its walk.
LEMMA StartEffect ==
    ASSUME Shape, NEW op, NEW todo \in Seq(Roles), IsInjective(todo), Starts(op, todo)
    PROVE  /\ WkShape(wk') /\ wk'.pc = "work" /\ wk'.op = op /\ wk'.todo = todo /\ wk'.step = First(op)
           /\ wk'.wait = wk.wait /\ wk'.ents = wk.ents /\ wk'.src = wk.src /\ wk'.errs = wk.errs
BY DEF Shape, WkShape, Starts

\* Between operations the worker keeps its entries and its source.
LEMMA AtEffect ==
    ASSUME Shape, NEW pc
    PROVE  /\ WkShape(WkAt(pc)) /\ WkAt(pc).pc = pc /\ WkAt(pc).op = "none" /\ WkAt(pc).todo = <<>>
           /\ WkAt(pc).ents = wk.ents /\ WkAt(pc).src = wk.src /\ WkAt(pc).wait = FALSE /\ WkAt(pc).errs = FALSE
BY WkShapes DEF Shape, WkShape, WkAt

\* An answer to the registration: the one that was waited for, or an error.
LEMMA AnswerEffect ==
    ASSUME Shape, Hand, WkAck
    PROVE  /\ wk.pc = "work" /\ wk.wait /\ wk.todo # <<>> /\ wk.step \in Events /\ cmd # <<>> /\ cmd' = Tail(cmd)
           /\ \/ Head(cmd) = Ack(Role, wk.step) /\ wk' = Acknowledged /\ res' = res /\ net' = net
              \/ OpError
BY DEF WkAck, Hand, Ack

\* No step of the worker disturbs the records or the pipes.
LEMMA WorkerShape ==
    ASSUME Shape, Hand, Worker
    PROVE  /\ WkShape(wk') /\ PipeShape' /\ objs' \subseteq Roles /\ disk' \in Disks
           /\ DOMAIN net' = {"wd", "tr", "reg", "admit", "stage", "staged", "told"}
           /\ net'.wd = net.wd /\ net'.tr = net.tr /\ net'.admit = net.admit
<1>0. /\ WkShape(wk) /\ objs \subseteq Roles /\ disk \in Disks
      /\ DOMAIN net = {"wd", "tr", "reg", "admit", "stage", "staged", "told"}
      /\ cmd \in Seq(Commands) /\ res \in Seq(Answered)
    BY DEF Shape, PipeShape
<1> DEFINE Net == /\ DOMAIN net' = {"wd", "tr", "reg", "admit", "stage", "staged", "told"}
                  /\ net'.wd = net.wd /\ net'.tr = net.tr /\ net'.admit = net.admit
<1>a. cmd # <<>> => Tail(cmd) \in Seq(Commands)
    BY <1>0, ReadFirst
<1>b. \A m \in Answered : Append(res, m) \in Seq(Answered)
    BY <1>0, SentLast
<1>c. UNCHANGED net => Net
    BY <1>0
<1>d. \A x : net' = [net EXCEPT !.stage = x] => Net
    BY <1>0
<1>e. OpError /\ wk.pc = "work" /\ wk.todo # <<>> => WkShape(wk') /\ res' \in Seq(Answered) /\ Net
    BY <1>0, <1>b, <1>c, <1>d, OpErrorEffect
<1> HIDE DEF Net
<1>1. CASE WkBoot
    <2>1. [t |-> "ready", attempt |-> TRUE, ok |-> TRUE] \in Answered
          /\ [t |-> "ready", attempt |-> FALSE, ok |-> FALSE] \in Answered
        BY Messages
    <2>2. res' \in Seq(Answered) /\ cmd' = cmd /\ net' = net /\ objs' = objs /\ disk' \in {disk, "attempt"}
        BY <1>0, <1>1, <1>b, <2>1 DEF WkBoot
    <2>3. Starts("host", <<Root>>) \/ \E pc : wk' = WkAt(pc)
        BY <1>1, Zenon DEF WkBoot, Dies
    <2>4. <<Root>> \in Seq(Roles) /\ IsInjective(<<Root>>)
        BY RolesOfGuest DEF IsInjective
    <2>5. WkShape(wk')
        BY <2>3, <2>4, StartEffect, AtEffect
    <2> QED  BY <1>0, <1>c, <2>2, <2>5 DEF Net, PipeShape, Disks
<1>2. CASE WkEvent
    <2>1. res' \in Seq(Answered) /\ WkShape(wk')
        BY <1>2, <1>b, EventEffect
    <2> QED  BY <1>0, <1>2, <1>c, <2>1 DEF WkEvent, Net, PipeShape
<1>3. CASE WkAck
    <2>1. WkShape(wk') /\ res' \in Seq(Answered) /\ Net
        BY <1>0, <1>3, <1>c, <1>e, AnswerEffect, AckEffect
    <2> QED  BY <1>0, <1>3, <1>a, <2>1 DEF WkAck, Net, PipeShape
<1>4. CASE WkAckLost
    <2>1. wk.todo # <<>>
        BY <1>4 DEF WkAckLost, Hand
    <2> QED  BY <1>0, <1>4, <1>e, <2>1 DEF WkAckLost, Net, PipeShape
<1>5. CASE WkMake
    <2>1. wk.todo # <<>> /\ wk.pc = "work" /\ Role \in Roles
        BY <1>5, OnwardFields DEF WkMake, Working
    <2>2. CASE wk' = [wk EXCEPT !.step = "bound"] /\ UNCHANGED <<net, res>>
        BY <1>0, <1>5, <1>c, <2>1, <2>2 DEF WkMake, Net, PipeShape, WkShape
    <2>3. CASE OpError
        BY <1>0, <1>5, <1>e, <2>1, <2>3 DEF WkMake, Net, PipeShape
    <2> QED  BY <1>5, <2>2, <2>3 DEF WkMake
<1>6. CASE WkSkip
    BY <1>0, <1>6, <1>c, OnwardFields DEF WkSkip, Working, Net, PipeShape
<1>7. CASE WkRemove
    <2>1. wk.todo # <<>> /\ wk.pc = "work" /\ Role \in Roles
        BY <1>7, OnwardFields DEF WkRemove, Working
    <2>2. CASE wk' = [wk EXCEPT !.step = "cleaned"] /\ UNCHANGED <<net, res>>
        BY <1>0, <1>7, <1>c, <2>1, <2>2 DEF WkRemove, Net, PipeShape, WkShape
    <2>3. CASE OpError
        BY <1>0, <1>7, <1>e, <2>1, <2>3 DEF WkRemove, Net, PipeShape
    <2> QED  BY <1>7, <2>2, <2>3 DEF WkRemove
<1>8. CASE WkDone
    <2>1. CASE wk' = WkAt("idle")
        <3>1. wk.op \in {"host", "guest", "stage", "clean", "guest-cleanup", "host-cleanup"}
            BY <1>8 DEF WkDone, Replied, Hand
        <3>2. res' \in Seq(Answered)
            <4>1. [t |-> "ready", attempt |-> TRUE, ok |-> TRUE] \in Answered
                BY Messages
            <4>2. wk.op \in OwnerOps => [t |-> "done", op |-> wk.op, errs |-> wk.errs] \in Answered
                BY <1>0, Messages DEF WkShape
            <4> QED  BY <1>0, <1>8, <1>b, <2>1, <3>1, <4>1, <4>2, OpErrorEffect DEF WkDone, Replied, OwnerOps
        <3>3. Net
            BY <1>0, <1>8, <1>c, <1>d, <2>1, <3>1, OpErrorEffect DEF WkDone, Replied
        <3> QED  BY <1>0, <1>8, <2>1, <3>2, <3>3, AtEffect DEF WkDone, Replied, Net, PipeShape
    <2>2. CASE wk.op \in {"host", "guest", "stage"} /\ OpError
        <3>1. WkShape(wk') /\ res' \in Seq(Answered) /\ Net
            BY <1>0, <1>8, <1>b, <1>c, <1>d, <2>2, OpErrorEffect DEF WkDone, Replied
        <3> QED  BY <1>0, <1>8, <3>1 DEF WkDone, Replied, Net, PipeShape
    <2> QED  BY <1>8, <2>1, <2>2 DEF WkDone, Replied
<1>9. CASE WkCommand
    <2>1. (cmd' = Tail(cmd) /\ cmd # <<>>) \/ cmd' = cmd
        BY <1>9, Zenon DEF WkCommand
    <2>2. \/ \E op : Starts(op, Walk(op))
          \/ wk' = [wk EXCEPT !.pc = "persist", !.sent = Head(cmd)]
          \/ wk' = WkAt("dead")
        BY <1>9, Zenon DEF WkCommand, Dies
    <2>3. WkShape(wk')
        <3>1. CASE \E op : Starts(op, Walk(op))
            BY <3>1, Walks, StartEffect
        <3>2. CASE wk' = [wk EXCEPT !.pc = "persist", !.sent = Head(cmd)]
            BY <1>0, <3>2 DEF WkShape
        <3> QED  BY <2>2, <3>1, <3>2, AtEffect
    <2> QED  BY <1>0, <1>9, <1>a, <1>c, <2>1, <2>3 DEF WkCommand, Net, PipeShape
<1>10. CASE WkStage
    <2>1. <<Source>> \in Seq(Roles) /\ IsInjective(<<Source>>)
        BY RolesOfGuest DEF IsInjective
    <2>2. WkShape(wk')
        BY <1>0, <1>10, <2>1 DEF WkStage, Replied, WkShape
    <2>3. Net
        BY <1>10, <1>d DEF WkStage, Replied
    <2> QED  BY <1>0, <1>10, <2>2, <2>3 DEF WkStage, Replied, Net, PipeShape
<1>11. CASE WkPersist
    <2>1. res' \in Seq(Answered) /\ disk' \in Disks
        BY <1>0, <1>11, <1>b, Messages DEF WkPersist, Disks
    <2>2. WkShape(wk')
        <3>1. wk' = WkAt("done") \/ \E pc : wk' = [wk EXCEPT !.pc = pc]
            BY <1>11 DEF WkPersist
        <3>2. ASSUME NEW pc, wk' = [wk EXCEPT !.pc = pc]  PROVE WkShape(wk')
            BY <1>0, <3>2 DEF WkShape
        <3> QED  BY <3>1, <3>2, AtEffect
    <2> QED  BY <1>0, <1>11, <1>c, <2>1, <2>2 DEF WkPersist, Net, PipeShape
<1>12. CASE WkPersistFails
    <2>1. res' \in Seq(Answered)
        BY <1>0, <1>12, <1>b, Messages DEF WkPersistFails
    <2> QED  BY <1>0, <1>12, <1>c, <2>1, AtEffect DEF WkPersistFails, Dies, Net, PipeShape
<1>13. CASE WkFault
    BY <1>0, <1>13, <1>c, AtEffect DEF WkFault, Net, PipeShape
<1> QED  BY <1>1, <1>2, <1>3, <1>4, <1>5, <1>6, <1>7, <1>8, <1>9, <1>10, <1>11, <1>12, <1>13 DEF Worker, Net

\* Nobody else touches the owner, the worker or the pipes.
Others == Cancel \/ KidActs \/ KidAnswers \/ LeftActs \/ Host

\* Controller, adapters and host stage touch neither objects nor pipes.
LEMMA OthersEffect ==
    ASSUME Shape, Others
    PROVE  /\ UNCHANGED <<mode, own, left, wk, objs, cmd, res, disk, packet>>
           /\ cancel' \in BOOLEAN /\ DOMAIN kid' = DOMAIN kid /\ kid'.act = kid.act /\ DOMAIN net' = DOMAIN net
<1>1. CASE Cancel
    BY <1>1 DEF Cancel
<1>2. CASE KidActs \/ KidAnswers
    BY <1>2 DEF KidActs, KidAnswers, Shape
<1>3. CASE LeftActs
    BY <1>3 DEF LeftActs, Shape
<1>4. CASE Host
    <2>1. UNCHANGED <<mode, cancel, own, kid, left, wk, objs, cmd, res, disk, packet>>
        BY <1>4 DEF Host, WatchForks, TransportRegisters, TransportAdmitted, TransportEnds,
                    TransportStages, WatchReports, WatchDies
    <2>2. DOMAIN net' = DOMAIN net
        BY <1>4 DEF Host, WatchForks, TransportRegisters, TransportAdmitted, TransportEnds,
                    TransportStages, WatchReports, WatchDies
    <2> QED  BY <2>1, <2>2 DEF Shape
<1> QED  BY <1>1, <1>2, <1>3, <1>4 DEF Others

\* What the owner never changes.
LEMMA OwnerRest ==
    ASSUME Owner
    PROVE  mode' = mode /\ cancel' = cancel /\ objs' = objs /\ disk' = disk /\ vm' = vm
BY Zenon DEF Owner, EvidenceStart, Register, EvidenceReady, Action, ActionDone, ActionLost, GuestInit, GuestReady,
       HostFork, RegisterTransport, HostCancel, HostDone, HostLost, UnwindBegins, Clean, CleanDone, WaitLost,
       Stop, Stopped, StopLost, Freeze, Commit, Receipt, ReceiptLost, Reap, Report, World

\* What the worker never changes.
LEMMA WorkerRest ==
    ASSUME Worker
    PROVE  UNCHANGED <<mode, cancel, own, vm, kid, left, packet>>
BY Zenon DEF Worker, WkBoot, WkEvent, WkAck, WkAckLost, WkMake, WkSkip, WkRemove, WkDone, Replied,
       WkCommand, WkStage, WkPersist, WkPersistFails, WkFault

\* Every step keeps the shape.
LEMMA ShapeStep ==
    ASSUME Shape, Running, Hand, [Next]_vars
    PROVE  Shape'
<1>1. CASE Owner
    BY <1>1, OwnerShape, OwnerPipes, OwnerRest DEF Shape, Parts
<1>2. CASE Others
    BY <1>2, OthersEffect DEF Shape, PipeShape
<1>3. CASE Worker
    BY <1>3, WorkerShape, WorkerRest DEF Shape
<1>4. CASE UNCHANGED vars
    BY <1>4 DEF vars, Shape, PipeShape
<1> QED  BY <1>1, <1>2, <1>3, <1>4 DEF Next, Others

(***************************************************************************)
(* What the owner knows, where it is and what runs: the owner's steps.     *)
(***************************************************************************)
Ground == Facts /\ Place /\ Running

SameReport == own'.shut = own.shut /\ own'.guest = own.guest /\ own'.host = own.host /\ own'.report = own.report

\* A step of the owner that only moves on and learns.
Moves(pc, f) == own'.pc = pc /\ own'.facts = f /\ SameReport

\* Go moves the owner and leaves the registry and the receipt alone.
LEMMA GoMoves ==
    ASSUME OwnShape(own), NEW pc, NEW f, Go(pc, f)
    PROVE  Moves(pc, f) /\ own'.registry = own.registry /\ own'.receipt = own.receipt
BY DEF OwnShape, Go, Moves, SameReport

\* Failures only add marks, and a cleanup error none once the facts are frozen.
LEMMA MarksGrow ==
    ASSUME NEW f
    PROVE  /\ Fail(f) = f \cup {"failed"}
           /\ Noticed(f) \in {f, f \cup {"failed"}} /\ (cancel => Noticed(f) = f \cup {"failed"})
           /\ "frozen" \notin f => CleanupError(f) = f \cup {"failed", "cleanup"}
           /\ "frozen" \in f => CleanupError(f) = f
BY DEF Fail, Noticed, CleanupError

\* Every step of the owner rests its facts on earlier ones and reports what it leaves running.
LEMMA OwnerGround ==
    ASSUME Shape, Ground, Owner
    PROVE  Ground'
<1>0. /\ OwnShape(own) /\ Facts /\ Place /\ Running
      /\ mode' = mode /\ cancel' = cancel /\ vm' = vm /\ mode \in {"plain", "init"}
      /\ DOMAIN kid = {"act", "at", "said"}
      /\ DOMAIN net = {"wd", "tr", "reg", "admit", "stage", "staged", "told"}
      /\ DOMAIN wk = {"pc", "op", "todo", "step", "wait", "ents", "src", "errs", "sent"}
    BY OwnerRest DEF Shape, Ground, WkShape
<1>m. /\ Fail(own.facts) = own.facts \cup {"failed"}
      /\ "frozen" \in own.facts <=> own.pc \in Deciding
      /\ own.pc \notin Deciding => CleanupError(own.facts) = own.facts \cup {"failed", "cleanup"}
      /\ own.pc \notin Deciding => CleanupError(Fail(own.facts)) = own.facts \cup {"failed", "cleanup"}
      /\ own.pc \in Deciding => CleanupError(own.facts) = own.facts
      /\ Noticed(own.facts) \in {own.facts, own.facts \cup {"failed"}}
      /\ cancel => Noticed(own.facts) = own.facts \cup {"failed"}
      /\ NoKid.at = "none"
    BY <1>0, MarksGrow DEF Facts, NoKid
<1>1. CASE EvidenceStart
    <2>1. Moves("unwind", own.facts \cup {"failed"}) \/ Moves("evidence", own.facts)
        BY <1>0, <1>m, <1>1, GoMoves DEF EvidenceStart, Unwind
    <2>5. Facts'
        BY <1>0, <1>m, <1>1, <2>1 DEF EvidenceStart, Facts, Place, Running, Moves, SameReport, BeforeHost, Deciding, Stopping, WatchRuns, TransportRuns, World
    <2>6. Place'
        BY <1>0, <1>m, <1>1, <2>1 DEF EvidenceStart, Facts, Place, Running, Moves, SameReport, BeforeHost, Deciding, Stopping, WatchRuns, TransportRuns, World
    <2>7. Running'
        BY <1>0, <1>m, <1>1, <2>1 DEF EvidenceStart, Facts, Place, Running, Moves, SameReport, BeforeHost, Deciding, Stopping, WatchRuns, TransportRuns, World
    <2> QED  BY <2>5, <2>6, <2>7 DEF Ground
<1>2. CASE Register
    <2>1. Moves(own.pc, own.facts) /\ wk.pc # "none"
        BY <1>0, <1>m, <1>2, GoMoves DEF Register, OwnShape, Moves, SameReport, WorkerLive
    <2>5. Facts'
        BY <1>0, <1>m, <1>2, <2>1 DEF Register, Facts, Place, Running, Moves, SameReport, BeforeHost, Deciding, Stopping, WatchRuns, TransportRuns, World
    <2>6. Place'
        BY <1>0, <1>m, <1>2, <2>1 DEF Register, Facts, Place, Running, Moves, SameReport, BeforeHost, Deciding, Stopping, WatchRuns, TransportRuns, World
    <2>7. Running'
        BY <1>0, <1>m, <1>2, <2>1 DEF Register, Facts, Place, Running, Moves, SameReport, BeforeHost, Deciding, Stopping, WatchRuns, TransportRuns, World
    <2> QED  BY <2>5, <2>6, <2>7 DEF Ground
<1>3. CASE EvidenceReady
    <2>1. \/ Moves("start", own.facts \cup {"attempt", "hostReady"})
          \/ \E f \in {own.facts, own.facts \cup {"attempt"}} : Moves("unwind", f \cup {"failed"})
        <3>1. Head(res).ok => Head(res).attempt
            BY <1>0, <1>3, ReadFirst DEF EvidenceReady, Shape, PipeShape, Answered, Regs, Readies, Dones, Receipts
        <3>2. \E known \in {own.facts, own.facts \cup {"attempt"}} :
                 \/ Go("start", known \cup {"hostReady"}) /\ known = own.facts \cup {"attempt"}
                 \/ Go("unwind", known \cup {"failed"})
            BY <3>1, <1>3 DEF EvidenceReady, Unwind, Fail
        <3>3. \A f : f \cup {"attempt"} \cup {"hostReady"} = f \cup {"attempt", "hostReady"}
            OBVIOUS
        <3> QED  BY <1>0, <3>2, <3>3, GoMoves
    <2>5. Facts'
        BY <1>0, <1>m, <1>3, <2>1 DEF EvidenceReady, Facts, Place, Running, Moves, SameReport, BeforeHost, Deciding, Stopping, WatchRuns, TransportRuns, World
    <2>6. Place'
        BY <1>0, <1>m, <1>3, <2>1 DEF EvidenceReady, Facts, Place, Running, Moves, SameReport, BeforeHost, Deciding, Stopping, WatchRuns, TransportRuns, World
    <2>7. Running'
        BY <1>0, <1>m, <1>3, <2>1 DEF EvidenceReady, Facts, Place, Running, Moves, SameReport, BeforeHost, Deciding, Stopping, WatchRuns, TransportRuns, World
    <2> QED  BY <2>5, <2>6, <2>7 DEF Ground
<1>4. CASE Action
    <2>1. \/ Moves("unwind", own.facts \cup {"failed"}) /\ kid' = kid
          \/ Moves("unwind", own.facts \cup {"startTried", "failed"}) /\ own.pc = "start" /\ kid' = kid
          \/ Moves("startWait", own.facts \cup {"startTried"}) /\ own.pc = "start" /\ kid' = [act |-> "start", at |-> "run", said |-> "none"]
          \/ Moves("readinessWait", own.facts) /\ own.pc = "readiness" /\ kid' = [act |-> "readiness", at |-> "run", said |-> "none"]
        <3>1. \A f : f \cup {"startTried"} \cup {"failed"} = f \cup {"startTried", "failed"} /\ f \cup {} = f
            OBVIOUS
        <3>2. \/ Go("unwind", own.facts \cup {"failed"}) /\ kid' = kid
              \/ Go("unwind", own.facts \cup {"startTried", "failed"}) /\ own.pc = "start" /\ kid' = kid
              \/ Go("startWait", own.facts \cup {"startTried"}) /\ own.pc = "start" /\ kid' = [act |-> "start", at |-> "run", said |-> "none"]
              \/ Go("readinessWait", own.facts) /\ own.pc = "readiness" /\ kid' = [act |-> "readiness", at |-> "run", said |-> "none"]
            <4>1. CASE own.pc = "start"
                BY <3>1, <4>1, <1>4 DEF Action, Unwind, Fail
            <4>2. CASE own.pc = "readiness"
                BY <3>1, <4>2, <1>4 DEF Action, Unwind, Fail
            <4> QED  BY <4>1, <4>2, <1>4 DEF Action
        <3> QED  BY <1>0, <3>2, GoMoves
    <2>5. Facts'
        BY <1>0, <1>m, <1>4, <2>1 DEF Action, Facts, Place, Running, Moves, SameReport, BeforeHost, Deciding, Stopping, WatchRuns, TransportRuns, World
    <2>6. Place'
        BY <1>0, <1>m, <1>4, <2>1 DEF Action, Facts, Place, Running, Moves, SameReport, BeforeHost, Deciding, Stopping, WatchRuns, TransportRuns, World
    <2>7. Running'
        BY <1>0, <1>m, <1>4, <2>1 DEF Action, Facts, Place, Running, Moves, SameReport, BeforeHost, Deciding, Stopping, WatchRuns, TransportRuns, World
    <2> QED  BY <2>5, <2>6, <2>7 DEF Ground
<1>5. CASE ActionDone
    <2>1. \E d \in {{}, {"failed", "cleanup"}} :
              /\ d = {} => left' = left
              /\ \/ own.pc = "startWait" /\ Moves("readiness", own.facts \cup {"started"} \cup d)
                 \/ own.pc = "readinessWait" /\ mode = "init" /\ Moves("guest0", own.facts \cup d)
                 \/ own.pc = "readinessWait" /\ mode = "plain" /\ Moves("host0", own.facts \cup {"ready"} \cup d)
        <3>1. CASE own.pc = "startWait"
            <4>1. \E d \in {{}, {"failed", "cleanup"}} :
                     (d = {} => left' = left) /\ Go("readiness", own.facts \cup {"started"} \cup d)
                <5>1. Finish(own.facts \cup {"started"}, IF own.pc = "startWait" THEN "start" ELSE "readiness", "readiness")
                    BY <3>1, <1>5 DEF ActionDone
                <5>2. CleanupError(own.facts \cup {"started"}) = own.facts \cup {"started"} \cup {"failed", "cleanup"}
                    BY <1>m, <3>1, MarksGrow DEF Deciding
                <5> QED  BY <5>1, <5>2 DEF Finish
            <4> QED  BY <1>0, <3>1, <4>1, GoMoves
        <3>2. CASE own.pc = "readinessWait" /\ mode = "init"
            <4>1. \E d \in {{}, {"failed", "cleanup"}} :
                     (d = {} => left' = left) /\ Go("guest0", own.facts \cup d)
                <5>1. Finish(own.facts, IF own.pc = "startWait" THEN "start" ELSE "readiness", "guest0")
                    BY <3>2, <1>5 DEF ActionDone
                <5>2. CleanupError(own.facts) = own.facts \cup {"failed", "cleanup"}
                    BY <1>m, <3>2, MarksGrow DEF Deciding
                <5> QED  BY <5>1, <5>2 DEF Finish
            <4> QED  BY <1>0, <3>2, <4>1, GoMoves
        <3>3. CASE own.pc = "readinessWait" /\ mode = "plain"
            <4>1. \E d \in {{}, {"failed", "cleanup"}} :
                     (d = {} => left' = left) /\ Go("host0", own.facts \cup {"ready"} \cup d)
                <5>1. Finish(own.facts \cup {"ready"}, IF own.pc = "startWait" THEN "start" ELSE "readiness", "host0")
                    BY <3>3, <1>5 DEF ActionDone
                <5>2. CleanupError(own.facts \cup {"ready"}) = own.facts \cup {"ready"} \cup {"failed", "cleanup"}
                    BY <1>m, <3>3, MarksGrow DEF Deciding
                <5> QED  BY <5>1, <5>2 DEF Finish
            <4> QED  BY <1>0, <3>3, <4>1, GoMoves
        <3> QED  BY <1>0, <3>1, <3>2, <3>3, <1>5 DEF ActionDone
    <2>5. Facts'
        BY <1>0, <1>m, <1>5, <2>1 DEF ActionDone, Facts, Place, Running, Moves, SameReport, BeforeHost, Deciding, Stopping, WatchRuns, TransportRuns, World
    <2>6. Place'
        BY <1>0, <1>m, <1>5, <2>1 DEF ActionDone, Facts, Place, Running, Moves, SameReport, BeforeHost, Deciding, Stopping, WatchRuns, TransportRuns, World
    <2>7. Running'
        BY <1>0, <1>m, <1>5, <2>1 DEF ActionDone, Facts, Place, Running, Moves, SameReport, BeforeHost, Deciding, Stopping, WatchRuns, TransportRuns, World
    <2> QED  BY <2>5, <2>6, <2>7 DEF Ground
<1>6. CASE ActionLost
    <2>1. \/ Moves("unwind", own.facts \cup {"failed"}) /\ left' = left
          \/ Moves("unwind", own.facts \cup {"failed", "cleanup"})
        BY <1>0, <1>m, <1>6, GoMoves DEF ActionLost, Finish, Deciding
    <2>5. Facts'
        BY <1>0, <1>m, <1>6, <2>1 DEF ActionLost, Facts, Place, Running, Moves, SameReport, BeforeHost, Deciding, Stopping, WatchRuns, TransportRuns, World
    <2>6. Place'
        BY <1>0, <1>m, <1>6, <2>1 DEF ActionLost, Facts, Place, Running, Moves, SameReport, BeforeHost, Deciding, Stopping, WatchRuns, TransportRuns, World
    <2>7. Running'
        BY <1>0, <1>m, <1>6, <2>1 DEF ActionLost, Facts, Place, Running, Moves, SameReport, BeforeHost, Deciding, Stopping, WatchRuns, TransportRuns, World
    <2> QED  BY <2>5, <2>6, <2>7 DEF Ground
<1>7. CASE GuestInit
    <2>1. \/ Moves("guest", own.facts) /\ wk.pc # "none"
          \/ Moves("unwind", own.facts \cup {"failed"}) /\ cmd' = cmd
        BY <1>0, <1>m, <1>7, GoMoves DEF GuestInit, Unwind, WorkerLive
    <2>5. Facts'
        BY <1>0, <1>m, <1>7, <2>1 DEF GuestInit, Facts, Place, Running, Moves, SameReport, BeforeHost, Deciding, Stopping, WatchRuns, TransportRuns, World
    <2>6. Place'
        BY <1>0, <1>m, <1>7, <2>1 DEF GuestInit, Facts, Place, Running, Moves, SameReport, BeforeHost, Deciding, Stopping, WatchRuns, TransportRuns, World
    <2>7. Running'
        BY <1>0, <1>m, <1>7, <2>1 DEF GuestInit, Facts, Place, Running, Moves, SameReport, BeforeHost, Deciding, Stopping, WatchRuns, TransportRuns, World
    <2> QED  BY <2>5, <2>6, <2>7 DEF Ground
<1>8. CASE GuestReady
    <2>1. \/ Moves("host0", own.facts \cup {"guestReady", "ready"})
          \/ Moves("unwind", own.facts \cup {"failed"})
        BY <1>0, <1>m, <1>8, GoMoves DEF GuestReady, Unwind
    <2>5. Facts'
        BY <1>0, <1>m, <1>8, <2>1 DEF GuestReady, Facts, Place, Running, Moves, SameReport, BeforeHost, Deciding, Stopping, WatchRuns, TransportRuns, World
    <2>6. Place'
        BY <1>0, <1>m, <1>8, <2>1 DEF GuestReady, Facts, Place, Running, Moves, SameReport, BeforeHost, Deciding, Stopping, WatchRuns, TransportRuns, World
    <2>7. Running'
        BY <1>0, <1>m, <1>8, <2>1 DEF GuestReady, Facts, Place, Running, Moves, SameReport, BeforeHost, Deciding, Stopping, WatchRuns, TransportRuns, World
    <2> QED  BY <2>5, <2>6, <2>7 DEF Ground
<1>9. CASE HostFork
    <2>1. \/ Moves("unwind", own.facts \cup {"failed"}) /\ net' = net
          \/ Moves("host", own.facts) /\ net' = [net EXCEPT !.wd = "run"]
          \/ Moves("unwind", own.facts \cup {"failed", "cleanup"}) /\ net' = net
        BY <1>0, <1>m, <1>9, GoMoves DEF HostFork, Unwind, Deciding
    <2>5. Facts'
        BY <1>0, <1>m, <1>9, <2>1 DEF HostFork, Facts, Place, Running, Moves, SameReport, BeforeHost, Deciding, Stopping, WatchRuns, TransportRuns, World
    <2>6. Place'
        BY <1>0, <1>m, <1>9, <2>1 DEF HostFork, Facts, Place, Running, Moves, SameReport, BeforeHost, Deciding, Stopping, WatchRuns, TransportRuns, World
    <2>7. Running'
        BY <1>0, <1>m, <1>9, <2>1 DEF HostFork, Facts, Place, Running, Moves, SameReport, BeforeHost, Deciding, Stopping, WatchRuns, TransportRuns, World
    <2> QED  BY <2>5, <2>6, <2>7 DEF Ground
<1>10. CASE RegisterTransport
    <2>1. /\ \E f \in {own.facts, own.facts \cup {"failed"}} : Moves("host", f \cup {"registered"})
          /\ net'.wd = net.wd /\ net'.tr = net.tr
        BY <1>0, <1>m, <1>10, GoMoves DEF RegisterTransport
    <2>5. Facts'
        BY <1>0, <1>m, <1>10, <2>1 DEF RegisterTransport, Facts, Place, Running, Moves, SameReport, BeforeHost, Deciding, Stopping, WatchRuns, TransportRuns, World
    <2>6. Place'
        BY <1>0, <1>m, <1>10, <2>1 DEF RegisterTransport, Facts, Place, Running, Moves, SameReport, BeforeHost, Deciding, Stopping, WatchRuns, TransportRuns, World
    <2>7. Running'
        BY <1>0, <1>m, <1>10, <2>1 DEF RegisterTransport, Facts, Place, Running, Moves, SameReport, BeforeHost, Deciding, Stopping, WatchRuns, TransportRuns, World
    <2> QED  BY <2>5, <2>6, <2>7 DEF Ground
<1>11. CASE HostCancel
    <2>1. /\ Moves("host", own.facts \cup {"failed"})
          /\ net'.wd = net.wd \/ (net.wd = "run" /\ net'.wd = "term")
          /\ net'.tr = net.tr \/ (TransportRuns /\ net'.tr \in {"gone", "stuck"})
          /\ net'.admit = "1" => net.admit = "1"
        BY <1>0, <1>m, <1>11, GoMoves DEF HostCancel
    <2>5. Facts'
        BY <1>0, <1>m, <1>11, <2>1 DEF HostCancel, Facts, Place, Running, Moves, SameReport, BeforeHost, Deciding, Stopping, WatchRuns, TransportRuns, World
    <2>6. Place'
        BY <1>0, <1>m, <1>11, <2>1 DEF HostCancel, Facts, Place, Running, Moves, SameReport, BeforeHost, Deciding, Stopping, WatchRuns, TransportRuns, World
    <2>7. Running'
        BY <1>0, <1>m, <1>11, <2>1 DEF HostCancel, Facts, Place, Running, Moves, SameReport, BeforeHost, Deciding, Stopping, WatchRuns, TransportRuns, World
    <2> QED  BY <2>5, <2>6, <2>7 DEF Ground
<1>12. CASE HostDone
    <2>1. \E f \in {own.facts \cup {"hostPassed"}, own.facts \cup {"failed"}} :
              /\ "hostPassed" \in f => net.wd = "passed" /\ own'.report = "passed"
              /\ own'.report = "passed" => net.wd = "passed"
              /\ own'.pc = "unwind" /\ own'.facts \in {f, f \cup {"failed", "cleanup"}}
              /\ TransportRuns \/ net.tr = "stuck" \/ "registered" \notin f \/ net'.wd = "stuck"
                    => own'.facts = f \cup {"failed", "cleanup"}
              /\ own'.shut = own.shut /\ own'.guest = own.guest /\ own'.host = own.host
              /\ net'.admit = "closed" /\ net'.wd = IF net.wd = "passed" THEN "passed" ELSE net'.wd
              /\ net.wd # "passed" => net'.wd \in {"dead", "stuck"}
              /\ net'.tr # net.tr => TransportRuns /\ net'.tr \in {"gone", "stuck"}
        <3>1. \/ net.wd = "passed" /\ HostEnd(own.facts \cup {"hostPassed"}, "passed", own.registry)
              \/ net.wd # "passed" /\ HostEnd(own.facts \cup {"failed"}, "none", own.registry)
            BY <1>m, <1>12 DEF HostDone
        <3>2. /\ own.facts \cup {"hostPassed"} \subseteq Marks /\ own.facts \cup {"failed"} \subseteq Marks
              /\ own.registry \in [Roles -> States]
            BY <1>0 DEF OwnShape, Marks
        <3>3. /\ CleanupError(own.facts \cup {"hostPassed"}) = own.facts \cup {"hostPassed"} \cup {"failed", "cleanup"}
              /\ CleanupError(own.facts \cup {"failed"}) = own.facts \cup {"failed"} \cup {"failed", "cleanup"}
            BY <1>m, <1>12, MarksGrow DEF HostDone, Deciding
        <3>4. CASE net.wd = "passed" /\ HostEnd(own.facts \cup {"hostPassed"}, "passed", own.registry)
            BY <3>2, <3>3, <3>4, HostEndShape
        <3>5. CASE net.wd # "passed" /\ HostEnd(own.facts \cup {"failed"}, "none", own.registry)
            <4>1. "hostPassed" \notin own.facts
                BY <1>0, <3>5 DEF Facts
            <4> QED  BY <3>2, <3>3, <3>5, <4>1, HostEndShape
        <3> QED  BY <3>1, <3>4, <3>5
    <2>5. Facts'
        BY <1>0, <1>m, <1>12, <2>1 DEF HostDone, Facts, Place, Running, Moves, SameReport, BeforeHost, Deciding, Stopping, WatchRuns, TransportRuns, World
    <2>6. Place'
        BY <1>0, <1>m, <1>12, <2>1 DEF HostDone, Facts, Place, Running, Moves, SameReport, BeforeHost, Deciding, Stopping, WatchRuns, TransportRuns, World
    <2>7. Running'
        BY <1>0, <1>m, <1>12, <2>1 DEF HostDone, Facts, Place, Running, Moves, SameReport, BeforeHost, Deciding, Stopping, WatchRuns, TransportRuns, World
    <2> QED  BY <2>5, <2>6, <2>7 DEF Ground
<1>13. CASE HostLost
    <2>1. \E f \in {own.facts \cup {"failed"}} :
              /\ own'.report = "passed" => net.wd = "passed"
              /\ own'.pc = "unwind" /\ own'.facts \in {f, f \cup {"failed", "cleanup"}}
              /\ TransportRuns \/ net.tr = "stuck" \/ "registered" \notin f \/ net'.wd = "stuck"
                    => own'.facts = f \cup {"failed", "cleanup"}
              /\ own'.shut = own.shut /\ own'.guest = own.guest /\ own'.host = own.host
              /\ net'.admit = "closed" /\ net'.wd = IF net.wd = "passed" THEN "passed" ELSE net'.wd
              /\ net.wd # "passed" => net'.wd \in {"dead", "stuck"}
              /\ net'.tr # net.tr => TransportRuns /\ net'.tr \in {"gone", "stuck"}
        <3>1. \E report \in {"none", "passed"}, registry \in [Roles -> States] :
                 /\ HostEnd(own.facts \cup {"failed"}, report, registry)
                 /\ report = "passed" => net.wd = "passed"
            <4>1. \E report \in {"none", net.wd} \cap {"none", "passed"} :
                     \/ HostEnd(Fail(own.facts), report, own.registry)
                     \/ RegistrationComes /\ HostEnd(Fail(own.facts), report, Recorded(Head(res)))
                BY <1>13, Zenon DEF HostLost
            <4>2. own.registry \in [Roles -> States] /\ (RegistrationComes => Recorded(Head(res)) \in [Roles -> States])
                BY <1>0, Recording DEF OwnShape
            <4> QED  BY <1>m, <4>1, <4>2
        <3>2. own.facts \cup {"failed"} \subseteq Marks
            BY <1>0 DEF OwnShape, Marks
        <3>3. CleanupError(own.facts \cup {"failed"}) = own.facts \cup {"failed"} \cup {"failed", "cleanup"}
            BY <1>m, <1>13, MarksGrow DEF HostLost, Deciding
        <3>4. PICK report \in {"none", "passed"}, registry \in [Roles -> States] :
                 /\ HostEnd(own.facts \cup {"failed"}, report, registry)
                 /\ report = "passed" => net.wd = "passed"
            BY <3>1
        <3> QED  BY <3>2, <3>3, <3>4, HostEndShape
    <2>5. Facts'
        BY <1>0, <1>m, <1>13, <2>1 DEF HostLost, Facts, Place, Running, Moves, SameReport, BeforeHost, Deciding, Stopping, WatchRuns, TransportRuns, World
    <2>6. Place'
        BY <1>0, <1>m, <1>13, <2>1 DEF HostLost, Facts, Place, Running, Moves, SameReport, BeforeHost, Deciding, Stopping, WatchRuns, TransportRuns, World
    <2>7. Running'
        BY <1>0, <1>m, <1>13, <2>1 DEF HostLost, Facts, Place, Running, Moves, SameReport, BeforeHost, Deciding, Stopping, WatchRuns, TransportRuns, World
    <2> QED  BY <2>5, <2>6, <2>7 DEF Ground
<1>14. CASE UnwindBegins
    <2>1. \/ Moves("guestClean0", own.facts) /\ mode = "init" /\ wk.pc # "none"
          \/ Moves("stop", own.facts) /\ ~(mode = "init" /\ wk.pc # "none")
        BY <1>0, <1>m, <1>14, GoMoves DEF UnwindBegins, OwnShape, Moves, SameReport
    <2>5. Facts'
        BY <1>0, <1>m, <1>14, <2>1 DEF UnwindBegins, Facts, Place, Running, Moves, SameReport, BeforeHost, Deciding, Stopping, WatchRuns, TransportRuns, World
    <2>6. Place'
        BY <1>0, <1>m, <1>14, <2>1 DEF UnwindBegins, Facts, Place, Running, Moves, SameReport, BeforeHost, Deciding, Stopping, WatchRuns, TransportRuns, World
    <2>7. Running'
        BY <1>0, <1>m, <1>14, <2>1 DEF UnwindBegins, Facts, Place, Running, Moves, SameReport, BeforeHost, Deciding, Stopping, WatchRuns, TransportRuns, World
    <2> QED  BY <2>5, <2>6, <2>7 DEF Ground
<1>15. CASE Clean
    <2>1. \/ Moves(IF own.pc = "guestClean0" THEN "guestClean" ELSE "hostClean", own.facts) /\ wk.pc # "none"
          \/ \E status \in {"unconfirmed"} :
              /\ cmd' = cmd
              /\ IF own.pc \in {"guestClean0", "guestClean"} THEN own'.pc = "stop" /\ own'.guest = status /\ own'.host = own.host
                    ELSE own'.pc = "freeze" /\ own'.guest = own.guest /\ own'.host = status
              /\ own'.facts = IF status = "complete" THEN own.facts ELSE own.facts \cup {"failed", "cleanup"}
              /\ own'.shut = own.shut /\ own'.report = own.report
        <3>1. CASE own' = Cleaned("unconfirmed") /\ cmd' = cmd
            <4>1. own.facts \subseteq own.facts /\ CleanupError(own.facts) = own.facts \cup {"failed", "cleanup"}
                BY <1>m, <1>15 DEF Clean, CleanStages, Deciding
            <4> QED  BY <1>0, <3>1, <4>1, <1>15, CleanedShape DEF Clean, CleanStages, AfterClean
        <3>2. CASE WorkerLive /\ Go(IF own.pc = "guestClean0" THEN "guestClean" ELSE "hostClean", own.facts)
            BY <1>0, <3>2, GoMoves DEF WorkerLive
        <3> QED  BY <3>1, <3>2, <1>15 DEF Clean
    <2>5. Facts'
        BY <1>0, <1>m, <1>15, <2>1 DEF Clean, Facts, Place, Running, Moves, SameReport, BeforeHost, Deciding, Stopping, WatchRuns, TransportRuns, World, CleanStages
    <2>6. Place'
        BY <1>0, <1>m, <1>15, <2>1 DEF Clean, Facts, Place, Running, Moves, SameReport, BeforeHost, Deciding, Stopping, WatchRuns, TransportRuns, World, CleanStages
    <2>7. Running'
        BY <1>0, <1>m, <1>15, <2>1 DEF Clean, Facts, Place, Running, Moves, SameReport, BeforeHost, Deciding, Stopping, WatchRuns, TransportRuns, World, CleanStages
    <2> QED  BY <2>5, <2>6, <2>7 DEF Ground
<1>16. CASE CleanDone
    <2>1. \E status \in {"unconfirmed", "complete"} :
              /\ IF own.pc \in {"guestClean0", "guestClean"} THEN own'.pc = "stop" /\ own'.guest = status /\ own'.host = own.host
                    ELSE own'.pc = "freeze" /\ own'.guest = own.guest /\ own'.host = status
              /\ own'.facts = IF status = "complete" THEN own.facts ELSE own.facts \cup {"failed", "cleanup"}
              /\ own'.shut = own.shut /\ own'.report = own.report
        <3>1. PICK status \in {"unconfirmed", "complete"} : own' = Cleaned(status)
            BY <1>16 DEF CleanDone
        <3>2. CleanupError(own.facts) = own.facts \cup {"failed", "cleanup"}
            BY <1>m, <1>16 DEF CleanDone, CleanWaits, Deciding
        <3> QED  BY <1>0, <3>1, <3>2, <1>16, CleanedShape DEF CleanDone, CleanWaits, AfterClean
    <2>5. Facts'
        BY <1>0, <1>m, <1>16, <2>1 DEF CleanDone, Facts, Place, Running, Moves, SameReport, BeforeHost, Deciding, Stopping, WatchRuns, TransportRuns, World, CleanWaits
    <2>6. Place'
        BY <1>0, <1>m, <1>16, <2>1 DEF CleanDone, Facts, Place, Running, Moves, SameReport, BeforeHost, Deciding, Stopping, WatchRuns, TransportRuns, World, CleanWaits
    <2>7. Running'
        BY <1>0, <1>m, <1>16, <2>1 DEF CleanDone, Facts, Place, Running, Moves, SameReport, BeforeHost, Deciding, Stopping, WatchRuns, TransportRuns, World, CleanWaits
    <2> QED  BY <2>5, <2>6, <2>7 DEF Ground
<1>17. CASE WaitLost
    <2>1. /\ cmd' = cmd /\ (res = <<>> => res' = <<>>)
          /\ \/ own.pc \in {"evidence", "guest"} /\ Moves("unwind", own.facts \cup {"failed"})
             \/ own.pc \in CleanWaits /\ \E status \in {"unconfirmed"} :
              /\ IF own.pc \in {"guestClean0", "guestClean"} THEN own'.pc = "stop" /\ own'.guest = status /\ own'.host = own.host
                    ELSE own'.pc = "freeze" /\ own'.guest = own.guest /\ own'.host = status
              /\ own'.facts = IF status = "complete" THEN own.facts ELSE own.facts \cup {"failed", "cleanup"}
              /\ own'.shut = own.shut /\ own'.report = own.report
        <3>0. cmd' = cmd /\ (res = <<>> => res' = <<>>)
            BY <1>17 DEF WaitLost, RegistrationComes
        <3>1. \E o : o = GivenUp /\ OwnShape(o) /\ own'.pc = o.pc /\ own'.facts = o.facts /\ own'.shut = o.shut
                      /\ own'.guest = o.guest /\ own'.host = o.host /\ own'.report = o.report
            BY <1>0, <1>17, GivenUpShape DEF WaitLost, OwnShape
        <3>2. CASE own.pc \in CleanWaits
            <4>1. CleanupError(own.facts) = own.facts \cup {"failed", "cleanup"}
                BY <1>m, <3>2 DEF CleanWaits, Deciding
            <4>2. GivenUp = Cleaned("unconfirmed")
                BY <3>2 DEF GivenUp
            <4>3. /\ own'.facts = own.facts \cup {"failed", "cleanup"} /\ own'.shut = own.shut /\ own'.report = own.report
                  /\ IF own.pc \in {"guestClean0", "guestClean"}
                     THEN own'.pc = "stop" /\ own'.guest = "unconfirmed" /\ own'.host = own.host
                     ELSE own'.pc = "freeze" /\ own'.guest = own.guest /\ own'.host = "unconfirmed"
                BY <1>0, <3>1, <3>2, <4>1, <4>2, CleanedShape DEF CleanWaits, AfterClean
            <4> QED  BY <3>0, <3>2, <4>3
        <3>3. CASE own.pc \notin CleanWaits
            <4>1. GivenUp = [own EXCEPT !.pc = "unwind", !.facts = own.facts \cup {"failed"}]
                BY <1>m, <3>3 DEF GivenUp
            <4>2. own.pc \in {"evidence", "guest"}
                BY <3>3, <1>17 DEF WaitLost
            <4> QED  BY <1>0, <3>0, <3>1, <3>3, <4>1, <4>2 DEF OwnShape, Moves, SameReport
        <3> QED  BY <3>2, <3>3
    <2>5. Facts'
        BY <1>0, <1>m, <1>17, <2>1 DEF WaitLost, Facts, Place, Running, Moves, SameReport, BeforeHost, Deciding, Stopping, WatchRuns, TransportRuns, World, CleanWaits
    <2>6. Place'
        BY <1>0, <1>m, <1>17, <2>1 DEF WaitLost, Facts, Place, Running, Moves, SameReport, BeforeHost, Deciding, Stopping, WatchRuns, TransportRuns, World, CleanWaits
    <2>7. Running'
        BY <1>0, <1>m, <1>17, <2>1 DEF WaitLost, Facts, Place, Running, Moves, SameReport, BeforeHost, Deciding, Stopping, WatchRuns, TransportRuns, World, CleanWaits
    <2> QED  BY <2>5, <2>6, <2>7 DEF Ground
<1>18. CASE Stop
    <2>1. LET after == IF mode = "init" /\ wk.pc # "none" THEN "hostClean0" ELSE "freeze"
              act == IF "hostPassed" \in own.facts /\ "failed" \notin own.facts THEN "normal" ELSE "recovery"
          IN \/ "startTried" \notin own.facts /\ Moves(after, own.facts) /\ kid' = kid
             \/ /\ "startTried" \in own.facts /\ own'.pc = "stopWait" /\ own'.facts = own.facts \cup {"shutTried"}
                /\ own'.shut = "none" /\ own'.guest = own.guest /\ own'.host = own.host /\ own'.report = own.report
                /\ kid' = [act |-> act, at |-> "run", said |-> "none"]
             \/ "startTried" \in own.facts /\ Moves(after, own.facts \cup {"shutTried", "failed", "cleanup"}) /\ kid' = kid
        <3>1. /\ CleanupError(own.facts \cup {"shutTried"}) = own.facts \cup {"shutTried", "failed", "cleanup"}
              /\ "cleanup" \in own.facts => "failed" \in own.facts
            BY <1>0, <1>m, <1>18, MarksGrow DEF Stop, Deciding, Facts
        <3>2. CASE "startTried" \notin own.facts
            BY <1>0, <3>2, <1>18, GoMoves DEF Stop, AfterStop
        <3>3. CASE "startTried" \in own.facts
            <4>1. \/ /\ own' = [own EXCEPT !.pc = "stopWait", !.facts = own.facts \cup {"shutTried"}, !.shut = "none"]
                     /\ kid' = [act |-> IF "hostPassed" \in own.facts /\ "failed" \notin own.facts THEN "normal" ELSE "recovery",
                                at |-> "run", said |-> "none"]
                  \/ Go(AfterStop, own.facts \cup {"shutTried", "failed", "cleanup"}) /\ kid' = kid
                BY <3>1, <3>3, <1>18 DEF Stop
            <4>2. CASE own' = [own EXCEPT !.pc = "stopWait", !.facts = own.facts \cup {"shutTried"}, !.shut = "none"]
                       /\ kid' = [act |-> IF "hostPassed" \in own.facts /\ "failed" \notin own.facts THEN "normal" ELSE "recovery",
                                  at |-> "run", said |-> "none"]
                BY <1>0, <3>3, <4>2 DEF OwnShape
            <4>3. CASE Go(AfterStop, own.facts \cup {"shutTried", "failed", "cleanup"}) /\ kid' = kid
                BY <1>0, <3>3, <4>3, GoMoves DEF AfterStop
            <4> QED  BY <4>1, <4>2, <4>3
        <3> QED  BY <3>2, <3>3
    <2>5. Facts'
        BY <1>0, <1>m, <1>18, <2>1 DEF Stop, Facts, Place, Running, Moves, SameReport, BeforeHost, Deciding, Stopping, WatchRuns, TransportRuns, World
    <2>6. Place'
        BY <1>0, <1>m, <1>18, <2>1 DEF Stop, Facts, Place, Running, Moves, SameReport, BeforeHost, Deciding, Stopping, WatchRuns, TransportRuns, World
    <2>7. Running'
        BY <1>0, <1>m, <1>18, <2>1 DEF Stop, Facts, Place, Running, Moves, SameReport, BeforeHost, Deciding, Stopping, WatchRuns, TransportRuns, World
    <2> QED  BY <2>5, <2>6, <2>7 DEF Ground
<1>19. CASE Stopped
    <2>1. /\ own'.pc = IF mode = "init" /\ wk.pc # "none" THEN "hostClean0" ELSE "freeze"
          /\ own'.guest = own.guest /\ own'.host = own.host /\ own'.report = own.report
          /\ own'.shut = IF kid.said = "forced" THEN "forced" ELSE kid.act
          /\ \E d \in {{}, {"failed", "cleanup"}} :
                /\ own'.facts = own.facts \cup (IF kid.said = "forced" THEN {"failed"} ELSE {}) \cup d
                /\ d = {} => left' = left
        <3>1. PICK stay \in {{}, {"shutdown"}}, dirty \in BOOLEAN :
                 LET f == IF kid.said = "forced" THEN Fail(own.facts) ELSE own.facts
                     s == IF kid.said = "forced" THEN "forced" ELSE kid.act
                 IN /\ stay # {} => dirty
                    /\ own' = [own EXCEPT !.pc = AfterStop, !.shut = s, !.facts = IF dirty THEN CleanupError(f) ELSE f]
                    /\ left' = left \cup stay
            BY <1>19, Zenon DEF Stopped
        <3>2. LET f == own.facts \cup (IF kid.said = "forced" THEN {"failed"} ELSE {}) IN
                 own' = [own EXCEPT !.pc = AfterStop, !.shut = IF kid.said = "forced" THEN "forced" ELSE kid.act,
                                    !.facts = f \cup (IF dirty THEN {"failed", "cleanup"} ELSE {})]
            <4>1. CASE kid.said = "forced"
                <5>1. CleanupError(Fail(own.facts)) = own.facts \cup {"failed"} \cup {"failed", "cleanup"} /\ own.facts \cup {"failed"} \cup {} = Fail(own.facts)
                    BY <1>m, <1>19 DEF Stopped, Deciding
                <5> QED  BY <3>1, <4>1, <5>1
            <4>2. CASE kid.said # "forced"
                <5>1. CleanupError(own.facts) = own.facts \cup {} \cup {"failed", "cleanup"} /\ own.facts \cup {} \cup {} = own.facts
                    BY <1>m, <1>19 DEF Stopped, Deciding
                <5> QED  BY <3>1, <4>2, <5>1
            <4> QED  BY <4>1, <4>2
        <3>3. ~dirty => left' = left
            BY <3>1
        <3> QED  BY <1>0, <3>2, <3>3 DEF OwnShape, AfterStop
    <2>5. Facts'
        BY <1>0, <1>m, <1>19, <2>1 DEF Stopped, Facts, Place, Running, Moves, SameReport, BeforeHost, Deciding, Stopping, WatchRuns, TransportRuns, World
    <2>6. Place'
        BY <1>0, <1>m, <1>19, <2>1 DEF Stopped, Facts, Place, Running, Moves, SameReport, BeforeHost, Deciding, Stopping, WatchRuns, TransportRuns, World
    <2>2. own.pc = "stopWait" /\ kid' = NoKid /\ net' = net /\ kid.at = "exited" /\ kid.said # "bad"
          /\ left' \in {left, left \cup {"shutdown"}}
        BY <1>19 DEF Stopped
    <2>3. "cleanup" \notin own'.facts => vm = "off" /\ left = {}
        BY <1>0, <2>1, <2>2 DEF Running
    <2>7. Running'
        BY <1>0, <1>m, <2>1, <2>2, <2>3 DEF Facts, Place, Running, Moves, SameReport, BeforeHost, Deciding, Stopping, WatchRuns, TransportRuns, World
    <2> QED  BY <2>5, <2>6, <2>7 DEF Ground
<1>20. CASE StopLost
    <2>1. Moves(IF mode = "init" /\ wk.pc # "none" THEN "hostClean0" ELSE "freeze", own.facts \cup {"failed", "cleanup"})
        BY <1>0, <1>m, <1>20, GoMoves DEF StopLost, AfterStop, Deciding
    <2>5. Facts'
        BY <1>0, <1>m, <1>20, <2>1 DEF StopLost, Facts, Place, Running, Moves, SameReport, BeforeHost, Deciding, Stopping, WatchRuns, TransportRuns, World
    <2>6. Place'
        BY <1>0, <1>m, <1>20, <2>1 DEF StopLost, Facts, Place, Running, Moves, SameReport, BeforeHost, Deciding, Stopping, WatchRuns, TransportRuns, World
    <2>7. Running'
        BY <1>0, <1>m, <1>20, <2>1 DEF StopLost, Facts, Place, Running, Moves, SameReport, BeforeHost, Deciding, Stopping, WatchRuns, TransportRuns, World
    <2> QED  BY <2>5, <2>6, <2>7 DEF Ground
<1>21. CASE Freeze
    <2>1. \E n \in {own.facts, own.facts \cup {"failed"}} :
              /\ cancel => n = own.facts \cup {"failed"}
              /\ LET final == (IF "hostPassed" \in n THEN n ELSE n \cup {"failed"}) \cup {"frozen"}
                 IN Moves("commit0", IF "hostPassed" \in final /\ "failed" \notin final /\ "cleanup" \notin final THEN final \cup {"passed"} ELSE final)
        <3>1. PICK n \in {own.facts, own.facts \cup {"failed"}} :
                 /\ cancel => n = own.facts \cup {"failed"}
                 /\ Frozen(n)
            BY <1>m, <1>21 DEF Freeze
        <3>2. LET final == (IF "hostPassed" \in n THEN n ELSE n \cup {"failed"}) \cup {"frozen"}
              IN own' = [own EXCEPT !.pc = "commit0",
                            !.facts = IF "hostPassed" \in final /\ "failed" \notin final /\ "cleanup" \notin final
                                      THEN final \cup {"passed"} ELSE final]
            BY <3>1 DEF Frozen, Good, Fail
        <3> QED  BY <1>0, <3>1, <3>2 DEF OwnShape, Moves, SameReport
    <2>5. Facts'
        BY <1>0, <1>m, <1>21, <2>1 DEF Freeze, Facts, Place, Running, Moves, SameReport, BeforeHost, Deciding, Stopping, WatchRuns, TransportRuns, World
    <2>6. Place'
        BY <1>0, <1>m, <1>21, <2>1 DEF Freeze, Facts, Place, Running, Moves, SameReport, BeforeHost, Deciding, Stopping, WatchRuns, TransportRuns, World
    <2>7. Running'
        BY <1>0, <1>m, <1>21, <2>1 DEF Freeze, Facts, Place, Running, Moves, SameReport, BeforeHost, Deciding, Stopping, WatchRuns, TransportRuns, World
    <2> QED  BY <2>5, <2>6, <2>7 DEF Ground
<1>22. CASE Commit
    <2>1. \/ Moves("commit", own.facts) /\ wk.pc # "none"
          \/ Moves("reap", own.facts) /\ cmd' = cmd
        BY <1>0, <1>m, <1>22, GoMoves DEF Commit, WorkerLive
    <2>5. Facts'
        BY <1>0, <1>m, <1>22, <2>1 DEF Commit, Facts, Place, Running, Moves, SameReport, BeforeHost, Deciding, Stopping, WatchRuns, TransportRuns, World
    <2>6. Place'
        BY <1>0, <1>m, <1>22, <2>1 DEF Commit, Facts, Place, Running, Moves, SameReport, BeforeHost, Deciding, Stopping, WatchRuns, TransportRuns, World
    <2>7. Running'
        BY <1>0, <1>m, <1>22, <2>1 DEF Commit, Facts, Place, Running, Moves, SameReport, BeforeHost, Deciding, Stopping, WatchRuns, TransportRuns, World
    <2> QED  BY <2>5, <2>6, <2>7 DEF Ground
<1>23. CASE Receipt
    <2>1. Moves("reap", own.facts) /\ res # <<>>
        BY <1>0, <1>m, <1>23, GoMoves DEF Receipt, OwnShape, Moves, SameReport
    <2>5. Facts'
        BY <1>0, <1>m, <1>23, <2>1 DEF Receipt, Facts, Place, Running, Moves, SameReport, BeforeHost, Deciding, Stopping, WatchRuns, TransportRuns, World
    <2>6. Place'
        BY <1>0, <1>m, <1>23, <2>1 DEF Receipt, Facts, Place, Running, Moves, SameReport, BeforeHost, Deciding, Stopping, WatchRuns, TransportRuns, World
    <2>7. Running'
        BY <1>0, <1>m, <1>23, <2>1 DEF Receipt, Facts, Place, Running, Moves, SameReport, BeforeHost, Deciding, Stopping, WatchRuns, TransportRuns, World
    <2> QED  BY <2>5, <2>6, <2>7 DEF Ground
<1>24. CASE ReceiptLost
    <2>1. Moves("reap", own.facts)
        BY <1>0, <1>m, <1>24, GoMoves DEF ReceiptLost, World
    <2>5. Facts'
        BY <1>0, <1>m, <1>24, <2>1 DEF ReceiptLost, Facts, Place, Running, Moves, SameReport, BeforeHost, Deciding, Stopping, WatchRuns, TransportRuns, World
    <2>6. Place'
        BY <1>0, <1>m, <1>24, <2>1 DEF ReceiptLost, Facts, Place, Running, Moves, SameReport, BeforeHost, Deciding, Stopping, WatchRuns, TransportRuns, World
    <2>7. Running'
        BY <1>0, <1>m, <1>24, <2>1 DEF ReceiptLost, Facts, Place, Running, Moves, SameReport, BeforeHost, Deciding, Stopping, WatchRuns, TransportRuns, World
    <2> QED  BY <2>5, <2>6, <2>7 DEF Ground
<1>25. CASE Reap
    <2>1. Moves("packet", own.facts) /\ (wk'.pc = "none" <=> wk.pc = "none")
        <3>1. Moves("packet", own.facts)
            <4>1. \E late \in BOOLEAN : own' = [own EXCEPT !.pc = "packet", !.late = late, !.facts = own.facts]
                <5>1. CleanupError(own.facts) = own.facts
                    BY <1>m, <1>25 DEF Reap, Deciding
                <5> QED  BY <5>1, <1>25 DEF Reap
            <4> QED  BY <1>0, <4>1 DEF OwnShape, Moves, SameReport
        <3>2. wk'.pc = "none" <=> wk.pc = "none"
            <4>1. wk' = wk \/ wk' = WkAt(wk.pc) \/ (wk.pc # "none" /\ (wk' = WkAt("dead") \/ wk' = WkAt("stuck")))
                BY <1>25 DEF Reap, WorkerLive
            <4>2. WkAt(wk.pc).pc = wk.pc /\ WkAt("dead").pc = "dead" /\ WkAt("stuck").pc = "stuck"
                BY AtEffect
            <4> QED  BY <4>1, <4>2
        <3> QED  BY <3>1, <3>2
    <2>2. own.pc = "reap" /\ cmd' = <<>> /\ res' = <<>> /\ kid' = kid /\ left' = left /\ net' = net
        BY <1>25 DEF Reap
    <2>5. Facts'
        BY <1>0, <1>m, <2>1, <2>2 DEF Facts, Place, Running, Moves, SameReport, BeforeHost, Deciding, Stopping, WatchRuns, TransportRuns, World
    <2>6. Place'
        BY <1>0, <1>m, <2>1, <2>2 DEF Facts, Place, Running, Moves, SameReport, BeforeHost, Deciding, Stopping, WatchRuns, TransportRuns, World
    <2>7. Running'
        BY <1>0, <1>m, <2>1, <2>2 DEF Facts, Place, Running, Moves, SameReport, BeforeHost, Deciding, Stopping, WatchRuns, TransportRuns, World
    <2> QED  BY <2>5, <2>6, <2>7 DEF Ground
<1>26. CASE Report
    <2>1. Moves("exit", own.facts)
        BY <1>0, <1>m, <1>26, GoMoves DEF Report
    <2>5. Facts'
        BY <1>0, <1>m, <1>26, <2>1 DEF Report, Facts, Place, Running, Moves, SameReport, BeforeHost, Deciding, Stopping, WatchRuns, TransportRuns, World
    <2>6. Place'
        BY <1>0, <1>m, <1>26, <2>1 DEF Report, Facts, Place, Running, Moves, SameReport, BeforeHost, Deciding, Stopping, WatchRuns, TransportRuns, World
    <2>7. Running'
        BY <1>0, <1>m, <1>26, <2>1 DEF Report, Facts, Place, Running, Moves, SameReport, BeforeHost, Deciding, Stopping, WatchRuns, TransportRuns, World
    <2> QED  BY <2>5, <2>6, <2>7 DEF Ground
<1> QED  BY <1>1, <1>2, <1>3, <1>4, <1>5, <1>6, <1>7, <1>8, <1>9, <1>10, <1>11, <1>12, <1>13, <1>14, <1>15, <1>16, <1>17, <1>18, <1>19, <1>20, <1>21, <1>22, <1>23, <1>24, <1>25, <1>26 DEF Owner

\* The worker is nobody before it is forked, and always somebody after.
LEMMA WorkerExists ==
    ASSUME Shape, Hand, Worker
    PROVE  wk.pc # "none" /\ wk'.pc # "none"
<1>1. CASE WkBoot
    <2>1. wk'.pc \in {"work", "idle", "dead"}
        <3>1. Starts("host", <<Root>>) \/ wk' = WkAt("idle") \/ wk' = WkAt("dead")
            BY <1>1, Zenon DEF WkBoot, Dies
        <3>2. <<Root>> \in Seq(Roles) /\ IsInjective(<<Root>>)
            BY RolesOfGuest DEF IsInjective
        <3>3. WkAt("idle").pc = "idle" /\ WkAt("dead").pc = "dead"
            BY AtEffect
        <3> QED  BY <3>1, <3>2, <3>3, StartEffect
    <2> QED  BY <1>1, <2>1 DEF WkBoot
<1>2. ASSUME wk.pc = "work", wk.todo # <<>>, OpError
      PROVE  wk'.pc # "none"
    BY <1>2, OpErrorEffect
<1>3. CASE WkEvent
    BY <1>3, EventEffect DEF SameOp
<1>4. CASE WkAck
    <2>1. CASE wk' = Acknowledged
        BY <1>4, <2>1, AnswerEffect, AckEffect DEF SameOp
    <2> QED  BY <1>2, <1>4, <2>1, AnswerEffect
<1>5. CASE WkAckLost
    BY <1>2, <1>5 DEF WkAckLost, Hand
<1>6. CASE WkMake
    BY <1>2, <1>6 DEF WkMake, Working, Shape, WkShape
<1>7. CASE WkSkip
    BY <1>7, OnwardFields DEF WkSkip, Working
<1>8. CASE WkRemove
    BY <1>2, <1>8 DEF WkRemove, Working, Shape, WkShape
<1>9. CASE WkDone
    <2>1. wk' = WkAt("idle") \/ (wk.op \in {"host", "guest", "stage"} /\ OpError)
        BY <1>9 DEF WkDone, Replied
    <2>2. wk.pc = "work" /\ WkAt("idle").pc = "idle"
        BY <1>9, AtEffect DEF WkDone, Replied
    <2>3. CASE wk.op \in {"host", "guest", "stage"} /\ OpError
        BY <2>2, <2>3, OpErrorEffect
    <2> QED  BY <2>1, <2>2, <2>3
<1>10. CASE WkCommand
    <2>1. \/ \E op : Starts(op, Walk(op))
          \/ wk' = [wk EXCEPT !.pc = "persist", !.sent = Head(cmd)]
          \/ wk' = WkAt("dead")
        BY <1>10, Zenon DEF WkCommand, Dies
    <2>2. CASE \E op : Starts(op, Walk(op))
        BY <1>10, <2>2, Walks, StartEffect DEF WkCommand
    <2>3. CASE wk' = [wk EXCEPT !.pc = "persist", !.sent = Head(cmd)]
        BY <1>10, <2>3 DEF WkCommand, Shape, WkShape
    <2>4. wk.pc = "idle" /\ WkAt("dead").pc = "dead"
        BY <1>10, AtEffect DEF WkCommand
    <2> QED  BY <2>1, <2>2, <2>3, <2>4
<1>11. CASE WkStage
    BY <1>11 DEF WkStage, Replied, Shape, WkShape
<1>12. CASE WkPersist
    <2>1. wk' = WkAt("done") \/ wk' = [wk EXCEPT !.pc = "seal"] \/ wk' = [wk EXCEPT !.pc = "answer"]
        BY <1>12 DEF WkPersist
    <2>2. WkAt("done").pc = "done"
        BY AtEffect
    <2> QED  BY <1>12, <2>1, <2>2 DEF WkPersist, Shape, WkShape
<1>13. CASE WkPersistFails
    BY <1>13, AtEffect DEF WkPersistFails, Dies
<1>14. CASE WkFault
    BY <1>14, AtEffect DEF WkFault, WorkerLive
<1> QED  BY <1>1, <1>3, <1>4, <1>5, <1>6, <1>7, <1>8, <1>9, <1>10, <1>11, <1>12, <1>13, <1>14 DEF Worker

\* The worker touches neither the owner's facts nor what they are about.
LEMMA WorkerGround ==
    ASSUME Shape, Hand, Ground, Worker
    PROVE  Ground'
<1>1. /\ UNCHANGED <<mode, cancel, own, vm, kid, left, packet>>
      /\ net'.wd = net.wd /\ net'.tr = net.tr /\ net'.admit = net.admit
      /\ wk.pc # "none" /\ wk'.pc # "none"
    BY WorkerRest, WorkerShape, WorkerExists
<1>2. Facts /\ Place /\ Running
    BY DEF Ground
<1>3. Facts'
    BY <1>1, <1>2 DEF Facts
<1>4. Place'
    BY <1>1, <1>2 DEF Place
<1>5. Running'
    BY <1>1, <1>2 DEF Running, WatchRuns, TransportRuns
<1> QED  BY <1>3, <1>4, <1>5 DEF Ground

\* Watchdog and transport run and pass only while the owner may still see it.
LEMMA HostGround ==
    ASSUME Shape, Ground, Host
    PROVE  Ground'
<1>0. /\ Facts /\ Place /\ Running
      /\ DOMAIN net = {"wd", "tr", "reg", "admit", "stage", "staged", "told"}
    BY DEF Ground, Shape
<1>1. UNCHANGED <<mode, cancel, own, vm, kid, left, wk, cmd, res>>
    BY Zenon DEF Host, WatchForks, TransportRegisters, TransportAdmitted, TransportEnds,
                 TransportStages, WatchReports, WatchDies
<1>2. Place'
    BY <1>0, <1>1 DEF Place
<1> DEFINE Good0 == /\ net'.wd = "passed" => net'.tr = "ended"
                    /\ own.report = "passed" => net'.wd = "passed"
                    /\ own.pc \in BeforeHost => net'.wd = "none" /\ net'.tr = "none" /\ net'.admit = "none"
                    /\ own.pc \notin BeforeHost \cup {"host"} =>
                          /\ ~(net'.wd \in {"run", "term"})
                          /\ net'.wd = "stuck" \/ net'.tr \in {"fork", "wait", "work", "stuck"} => "cleanup" \in own.facts
                    /\ net'.admit = "1" \/ net'.tr \in {"work", "ended"} => "registered" \in own.facts
<1>3. Good0
    <2>1. CASE WatchForks
        BY <1>0, <2>1 DEF WatchForks, Facts, Running, WatchRuns, TransportRuns
    <2>2. CASE TransportRegisters
        BY <1>0, <2>2 DEF TransportRegisters, Facts, Running, WatchRuns, TransportRuns, BeforeHost
    <2>3. CASE TransportAdmitted
        BY <1>0, <2>3 DEF TransportAdmitted, Facts, Running, WatchRuns, TransportRuns
    <2>4. CASE TransportEnds
        BY <1>0, <2>4 DEF TransportEnds, Facts, Running, WatchRuns, TransportRuns
    <2>5. CASE TransportStages
        BY <1>0, <2>5 DEF TransportStages, Facts, Running, WatchRuns, TransportRuns
    <2>6. CASE WatchReports
        BY <1>0, <2>6 DEF WatchReports, Facts, Running, WatchRuns, TransportRuns
    <2>7. CASE WatchDies
        BY <1>0, <2>7 DEF WatchDies, Facts, Running, WatchRuns, TransportRuns
    <2> QED  BY <2>1, <2>2, <2>3, <2>4, <2>5, <2>6, <2>7 DEF Host
<1>4. Facts'
    BY <1>0, <1>1, <1>3 DEF Facts
<1>5. Running'
    BY <1>0, <1>1, <1>3 DEF Running, WatchRuns, TransportRuns
<1> QED  BY <1>2, <1>4, <1>5 DEF Ground

\* The controller and the adapters: a machine that is on was started, and a stop that
\* answered has stopped it.
LEMMA OthersGround ==
    ASSUME Shape, Ground, Others
    PROVE  Ground'
<1>0. /\ Facts /\ Place /\ Running
      /\ DOMAIN kid = {"act", "at", "said"} /\ kid.act \in {"none", "start", "readiness", "normal", "recovery"}
    BY DEF Ground, Shape
<1>1. CASE Cancel
    <2>1. UNCHANGED <<mode, own, vm, kid, left, net, wk, cmd, res>> /\ "frozen" \notin own.facts
        BY <1>1 DEF Cancel
    <2> QED  BY <1>0, <2>1 DEF Facts, Place, Running, WatchRuns, TransportRuns, Ground
<1>2. CASE KidActs
    <2>1. /\ UNCHANGED <<mode, cancel, own, left, net, wk, cmd, res>>
          /\ kid.at = "run" /\ kid'.at = "acted" /\ kid'.act = kid.act
          /\ vm' \in {"on", "off"}
          /\ kid.act \in {"normal", "recovery"} => vm' = "off"
          /\ kid.act = "readiness" => vm' = vm
        BY <1>0, <1>2 DEF KidActs, Effect, Running
    <2>2. Facts' /\ Place'
        BY <1>0, <2>1 DEF Facts, Place
    <2>3. Running'
        BY <1>0, <2>1 DEF Running, Place, Facts, WatchRuns, TransportRuns, Stopping, Deciding
    <2> QED  BY <2>2, <2>3 DEF Ground
<1>3. CASE KidAnswers
    <2>1. /\ UNCHANGED <<mode, cancel, own, vm, left, net, wk, cmd, res>>
          /\ kid.at \in {"run", "acted"} /\ kid'.at = "exited" /\ kid'.act = kid.act
          /\ kid'.said # "bad" => kid.at = "acted"
        BY <1>0, <1>3 DEF KidAnswers
    <2>2. Facts' /\ Place'
        BY <1>0, <2>1 DEF Facts, Place
    <2>3. Running'
        BY <1>0, <2>1 DEF Running, WatchRuns, TransportRuns, Stopping, Deciding
    <2> QED  BY <2>2, <2>3 DEF Ground
<1>4. CASE LeftActs
    <2>1. UNCHANGED <<mode, cancel, own, kid, left, net, wk, cmd, res>> /\ left # {} /\ vm' \in {"on", "off"}
        BY <1>0, <1>4 DEF LeftActs, Effect, Running
    <2>2. Facts' /\ Place'
        BY <1>0, <2>1 DEF Facts, Place
    <2>3. Running'
        BY <1>0, <2>1 DEF Running, WatchRuns, TransportRuns
    <2> QED  BY <2>2, <2>3 DEF Ground
<1> QED  BY <1>1, <1>2, <1>3, <1>4, HostGround DEF Others

\* Every step keeps what the owner knows true.
LEMMA GroundStep ==
    ASSUME Shape, Hand, Ground, [Next]_vars
    PROVE  Ground'
<1>1. CASE UNCHANGED vars
    BY <1>1 DEF vars, Ground, Facts, Place, Running, WatchRuns, TransportRuns
<1> QED  BY <1>1, OwnerGround, WorkerGround, OthersGround DEF Next, Others

\* Nothing is known and nothing runs.
LEMMA GroundInit == Init => Ground
BY DEF Init, Ground, Facts, Place, Running, WatchRuns, TransportRuns, Deciding, Stopping, BeforeHost

(***************************************************************************)
(* Registrations, acknowledgements and the object in hand.                 *)
(***************************************************************************)
Post == Ordered /\ Mail /\ Hand

\* Nothing about an object is new in a pipe.
NoNews ==
    /\ \A r \in Roles, s \in Events :
          /\ Has(res', Reg(r, s)) => Has(res, Reg(r, s))
          /\ Has(cmd', Ack(r, s)) => Has(cmd, Ack(r, s))
    /\ \A r \in Roles, s1 \in Events, s2 \in Events :
          /\ Prior(res', Reg(r, s1), Reg(r, s2)) => Prior(res, Reg(r, s1), Reg(r, s2))
          /\ Prior(cmd', Ack(r, s1), Ack(r, s2)) => Prior(cmd, Ack(r, s1), Ack(r, s2))

\* The worker stands still, is done with an operation, is forked, or turns to
\* an object that it would remove.
Turns ==
    \/ wk' = wk
    \/ wk'.pc \notin {"none", "boot", "work"} /\ wk'.op = "none" /\ ~wk'.wait
    \/ wk.pc = "none" /\ wk'.pc \in {"none", "boot"} /\ wk'.op = "none" /\ ~wk'.wait
    \/ /\ wk'.pc = "work" /\ wk'.op \in {"clean", "guest-cleanup", "host-cleanup"}
       /\ wk'.step = "remove" /\ ~wk'.wait /\ ToSet(wk'.todo) \subseteq Of(wk'.op)
       /\ wk'.op = "clean" /\ wk'.todo # <<>> => wk.src

\* No object is new, but one that both sides hold as intended.
OnlyIntended ==
    \A r \in Roles : r \in objs' => r \in objs \/ (wk.ents[r] = "intent" /\ own.registry[r] = "intent")

\* A step that brings no news and makes only what was acknowledged disturbs no object.
LEMMA StillPost ==
    ASSUME Shape, Post, own'.registry = own.registry, wk'.ents = wk.ents, wk'.src = wk.src,
           NoNews, Turns, OnlyIntended
    PROVE  Post'
<1>0. Ordered /\ Mail /\ Hand /\ Source \in Roles
    BY RolesOfGuest DEF Post, HostRoles
<1>1. Ordered'
    BY <1>0 DEF Ordered, NoNews, AckIn, RegIn
<1>2. Mail'
    BY <1>0 DEF Mail, NoNews, AckIn, RegIn, Events, OnlyIntended
<1>3. \A r \in Roles : Quiet(r) => Quiet(r)'
    BY DEF Quiet, NoNews, AckIn, RegIn
<1>4. \A r \in Roles : Clear(r) => Clear(r)'
    BY <1>3 DEF Clear, OnlyIntended
<1>5. Hand'
    <2>1. CASE wk' = wk
        <3>1. \A r \in Roles : InHand(r)' = InHand(r)
            BY <2>1 DEF InHand, Role
        <3>2. ToSet(wk.todo) \subseteq Roles
            BY DEF Shape, WkShape, ToSet
        <3> QED  BY <1>0, <1>3, <1>4, <2>1, <3>1, <3>2 DEF Hand, OnlyIntended
    <2>2. CASE wk'.pc \notin {"none", "boot", "work"} /\ wk'.op = "none" /\ ~wk'.wait
        BY <1>0, <1>4, <2>2 DEF Hand, InHand
    <2>3. CASE wk.pc = "none" /\ wk'.pc \in {"none", "boot"} /\ wk'.op = "none" /\ ~wk'.wait
        BY <1>0, <1>4, <2>3 DEF Hand, InHand
    <2>4. CASE /\ wk'.pc = "work" /\ wk'.op \in {"clean", "guest-cleanup", "host-cleanup"}
               /\ wk'.step = "remove" /\ ~wk'.wait /\ ToSet(wk'.todo) \subseteq Of(wk'.op)
               /\ wk'.op = "clean" /\ wk'.todo # <<>> => wk.src
        BY <1>0, <1>4, <2>4 DEF Hand, InHand, First
    <2> QED  BY <2>1, <2>2, <2>3, <2>4 DEF Turns
<1> QED  BY <1>1, <1>2, <1>5 DEF Post

\* The owner records what it reads, and may acknowledge it.
LEMMA RecordPost ==
    ASSUME Shape, Post, RegistrationComes, own'.registry = Recorded(Head(res)), res' = Tail(res),
           wk' = wk, objs' = objs,
           cmd' = cmd \/ cmd' = Append(cmd, Ack(Head(res).role, Head(res).state))
    PROVE  Post'
<1>1. PICK r \in Roles, s \in Events :
         /\ res # <<>> /\ Head(res) = Reg(r, s)
         /\ own.registry[r] = IF s = "intent" THEN "none" ELSE IF s = "bound" THEN "intent" ELSE "bound"
         /\ own'.registry = [own.registry EXCEPT ![r] = IF s = "cleaned" THEN "none" ELSE s]
    BY Recording
<1>0. /\ Ordered /\ Mail /\ Hand /\ Source \in Roles
      /\ cmd \in Seq(Commands) /\ res \in Seq(Answered) /\ own.registry \in [Roles -> States]
    BY RolesOfGuest DEF Post, HostRoles, Shape, PipeShape, OwnShape
<1>2. cmd' = cmd \/ cmd' = Append(cmd, Ack(r, s))
    BY <1>1, Kinds
<1>3. \A q \in Roles : own'.registry[q] = IF q = r THEN IF s = "cleaned" THEN "none" ELSE s ELSE own.registry[q]
    BY <1>0, <1>1
<1>4. /\ Has(res, Reg(r, s))
      /\ \A m : Has(res', m) => Has(res, m)
      /\ \A a, b : Prior(res', a, b) => Prior(res, a, b)
      /\ \A m : Has(res', m) => Prior(res, Reg(r, s), m)
    BY <1>0, <1>1, ReadFirst
<1>5. /\ \A q, t : Has(cmd', Ack(q, t)) => Has(cmd, Ack(q, t)) \/ (q = r /\ t = s)
      /\ \A q, t1, t2 : Prior(cmd', Ack(q, t1), Ack(q, t2))
            => Prior(cmd, Ack(q, t1), Ack(q, t2)) \/ (Has(cmd, Ack(q, t1)) /\ q = r /\ t2 = s)
    <2>1. CASE cmd' = Append(cmd, Ack(r, s))
        <3>1. /\ \A m : Has(cmd', m) <=> Has(cmd, m) \/ m = Ack(r, s)
              /\ \A a, b : Prior(cmd', a, b) <=> Prior(cmd, a, b) \/ (Has(cmd, a) /\ b = Ack(r, s))
            BY <1>0, <2>1, Messages, SentLast
        <3>2. \A q, t : Ack(q, t) = Ack(r, s) => q = r /\ t = s
            BY DEF Ack
        <3> QED  BY <3>1, <3>2
    <2> QED  BY <1>2, <2>1
<1>6. Ordered'
    BY <1>0, <1>4, <1>5 DEF Ordered, AckIn, RegIn
<1>7. Mail'
    BY <1>0, <1>1, <1>3, <1>4, <1>5 DEF Mail, Ordered, Before, AckIn, RegIn, Events
<1>8. \A q \in Roles : Quiet(q) => q # r /\ Quiet(q)'
    BY <1>4, <1>5 DEF Quiet, AckIn, RegIn
<1>9. \A q \in Roles : Clear(q) => Clear(q)'
    BY <1>3, <1>8 DEF Clear
<1>10. Hand'
    <2>1. \A q \in Roles : InHand(q)' = InHand(q)
        BY DEF InHand, Role
    <2>2. ToSet(wk.todo) \subseteq Roles
        BY DEF Shape, WkShape, ToSet
    <2> QED  BY <1>0, <1>3, <1>8, <1>9, <2>1, <2>2 DEF Hand
<1> QED  BY <1>6, <1>7, <1>10 DEF Post

\* The worker registers what it is about to do, or has done, and waits.
LEMMA EventPost ==
    ASSUME Shape, Post, WkEvent, own' = own, objs' = objs
    PROVE  Post'
<1>0. /\ Ordered /\ Mail /\ Hand /\ Source \in Roles
      /\ res \in Seq(Answered) /\ wk.ents \in [Roles -> States]
    BY RolesOfGuest DEF Post, HostRoles, Shape, PipeShape, WkShape
<1>1. PICK r \in Roles : r = Role
    BY EventEffect
<1>2. /\ SameOp /\ wk'.todo = wk.todo /\ wk'.step = wk.step /\ wk'.wait = TRUE
      /\ wk'.src = wk.src
      /\ wk'.ents = [wk.ents EXCEPT ![r] = IF wk.step = "cleaned" THEN "none" ELSE wk.step]
      /\ wk.pc = "work" /\ wk.todo # <<>> /\ ~wk.wait /\ wk.step \in Events
      /\ InHand(r) /\ Reg(r, wk.step) \in Answered
      /\ res' = Append(res, Reg(r, wk.step)) /\ cmd' = cmd
    BY <1>1, EventEffect
<1>3. \A q \in Roles : wk'.ents[q] = IF q = r THEN IF wk.step = "cleaned" THEN "none" ELSE wk.step ELSE wk.ents[q]
    BY <1>0, <1>2
<1>4. /\ \A q, t : Has(res', Reg(q, t)) => Has(res, Reg(q, t)) \/ (q = r /\ t = wk.step)
      /\ \A q, t1, t2 : Prior(res', Reg(q, t1), Reg(q, t2))
            => Prior(res, Reg(q, t1), Reg(q, t2)) \/ (Has(res, Reg(q, t1)) /\ q = r /\ t2 = wk.step)
    <2>1. /\ \A m : Has(res', m) <=> Has(res, m) \/ m = Reg(r, wk.step)
          /\ \A a, b : Prior(res', a, b) <=> Prior(res, a, b) \/ (Has(res, a) /\ b = Reg(r, wk.step))
        BY <1>0, <1>2, SentLast
    <2>2. \A q, t : Reg(q, t) = Reg(r, wk.step) => q = r /\ t = wk.step
        BY DEF Reg
    <2> QED  BY <2>1, <2>2
<1>5. /\ wk.step = "intent" => Clear(r)
      /\ wk.step = "bound" => wk.ents[r] = "intent" /\ own.registry[r] = "intent" /\ Quiet(r)
      /\ wk.step = "cleaned" => wk.ents[r] = "bound" /\ r \notin objs
    BY <1>0, <1>2 DEF Hand
<1>6. Ordered'
    BY <1>0, <1>2, <1>4, <1>5 DEF Ordered, Mail, Before, Clear, Quiet, AckIn, RegIn, Events
<1>7. Mail'
    BY <1>0, <1>2, <1>3, <1>4, <1>5 DEF Mail, Clear, Quiet, AckIn, RegIn, Events
<1>8. \A q \in Roles : q # r => (Quiet(q) => Quiet(q)') /\ (Clear(q) => Clear(q)')
    BY <1>2, <1>3, <1>4 DEF Quiet, Clear, AckIn, RegIn
<1>9. Hand'
    <2>1. \A q \in Roles : InHand(q)' = InHand(q)
        BY <1>2 DEF InHand, Role, SameOp
    <2>2. ToSet(wk.todo) \subseteq Roles
        BY DEF Shape, WkShape, ToSet
    <2>3. \A q \in Roles : InHand(q) => q = r
        BY <1>1 DEF InHand
    <2>4. ~wk.src => Source # r
        <3>1. r \in ToSet(wk.todo)
            BY <1>1, <1>2, FirstAndRest DEF Shape, WkShape, Role
        <3>2. wk.step = "intent" => First(wk.op) = "intent" /\ wk.op \in {"host", "guest", "stage"}
            BY <1>0, <1>2 DEF Hand, First
        <3>3. r \in Of(wk.op)
            BY <1>0, <1>2, <3>1 DEF Hand
        <3>4. wk.step = "intent" /\ r = Source => wk.op = "stage"
            BY <3>2, <3>3, RolesOfGuest DEF Of
        <3>5. wk.step # "intent" => wk.ents[r] # "none"
            BY <1>2, <1>5 DEF Events
        <3> QED  BY <1>0, <1>2, <3>4, <3>5 DEF Hand, Clear
    <2> QED  BY <1>0, <1>2, <1>3, <1>8, <2>1, <2>2, <2>3, <2>4 DEF Hand, SameOp
<1> QED  BY <1>6, <1>7, <1>9 DEF Post

\* The acknowledgement that the worker waited for.
LEMMA AckPost ==
    ASSUME Shape, Post, wk.pc = "work", wk.wait, cmd # <<>>, Head(cmd) = Ack(Role, wk.step), wk' = Acknowledged,
           cmd' = Tail(cmd), res' = res, own' = own, objs' = objs
    PROVE  /\ Post' /\ NoNews
           /\ \A r \in Roles : InHand(r) => Quiet(r)' /\ (wk.step = "cleaned" => Clear(r)')
<1>0. /\ Ordered /\ Mail /\ Hand /\ Source \in Roles /\ wk.todo # <<>> /\ wk.step \in Events
      /\ cmd \in Seq(Commands) /\ wk.ents \in [Roles -> States]
    BY RolesOfGuest DEF Post, Hand, HostRoles, Shape, PipeShape, WkShape
<1>1. PICK r \in Roles : r = Role
    BY <1>0, OnwardFields
<1>2. /\ WkShape(wk') /\ SameOp /\ wk'.wait = FALSE /\ wk'.ents = wk.ents /\ wk'.errs = wk.errs
      /\ wk.step = "intent" => wk'.todo = wk.todo /\ wk'.step = "make" /\ wk'.src = wk.src
      /\ wk.step # "intent" => NextObject /\ wk'.src = (wk.src /\ ~(wk.step = "cleaned" /\ r = Source))
    BY <1>0, <1>1, AckEffect
<1>3. InHand(r) /\ wk.ents[r] = IF wk.step = "cleaned" THEN "none" ELSE wk.step
    BY <1>0, <1>1 DEF InHand, Hand
<1>4. /\ Has(cmd, Ack(r, wk.step))
      /\ \A m : Has(cmd', m) => Has(cmd, m) /\ Prior(cmd, Ack(r, wk.step), m)
      /\ \A a, b : Prior(cmd', a, b) => Prior(cmd, a, b)
    BY <1>0, <1>1, ReadFirst
<1>5. NoNews
    BY <1>4 DEF NoNews
<1>6. Ordered'
    BY <1>0, <1>5 DEF Ordered, NoNews, AckIn, RegIn
<1>7. Mail'
    BY <1>0, <1>2, <1>5 DEF Mail, NoNews, AckIn, RegIn, Events
<1>8. Quiet(r)'
    <2>1. \A t \in Events : ~RegIn(r, t)
        BY <1>0, <1>3, <1>4 DEF Ordered, Mail, Before, AckIn, RegIn, Events
    <2>2. \A t \in Events : ~Has(cmd', Ack(r, t))
        BY <1>0, <1>3, <1>4 DEF Ordered, Mail, Before, AckIn, RegIn, Events
    <2> QED  BY <2>1, <2>2 DEF Quiet, AckIn, RegIn
<1>9. wk.step = "cleaned" => Clear(r)'
    BY <1>0, <1>2, <1>3, <1>4, <1>8 DEF Clear, Mail, AckIn, Events
<1>10. \A q \in Roles : (Quiet(q) => Quiet(q)') /\ (Clear(q) => Clear(q)')
    BY <1>2, <1>5 DEF Quiet, Clear, NoNews, AckIn, RegIn
<1>11. ~wk'.src => Clear(Source)'
    BY <1>0, <1>2, <1>9, <1>10 DEF Hand
<1>12. ToSet(wk.todo) \subseteq Roles /\ ToSet(wk.todo) \subseteq Of(wk.op)
    BY <1>0 DEF Hand, Shape, WkShape, ToSet
<1>13. CASE wk.step = "intent"
    <2>1. \A q \in Roles : InHand(q)' = InHand(q)
        BY <1>2, <1>13 DEF InHand, Role, SameOp
    <2>2. \A q \in Roles : InHand(q) => q = r
        BY <1>1 DEF InHand
    <2>3. own.registry[r] = "intent"
        BY <1>0, <1>4, <1>13 DEF Mail, AckIn
    <2>4. First(wk.op) = "intent"
        BY <1>0, <1>13 DEF Hand
    <2>5. Hand'
        BY <1>0, <1>2, <1>3, <1>8, <1>10, <1>11, <1>12, <1>13, <2>1, <2>2, <2>3, <2>4 DEF Hand, SameOp
    <2> QED  BY <1>1, <1>5, <1>6, <1>7, <1>8, <1>13, <2>2, <2>5 DEF Post
<1>14. CASE wk.step # "intent"
    <2>1. /\ wk'.todo = Tail(wk.todo) /\ wk'.step = First(wk.op)
          /\ ToSet(wk.todo) = {r} \cup ToSet(wk'.todo) /\ r \notin ToSet(wk'.todo)
        BY <1>0, <1>1, <1>2, <1>14, FirstAndRest DEF NextObject, Shape, WkShape, Role
    <2>2. \A q \in Roles : InHand(q)' => q \in ToSet(wk'.todo)
        BY <1>2, FirstAndRest DEF InHand, Role, WkShape
    <2>3. \A q \in Roles : InHand(q) => q = r
        BY <1>1 DEF InHand
    <2>4. First(wk.op) = "intent" => \A q \in ToSet(wk'.todo) : Clear(q)'
        BY <1>0, <1>10, <1>12, <2>1, <2>3 DEF Hand
    <2>5. wk.op \in {"stage", "clean"} => wk'.todo = <<>>
        <3>1. wk.op \in {"stage", "clean"} => ToSet(wk'.todo) = {}
            BY <1>12, <2>1 DEF Of
        <3>2. wk'.todo # <<>> => Head(wk'.todo) \in ToSet(wk'.todo)
            BY <1>2, FirstAndRest DEF WkShape
        <3> QED  BY <3>1, <3>2
    <2>6. First(wk.op) \in {"intent", "remove"}
        BY DEF First
    <2>7. Hand'
        BY <1>0, <1>2, <1>11, <1>12, <2>1, <2>2, <2>4, <2>5, <2>6 DEF Hand, SameOp
    <2> QED  BY <1>1, <1>5, <1>6, <1>7, <1>8, <1>9, <1>14, <2>3, <2>7 DEF Post
<1> QED  BY <1>13, <1>14

\* An operation that creates begins: nothing is there of its objects.
LEMMA StartPost ==
    ASSUME Shape, Post, own' = own, objs' = objs, NoNews, wk.pc \in {"boot", "idle"},
           WkShape(wk'), wk'.pc = "work", wk'.op \in {"host", "guest", "stage"}, wk'.step = "intent", ~wk'.wait,
           wk'.ents = wk.ents, ToSet(wk'.todo) \subseteq Of(wk'.op), \A r \in ToSet(wk'.todo) : Clear(r),
           wk'.src = wk.src \/ wk'.src, wk'.op = "stage" => wk'.src
    PROVE  Post'
<1>0. Ordered /\ Mail /\ Hand /\ Source \in Roles
    BY RolesOfGuest DEF Post, HostRoles
<1>1. Ordered'
    BY <1>0 DEF Ordered, NoNews, AckIn, RegIn
<1>2. Mail'
    BY <1>0 DEF Mail, NoNews, AckIn, RegIn, Events
<1>3. \A r \in Roles : Clear(r) => Clear(r)'
    BY DEF Clear, Quiet, NoNews, AckIn, RegIn
<1>4. ToSet(wk'.todo) \subseteq Roles
    BY DEF WkShape, ToSet
<1>5. \A r \in Roles : InHand(r)' => r \in ToSet(wk'.todo)
    BY FirstAndRest DEF InHand, Role, WkShape
<1>6. First(wk'.op) = "intent"
    BY DEF First
<1>7. Hand'
    BY <1>0, <1>3, <1>4, <1>5, <1>6 DEF Hand
<1> QED  BY <1>1, <1>2, <1>7 DEF Post

\* The object is made, or removed.
LEMMA MakePost ==
    ASSUME Shape, Post, Working, NEW r \in Roles, r = Role, own' = own, res' = res, cmd' = cmd,
           WkShape(wk'), SameOp, wk'.todo = wk.todo, wk'.wait = wk.wait, wk'.ents = wk.ents, wk'.src = wk.src,
           \/ wk.step = "make" /\ wk'.step = "bound" /\ objs' = objs \cup {r}
           \/ wk.step = "remove" /\ wk.ents[r] = "bound" /\ wk'.step = "cleaned" /\ objs' = objs \ {r}
    PROVE  Post'
<1>0. /\ Ordered /\ Mail /\ Hand /\ Source \in Roles /\ InHand(r) /\ ~wk.wait
      /\ \A q \in Roles : InHand(q) => q = r
    BY RolesOfGuest DEF Post, HostRoles, InHand, Working
<1>1. wk.step = "make" => wk.ents[r] = "intent" /\ own.registry[r] = "intent" /\ Quiet(r)
    BY <1>0 DEF Hand
<1>2. Ordered'
    BY <1>0 DEF Ordered, AckIn, RegIn
<1>3. Mail'
    BY <1>0, <1>1 DEF Mail, AckIn, RegIn, Events
<1>4. \A q \in Roles : (Quiet(q) => Quiet(q)') /\ (Clear(q) => Clear(q)')
    BY <1>0, <1>1 DEF Quiet, Clear, AckIn, RegIn
<1>5. \A q \in Roles : InHand(q)' = InHand(q)
    BY DEF InHand, Role, SameOp
<1>6. ToSet(wk.todo) \subseteq Roles
    BY DEF Shape, WkShape, ToSet
<1>7. Hand'
    BY <1>0, <1>1, <1>4, <1>5, <1>6 DEF Hand, SameOp, Working, Events
<1> QED  BY <1>2, <1>3, <1>7 DEF Post

\* The ways in which a pipe changes without news about an object.
ReadQuietly ==
    \/ res' = res \/ res' = <<>>
    \/ res # <<>> /\ res' = Tail(res)
    \/ res # <<>> /\ res' = [res EXCEPT ![1] = [t |-> "garbage"]]
    \/ \E m \in Answered : m.t # "reg" /\ res' = Append(res, m)

SendQuietly ==
    \/ cmd' = cmd \/ cmd' = <<>>
    \/ cmd # <<>> /\ cmd' = Tail(cmd)
    \/ \E m \in Commands : m.t # "ack" /\ cmd' = Append(cmd, m)

\* Reading from and writing other things into the pipes brings no news.
LEMMA QuietPipes ==
    ASSUME Shape, ReadQuietly, SendQuietly
    PROVE  NoNews
<1>0. cmd \in Seq(Commands) /\ res \in Seq(Answered)
    BY DEF Shape, PipeShape
<1> DEFINE Res == /\ \A r, s : Has(res', Reg(r, s)) => Has(res, Reg(r, s))
                  /\ \A r, s1, s2 : Prior(res', Reg(r, s1), Reg(r, s2)) => Prior(res, Reg(r, s1), Reg(r, s2))
           Cmd == /\ \A r, s : Has(cmd', Ack(r, s)) => Has(cmd, Ack(r, s))
                  /\ \A r, s1, s2 : Prior(cmd', Ack(r, s1), Ack(r, s2)) => Prior(cmd, Ack(r, s1), Ack(r, s2))
<1>1. Res
    <2>1. CASE res' = <<>>
        BY <2>1, NothingThere
    <2>2. CASE res # <<>> /\ res' = Tail(res)
        BY <1>0, <2>2, ReadFirst
    <2>3. CASE res # <<>> /\ res' = [res EXCEPT ![1] = [t |-> "garbage"]]
        <3>1. /\ \A m : Has(res', m) => Has(res, m) \/ m = [t |-> "garbage"]
              /\ \A a, b : Prior(res', a, b) => Prior(res, a, b) \/ a = [t |-> "garbage"] \/ b = [t |-> "garbage"]
            BY <1>0, <2>3, ReadInPart, Messages
        <3>2. \A r, s : Reg(r, s) # [t |-> "garbage"]
            BY Kinds
        <3> QED  BY <3>1, <3>2
    <2>4. CASE \E m \in Answered : m.t # "reg" /\ res' = Append(res, m)
        <3>1. PICK m \in Answered : m.t # "reg" /\ res' = Append(res, m)
            BY <2>4
        <3>2. /\ \A x : Has(res', x) <=> Has(res, x) \/ x = m
              /\ \A a, b : Prior(res', a, b) <=> Prior(res, a, b) \/ (Has(res, a) /\ b = m)
            BY <1>0, <3>1, SentLast
        <3>3. \A r, s : Reg(r, s) # m
            BY <3>1, Kinds
        <3> QED  BY <3>2, <3>3
    <2> QED  BY <2>1, <2>2, <2>3, <2>4 DEF ReadQuietly
<1>2. Cmd
    <2>1. CASE cmd' = <<>>
        BY <2>1, NothingThere
    <2>2. CASE cmd # <<>> /\ cmd' = Tail(cmd)
        BY <1>0, <2>2, ReadFirst
    <2>3. CASE \E m \in Commands : m.t # "ack" /\ cmd' = Append(cmd, m)
        <3>1. PICK m \in Commands : m.t # "ack" /\ cmd' = Append(cmd, m)
            BY <2>3
        <3>2. /\ \A x : Has(cmd', x) <=> Has(cmd, x) \/ x = m
              /\ \A a, b : Prior(cmd', a, b) <=> Prior(cmd, a, b) \/ (Has(cmd, a) /\ b = m)
            BY <1>0, <3>1, SentLast
        <3>3. \A r, s : Ack(r, s) # m
            BY <3>1, Kinds
        <3> QED  BY <3>2, <3>3
    <2> QED  BY <2>1, <2>2, <2>3 DEF SendQuietly
<1> QED  BY <1>1, <1>2 DEF NoNews

\* The owner reads and sends nothing about an object, or it records the
\* registration that comes next and may acknowledge it.
Quietly ==
    /\ own'.registry = own.registry /\ wk'.ents = wk.ents /\ wk'.src = wk.src
    /\ ReadQuietly /\ SendQuietly /\ Turns

Records ==
    /\ RegistrationComes /\ own'.registry = Recorded(Head(res)) /\ res' = Tail(res) /\ wk' = wk
    /\ cmd' = cmd \/ cmd' = Append(cmd, Ack(Head(res).role, Head(res).state))

\* The owner's steps bring no news of an object, or record one registration and either
\* acknowledge it or give it up.
LEMMA OwnerMessages ==
    ASSUME Shape, Ground, Post, Owner
    PROVE  Quietly \/ Records
<1>0. OwnShape(own) /\ objs' = objs /\ own.registry \in [Roles -> States] /\ Place /\ WkShape(wk)
    BY OwnerRest DEF Shape, OwnShape, Ground
<1>s. ASSUME own'.registry = own.registry, wk' = wk, ReadQuietly, SendQuietly
      PROVE  Quietly
    BY <1>s DEF Quietly, Turns
<1>r. RegistrationComes /\ own'.registry = Recorded(Head(res)) /\ res' = Tail(res) /\ wk' = wk /\ cmd' = cmd => Records
    BY DEF Records
<1>1. CASE EvidenceStart
    <2>1. own'.registry = own.registry
        BY <1>0, <1>1, GoMoves DEF EvidenceStart, Unwind
    <2>2. CASE wk' = wk
        BY <1>s, <1>1, <2>1, <2>2 DEF EvidenceStart, ReadQuietly, SendQuietly
    <2>3. CASE wk' = [wk EXCEPT !.pc = "boot"]
        <3>1. wk.pc = "none"
            BY <1>0, <1>1 DEF EvidenceStart, Place
        <3>2. wk'.ents = wk.ents /\ wk'.src = wk.src /\ wk'.pc = "boot" /\ wk'.op = wk.op /\ wk'.wait = wk.wait
            BY <1>0, <2>3 DEF WkShape
        <3>3. ReadQuietly /\ SendQuietly
            BY <1>1 DEF EvidenceStart, ReadQuietly, SendQuietly
        <3> QED  BY <2>1, <3>1, <3>2, <3>3 DEF Quietly, Turns, Post, Hand
    <2> QED  BY <1>1, <2>2, <2>3 DEF EvidenceStart
<1>2. CASE Register
    <2>1. own'.registry = Recorded(Head(res))
        BY <1>0, <1>2 DEF Register, OwnShape
    <2>2. cmd' = Append(cmd, Ack(Head(res).role, Head(res).state))
        BY <1>2 DEF Register, Ack
    <2> QED  BY <1>0, <1>2, <2>1, <2>2 DEF Register, Records
<1>3. CASE EvidenceReady
    <2>1. own'.registry = own.registry
        BY <1>0, <1>3, GoMoves DEF EvidenceReady, Unwind
    <2> QED  BY <1>s, <1>3, <2>1 DEF EvidenceReady, ReadQuietly, SendQuietly
<1>4. CASE Action
    <2>1. own'.registry = own.registry
        BY <1>0, <1>4, GoMoves DEF Action, Unwind
    <2> QED  BY <1>s, <1>4, <2>1 DEF Action, ReadQuietly, SendQuietly
<1>5. CASE ActionDone
    <2>1. own'.registry = own.registry
        BY <1>0, <1>5, GoMoves DEF ActionDone, Finish
    <2> QED  BY <1>s, <1>5, <2>1 DEF ActionDone, ReadQuietly, SendQuietly
<1>6. CASE ActionLost
    <2>1. own'.registry = own.registry
        BY <1>0, <1>6, GoMoves DEF ActionLost, Finish
    <2> QED  BY <1>s, <1>6, <2>1 DEF ActionLost, ReadQuietly, SendQuietly
<1>7. CASE GuestInit
    <2>1. own'.registry = own.registry
        BY <1>0, <1>7, GoMoves DEF GuestInit, Unwind
    <2>2. Op("guest") \in Commands /\ Op("guest").t = "op" /\ (Command("guest") => cmd' = Append(cmd, Op("guest")))
        BY Messages, Kinds DEF OwnerOps, Command, Op
    <2>3. SendQuietly
        BY <1>7, <2>2 DEF GuestInit, SendQuietly
    <2> QED  BY <1>s, <1>7, <2>1, <2>3 DEF GuestInit, ReadQuietly
<1>8. CASE GuestReady
    <2>1. own'.registry = own.registry
        BY <1>0, <1>8, GoMoves DEF GuestReady, Unwind
    <2> QED  BY <1>s, <1>8, <2>1 DEF GuestReady, ReadQuietly, SendQuietly
<1>9. CASE HostFork
    <2>1. own'.registry = own.registry
        BY <1>0, <1>9, GoMoves DEF HostFork, Unwind
    <2> QED  BY <1>s, <1>9, <2>1 DEF HostFork, ReadQuietly, SendQuietly
<1>10. CASE RegisterTransport
    <2>1. own'.registry = own.registry
        BY <1>0, <1>10, GoMoves DEF RegisterTransport
    <2> QED  BY <1>s, <1>10, <2>1 DEF RegisterTransport, ReadQuietly, SendQuietly
<1>11. CASE HostCancel
    <2>1. own'.registry = own.registry
        BY <1>0, <1>11, GoMoves DEF HostCancel
    <2> QED  BY <1>s, <1>11, <2>1 DEF HostCancel, ReadQuietly, SendQuietly
<1>12. CASE HostDone
    <2>1. own'.registry = own.registry
        BY <1>0, <1>12 DEF HostDone, HostEnd, OwnShape
    <2> QED  BY <1>s, <1>12, <2>1 DEF HostDone, ReadQuietly, SendQuietly
<1>13. CASE HostLost
    <2>0. \A f, report, registry : HostEnd(f, report, registry) => own'.registry = registry
        BY <1>0 DEF HostEnd, OwnShape
    <2>1. \/ own'.registry = own.registry /\ res' = res
          \/ own'.registry = own.registry /\ res # <<>> /\ res' = [res EXCEPT ![1] = [t |-> "garbage"]]
          \/ RegistrationComes /\ own'.registry = Recorded(Head(res)) /\ res' = Tail(res)
        BY <1>13, <2>0, Zenon DEF HostLost
    <2>2. wk' = wk /\ cmd' = cmd
        BY <1>13 DEF HostLost
    <2> QED  BY <1>s, <1>r, <2>1, <2>2 DEF ReadQuietly, SendQuietly
<1>14. CASE UnwindBegins
    <2>1. own'.registry = own.registry
        BY <1>0, <1>14 DEF UnwindBegins, OwnShape
    <2> QED  BY <1>s, <1>14, <2>1 DEF UnwindBegins, World, ReadQuietly, SendQuietly
<1>15. CASE Clean
    <2>1. own'.registry = own.registry
        BY <1>0, <1>15, GoMoves, CleanedShape DEF Clean
    <2>2. \E op \in OwnerOps : op = CleanOp(own.pc)
        BY DEF CleanOp, OwnerOps
    <2>3. \A op \in OwnerOps : Op(op) \in Commands /\ Op(op).t = "op" /\ (Command(op) => cmd' = Append(cmd, Op(op)))
        BY Messages, Kinds DEF Command, Op
    <2>4. SendQuietly
        BY <1>15, <2>2, <2>3 DEF Clean, SendQuietly
    <2> QED  BY <1>s, <1>15, <2>1, <2>4 DEF Clean, ReadQuietly
<1>16. CASE CleanDone
    <2>1. own'.registry = own.registry
        <3>1. \E status \in {"unconfirmed", "complete"} : own' = Cleaned(status)
            BY <1>16 DEF CleanDone
        <3> QED  BY <1>0, <1>16, <3>1, CleanedShape DEF CleanDone
    <2> QED  BY <1>s, <1>16, <2>1 DEF CleanDone, ReadQuietly, SendQuietly
<1>17. CASE WaitLost
    <2>1. GivenUp.registry = own.registry /\ OwnShape(GivenUp)
        <3>1. CASE own.pc \in CleanWaits
            BY <1>0, <1>17, <3>1, GivenUpShape, CleanedShape DEF WaitLost
        <3>2. CASE own.pc \notin CleanWaits
            BY <1>0, <1>17, <3>2, GivenUpShape DEF WaitLost, OwnShape
        <3> QED  BY <3>1, <3>2
    <2>2. \/ own'.registry = own.registry /\ res' \in {res, <<>>}
          \/ RegistrationComes /\ own'.registry = Recorded(Head(res)) /\ res' = Tail(res)
        BY <1>17, <2>1 DEF WaitLost, OwnShape
    <2>3. wk' = wk /\ cmd' = cmd
        BY <1>17 DEF WaitLost
    <2> QED  BY <1>s, <1>r, <2>2, <2>3 DEF ReadQuietly, SendQuietly
<1>18. CASE Stop
    <2>1. own'.registry = own.registry
        BY <1>0, <1>18, GoMoves DEF Stop, OwnShape
    <2> QED  BY <1>s, <1>18, <2>1 DEF Stop, ReadQuietly, SendQuietly
<1>19. CASE Stopped
    <2>1. own'.registry = own.registry
        BY <1>0, <1>19 DEF Stopped, OwnShape
    <2> QED  BY <1>s, <1>19, <2>1 DEF Stopped, ReadQuietly, SendQuietly
<1>20. CASE StopLost
    <2>1. own'.registry = own.registry
        BY <1>0, <1>20, GoMoves DEF StopLost
    <2> QED  BY <1>s, <1>20, <2>1 DEF StopLost, ReadQuietly, SendQuietly
<1>21. CASE Freeze
    <2>1. own'.registry = own.registry
        BY <1>0, <1>21 DEF Freeze, Frozen, OwnShape
    <2> QED  BY <1>s, <1>21, <2>1 DEF Freeze, World, ReadQuietly, SendQuietly
<1>22. CASE Commit
    <2>1. own'.registry = own.registry
        BY <1>0, <1>22, GoMoves DEF Commit
    <2>2. SendQuietly
        BY <1>0, <1>22, CommitmentShape DEF Commit, SendQuietly
    <2> QED  BY <1>s, <1>22, <2>1, <2>2 DEF Commit, ReadQuietly
<1>23. CASE Receipt
    <2>1. res # <<>> /\ res' = Tail(res) /\ wk' = wk /\ cmd' = cmd
        BY <1>23 DEF Receipt
    <2>2. \/ own'.registry = own.registry
          \/ RegistrationComes /\ own'.registry = Recorded(Head(res))
        BY <1>0, <1>23 DEF Receipt, RegistrationComes, OwnShape
    <2> QED  BY <1>s, <1>r, <2>1, <2>2 DEF ReadQuietly, SendQuietly
<1>24. CASE ReceiptLost
    <2>1. own'.registry = own.registry
        BY <1>0, <1>24, GoMoves DEF ReceiptLost
    <2> QED  BY <1>s, <1>24, <2>1 DEF ReceiptLost, ReadQuietly, SendQuietly, World
<1>25. CASE Reap
    <2>1. own'.registry = own.registry
        BY <1>0, <1>25 DEF Reap, OwnShape
    <2>2. ReadQuietly /\ SendQuietly
        BY <1>25 DEF Reap, ReadQuietly, SendQuietly
    <2>3. CASE wk' = wk
        BY <1>s, <2>1, <2>2, <2>3
    <2>4. CASE wk' # wk
        <3>1. \E pc : wk' = WkAt(pc) /\ (pc = wk.pc \/ pc \in {"dead", "stuck"}) /\ (pc \notin {"dead", "stuck"} => ~WorkerLive)
            BY <1>25, <2>4 DEF Reap
        <3>2. /\ wk'.ents = wk.ents /\ wk'.src = wk.src /\ wk'.op = "none" /\ ~wk'.wait
              /\ wk'.pc \in {"dead", "stuck", wk.pc} /\ (wk'.pc \notin {"dead", "stuck"} => wk.pc \in {"none", "dead", "done"})
            BY <3>1, AtEffect DEF WorkerLive
        <3>3. Turns
            BY <3>2 DEF Turns
        <3> QED  BY <2>1, <2>2, <3>2, <3>3 DEF Quietly
    <2> QED  BY <2>3, <2>4
<1>26. CASE Report
    <2>1. own'.registry = own.registry
        BY <1>0, <1>26, GoMoves DEF Report
    <2> QED  BY <1>s, <1>26, <2>1 DEF Report, ReadQuietly, SendQuietly
<1> QED  BY <1>1, <1>2, <1>3, <1>4, <1>5, <1>6, <1>7, <1>8, <1>9, <1>10, <1>11, <1>12, <1>13, <1>14, <1>15, <1>16, <1>17, <1>18, <1>19, <1>20, <1>21, <1>22, <1>23, <1>24, <1>25, <1>26 DEF Owner

\* Every step of the owner keeps registrations and acknowledgements in order.
LEMMA OwnerPost ==
    ASSUME Shape, Ground, Post, Owner
    PROVE  Post'
<1>1. objs' = objs
    BY OwnerRest
<1>2. CASE Quietly
    BY <1>1, <1>2, QuietPipes, StillPost DEF Quietly, OnlyIntended
<1>3. CASE Records
    BY <1>1, <1>3, RecordPost DEF Records
<1> QED  BY <1>2, <1>3, OwnerMessages

\* What each operation walks.
LEMMA WalkSets ==
    /\ ToSet(Walk("guest")) = Guest /\ ToSet(Walk("guest-cleanup")) = Guest
    /\ ToSet(Walk("host-cleanup")) = HostRoles
    /\ ToSet(<<Root>>) = {Root} /\ ToSet(<<Source>>) = {Source} /\ ToSet(<<>>) = {}
<1>1. ToSet(Reverse(GuestRoles)) = Guest
    BY RolesOfGuest, Backwards DEF Guest
<1>2. ToSet(<<Source, Root>>) = {Root, Source}
    BY DEF ToSet
<1>3. ASSUME NEW x  PROVE ToSet(<<x>>) = {x}
    <2>1. DOMAIN <<x>> = {1} /\ <<x>>[1] = x
        OBVIOUS
    <2> QED  BY <2>1 DEF ToSet
<1>4. ToSet(<<>>) = {}
    <2>1. DOMAIN <<>> = {}
        OBVIOUS
    <2> QED  BY <2>1 DEF ToSet
<1> QED  BY <1>1, <1>2, <1>3, <1>4 DEF Walk, Guest, HostRoles

\* An operation that meets an error leaves its object as it is.
LEMMA OpErrorPost ==
    ASSUME Shape, Post, wk.pc = "work", OpError, wk.op \in {"guest-cleanup", "host-cleanup"} => wk.todo # <<>>,
           own' = own, SendQuietly, OnlyIntended
    PROVE  Post' /\ wk'.ents = wk.ents /\ wk'.src = wk.src /\ NoNews
<1>1. /\ WkShape(wk') /\ wk'.ents = wk.ents /\ wk'.src = wk.src
      /\ \/ wk'.pc = "idle" /\ wk'.op = "none" /\ wk'.todo = <<>>
         \/ /\ wk.op \in {"guest-cleanup", "host-cleanup"}
            /\ wk'.pc = "work" /\ wk'.op = wk.op /\ wk'.step = "remove" /\ wk'.wait = FALSE
            /\ wk'.todo \in {<<>>, Tail(wk.todo)} /\ wk.todo # <<>>
      /\ ReadQuietly
    BY OpErrorEffect DEF ReadQuietly
<1>2. CASE wk'.pc = "idle" /\ wk'.op = "none"
    <2>1. ~wk'.wait
        <3>1. wk' = WkAt("idle") \/ wk'.pc = "work"
            BY OpErrorEffect, OnwardFields DEF OpError, Replied, WkShape
        <3> QED  BY <1>2, <3>1, AtEffect
    <2> QED  BY <1>1, <1>2, <2>1, QuietPipes, StillPost DEF Turns
<1>3. CASE /\ wk.op \in {"guest-cleanup", "host-cleanup"} /\ wk.todo # <<>>
           /\ wk'.pc = "work" /\ wk'.op = wk.op /\ wk'.step = "remove" /\ wk'.wait = FALSE
           /\ wk'.todo \in {<<>>, Tail(wk.todo)}
    <2>1. ToSet(Tail(wk.todo)) \subseteq ToSet(wk.todo) /\ ToSet(<<>>) \subseteq ToSet(wk.todo)
        <3>1. wk.todo \in Seq(Roles) /\ IsInjective(wk.todo)
            BY DEF Shape, WkShape
        <3>2. ToSet(wk.todo) = {Head(wk.todo)} \cup ToSet(Tail(wk.todo))
            BY <1>3, <3>1, FirstAndRest
        <3> QED  BY <3>2, WalkSets
    <2>2. ToSet(wk.todo) \subseteq Of(wk.op)
        BY <1>3 DEF Post, Hand
    <2>3. ToSet(wk'.todo) \subseteq Of(wk'.op)
        <3>1. CASE wk'.todo = <<>>
            BY <1>3, <2>1, <2>2, <3>1
        <3>2. CASE wk'.todo = Tail(wk.todo)
            BY <1>3, <2>1, <2>2, <3>2
        <3> QED  BY <1>3, <3>1, <3>2
    <2> QED  BY <1>1, <1>3, <2>3, QuietPipes, StillPost DEF Turns
<1> QED  BY <1>1, <1>2, <1>3

\* Every step of the worker keeps registrations and acknowledgements in order.
LEMMA WorkerPost ==
    ASSUME Shape, Post, GuestOnce, Worker
    PROVE  Post'
<1>0. /\ own' = own /\ Hand /\ WkShape(wk) /\ cmd \in Seq(Commands) /\ res \in Seq(Answered)
    BY WorkerRest DEF Post, Shape, PipeShape
<1>i. wk.pc # "work" => wk.op = "none" /\ ~wk.wait
    BY <1>0 DEF Hand
<1>q. ASSUME wk'.ents = wk.ents, wk'.src = wk.src, ReadQuietly, SendQuietly, Turns, objs' = objs
      PROVE  Post'
    BY <1>0, <1>q, QuietPipes, StillPost DEF OnlyIntended
<1>a. ASSUME NEW pc, wk' = WkAt(pc), pc \notin {"none", "boot", "work"}
      PROVE  wk'.ents = wk.ents /\ wk'.src = wk.src /\ Turns
    BY <1>a, AtEffect DEF Turns
<1>1. CASE WkBoot
    <2>1. CASE Starts("host", <<Root>>) /\ res' = res
        <3>1. <<Root>> \in Seq(Roles) /\ IsInjective(<<Root>>) /\ Root \in Roles
            BY RolesOfGuest DEF IsInjective, HostRoles
        <3>2. /\ WkShape(wk') /\ wk'.pc = "work" /\ wk'.op = "host" /\ wk'.todo = <<Root>> /\ wk'.step = "intent"
              /\ wk'.wait = wk.wait /\ wk'.ents = wk.ents /\ wk'.src = wk.src
            BY <2>1, <3>1, StartEffect DEF First
        <3>3. wk.pc = "boot" /\ objs' = objs /\ ~wk.wait /\ Clear(Root)
            BY <1>0, <1>1, <1>i, <3>1 DEF WkBoot, Hand
        <3>4. NoNews
            BY <1>1, <2>1, QuietPipes DEF WkBoot, ReadQuietly, SendQuietly
        <3>5. ToSet(wk'.todo) = {Root} /\ Of(wk'.op) = {Root}
            BY <3>2, WalkSets DEF Of
        <3> QED  BY <1>0, <3>2, <3>3, <3>4, <3>5, StartPost
    <2>2. CASE /\ wk' = WkAt("idle") \/ wk' = WkAt("dead")
               /\ \E m \in Answered : m.t # "reg" /\ res' = Append(res, m)
        BY <1>1, <1>a, <1>q, <2>2 DEF WkBoot, ReadQuietly, SendQuietly
    <2>3. [t |-> "ready", attempt |-> TRUE, ok |-> TRUE] \in Answered
          /\ [t |-> "ready", attempt |-> FALSE, ok |-> FALSE] \in Answered
        BY Messages
    <2> QED  BY <1>1, <2>1, <2>2, <2>3 DEF WkBoot, Dies
<1>2. CASE WkEvent
    BY <1>0, <1>2, EventPost DEF WkEvent
<1>3. CASE WkAck
    <2>1. /\ wk.pc = "work" /\ wk.wait /\ wk.todo # <<>> /\ cmd # <<>> /\ cmd' = Tail(cmd) /\ objs' = objs
          /\ \/ Head(cmd) = Ack(Role, wk.step) /\ wk' = Acknowledged /\ res' = res
             \/ OpError
        BY <1>0, <1>3, AnswerEffect DEF WkAck
    <2>2. CASE OpError
        BY <1>0, <2>1, <2>2, OpErrorPost DEF SendQuietly, OnlyIntended
    <2> QED  BY <1>0, <2>1, <2>2, AckPost
<1>4. CASE WkAckLost
    <2>1. wk.pc = "work" /\ wk.todo # <<>> /\ OpError /\ cmd' = cmd /\ objs' = objs
        BY <1>0, <1>4 DEF WkAckLost, Hand
    <2> QED  BY <1>0, <2>1, OpErrorPost DEF SendQuietly, OnlyIntended
<1>5. CASE WkMake
    <2>1. Working /\ wk.pc = "work" /\ wk.todo # <<>> /\ ~wk.wait /\ wk.step = "make" /\ cmd' = cmd
        BY <1>5 DEF WkMake, Working
    <2>2. PICK r \in Roles : r = Role
        BY <2>1, OnwardFields
    <2>3. wk.ents[r] = "intent" /\ own.registry[r] = "intent"
        BY <1>0, <2>1, <2>2 DEF Hand, InHand
    <2>4. CASE OpError /\ objs' \in {objs, objs \cup {r}}
        BY <1>0, <2>1, <2>3, <2>4, OpErrorPost DEF SendQuietly, OnlyIntended
    <2>5. CASE wk' = [wk EXCEPT !.step = "bound"] /\ objs' = objs \cup {r} /\ res' = res
        <3>1. /\ WkShape(wk') /\ SameOp /\ wk'.todo = wk.todo /\ wk'.wait = wk.wait /\ wk'.ents = wk.ents
              /\ wk'.src = wk.src /\ wk'.step = "bound"
            BY <1>0, <2>5 DEF WkShape, SameOp
        <3> QED  BY <1>0, <2>1, <2>2, <2>5, <3>1, MakePost
    <2> QED  BY <1>5, <2>2, <2>4, <2>5 DEF WkMake
<1>6. CASE WkSkip
    <2>1. wk.pc = "work" /\ wk.todo # <<>> /\ wk.step = "remove" /\ wk' = Onward
        BY <1>6 DEF WkSkip, Working
    <2>2. First(wk.op) = "remove" /\ wk.op \in {"clean", "guest-cleanup", "host-cleanup"}
          /\ ToSet(wk.todo) \subseteq Of(wk.op) /\ (wk.op = "clean" => wk.src)
        BY <1>0, <2>1 DEF Hand, First
    <2>3. /\ wk'.pc = "work" /\ wk'.op = wk.op /\ wk'.todo = Tail(wk.todo) /\ wk'.step = "remove" /\ ~wk'.wait
          /\ wk'.ents = wk.ents /\ wk'.src = wk.src
        BY <2>1, <2>2, OnwardFields
    <2>4. ToSet(wk'.todo) \subseteq ToSet(wk.todo)
        BY <1>0, <2>1, <2>3, FirstAndRest DEF WkShape
    <2>5. Turns
        BY <2>2, <2>3, <2>4 DEF Turns
    <2> QED  BY <1>6, <1>q, <2>3, <2>5 DEF WkSkip, ReadQuietly, SendQuietly
<1>7. CASE WkRemove
    <2>1. Working /\ wk.pc = "work" /\ wk.todo # <<>> /\ ~wk.wait /\ wk.step = "remove" /\ cmd' = cmd
        BY <1>7 DEF WkRemove, Working
    <2>2. PICK r \in Roles : r = Role
        BY <2>1, OnwardFields
    <2>3. CASE OpError /\ objs' = objs
        BY <1>0, <2>1, <2>3, OpErrorPost DEF SendQuietly, OnlyIntended
    <2>4. CASE wk.ents[r] = "bound" /\ wk' = [wk EXCEPT !.step = "cleaned"] /\ objs' = objs \ {r} /\ res' = res
        <3>1. /\ WkShape(wk') /\ SameOp /\ wk'.todo = wk.todo /\ wk'.wait = wk.wait /\ wk'.ents = wk.ents
              /\ wk'.src = wk.src /\ wk'.step = "cleaned"
            BY <1>0, <2>4 DEF WkShape, SameOp
        <3> QED  BY <1>0, <2>1, <2>2, <2>4, <3>1, MakePost
    <2> QED  BY <1>7, <2>2, <2>3, <2>4 DEF WkRemove
<1>8. CASE WkDone
    <2>1. wk.pc = "work" /\ wk.todo = <<>> /\ cmd' = cmd /\ objs' = objs
        BY <1>8 DEF WkDone, Replied
    <2>2. CASE wk.op \in {"host", "guest", "stage"} /\ OpError
        BY <1>0, <2>1, <2>2, OpErrorPost DEF SendQuietly, OnlyIntended
    <2>3. CASE /\ wk' = WkAt("idle")
               /\ \/ res' = res
                  \/ res' = Append(res, [t |-> "ready", attempt |-> TRUE, ok |-> TRUE])
                  \/ wk.op \in OwnerOps /\ res' = Append(res, [t |-> "done", op |-> wk.op, errs |-> wk.errs])
        <3>1. ReadQuietly
            <4>1. [t |-> "ready", attempt |-> TRUE, ok |-> TRUE] \in Answered
                BY Messages
            <4>2. wk.op \in OwnerOps => [t |-> "done", op |-> wk.op, errs |-> wk.errs] \in Answered
                BY <1>0, Messages DEF WkShape
            <4> QED  BY <2>3, <4>1, <4>2 DEF ReadQuietly
        <3> QED  BY <1>a, <1>q, <2>1, <2>3, <3>1 DEF SendQuietly
    <2>4. wk.op \in {"host", "guest", "stage", "clean", "guest-cleanup", "host-cleanup"}
        BY <1>0, <2>1 DEF Hand
    <2> QED  BY <1>8, <2>2, <2>3, <2>4 DEF WkDone, Replied, OwnerOps
<1>9. CASE WkCommand
    <2>0. wk.pc = "idle" /\ res' = res /\ objs' = objs /\ (cmd' = cmd \/ (cmd # <<>> /\ cmd' = Tail(cmd)))
        BY <1>9 DEF WkCommand
    <2>1. SendQuietly /\ ReadQuietly /\ NoNews
        BY <2>0, QuietPipes DEF SendQuietly, ReadQuietly
    <2>2. \/ cmd # <<>> /\ Head(cmd).t = "op" /\ Starts(Head(cmd).op, Walk(Head(cmd).op))
          \/ wk' = [wk EXCEPT !.pc = "persist", !.sent = Head(cmd)]
          \/ wk' = WkAt("dead")
        BY <1>9, Zenon DEF WkCommand, Dies
    <2>3. CASE cmd # <<>> /\ Head(cmd).t = "op" /\ Starts(Head(cmd).op, Walk(Head(cmd).op))
        <3>1. PICK op \in OwnerOps : Head(cmd) = Op(op) /\ Starts(op, Walk(op)) /\ OpIn(op)
            <4>1. Head(cmd) \in Commands /\ Has(cmd, Head(cmd))
                BY <1>0, <2>3, ReadFirst
            <4> QED  BY <2>3, <4>1, Ordering DEF OpIn
        <3>2. /\ WkShape(wk') /\ wk'.pc = "work" /\ wk'.op = op /\ wk'.todo = Walk(op) /\ wk'.step = First(op)
              /\ ~wk'.wait /\ wk'.ents = wk.ents /\ wk'.src = wk.src
            BY <1>i, <2>0, <3>1, Walks, StartEffect
        <3>3. CASE op = "guest"
            <4>1. \A r \in Guest : Clear(r)
                BY <3>1, <3>3 DEF GuestOnce
            <4>2. ToSet(wk'.todo) = Guest /\ Of("guest") = Guest /\ First("guest") = "intent"
                BY <3>2, <3>3, WalkSets DEF Of, First
            <4> QED  BY <1>0, <2>0, <2>1, <3>2, <3>3, <4>1, <4>2, StartPost
        <3>4. CASE op \in {"guest-cleanup", "host-cleanup"}
            <4>1. ToSet(wk'.todo) \subseteq Of(op) /\ First(op) = "remove"
                BY <3>2, <3>4, WalkSets DEF Of, First
            <4>2. Turns
                BY <3>2, <3>4, <4>1 DEF Turns
            <4> QED  BY <1>q, <2>0, <2>1, <3>2, <4>2
        <3> QED  BY <3>3, <3>4 DEF OwnerOps
    <2>4. CASE wk' = [wk EXCEPT !.pc = "persist", !.sent = Head(cmd)]
        <3>1. wk'.pc = "persist" /\ wk'.op = wk.op /\ wk'.wait = wk.wait /\ wk'.ents = wk.ents /\ wk'.src = wk.src
            BY <1>0, <2>4 DEF WkShape
        <3> QED  BY <1>i, <1>q, <2>0, <2>1, <3>1 DEF Turns
    <2> QED  BY <1>a, <1>q, <2>0, <2>1, <2>2, <2>3, <2>4
<1>10. CASE WkStage
    <2>0. wk.pc = "idle" /\ res' = res /\ cmd' = cmd /\ objs' = objs
        BY <1>10 DEF WkStage, Replied
    <2>1. SendQuietly /\ ReadQuietly /\ NoNews
        BY <2>0, QuietPipes DEF SendQuietly, ReadQuietly
    <2>2. CASE wk' = wk
        BY <1>q, <2>0, <2>1, <2>2 DEF Turns
    <2>3. CASE /\ (net.stage = "stage") = ~wk.src /\ net.stage \in {"stage", "clean"}
               /\ wk' = [wk EXCEPT !.pc = "work", !.op = net.stage, !.todo = <<Source>>,
                                   !.step = First(net.stage), !.src = TRUE]
        <3>1. <<Source>> \in Seq(Roles) /\ IsInjective(<<Source>>)
            BY RolesOfGuest DEF IsInjective
        <3>2. /\ WkShape(wk') /\ wk'.pc = "work" /\ wk'.op = net.stage /\ wk'.todo = <<Source>>
              /\ wk'.step = First(net.stage) /\ wk'.wait = wk.wait /\ wk'.ents = wk.ents /\ wk'.src = TRUE
            BY <1>0, <2>3, <3>1 DEF WkShape
        <3>3. ToSet(wk'.todo) = {Source} /\ Of(net.stage) = {Source}
            BY <2>3, <3>2, WalkSets DEF Of
        <3>4. CASE net.stage = "stage"
            <4>1. Clear(Source)
                BY <1>0, <2>3, <3>4 DEF Hand, WkShape
            <4>2. First("stage") = "intent"
                BY DEF First
            <4> QED  BY <1>0, <1>i, <2>0, <2>1, <3>2, <3>3, <3>4, <4>1, <4>2, StartPost
        <3>5. CASE net.stage = "clean"
            <4>1. wk.src = TRUE
                BY <1>0, <2>3, <3>5 DEF WkShape
            <4>2. First("clean") = "remove"
                BY DEF First
            <4>3. Turns
                BY <1>i, <2>0, <3>2, <3>3, <3>5, <4>1, <4>2 DEF Turns
            <4> QED  BY <1>q, <2>0, <2>1, <3>2, <4>1, <4>3
        <3> QED  BY <2>3, <3>4, <3>5
    <2> QED  BY <1>10, <2>2, <2>3 DEF WkStage, Replied
<1>11. CASE WkPersist
    <2>1. ReadQuietly /\ SendQuietly /\ objs' = objs
        <3>1. [t |-> "receipt", passed |-> disk] \in Answered
            BY Messages DEF Shape
        <3> QED  BY <1>11, <3>1 DEF WkPersist, ReadQuietly, SendQuietly
    <2>2. CASE wk' = WkAt("done")
        BY <1>a, <1>q, <2>1, <2>2
    <2>3. ASSUME NEW pc \in {"seal", "answer"}, wk' = [wk EXCEPT !.pc = pc], wk.pc # "work"
          PROVE  Post'
        <3>1. wk'.pc = pc /\ wk'.op = wk.op /\ wk'.wait = wk.wait /\ wk'.ents = wk.ents /\ wk'.src = wk.src
            BY <1>0, <2>3 DEF WkShape
        <3> QED  BY <1>i, <1>q, <2>1, <2>3, <3>1 DEF Turns
    <2> QED  BY <1>11, <2>2, <2>3 DEF WkPersist
<1>12. CASE WkPersistFails
    <2>1. ReadQuietly /\ SendQuietly /\ objs' = objs
        BY <1>12, Messages DEF WkPersistFails, ReadQuietly, SendQuietly
    <2> QED  BY <1>12, <1>a, <1>q, <2>1 DEF WkPersistFails, Dies
<1>13. CASE WkFault
    <2>1. \E pc \in {"dead", "stuck"} : wk' = WkAt(pc)
        BY <1>13 DEF WkFault
    <2> QED  BY <1>13, <1>a, <1>q, <2>1 DEF WkFault, ReadQuietly, SendQuietly
<1> QED  BY <1>1, <1>2, <1>3, <1>4, <1>5, <1>6, <1>7, <1>8, <1>9, <1>10, <1>11, <1>12, <1>13 DEF Worker

\* Every step keeps registrations and acknowledgements in order.
LEMMA PostStep ==
    ASSUME Shape, Ground, Post, GuestOnce, [Next]_vars
    PROVE  Post'
<1>1. ASSUME UNCHANGED <<own, wk, objs, cmd, res>>
      PROVE  Post'
    <2>1. NoNews /\ Turns /\ OnlyIntended
        BY <1>1 DEF NoNews, Turns, OnlyIntended
    <2> QED  BY <1>1, <2>1, StillPost
<1>2. CASE Others
    BY <1>1, <1>2, OthersEffect
<1>3. CASE UNCHANGED vars
    BY <1>1, <1>3 DEF vars
<1> QED  BY <1>2, <1>3, OwnerPost, WorkerPost DEF Next, Others

\* The records of a new attempt have their shape.
LEMMA ShapeInit == Init => Shape
<1> SUFFICES ASSUME Init  PROVE Shape
    OBVIOUS
<1>1. <<>> \in Seq(Roles) /\ <<>> \in Seq(Commands) /\ <<>> \in Seq(Answered) /\ IsInjective(<<>>)
    BY DEF IsInjective
<1>2. OwnShape(own)
    BY DEF Init, OwnShape, OwnerStages, States
<1>3. WkShape(wk)
    BY <1>1 DEF Init, WkShape, States
<1> QED  BY <1>1, <1>2, <1>3 DEF Init, Shape, PipeShape, Disks

\* No object has a trace in a new attempt.
LEMMA PostInit == Init => Post
<1> SUFFICES ASSUME Init  PROVE Post
    OBVIOUS
<1>1. cmd = <<>> /\ res = <<>> /\ objs = {} /\ wk.pc = "none" /\ wk.op = "none" /\ ~wk.wait /\ ~wk.src
      /\ \A r \in Roles : own.registry[r] = "none" /\ wk.ents[r] = "none"
    BY DEF Init
<1>2. \A r \in Roles : Clear(r)
    BY <1>1, NothingThere DEF Clear, Quiet, RegIn, AckIn
<1>3. Ordered
    BY <1>1, NothingThere DEF Ordered, RegIn, AckIn
<1>4. Mail
    BY <1>1, NothingThere DEF Mail, RegIn, AckIn
<1>5. Hand
    BY <1>1, <1>2, RolesOfGuest DEF Hand, InHand, HostRoles
<1> QED  BY <1>3, <1>4, <1>5 DEF Post

(***************************************************************************)
(* An object of which nothing is left stays so until it is registered anew. *)
(***************************************************************************)

\* The worker brings news of an object only by an event.
LEMMA WorkerMessages ==
    ASSUME Shape, Post, Worker
    PROVE  \/ WkEvent
           \/ wk'.ents = wk.ents /\ ReadQuietly /\ SendQuietly /\ OnlyIntended
<1>0. Hand /\ WkShape(wk) /\ disk \in Disks
    BY DEF Post, Shape
<1> DEFINE Silent == wk'.ents = wk.ents /\ ReadQuietly /\ SendQuietly /\ OnlyIntended
<1>e. ASSUME wk.pc = "work", OpError, wk.op \in {"guest-cleanup", "host-cleanup"} => wk.todo # <<>>
      PROVE  wk'.ents = wk.ents /\ ReadQuietly
    BY <1>e, OpErrorEffect DEF ReadQuietly
<1>1. CASE WkBoot
    <2>1. [t |-> "ready", attempt |-> TRUE, ok |-> TRUE] \in Answered
          /\ [t |-> "ready", attempt |-> FALSE, ok |-> FALSE] \in Answered
        BY Messages
    <2>2. ReadQuietly
        BY <1>1, <2>1 DEF WkBoot, ReadQuietly
    <2>3. wk'.ents = wk.ents
        <3>1. Starts("host", <<Root>>) \/ \E pc : wk' = WkAt(pc)
            BY <1>1, Zenon DEF WkBoot, Dies
        <3>2. <<Root>> \in Seq(Roles) /\ IsInjective(<<Root>>)
            BY RolesOfGuest DEF IsInjective
        <3> QED  BY <3>1, <3>2, StartEffect, AtEffect
    <2> QED  BY <1>1, <2>2, <2>3 DEF WkBoot, SendQuietly, OnlyIntended
<1>2. CASE WkAck
    <2>1. /\ wk.pc = "work" /\ wk.todo # <<>> /\ wk.step \in Events /\ cmd # <<>> /\ cmd' = Tail(cmd) /\ objs' = objs
          /\ (wk' = Acknowledged /\ res' = res) \/ OpError
        BY <1>0, <1>2, AnswerEffect DEF WkAck
    <2>2. wk'.ents = wk.ents /\ ReadQuietly
        BY <1>e, <2>1, AckEffect DEF ReadQuietly
    <2> QED  BY <2>1, <2>2 DEF SendQuietly, OnlyIntended
<1>3. CASE WkAckLost
    <2>1. wk.pc = "work" /\ wk.todo # <<>> /\ OpError /\ cmd' = cmd /\ objs' = objs
        BY <1>0, <1>3 DEF WkAckLost, Hand
    <2> QED  BY <1>e, <2>1 DEF SendQuietly, OnlyIntended
<1>4. CASE WkMake
    <2>1. /\ wk.pc = "work" /\ wk.todo # <<>> /\ ~wk.wait /\ wk.step = "make" /\ cmd' = cmd
          /\ objs' = objs \cup {Role} \/ objs' = objs
          /\ (wk' = [wk EXCEPT !.step = "bound"] /\ res' = res) \/ OpError
        BY <1>4 DEF WkMake, Working
    <2>2. PICK r \in Roles : r = Role
        BY <2>1, OnwardFields
    <2>3. wk.ents[r] = "intent" /\ own.registry[r] = "intent"
        BY <1>0, <2>1, <2>2 DEF Hand, InHand
    <2>4. OnlyIntended
        BY <2>1, <2>2, <2>3 DEF OnlyIntended
    <2>5. wk'.ents = wk.ents /\ ReadQuietly
        BY <1>0, <1>e, <2>1 DEF ReadQuietly, WkShape
    <2> QED  BY <2>1, <2>4, <2>5 DEF SendQuietly
<1>5. CASE WkSkip
    <2>1. wk'.ents = wk.ents
        BY <1>5, OnwardFields DEF WkSkip, Working
    <2> QED  BY <1>5, <2>1 DEF WkSkip, ReadQuietly, SendQuietly, OnlyIntended
<1>6. CASE WkRemove
    <2>1. /\ wk.pc = "work" /\ wk.todo # <<>> /\ cmd' = cmd
          /\ objs' = objs \ {Role} \/ objs' = objs
          /\ (wk' = [wk EXCEPT !.step = "cleaned"] /\ res' = res) \/ OpError
        BY <1>6 DEF WkRemove, Working
    <2>2. wk'.ents = wk.ents /\ ReadQuietly
        BY <1>0, <1>e, <2>1 DEF ReadQuietly, WkShape
    <2> QED  BY <2>1, <2>2 DEF SendQuietly, OnlyIntended
<1>7. CASE WkDone
    <2>1. wk.pc = "work" /\ wk.todo = <<>> /\ cmd' = cmd /\ objs' = objs
        BY <1>7 DEF WkDone, Replied
    <2>2. CASE wk.op \in {"host", "guest", "stage"} /\ OpError
        BY <1>e, <2>1, <2>2 DEF SendQuietly, OnlyIntended
    <2>3. CASE /\ wk' = WkAt("idle")
               /\ \/ res' = res
                  \/ res' = Append(res, [t |-> "ready", attempt |-> TRUE, ok |-> TRUE])
                  \/ wk.op \in OwnerOps /\ res' = Append(res, [t |-> "done", op |-> wk.op, errs |-> wk.errs])
        <3>1. [t |-> "ready", attempt |-> TRUE, ok |-> TRUE] \in Answered
            BY Messages
        <3>2. wk.op \in OwnerOps => [t |-> "done", op |-> wk.op, errs |-> wk.errs] \in Answered
            BY <1>0, Messages DEF WkShape
        <3> QED  BY <2>1, <2>3, <3>1, <3>2, AtEffect DEF ReadQuietly, SendQuietly, OnlyIntended
    <2>4. wk.op \in {"host", "guest", "stage", "clean", "guest-cleanup", "host-cleanup"}
        BY <1>0, <2>1 DEF Hand
    <2> QED  BY <1>7, <2>2, <2>3, <2>4 DEF WkDone, Replied, OwnerOps
<1>8. CASE WkCommand
    <2>1. res' = res /\ objs' = objs /\ (cmd' = cmd \/ (cmd # <<>> /\ cmd' = Tail(cmd)))
        BY <1>8 DEF WkCommand
    <2>2. (\E op : Starts(op, Walk(op))) \/ wk' = [wk EXCEPT !.pc = "persist", !.sent = Head(cmd)] \/ wk' = WkAt("dead")
        BY <1>8, Zenon DEF WkCommand, Dies
    <2>3. wk'.ents = wk.ents
        <3>1. CASE \E op : Starts(op, Walk(op))
            BY <3>1, Walks, StartEffect
        <3>2. CASE wk' = [wk EXCEPT !.pc = "persist", !.sent = Head(cmd)]
            BY <1>0, <3>2 DEF WkShape
        <3> QED  BY <2>2, <3>1, <3>2, AtEffect
    <2> QED  BY <2>1, <2>3 DEF ReadQuietly, SendQuietly, OnlyIntended
<1>9. CASE WkStage
    <2>1. wk'.ents = wk.ents
        BY <1>0, <1>9 DEF WkStage, Replied, WkShape
    <2> QED  BY <1>9, <2>1 DEF WkStage, Replied, ReadQuietly, SendQuietly, OnlyIntended
<1>10. CASE WkPersist
    <2>1. [t |-> "receipt", passed |-> disk] \in Answered
        BY <1>0, Messages
    <2>2. wk'.ents = wk.ents
        <3>1. wk' = WkAt("done") \/ wk' = [wk EXCEPT !.pc = "seal"] \/ wk' = [wk EXCEPT !.pc = "answer"]
            BY <1>10 DEF WkPersist
        <3>2. ASSUME NEW pc, wk' = [wk EXCEPT !.pc = pc]  PROVE wk'.ents = wk.ents
            BY <1>0, <3>2 DEF WkShape
        <3> QED  BY <3>1, <3>2, AtEffect
    <2> QED  BY <1>10, <2>1, <2>2 DEF WkPersist, ReadQuietly, SendQuietly, OnlyIntended
<1>11. CASE WkPersistFails
    BY <1>11, Messages, AtEffect DEF WkPersistFails, Dies, ReadQuietly, SendQuietly, OnlyIntended
<1>12. CASE WkFault
    BY <1>12, AtEffect DEF WkFault, ReadQuietly, SendQuietly, OnlyIntended
<1> QED  BY <1>1, <1>2, <1>3, <1>4, <1>5, <1>6, <1>7, <1>8, <1>9, <1>10, <1>11, <1>12 DEF Worker

\* The events the worker registers when it takes up an object with no trace.
LEMMA Creates ==
    ASSUME Shape, Post, WkEvent, NEW r \in Roles, Role = r
    PROVE  /\ r \in Of(wk.op) /\ InHand(r) /\ ~wk.wait
           /\ Clear(r) => wk.op \in {"host", "guest", "stage"} /\ wk'.ents[r] = "intent"
           /\ wk'.ents[r] = "none" => wk.step = "cleaned" /\ wk.op \in {"clean", "guest-cleanup", "host-cleanup"}
<1>1. /\ wk.pc = "work" /\ wk.todo # <<>> /\ ~wk.wait /\ wk.step \in Events /\ InHand(r)
      /\ wk'.ents = [wk.ents EXCEPT ![r] = IF wk.step = "cleaned" THEN "none" ELSE wk.step]
    BY EventEffect
<1>2. wk.ents \in [Roles -> States] /\ ToSet(wk.todo) = {r} \cup ToSet(Tail(wk.todo))
    BY <1>1, FirstAndRest DEF Shape, WkShape, Role
<1>3. /\ wk.op \in {"host", "guest", "stage", "clean", "guest-cleanup", "host-cleanup"}
      /\ ToSet(wk.todo) \subseteq Of(wk.op)
      /\ wk.step \in IF First(wk.op) = "intent" THEN {"intent", "make", "bound"} ELSE {"remove", "cleaned"}
    BY <1>1 DEF Post, Hand
<1>4. r \in Of(wk.op)
    BY <1>2, <1>3
<1>5. wk'.ents[r] = IF wk.step = "cleaned" THEN "none" ELSE wk.step
    BY <1>1, <1>2
<1>6. Clear(r) => wk.step = "intent"
    <2>1. ~(wk.step \in {"make", "bound"}) \/ wk.ents[r] = "intent"
        BY <1>1 DEF Post, Hand
    <2>2. wk.step # "cleaned" \/ wk.ents[r] = "bound"
        BY <1>1 DEF Post, Hand
    <2> QED  BY <1>1, <2>1, <2>2 DEF Clear, Events
<1>7. wk.step \in {"intent", "bound"} => wk.op \in {"host", "guest", "stage"}
    BY <1>3 DEF First
<1>8. wk.step = "cleaned" => wk.op \in {"clean", "guest-cleanup", "host-cleanup"}
    BY <1>3 DEF First
<1> QED  BY <1>1, <1>4, <1>5, <1>6, <1>7, <1>8 DEF Events

\* An object without a trace stays so until an event about it.
LEMMA ClearStays ==
    ASSUME Shape, Ground, Post, [Next]_vars, NEW r \in Roles, Clear(r), ~(WkEvent /\ Role = r)
    PROVE  Clear(r)'
<1>q. ASSUME NoNews, own'.registry[r] = own.registry[r], wk'.ents[r] = wk.ents[r], OnlyIntended
      PROVE  Clear(r)'
    <2>1. Quiet(r)'
        BY <1>q DEF Clear, Quiet, NoNews, RegIn, AckIn
    <2>2. r \notin objs'
        BY <1>q DEF Clear, OnlyIntended
    <2> QED  BY <1>q, <2>1, <2>2 DEF Clear
<1>1. CASE Owner
    <2>1. objs' = objs
        BY <1>1, OwnerRest
    <2>2. CASE Quietly
        BY <1>q, <2>1, <2>2, QuietPipes DEF Quietly, OnlyIntended
    <2>3. CASE Records
        <3>1. PICK q \in Roles, s \in Events :
                 /\ res # <<>> /\ Head(res) = Reg(q, s)
                 /\ Recorded(Head(res)) = [own.registry EXCEPT ![q] = IF s = "cleaned" THEN "none" ELSE s]
            BY <2>3, Recording DEF Records
        <3>2. cmd \in Seq(Commands) /\ res \in Seq(Answered) /\ own.registry \in [Roles -> States]
            BY DEF Shape, PipeShape, OwnShape
        <3>3. Has(res, Reg(q, s)) /\ \A m : Has(res', m) => Has(res, m)
            BY <2>3, <3>1, <3>2, ReadFirst DEF Records
        <3>4. q # r
            BY <3>3 DEF Clear, Quiet, RegIn
        <3>5. own'.registry[r] = own.registry[r] /\ wk' = wk
            BY <2>3, <3>1, <3>2, <3>4 DEF Records
        <3>6. cmd' = cmd \/ cmd' = Append(cmd, Ack(q, s))
            BY <2>3, <3>1, Kinds DEF Records
        <3>7. \A t : Has(cmd', Ack(r, t)) => Has(cmd, Ack(r, t))
            <4>1. \A t : Ack(r, t) # Ack(q, s)
                BY <3>4 DEF Ack
            <4>2. CASE cmd' = Append(cmd, Ack(q, s))
                BY <3>2, <4>1, <4>2, Messages, SentLast
            <4> QED  BY <3>6, <4>2
        <3>8. Quiet(r)'
            BY <3>3, <3>7 DEF Clear, Quiet, RegIn, AckIn
        <3> QED  BY <2>1, <3>5, <3>8 DEF Clear
    <2> QED  BY <1>1, <2>2, <2>3, OwnerMessages
<1>2. CASE WkEvent
    <2>1. /\ Role \in Roles /\ res' = Append(res, Reg(Role, wk.step)) /\ cmd' = cmd /\ wk.step \in Events
          /\ wk'.ents = [wk.ents EXCEPT ![Role] = IF wk.step = "cleaned" THEN "none" ELSE wk.step]
        BY <1>2, EventEffect
    <2>2. own' = own /\ objs' = objs
        BY <1>2 DEF WkEvent
    <2>3. wk'.ents[r] = wk.ents[r]
        BY <1>2, <2>1 DEF Shape, WkShape
    <2>4. \A t : Reg(r, t) # Reg(Role, wk.step)
        BY <1>2 DEF Reg
    <2>5. \A t : Has(res', Reg(r, t)) => Has(res, Reg(r, t))
        BY <2>1, <2>4, Messages, SentLast DEF Shape, PipeShape
    <2>6. Quiet(r)'
        BY <2>1, <2>5 DEF Clear, Quiet, RegIn, AckIn
    <2> QED  BY <2>2, <2>3, <2>6 DEF Clear
<1>3. CASE Worker /\ ~WkEvent
    <2>1. wk'.ents = wk.ents /\ NoNews /\ OnlyIntended
        BY <1>3, WorkerMessages, QuietPipes
    <2> QED  BY <1>3, <1>q, <2>1, WorkerRest
<1>4. CASE Others
    BY <1>4, OthersEffect DEF Clear, Quiet, RegIn, AckIn
<1>5. CASE UNCHANGED vars
    BY <1>5 DEF vars, Clear, Quiet, RegIn, AckIn
<1> QED  BY <1>1, <1>2, <1>3, <1>4, <1>5 DEF Next, Others

\* So does one that cleanup has nothing to do with.
LEMMA KeptStays ==
    ASSUME Shape, Ground, Post, GuestOnce, [Next]_vars, NEW r \in Roles, ~Known(r) => Clear(r),
           ~(WkEvent /\ Role = r /\ wk.op \in {"guest-cleanup", "host-cleanup"}), ~Known(r)'
    PROVE  Clear(r)'
<1>1. CASE r = Source
    <2>1. Hand' /\ ~wk'.src
        BY <1>1, PostStep DEF Post, Known
    <2> QED  BY <1>1, <2>1 DEF Hand
<1>2. CASE r # Source
    <2>1. wk'.ents[r] = "none"
        BY <1>2 DEF Known
    <2>2. ~(WkEvent /\ Role = r)
        <3> SUFFICES ASSUME WkEvent, Role = r  PROVE FALSE
            OBVIOUS
        <3>1. wk.op = "clean" /\ r \in Of(wk.op)
            BY <2>1, Creates
        <3> QED  BY <1>2, <3>1 DEF Of
    <2>3. wk.ents[r] = "none"
        <3>1. CASE WkEvent
            <4>1. wk'.ents = [wk.ents EXCEPT ![Role] = IF wk.step = "cleaned" THEN "none" ELSE wk.step]
                BY <3>1, EventEffect
            <4> QED  BY <2>1, <2>2, <3>1, <4>1 DEF Shape, WkShape
        <3>2. CASE Worker /\ ~WkEvent
            BY <2>1, <3>2, WorkerMessages
        <3>3. CASE Owner
            BY <2>1, <3>3, OwnerMessages DEF Quietly, Records
        <3>4. CASE Others \/ UNCHANGED vars
            BY <2>1, <3>4, OthersEffect DEF vars
        <3> QED  BY <3>1, <3>2, <3>3, <3>4 DEF Next, Others
    <2>4. Clear(r)
        BY <1>2, <2>3 DEF Known
    <2> QED  BY <2>2, <2>4, ClearStays
<1> QED  BY <1>1, <1>2

(***************************************************************************)
(* Operations asked for and answered.                                      *)
(***************************************************************************)

\* The owner asks for the operation of the stage it is in.
Asks(op) ==
    \/ op = "guest" /\ own.pc = "guest0" /\ own'.pc = "guest"
    \/ op = "guest-cleanup" /\ own.pc = "guestClean0" /\ own'.pc = "guestClean"
    \/ op = "host-cleanup" /\ own.pc = "hostClean0" /\ own'.pc = "hostClean"

\* What the owner puts into the command pipe.
LEMMA OwnerSends ==
    ASSUME Shape, Owner
    PROVE  \/ \E op \in OwnerOps : Asks(op) /\ cmd' = Append(cmd, Op(op))
           \/ cmd' = cmd \/ cmd' = <<>>
           \/ \E m \in Commands : m.t # "op" /\ cmd' = Append(cmd, m)
<1>1. CASE GuestInit
    <2>1. CASE Command("guest") /\ Go("guest", own.facts)
        BY <1>1, <2>1, GoMoves DEF GuestInit, Command, Op, Asks, OwnerOps, Shape, Moves
    <2> QED  BY <1>1, <2>1 DEF GuestInit
<1>2. CASE Clean
    <2>1. ASSUME NEW next, Command(CleanOp(own.pc)), Go(next, own.facts),
                 next = IF own.pc = "guestClean0" THEN "guestClean" ELSE "hostClean"
          PROVE  \E op \in OwnerOps : Asks(op) /\ cmd' = Append(cmd, Op(op))
        <3>1. own'.pc = next
            BY <2>1, GoMoves DEF Shape, Moves
        <3>2. cmd' = Append(cmd, Op(CleanOp(own.pc)))
            BY <2>1 DEF Command, Op
        <3> QED  BY <1>2, <2>1, <3>1, <3>2 DEF Clean, CleanStages, CleanOp, Asks, OwnerOps
    <2> QED  BY <1>2, <2>1 DEF Clean
<1>3. CASE Commit
    BY <1>3, CommitmentShape DEF Commit, Shape
<1>4. CASE Register
    <2>1. PICK r \in Roles, s \in Events : Head(res) = Reg(r, s)
        BY <1>4, Recording DEF Register
    <2>2. cmd' = Append(cmd, Ack(r, s)) /\ Ack(r, s).t # "op" /\ Ack(r, s) \in Commands
        BY <1>4, <2>1, Kinds, Messages DEF Register, Ack
    <2> QED  BY <2>2
<1>5. CASE Reap
    BY <1>5 DEF Reap
<1>6. CASE ~GuestInit /\ ~Clean /\ ~Commit /\ ~Register /\ ~Reap
    <2>1. cmd' = cmd
        BY <1>6, Zenon DEF Owner, EvidenceStart, EvidenceReady, Action, ActionDone, ActionLost, GuestReady,
             HostFork, RegisterTransport, HostCancel, HostDone, HostLost, UnwindBegins, CleanDone, WaitLost,
             Stop, Stopped, StopLost, Freeze, Receipt, ReceiptLost, Report, World
    <2> QED  BY <2>1
<1> QED  BY <1>1, <1>2, <1>3, <1>4, <1>5, <1>6

\* What the owner takes from the result pipe.
LEMMA OwnerReads ==
    ASSUME Owner
    PROVE  \/ res' = res \/ res' = <<>>
           \/ res # <<>> /\ res' = Tail(res)
           \/ res # <<>> /\ res' = [res EXCEPT ![1] = [t |-> "garbage"]]
<1>1. CASE Register \/ EvidenceReady \/ GuestReady \/ CleanDone \/ Receipt
    BY <1>1 DEF Register, RegistrationComes, EvidenceReady, GuestReady, CleanDone, Receipt
<1>2. CASE HostLost \/ WaitLost \/ Reap
    BY <1>2, Zenon DEF HostLost, WaitLost, Reap, RegistrationComes
<1>3. CASE ~Register /\ ~EvidenceReady /\ ~GuestReady /\ ~CleanDone /\ ~Receipt /\ ~HostLost /\ ~WaitLost /\ ~Reap
    <2>1. res' = res
        BY <1>3, Zenon DEF Owner, EvidenceStart, Action, ActionDone, ActionLost, GuestInit,
             HostFork, RegisterTransport, HostCancel, HostDone, UnwindBegins, Clean,
             Stop, Stopped, StopLost, Freeze, Commit, ReceiptLost, Report, World
    <2> QED  BY <2>1
<1> QED  BY <1>1, <1>2, <1>3

\* What the owner's steps change of the operations in the pipes.
LEMMA OwnerAsks ==
    ASSUME Shape, Owner
    PROVE  /\ \A op : Has(cmd', Op(op)) => Has(cmd, Op(op)) \/ Asks(op)
           /\ \A a, b : Prior(cmd', Op(a), Op(b)) => Prior(cmd, Op(a), Op(b)) \/ (OpIn(a) /\ Asks(b))
           /\ \A op : Has(res', Done(op)) => Has(res, Done(op))
           /\ \A r, s, op : Prior(res', Reg(r, s), Done(op)) => Prior(res, Reg(r, s), Done(op))
<1>0. cmd \in Seq(Commands) /\ res \in Seq(Answered)
    BY DEF Shape, PipeShape
<1> DEFINE Sent == /\ \A op : Has(cmd', Op(op)) => Has(cmd, Op(op)) \/ Asks(op)
                   /\ \A a, b : Prior(cmd', Op(a), Op(b)) => Prior(cmd, Op(a), Op(b)) \/ (OpIn(a) /\ Asks(b))
           Read == /\ \A op : Has(res', Done(op)) => Has(res, Done(op))
                   /\ \A r, s, op : Prior(res', Reg(r, s), Done(op)) => Prior(res, Reg(r, s), Done(op))
<1>1. Sent
    <2>1. CASE cmd' = <<>>
        BY <2>1, NothingThere
    <2>2. CASE \E m \in Commands : m.t # "op" /\ cmd' = Append(cmd, m)
        <3>1. PICK m \in Commands : m.t # "op" /\ cmd' = Append(cmd, m)
            BY <2>2
        <3>2. \A op : Op(op) # m
            BY <3>1, Kinds
        <3> QED  BY <1>0, <3>1, <3>2, SentLast
    <2>3. CASE \E op \in OwnerOps : Asks(op) /\ cmd' = Append(cmd, Op(op))
        <3>1. PICK x \in OwnerOps : Asks(x) /\ cmd' = Append(cmd, Op(x))
            BY <2>3
        <3>2. \A op : Op(op) = Op(x) => op = x
            BY DEF Op
        <3>3. /\ \A op : Has(cmd', Op(op)) => Has(cmd, Op(op)) \/ op = x
              /\ \A a, b : Prior(cmd', Op(a), Op(b)) => Prior(cmd, Op(a), Op(b)) \/ (Has(cmd, Op(a)) /\ b = x)
            BY <1>0, <3>1, <3>2, Messages, SentLast
        <3> QED  BY <3>1, <3>3 DEF OpIn
    <2> QED  BY <2>1, <2>2, <2>3, OwnerSends
<1>2. Read
    <2>1. CASE res' = <<>>
        BY <2>1, NothingThere
    <2>2. CASE res # <<>> /\ res' = Tail(res)
        BY <1>0, <2>2, ReadFirst
    <2>3. CASE res # <<>> /\ res' = [res EXCEPT ![1] = [t |-> "garbage"]]
        <3>1. /\ \A m : Has(res', m) => Has(res, m) \/ m = [t |-> "garbage"]
              /\ \A a, b : Prior(res', a, b) => Prior(res, a, b) \/ a = [t |-> "garbage"] \/ b = [t |-> "garbage"]
            BY <1>0, <2>3, ReadInPart, Messages
        <3>2. /\ \A r, s : Reg(r, s) # [t |-> "garbage"]
              /\ \A op : Done(op) # [t |-> "garbage"]
            BY Kinds
        <3> QED  BY <3>1, <3>2
    <2> QED  BY <2>1, <2>2, <2>3, OwnerReads
<1> QED  BY <1>1, <1>2

\* The worker answers an operation that met no error.
Completes(op) ==
    /\ op \in OwnerOps /\ wk.pc = "work" /\ wk.op = op /\ wk.todo = <<>> /\ ~wk.errs
    /\ wk' = WkAt("idle") /\ res' = Append(res, Done(op)) /\ cmd' = cmd /\ objs' = objs

\* It takes up an operation that the owner asked for.
Takes(op) ==
    /\ wk.pc = "idle" /\ op \in OwnerOps /\ cmd # <<>> /\ Head(cmd) = Op(op)
    /\ Starts(op, Walk(op)) /\ cmd' = Tail(cmd) /\ res' = res /\ objs' = objs

\* What the worker takes from its commands and answers to them.
LEMMA WorkerReads ==
    ASSUME Shape, Hand, Worker
    PROVE  /\ cmd' = cmd \/ (cmd # <<>> /\ cmd' = Tail(cmd))
           /\ \/ res' = res
              \/ \E m \in Answered : res' = Append(res, m) /\ ~(m.t = "done" /\ m.errs = FALSE)
              \/ \E op : Completes(op)
           /\ wk'.op \in {wk.op, "none", "host", "stage", "clean"} \/ \E op : Takes(op)
<1>0. WkShape(wk) /\ disk \in Disks
    BY DEF Shape
<1> DEFINE Told == res' = res \/ \E m \in Answered : res' = Append(res, m) /\ ~(m.t = "done" /\ m.errs = FALSE)
           Same == wk'.op \in {wk.op, "none", "host", "stage", "clean"}
<1>e. wk.pc = "work" /\ OpError /\ (wk.op \in {"guest-cleanup", "host-cleanup"} => wk.todo # <<>>) => Told /\ Same
    BY OpErrorEffect
<1>m. ASSUME NEW m, m \in Answered, m.t # "done", res' = Append(res, m)
      PROVE  Told
    BY <1>m
<1>u. res' = res => Told
    OBVIOUS
<1> HIDE DEF Told
<1>1. CASE WkBoot
    <2>1. [t |-> "ready", attempt |-> TRUE, ok |-> TRUE] \in Answered
          /\ [t |-> "ready", attempt |-> FALSE, ok |-> FALSE] \in Answered
        BY Messages
    <2>2. Told
        BY <1>1, <1>m, <1>u, <2>1 DEF WkBoot
    <2>3. Starts("host", <<Root>>) \/ \E pc : wk' = WkAt(pc)
        BY <1>1, Zenon DEF WkBoot, Dies
    <2>4. <<Root>> \in Seq(Roles) /\ IsInjective(<<Root>>)
        BY RolesOfGuest DEF IsInjective
    <2>5. Same
        <3>1. CASE Starts("host", <<Root>>)
            BY <2>4, <3>1, StartEffect
        <3>2. CASE \E pc : wk' = WkAt(pc)
            <4>1. PICK pc : wk' = WkAt(pc)
                BY <3>2
            <4>2. WkAt(pc).op = "none"
                BY AtEffect
            <4> QED  BY <4>1, <4>2
        <3> QED  BY <2>3, <3>1, <3>2
    <2> QED  BY <1>1, <2>2, <2>5 DEF WkBoot, Told
<1>2. CASE WkEvent
    <2>1. wk'.op = wk.op /\ Reg(Role, wk.step) \in Answered /\ res' = Append(res, Reg(Role, wk.step)) /\ cmd' = cmd
        BY <1>2, EventEffect DEF SameOp
    <2>2. Told
        BY <1>m, <2>1, Kinds
    <2> QED  BY <2>1, <2>2 DEF Told
<1>3. CASE WkAck
    <2>1. /\ wk.pc = "work" /\ wk.todo # <<>> /\ wk.step \in Events /\ cmd # <<>> /\ cmd' = Tail(cmd)
          /\ (wk' = Acknowledged /\ res' = res) \/ OpError
        BY <1>3, AnswerEffect DEF WkAck
    <2>2. Told /\ Same
        BY <1>e, <1>u, <2>1, AckEffect DEF SameOp
    <2> QED  BY <2>1, <2>2 DEF Told
<1>4. CASE WkAckLost
    <2>1. wk.pc = "work" /\ wk.todo # <<>> /\ OpError /\ cmd' = cmd
        BY <1>4 DEF WkAckLost, Hand
    <2> QED  BY <1>e, <2>1 DEF Told
<1>5. CASE WkMake
    <2>1. /\ wk.pc = "work" /\ wk.todo # <<>> /\ cmd' = cmd
          /\ (wk' = [wk EXCEPT !.step = "bound"] /\ res' = res) \/ OpError
        BY <1>5 DEF WkMake, Working
    <2>2. Told /\ Same
        BY <1>0, <1>e, <1>u, <2>1 DEF WkShape
    <2> QED  BY <2>1, <2>2 DEF Told
<1>6. CASE WkSkip
    <2>1. Same /\ res' = res /\ cmd' = cmd
        BY <1>6, OnwardFields DEF WkSkip, Working
    <2> QED  BY <1>u, <2>1 DEF Told
<1>7. CASE WkRemove
    <2>1. /\ wk.pc = "work" /\ wk.todo # <<>> /\ cmd' = cmd
          /\ (wk' = [wk EXCEPT !.step = "cleaned"] /\ res' = res) \/ OpError
        BY <1>7 DEF WkRemove, Working
    <2>2. Told /\ Same
        BY <1>0, <1>e, <1>u, <2>1 DEF WkShape
    <2> QED  BY <2>1, <2>2 DEF Told
<1>8. CASE WkDone
    <2>1. wk.pc = "work" /\ wk.todo = <<>> /\ cmd' = cmd /\ objs' = objs
        BY <1>8 DEF WkDone, Replied
    <2>2. CASE wk.op \in {"host", "guest", "stage"} /\ OpError
        BY <1>e, <2>1, <2>2 DEF Told
    <2>3. CASE wk' = WkAt("idle") /\ (res' = res \/ res' = Append(res, [t |-> "ready", attempt |-> TRUE, ok |-> TRUE]))
        <3>1. [t |-> "ready", attempt |-> TRUE, ok |-> TRUE] \in Answered
            BY Messages
        <3>2. Told
            BY <1>m, <1>u, <2>3, <3>1
        <3> QED  BY <2>1, <2>3, <3>2, AtEffect DEF Told
    <2>4. CASE wk' = WkAt("idle") /\ wk.op \in OwnerOps /\ res' = Append(res, [t |-> "done", op |-> wk.op, errs |-> wk.errs])
        <3>1. [t |-> "done", op |-> wk.op, errs |-> wk.errs] \in Answered /\ wk.errs \in BOOLEAN
            BY <1>0, <2>4, Messages DEF WkShape
        <3>2. wk'.op = "none"
            BY <2>4, AtEffect
        <3>3. CASE wk.errs
            BY <2>1, <2>4, <3>1, <3>2, <3>3
        <3>4. CASE ~wk.errs
            <4>1. [t |-> "done", op |-> wk.op, errs |-> wk.errs] = Done(wk.op)
                BY <3>1, <3>4 DEF Done
            <4>2. Completes(wk.op)
                BY <2>1, <2>4, <3>4, <4>1 DEF Completes
            <4> QED  BY <2>1, <3>2, <4>2
        <3> QED  BY <3>3, <3>4
    <2>5. wk.op \in {"host", "guest", "stage", "clean", "guest-cleanup", "host-cleanup"}
        BY <2>1 DEF Hand
    <2> QED  BY <1>8, <2>2, <2>3, <2>4, <2>5 DEF WkDone, Replied, OwnerOps
<1>9. CASE WkCommand
    <2>1. res' = res /\ objs' = objs /\ (cmd' = cmd \/ (cmd # <<>> /\ cmd' = Tail(cmd))) /\ wk.pc = "idle"
        BY <1>9 DEF WkCommand
    <2>2. \/ cmd # <<>> /\ Head(cmd).t = "op" /\ Starts(Head(cmd).op, Walk(Head(cmd).op)) /\ cmd' = Tail(cmd)
          \/ wk' = [wk EXCEPT !.pc = "persist", !.sent = Head(cmd)]
          \/ wk' = WkAt("dead")
        BY <1>9, Zenon DEF WkCommand, Dies
    <2>3. CASE cmd # <<>> /\ Head(cmd).t = "op" /\ Starts(Head(cmd).op, Walk(Head(cmd).op)) /\ cmd' = Tail(cmd)
        <3>1. Head(cmd) \in Commands
            BY <2>3, ReadFirst DEF Shape, PipeShape
        <3>2. Takes(Head(cmd).op)
            BY <2>1, <2>3, <3>1, Ordering DEF Takes
        <3> QED  BY <1>u, <2>1, <3>2 DEF Told
    <2>4. CASE wk' = [wk EXCEPT !.pc = "persist", !.sent = Head(cmd)] \/ wk' = WkAt("dead")
        <3>1. Same
            <4>1. CASE wk' = [wk EXCEPT !.pc = "persist", !.sent = Head(cmd)]
                BY <1>0, <4>1 DEF WkShape
            <4>2. CASE wk' = WkAt("dead")
                BY <4>2, AtEffect
            <4> QED  BY <2>4, <4>1, <4>2
        <3> QED  BY <1>u, <2>1, <3>1 DEF Told
    <2> QED  BY <2>2, <2>3, <2>4
<1>10. CASE WkStage
    <2>1. Same /\ res' = res /\ cmd' = cmd
        BY <1>0, <1>10 DEF WkStage, Replied, WkShape
    <2> QED  BY <1>u, <2>1 DEF Told
<1>11. CASE WkPersist
    <2>1. [t |-> "receipt", passed |-> disk] \in Answered
        BY <1>0, Messages
    <2>2. Told
        BY <1>11, <1>m, <1>u, <2>1 DEF WkPersist
    <2>3. Same
        <3>1. wk' = WkAt("done") \/ wk' = [wk EXCEPT !.pc = "seal"] \/ wk' = [wk EXCEPT !.pc = "answer"]
            BY <1>11 DEF WkPersist
        <3>2. ASSUME NEW pc, wk' = [wk EXCEPT !.pc = pc]  PROVE Same
            BY <1>0, <3>2 DEF WkShape
        <3>3. CASE wk' = WkAt("done")
            BY <3>3, AtEffect
        <3> QED  BY <3>1, <3>2, <3>3
    <2> QED  BY <1>11, <2>2, <2>3 DEF WkPersist, Told
<1>12. CASE WkPersistFails
    <2>1. Told
        BY <1>12, <1>m, <1>u, Messages DEF WkPersistFails
    <2> QED  BY <1>12, <2>1, AtEffect DEF WkPersistFails, Dies, Told
<1>13. CASE WkFault
    BY <1>13, <1>u, AtEffect DEF WkFault, Told
<1> QED  BY <1>1, <1>2, <1>3, <1>4, <1>5, <1>6, <1>7, <1>8, <1>9, <1>10, <1>11, <1>12, <1>13 DEF Worker

\* What the worker's steps change of the operations in the pipes.
LEMMA WorkerOps ==
    ASSUME Shape, Hand, Worker
    PROVE  /\ \A op : Has(cmd', Op(op)) => Has(cmd, Op(op))
           /\ \A a, b : Prior(cmd', Op(a), Op(b)) => Prior(cmd, Op(a), Op(b))
           /\ \A op : Has(res', Done(op)) => Has(res, Done(op)) \/ Completes(op)
           /\ \A r \in Roles, s \in Events : \A op :
                Prior(res', Reg(r, s), Done(op)) =>
                   Prior(res, Reg(r, s), Done(op)) \/ (Completes(op) /\ Has(res, Reg(r, s)))
           /\ \A op \in OwnerOps : wk'.op = op => wk.op = op \/ Takes(op)
<1>0. cmd \in Seq(Commands) /\ res \in Seq(Answered)
    BY DEF Shape, PipeShape
<1> DEFINE Sent == /\ \A op : Has(cmd', Op(op)) => Has(cmd, Op(op))
                   /\ \A a, b : Prior(cmd', Op(a), Op(b)) => Prior(cmd, Op(a), Op(b))
           Read == /\ \A op : Has(res', Done(op)) => Has(res, Done(op)) \/ Completes(op)
                   /\ \A r \in Roles, s \in Events : \A op :
                        Prior(res', Reg(r, s), Done(op)) =>
                           Prior(res, Reg(r, s), Done(op)) \/ (Completes(op) /\ Has(res, Reg(r, s)))
<1>1. Sent
    <2>1. CASE cmd # <<>> /\ cmd' = Tail(cmd)
        BY <1>0, <2>1, ReadFirst
    <2> QED  BY <2>1, WorkerReads
<1>2. Read
    <2>1. CASE \E m \in Answered : res' = Append(res, m) /\ ~(m.t = "done" /\ m.errs = FALSE)
        <3>1. PICK m \in Answered : res' = Append(res, m) /\ ~(m.t = "done" /\ m.errs = FALSE)
            BY <2>1
        <3>2. \A op : Done(op) # m
            BY <3>1 DEF Done
        <3> QED  BY <1>0, <3>1, <3>2, SentLast
    <2>2. CASE \E op : Completes(op)
        <3>1. PICK x : Completes(x)
            BY <2>2
        <3>2. \A op : Done(op) = Done(x) => op = x
            BY DEF Done
        <3>3. res' = Append(res, Done(x)) /\ Done(x) \in Answered
            <4>1. x \in OwnerOps /\ res' = Append(res, Done(x))
                BY <3>1 DEF Completes
            <4> QED  BY <4>1, Messages DEF Done
        <3>4. /\ \A m : Has(res', m) <=> Has(res, m) \/ m = Done(x)
              /\ \A a, b : Prior(res', a, b) <=> Prior(res, a, b) \/ (Has(res, a) /\ b = Done(x))
            BY <1>0, <3>3, SentLast
        <3> QED  BY <3>1, <3>2, <3>4
    <2> QED  BY <2>1, <2>2, WorkerReads
<1>3. \A op \in OwnerOps : wk'.op = op => wk.op = op \/ Takes(op)
    <2> SUFFICES ASSUME NEW op \in OwnerOps, wk'.op = op, wk.op # op
                 PROVE  Takes(op)
        OBVIOUS
    <2>1. PICK x : Takes(x)
        BY WorkerReads DEF OwnerOps
    <2>2. wk'.op = x
        BY <2>1, Walks, StartEffect DEF Takes
    <2> QED  BY <2>1, <2>2
<1> QED  BY <1>1, <1>2, <1>3

\* An operation taken up was the first of its name in the pipe, and walks what it is about.
LEMMA TakesEffect ==
    ASSUME Shape, Hand, NEW op, Takes(op)
    PROVE  /\ op \in OwnerOps /\ OpIn(op) /\ wk.op = "none" /\ wk.pc = "idle"
           /\ \A x : Has(cmd', Op(x)) => Prior(cmd, Op(op), Op(x))
           /\ wk'.pc = "work" /\ wk'.op = op /\ wk'.todo = Walk(op) /\ wk'.step = First(op) /\ ~wk'.wait
           /\ wk'.ents = wk.ents /\ wk'.src = wk.src /\ res' = res
           /\ ToSet(wk'.todo) = IF op = "host-cleanup" THEN HostRoles ELSE Guest
<1>1. cmd \in Seq(Commands) /\ cmd # <<>> /\ Head(cmd) = Op(op) /\ cmd' = Tail(cmd) /\ wk.pc = "idle" /\ op \in OwnerOps
    BY DEF Shape, PipeShape, Takes
<1>2. OpIn(op) /\ \A x : Has(cmd', Op(x)) => Prior(cmd, Op(op), Op(x))
    BY <1>1, ReadFirst DEF OpIn
<1>3. wk.op = "none" /\ ~wk.wait
    BY <1>1 DEF Hand
<1>4. /\ wk'.pc = "work" /\ wk'.op = op /\ wk'.todo = Walk(op) /\ wk'.step = First(op) /\ wk'.wait = wk.wait
      /\ wk'.ents = wk.ents /\ wk'.src = wk.src /\ res' = res
    BY Walks, StartEffect DEF Takes
<1>5. ToSet(wk'.todo) = IF op = "host-cleanup" THEN HostRoles ELSE Guest
    BY <1>1, <1>4, WalkSets DEF OwnerOps
<1> QED  BY <1>1, <1>2, <1>3, <1>4, <1>5

\* The owner leaves the worker's operation alone, or ends it.
LEMMA OwnerLeaves ==
    ASSUME Shape, Hand, Place, Owner
    PROVE  wk' = wk \/ (wk'.op = "none" /\ wk'.todo = <<>>) \/ (wk'.op = wk.op /\ wk.op = "none" /\ wk'.pc = "boot")
<1>1. CASE EvidenceStart
    <2>1. CASE wk' = [wk EXCEPT !.pc = "boot"]
        <3>1. wk.op = "none"
            BY <1>1 DEF EvidenceStart, Place, Hand
        <3> QED  BY <2>1, <3>1 DEF Shape, WkShape
    <2> QED  BY <1>1, <2>1 DEF EvidenceStart
<1>2. CASE Reap
    <2>1. wk' = wk \/ \E pc : wk' = WkAt(pc)
        BY <1>2 DEF Reap
    <2>2. ASSUME NEW pc, wk' = WkAt(pc)  PROVE wk'.op = "none" /\ wk'.todo = <<>>
        BY <2>2, AtEffect
    <2> QED  BY <2>1, <2>2
<1>3. CASE ~EvidenceStart /\ ~Reap
    <2>1. wk' = wk
        BY <1>3, Zenon DEF Owner, Register, EvidenceReady, Action, ActionDone, ActionLost, GuestInit, GuestReady,
             HostFork, RegisterTransport, HostCancel, HostDone, HostLost, UnwindBegins, Clean, CleanDone, WaitLost,
             Stop, Stopped, StopLost, Freeze, Commit, Receipt, ReceiptLost, Report, World
    <2> QED  BY <2>1
<1> QED  BY <1>1, <1>2, <1>3
BeforeCommit == BeforeHostClean \cup {"hostClean", "freeze", "commit0"}

\* The owner never comes back to a stage that it has left.
Forward(q) ==
    /\ q \in EarlyGuest => own.pc \in EarlyGuest
    /\ q \in BeforeGuestClean => own.pc \in BeforeGuestClean
    /\ q \in BeforeHostClean => own.pc \in BeforeHostClean
    /\ q \in BeforeCommit => own.pc \in BeforeCommit

\* A cleanup is complete only when the worker said so, and from then on no
\* registration is recorded before the commitment.
LEMMA OwnerCourse ==
    ASSUME Shape, Place, Owner
    PROVE  /\ Forward(own'.pc)
           /\ own'.guest = "complete" => own.guest = "complete" \/ DoneIn("guest-cleanup")
           /\ own'.host = "complete" => own.host = "complete" \/ DoneIn("host-cleanup")
           /\ own'.host = "complete" /\ own'.pc \in {"freeze", "commit0"} => own'.registry = own.registry
<1>0. OwnShape(own) /\ (own.host = "complete" => own.pc \in {"freeze"} \cup Deciding)
    BY DEF Shape, Place
<1> DEFINE Course ==
              /\ Forward(own'.pc)
              /\ own'.guest = "complete" => own.guest = "complete" \/ DoneIn("guest-cleanup")
              /\ own'.host = "complete" => own.host = "complete" \/ DoneIn("host-cleanup")
              /\ own'.host = "complete" /\ own'.pc \in {"freeze", "commit0"} => own'.registry = own.registry
<1>s. ASSUME own'.guest = own.guest, own'.host = own.host, own'.registry = own.registry, Forward(own'.pc)
      PROVE  Course
    BY <1>s
<1>e. ASSUME own'.guest = own.guest, own'.host = own.host, own.pc \notin {"freeze"} \cup Deciding, Forward(own'.pc)
      PROVE  Course
    BY <1>0, <1>e
<1>c. ASSUME own.pc \in CleanStages \cup CleanWaits, NEW status \in {"unconfirmed", "complete"},
             own'.pc = AfterClean(own.pc),
             own'.guest = IF own.pc \in {"guestClean0", "guestClean"} THEN status ELSE own.guest,
             own'.host = IF own.pc \in {"guestClean0", "guestClean"} THEN own.host ELSE status,
             status = "complete" => DoneIn(CleanOp(own.pc)) /\ own'.registry = own.registry
      PROVE  Course
    <2>1. Forward(own'.pc)
        BY <1>c DEF Forward, CleanStages, CleanWaits, AfterClean, EarlyGuest, BeforeGuestClean, BeforeHostClean, BeforeCommit, BeforeHost
    <2>2. own.host # "complete"
        BY <1>0, <1>c DEF CleanStages, CleanWaits, Deciding
    <2> QED  BY <1>c, <2>1, <2>2 DEF CleanOp
<1> SUFFICES Course
    OBVIOUS
<1> HIDE DEF Course
<1>1. CASE EvidenceStart
    <2>1. /\ own'.guest = own.guest /\ own'.host = own.host /\ own'.registry = own.registry
          /\ own'.pc \in {"unwind", "evidence"}
        BY <1>0, <1>1, GoMoves DEF EvidenceStart, Unwind, Moves, SameReport
    <2>2. Forward(own'.pc)
        BY <1>1, <2>1 DEF EvidenceStart, Forward, EarlyGuest, BeforeGuestClean, BeforeHostClean, BeforeCommit, BeforeHost
    <2> QED  BY <1>s, <2>1, <2>2
<1>2. CASE EvidenceReady
    <2>1. /\ own'.guest = own.guest /\ own'.host = own.host /\ own'.registry = own.registry
          /\ own'.pc \in {"unwind", "start"}
        BY <1>0, <1>2, GoMoves DEF EvidenceReady, Unwind, Moves, SameReport
    <2>2. Forward(own'.pc)
        BY <1>2, <2>1 DEF EvidenceReady, Forward, EarlyGuest, BeforeGuestClean, BeforeHostClean, BeforeCommit, BeforeHost
    <2> QED  BY <1>s, <2>1, <2>2
<1>3. CASE Action
    <2>1. /\ own'.guest = own.guest /\ own'.host = own.host /\ own'.registry = own.registry
          /\ own'.pc \in {"unwind", "startWait", "readinessWait"}
        BY <1>0, <1>3, GoMoves DEF Action, Unwind, Moves, SameReport
    <2>2. Forward(own'.pc)
        BY <1>3, <2>1 DEF Action, Forward, EarlyGuest, BeforeGuestClean, BeforeHostClean, BeforeCommit, BeforeHost
    <2> QED  BY <1>s, <2>1, <2>2
<1>4. CASE ActionDone
    <2>1. /\ own'.guest = own.guest /\ own'.host = own.host /\ own'.registry = own.registry
          /\ own'.pc \in {"readiness", "guest0", "host0"}
        BY <1>0, <1>4, GoMoves DEF ActionDone, Finish, Moves, SameReport
    <2>2. Forward(own'.pc)
        BY <1>4, <2>1 DEF ActionDone, Forward, EarlyGuest, BeforeGuestClean, BeforeHostClean, BeforeCommit, BeforeHost
    <2> QED  BY <1>s, <2>1, <2>2
<1>5. CASE ActionLost
    <2>1. /\ own'.guest = own.guest /\ own'.host = own.host /\ own'.registry = own.registry
          /\ own'.pc \in {"unwind"}
        BY <1>0, <1>5, GoMoves DEF ActionLost, Finish, Moves, SameReport
    <2>2. Forward(own'.pc)
        BY <1>5, <2>1 DEF ActionLost, Forward, EarlyGuest, BeforeGuestClean, BeforeHostClean, BeforeCommit, BeforeHost
    <2> QED  BY <1>s, <2>1, <2>2
<1>6. CASE GuestInit
    <2>1. /\ own'.guest = own.guest /\ own'.host = own.host /\ own'.registry = own.registry
          /\ own'.pc \in {"guest", "unwind"}
        BY <1>0, <1>6, GoMoves DEF GuestInit, Unwind, Moves, SameReport
    <2>2. Forward(own'.pc)
        BY <1>6, <2>1 DEF GuestInit, Forward, EarlyGuest, BeforeGuestClean, BeforeHostClean, BeforeCommit, BeforeHost
    <2> QED  BY <1>s, <2>1, <2>2
<1>7. CASE GuestReady
    <2>1. /\ own'.guest = own.guest /\ own'.host = own.host /\ own'.registry = own.registry
          /\ own'.pc \in {"host0", "unwind"}
        BY <1>0, <1>7, GoMoves DEF GuestReady, Unwind, Moves, SameReport
    <2>2. Forward(own'.pc)
        BY <1>7, <2>1 DEF GuestReady, Forward, EarlyGuest, BeforeGuestClean, BeforeHostClean, BeforeCommit, BeforeHost
    <2> QED  BY <1>s, <2>1, <2>2
<1>8. CASE HostFork
    <2>1. /\ own'.guest = own.guest /\ own'.host = own.host /\ own'.registry = own.registry
          /\ own'.pc \in {"unwind", "host"}
        BY <1>0, <1>8, GoMoves DEF HostFork, Unwind, Moves, SameReport
    <2>2. Forward(own'.pc)
        BY <1>8, <2>1 DEF HostFork, Forward, EarlyGuest, BeforeGuestClean, BeforeHostClean, BeforeCommit, BeforeHost
    <2> QED  BY <1>s, <2>1, <2>2
<1>9. CASE RegisterTransport
    <2>1. /\ own'.guest = own.guest /\ own'.host = own.host /\ own'.registry = own.registry
          /\ own'.pc \in {"host"}
        BY <1>0, <1>9, GoMoves DEF RegisterTransport, Moves, SameReport
    <2>2. Forward(own'.pc)
        BY <1>9, <2>1 DEF RegisterTransport, Forward, EarlyGuest, BeforeGuestClean, BeforeHostClean, BeforeCommit, BeforeHost
    <2> QED  BY <1>s, <2>1, <2>2
<1>10. CASE HostCancel
    <2>1. /\ own'.guest = own.guest /\ own'.host = own.host /\ own'.registry = own.registry
          /\ own'.pc \in {"host"}
        BY <1>0, <1>10, GoMoves DEF HostCancel, Moves, SameReport
    <2>2. Forward(own'.pc)
        BY <1>10, <2>1 DEF HostCancel, Forward, EarlyGuest, BeforeGuestClean, BeforeHostClean, BeforeCommit, BeforeHost
    <2> QED  BY <1>s, <2>1, <2>2
<1>11. CASE StopLost
    <2>1. /\ own'.guest = own.guest /\ own'.host = own.host /\ own'.registry = own.registry
          /\ own'.pc \in {"hostClean0", "freeze"}
        BY <1>0, <1>11, GoMoves DEF StopLost, AfterStop, Moves, SameReport
    <2>2. Forward(own'.pc)
        BY <1>11, <2>1 DEF StopLost, Forward, EarlyGuest, BeforeGuestClean, BeforeHostClean, BeforeCommit, BeforeHost
    <2> QED  BY <1>s, <2>1, <2>2
<1>12. CASE Commit
    <2>1. /\ own'.guest = own.guest /\ own'.host = own.host /\ own'.registry = own.registry
          /\ own'.pc \in {"commit", "reap"}
        BY <1>0, <1>12, GoMoves DEF Commit, Moves, SameReport
    <2>2. Forward(own'.pc)
        BY <1>12, <2>1 DEF Commit, Forward, EarlyGuest, BeforeGuestClean, BeforeHostClean, BeforeCommit, BeforeHost
    <2> QED  BY <1>s, <2>1, <2>2
<1>13. CASE ReceiptLost
    <2>1. /\ own'.guest = own.guest /\ own'.host = own.host /\ own'.registry = own.registry
          /\ own'.pc \in {"reap"}
        BY <1>0, <1>13, GoMoves DEF ReceiptLost, Moves, SameReport
    <2>2. Forward(own'.pc)
        BY <1>13, <2>1 DEF ReceiptLost, Forward, EarlyGuest, BeforeGuestClean, BeforeHostClean, BeforeCommit, BeforeHost
    <2> QED  BY <1>s, <2>1, <2>2
<1>14. CASE Report
    <2>1. /\ own'.guest = own.guest /\ own'.host = own.host /\ own'.registry = own.registry
          /\ own'.pc \in {"exit"}
        BY <1>0, <1>14, GoMoves DEF Report, Moves, SameReport
    <2>2. Forward(own'.pc)
        BY <1>14, <2>1 DEF Report, Forward, EarlyGuest, BeforeGuestClean, BeforeHostClean, BeforeCommit, BeforeHost
    <2> QED  BY <1>s, <2>1, <2>2
<1>15. CASE Register
    <2>1. own'.guest = own.guest /\ own'.host = own.host /\ own'.pc = own.pc /\ own.pc \notin {"freeze"} \cup Deciding
        BY <1>0, <1>15 DEF Register, OwnShape, Deciding
    <2>2. Forward(own'.pc)
        BY <2>1 DEF Forward
    <2> QED  BY <1>e, <2>1, <2>2
<1>16. CASE HostDone
    <2>1. \E f, report, registry : HostEnd(f, report, registry)
        BY <1>16 DEF HostDone
    <2>2. own'.guest = own.guest /\ own'.host = own.host /\ own'.pc = "unwind"
        BY <1>0, <2>1 DEF HostEnd, OwnShape
    <2> QED  BY <1>e, <1>16, <2>2 DEF HostDone, Deciding, Forward, EarlyGuest, BeforeGuestClean, BeforeHostClean, BeforeCommit, BeforeHost
<1>17. CASE HostLost
    <2>1. \E f, report, registry : HostEnd(f, report, registry)
        BY <1>17 DEF HostLost
    <2>2. own'.guest = own.guest /\ own'.host = own.host /\ own'.pc = "unwind"
        BY <1>0, <2>1 DEF HostEnd, OwnShape
    <2> QED  BY <1>e, <1>17, <2>2 DEF HostLost, Deciding, Forward, EarlyGuest, BeforeGuestClean, BeforeHostClean, BeforeCommit, BeforeHost
<1>18. CASE UnwindBegins
    <2>1. /\ own'.guest = own.guest /\ own'.host = own.host /\ own'.registry = own.registry
          /\ own'.pc \in {"guestClean0", "stop"}
        BY <1>0, <1>18 DEF UnwindBegins, OwnShape
    <2> QED  BY <1>s, <1>18, <2>1 DEF UnwindBegins, Forward, EarlyGuest, BeforeGuestClean, BeforeHostClean, BeforeCommit, BeforeHost
<1>19. CASE Clean
    <2>0. own.pc \in CleanStages
        BY <1>19 DEF Clean
    <2>1. CASE own' = Cleaned("unconfirmed")
        <3>1. /\ own'.pc = AfterClean(own.pc)
              /\ own'.guest = IF own.pc \in {"guestClean0", "guestClean"} THEN "unconfirmed" ELSE own.guest
              /\ own'.host = IF own.pc \in {"guestClean0", "guestClean"} THEN own.host ELSE "unconfirmed"
            BY <1>0, <2>0, <2>1, CleanedShape
        <3> QED  BY <1>c, <2>0, <3>1
    <2>2. CASE Go(IF own.pc = "guestClean0" THEN "guestClean" ELSE "hostClean", own.facts)
        <3>1. /\ own'.guest = own.guest /\ own'.host = own.host /\ own'.registry = own.registry
              /\ own'.pc = IF own.pc = "guestClean0" THEN "guestClean" ELSE "hostClean"
            BY <1>0, <2>2, GoMoves DEF Moves, SameReport
        <3>2. Forward(own'.pc)
            BY <2>0, <3>1 DEF CleanStages, Forward, EarlyGuest, BeforeGuestClean, BeforeHostClean, BeforeCommit, BeforeHost
        <3> QED  BY <1>s, <3>1, <3>2
    <2> QED  BY <1>19, <2>1, <2>2 DEF Clean
<1>20. CASE CleanDone
    <2>0. own.pc \in CleanWaits
        BY <1>20 DEF CleanDone
    <2>1. PICK status \in {"unconfirmed", "complete"} :
             /\ own' = Cleaned(status)
             /\ status = "complete" => Answers(Head(res)) /\ ~Head(res).errs
        BY <1>20 DEF CleanDone
    <2>2. status = "complete" => DoneIn(CleanOp(own.pc))
        <3>1. res # <<>> /\ Head(res) \in Answered /\ Has(res, Head(res))
            BY <1>20, ReadFirst DEF CleanDone, Shape, PipeShape
        <3>2. Head(res).t = "done" /\ Head(res).op = CleanOp(own.pc) /\ ~Head(res).errs => Head(res) = Done(CleanOp(own.pc))
            BY <3>1 DEF Answered, Regs, Readies, Dones, Receipts, Done
        <3> QED  BY <2>1, <3>1, <3>2 DEF Answers, DoneIn
    <2>3. /\ own'.pc = AfterClean(own.pc) /\ own'.registry = own.registry
          /\ own'.guest = IF own.pc \in {"guestClean0", "guestClean"} THEN status ELSE own.guest
          /\ own'.host = IF own.pc \in {"guestClean0", "guestClean"} THEN own.host ELSE status
        BY <1>0, <2>0, <2>1, CleanedShape
    <2> QED  BY <1>c, <2>0, <2>2, <2>3
<1>21. CASE WaitLost
    <2>1. OwnShape(GivenUp) /\ own'.pc = GivenUp.pc /\ own'.guest = GivenUp.guest /\ own'.host = GivenUp.host
        BY <1>0, <1>21, GivenUpShape DEF WaitLost, OwnShape
    <2>2. CASE own.pc \in CleanWaits
        <3>1. GivenUp = Cleaned("unconfirmed")
            BY <2>2 DEF GivenUp
        <3>2. /\ own'.pc = AfterClean(own.pc)
              /\ own'.guest = IF own.pc \in {"guestClean0", "guestClean"} THEN "unconfirmed" ELSE own.guest
              /\ own'.host = IF own.pc \in {"guestClean0", "guestClean"} THEN own.host ELSE "unconfirmed"
            BY <1>0, <2>1, <2>2, <3>1, CleanedShape
        <3> QED  BY <1>c, <2>2, <3>2
    <2>3. CASE own.pc \notin CleanWaits
        <3>1. own'.pc = "unwind" /\ own'.guest = own.guest /\ own'.host = own.host /\ own.pc \in {"evidence", "guest"}
            BY <1>0, <1>21, <2>1, <2>3 DEF WaitLost, GivenUp, OwnShape
        <3> QED  BY <1>e, <3>1 DEF Deciding, Forward, EarlyGuest, BeforeGuestClean, BeforeHostClean, BeforeCommit, BeforeHost
    <2> QED  BY <2>2, <2>3
<1>22. CASE Stop
    <2>1. /\ own'.guest = own.guest /\ own'.host = own.host /\ own'.registry = own.registry
          /\ own'.pc \in {"stopWait", "hostClean0", "freeze"} /\ own.pc = "stop"
        BY <1>0, <1>22, GoMoves DEF Stop, AfterStop, OwnShape, Moves, SameReport
    <2> QED  BY <1>s, <2>1 DEF Forward, EarlyGuest, BeforeGuestClean, BeforeHostClean, BeforeCommit, BeforeHost
<1>23. CASE Stopped
    <2>1. /\ own'.guest = own.guest /\ own'.host = own.host /\ own'.registry = own.registry
          /\ own'.pc \in {"hostClean0", "freeze"} /\ own.pc = "stopWait"
        BY <1>0, <1>23 DEF Stopped, AfterStop, OwnShape
    <2> QED  BY <1>s, <2>1 DEF Forward, EarlyGuest, BeforeGuestClean, BeforeHostClean, BeforeCommit, BeforeHost
<1>24. CASE Freeze
    <2>1. /\ own'.guest = own.guest /\ own'.host = own.host /\ own'.registry = own.registry
          /\ own'.pc = "commit0"
        BY <1>0, <1>24 DEF Freeze, Frozen, OwnShape
    <2> QED  BY <1>s, <1>24, <2>1 DEF Freeze, Forward, EarlyGuest, BeforeGuestClean, BeforeHostClean, BeforeCommit, BeforeHost
<1>25. CASE Receipt
    <2>1. own'.guest = own.guest /\ own'.host = own.host /\ own'.pc = "reap"
        BY <1>0, <1>25 DEF Receipt, OwnShape
    <2> QED  BY <2>1 DEF Course, Forward, EarlyGuest, BeforeGuestClean, BeforeHostClean, BeforeCommit, BeforeHost
<1>26. CASE Reap
    <2>1. /\ own'.guest = own.guest /\ own'.host = own.host /\ own'.registry = own.registry
          /\ own'.pc = "packet"
        BY <1>0, <1>26 DEF Reap, OwnShape
    <2> QED  BY <1>s, <2>1 DEF Forward, EarlyGuest, BeforeGuestClean, BeforeHostClean, BeforeCommit, BeforeHost
<1> QED  BY <1>1, <1>2, <1>3, <1>4, <1>5, <1>6, <1>7, <1>8, <1>9, <1>10, <1>11, <1>12, <1>13, <1>14, <1>15, <1>16, <1>17, <1>18, <1>19, <1>20, <1>21, <1>22, <1>23, <1>24, <1>25, <1>26 DEF Owner, Course

(***************************************************************************)
(* Each operation is asked for once, and what a complete one leaves.       *)
(***************************************************************************)
Operations == GuestOnce /\ CleanOnce /\ GuestComplete /\ HostComplete

\* A step elsewhere disturbs no operation.
LEMMA StillOperations ==
    ASSUME Operations, UNCHANGED <<own, wk, objs, cmd, res>>
    PROVE  Operations'
<1>1. \A r : Clear(r)' = Clear(r)
    BY DEF Clear, Quiet, RegIn, AckIn
<1>2. \A r : InHand(r)' = InHand(r) /\ Known(r)' = Known(r) /\ Settled(r)' = Settled(r)
    BY DEF InHand, Role, Known, Settled, AckIn
<1>3. GuestOnce'
    BY <1>1 DEF Operations, GuestOnce, OpIn
<1>4. CleanOnce'
    BY <1>1, <1>2 DEF Operations, CleanOnce, OpIn, DoneIn, Kept
<1>5. GuestComplete'
    BY <1>1 DEF Operations, GuestComplete, OpIn, DoneIn
<1>6. HostComplete'
    BY <1>2 DEF Operations, HostComplete, DoneIn
<1> QED  BY <1>3, <1>4, <1>5, <1>6 DEF Operations

\* Only the guest operation makes an object of the guest.
LEMMA GuestStays ==
    ASSUME Shape, Ground, Post, [Next]_vars, wk.op # "guest", NEW r \in Guest, Clear(r)
    PROVE  Clear(r)'
<1>0. r \in Roles /\ r # Root /\ r # Source
    BY RolesOfGuest
<1>1. ~(WkEvent /\ Role = r)
    BY <1>0, Creates DEF Of
<1> QED  BY <1>0, <1>1, ClearStays

\* The guest operation is asked for at most once, and before it there is nothing of the guest.
LEMMA GuestOnceStep ==
    ASSUME Shape, Ground, Post, Operations, Owner \/ Worker
    PROVE  GuestOnce'
<1>0. /\ GuestOnce /\ CleanOnce /\ Hand /\ Place /\ [Next]_vars
      /\ cmd \in Seq(Commands)
    BY DEF Operations, Post, Ground, Next, Shape, PipeShape
<1>1. \A r \in Guest : wk.op # "guest" /\ Clear(r) => Clear(r)'
    BY <1>0, GuestStays
<1>2. CASE Owner
    <2>1. /\ Forward(own'.pc)
          /\ \A op : OpIn(op)' => OpIn(op) \/ Asks(op)
          /\ \A a, b : Prior(cmd', Op(a), Op(b)) => Prior(cmd, Op(a), Op(b)) \/ (OpIn(a) /\ Asks(b))
          /\ wk'.op \in {wk.op, "none"}
        BY <1>0, <1>2, OwnerCourse, OwnerAsks, OwnerLeaves DEF OpIn
    <2>2. Asks("guest") => own.pc \in EarlyGuest /\ own.pc \in BeforeClean("guest-cleanup") /\ own'.pc \notin EarlyGuest
        BY DEF Asks, EarlyGuest, BeforeClean, BeforeGuestClean, BeforeHost
    <2>3. own'.pc \in EarlyGuest => ~OpIn("guest")' /\ wk'.op # "guest" /\ \A r \in Guest : Clear(r)'
        BY <1>0, <1>1, <2>1, <2>2 DEF GuestOnce, Forward
    <2>4. OpIn("guest")' => wk'.op # "guest" /\ \A r \in Guest : Clear(r)'
        BY <1>0, <1>1, <2>1, <2>2 DEF GuestOnce
    <2>5. ~Prior(cmd', Op("guest"), Op("guest")) /\ ~Prior(cmd', Op("guest-cleanup"), Op("guest"))
        BY <1>0, <2>1, <2>2 DEF GuestOnce, CleanOnce
    <2> QED  BY <2>3, <2>4, <2>5 DEF GuestOnce
<1>3. CASE Worker
    <2>1. /\ own' = own
          /\ \A op : OpIn(op)' => OpIn(op)
          /\ \A a, b : Prior(cmd', Op(a), Op(b)) => Prior(cmd, Op(a), Op(b))
          /\ wk'.op = "guest" => wk.op = "guest" \/ Takes("guest")
        BY <1>0, <1>3, WorkerOps, WorkerRest DEF OpIn, OwnerOps
    <2>2. Takes("guest") => OpIn("guest") /\ (OpIn("guest")' => Prior(cmd, Op("guest"), Op("guest")))
        BY <1>0, TakesEffect DEF OpIn
    <2>3. own'.pc \in EarlyGuest => ~OpIn("guest")' /\ wk'.op # "guest" /\ \A r \in Guest : Clear(r)'
        BY <1>0, <1>1, <2>1, <2>2 DEF GuestOnce
    <2>4. OpIn("guest")' => wk'.op # "guest" /\ \A r \in Guest : Clear(r)'
        BY <1>0, <1>1, <2>1, <2>2 DEF GuestOnce
    <2>5. ~Prior(cmd', Op("guest"), Op("guest")) /\ ~Prior(cmd', Op("guest-cleanup"), Op("guest"))
        BY <1>0, <2>1 DEF GuestOnce
    <2> QED  BY <2>3, <2>4, <2>5 DEF GuestOnce
<1> QED  BY <1>2, <1>3

\* Once the guest's cleanup was answered without errors, nothing of the guest is left or comes.
LEMMA GuestCompleteStep ==
    ASSUME Shape, Ground, Post, Operations, Owner \/ Worker
    PROVE  GuestComplete'
<1>0. /\ GuestOnce /\ CleanOnce /\ GuestComplete /\ Hand /\ Place /\ [Next]_vars
      /\ cmd \in Seq(Commands)
    BY DEF Operations, Post, Ground, Next, Shape, PipeShape
<1>1. \A r \in Guest : wk.op # "guest" /\ Clear(r) => Clear(r)'
    BY <1>0, GuestStays
<1>2. CASE Owner
    <2>1. /\ \A op : OpIn(op)' => OpIn(op) \/ Asks(op)
          /\ wk'.op \in {wk.op, "none"}
          /\ DoneIn("guest-cleanup")' => DoneIn("guest-cleanup")
          /\ own'.guest = "complete" => own.guest = "complete" \/ DoneIn("guest-cleanup")
        BY <1>0, <1>2, OwnerCourse, OwnerAsks, OwnerLeaves DEF OpIn, DoneIn
    <2>2. Asks("guest") => own.pc = "guest0" /\ own.pc \in BeforeClean("guest-cleanup")
        BY DEF Asks, BeforeClean, BeforeGuestClean, BeforeHost
    <2>3. Asks("guest") => own.guest # "complete" /\ ~DoneIn("guest-cleanup") /\ wk.op # "guest-cleanup"
        BY <1>0, <2>2 DEF CleanOnce, Place, Stopping, Deciding
    <2>4. wk'.op = "guest-cleanup" => ~OpIn("guest")'
        BY <1>0, <2>1, <2>3 DEF GuestComplete
    <2>5. DoneIn("guest-cleanup")' \/ own'.guest = "complete" =>
             ~OpIn("guest")' /\ wk'.op # "guest" /\ \A r \in Guest : Clear(r)'
        BY <1>0, <1>1, <2>1, <2>3 DEF GuestComplete
    <2> QED  BY <2>4, <2>5 DEF GuestComplete
<1>3. CASE Worker
    <2>1. /\ own' = own
          /\ \A op : OpIn(op)' => OpIn(op)
          /\ DoneIn("guest-cleanup")' => DoneIn("guest-cleanup") \/ Completes("guest-cleanup")
          /\ wk'.op = "guest" => wk.op = "guest" \/ Takes("guest")
          /\ wk'.op = "guest-cleanup" => wk.op = "guest-cleanup" \/ Takes("guest-cleanup")
        BY <1>0, <1>3, WorkerOps, WorkerRest DEF OpIn, DoneIn, OwnerOps
    <2>2. /\ Takes("guest") => OpIn("guest")
          /\ Takes("guest-cleanup") => (OpIn("guest")' => Prior(cmd, Op("guest-cleanup"), Op("guest")))
        BY <1>0, TakesEffect DEF OpIn
    <2>3. Completes("guest-cleanup") =>
             ~OpIn("guest") /\ wk.op = "guest-cleanup" /\ \A r \in Guest : Clear(r)
        <3>1. ASSUME Completes("guest-cleanup")
              PROVE  ~OpIn("guest") /\ wk.op = "guest-cleanup" /\ \A r \in Guest : Clear(r)
            <4>1. wk.op = "guest-cleanup" /\ ~wk.errs /\ ToSet(wk.todo) = {}
                BY <3>1, WalkSets DEF Completes
            <4> QED  BY <1>0, <4>1 DEF GuestComplete, CleanOnce, Walked
        <3> QED  BY <3>1
    <2>4. wk'.op = "guest-cleanup" => ~OpIn("guest")'
        BY <1>0, <2>1, <2>2 DEF GuestComplete, GuestOnce
    <2>5. DoneIn("guest-cleanup")' \/ own'.guest = "complete" =>
             ~OpIn("guest")' /\ wk'.op # "guest" /\ \A r \in Guest : Clear(r)'
        BY <1>0, <1>1, <2>1, <2>2, <2>3 DEF GuestComplete
    <2> QED  BY <2>4, <2>5 DEF GuestComplete
<1> QED  BY <1>2, <1>3

\* How a cleanup goes on as long as it meets no error.
LEMMA CleanupSteps ==
    ASSUME Shape, Hand, Worker, wk.op \in {"guest-cleanup", "host-cleanup"}, wk'.op = wk.op, ~wk'.errs
    PROVE  /\ wk.pc = "work" /\ wk.todo # <<>> /\ ~wk.errs
           /\ \/ WkEvent
              \/ /\ wk.wait /\ wk.step = "cleaned" /\ cmd # <<>> /\ Head(cmd) = Ack(Role, wk.step)
                 /\ wk' = Acknowledged /\ cmd' = Tail(cmd) /\ res' = res /\ objs' = objs
              \/ WkSkip
              \/ WkRemove /\ wk' = [wk EXCEPT !.step = "cleaned"]
<1>0. /\ WkShape(wk) /\ wk.pc = "work" /\ wk.step \in {"remove", "cleaned"}
    BY DEF Shape, Hand, First
<1>e. wk.todo # <<>> /\ OpError => wk'.errs = TRUE
    BY <1>0, OpErrorEffect
<1>a. \A pc : wk' # WkAt(pc)
    BY AtEffect
<1>1. CASE WkEvent
    BY <1>0, <1>1, EventEffect
<1>2. CASE WkAck
    <2>1. /\ wk.wait /\ wk.todo # <<>> /\ wk.step \in Events /\ cmd # <<>> /\ cmd' = Tail(cmd) /\ objs' = objs
          /\ \/ Head(cmd) = Ack(Role, wk.step) /\ wk' = Acknowledged /\ res' = res
             \/ OpError
        BY <1>2, AnswerEffect DEF WkAck
    <2>2. /\ wk.wait /\ wk.todo # <<>> /\ wk.step = "cleaned" /\ cmd # <<>> /\ cmd' = Tail(cmd) /\ objs' = objs
          /\ Head(cmd) = Ack(Role, wk.step) /\ wk' = Acknowledged /\ res' = res
        BY <1>0, <1>e, <2>1 DEF Events
    <2>3. wk'.errs = wk.errs
        BY <1>0, <2>2, AckEffect DEF Events
    <2> QED  BY <1>0, <2>2, <2>3
<1>3. CASE WkAckLost
    BY <1>3, <1>e DEF WkAckLost, Hand
<1>4. CASE WkMake
    BY <1>0, <1>4 DEF WkMake
<1>5. CASE WkSkip
    <2>1. wk.todo # <<>> /\ wk'.errs = wk.errs
        BY <1>5, OnwardFields DEF WkSkip, Working
    <2> QED  BY <1>0, <1>5, <2>1
<1>6. CASE WkRemove
    <2>1. wk.todo # <<>> /\ (wk' = [wk EXCEPT !.step = "cleaned"] \/ OpError)
        BY <1>6 DEF WkRemove, Working
    <2>2. wk' = [wk EXCEPT !.step = "cleaned"]
        BY <1>e, <2>1
    <2>3. wk'.errs = wk.errs
        BY <1>0, <2>2 DEF WkShape
    <2> QED  BY <1>0, <1>6, <2>1, <2>2, <2>3
<1>7. CASE WkDone
    BY <1>7, <1>a DEF WkDone, Replied
<1>8. CASE WkFault
    BY <1>8, <1>a, Zenon DEF WkFault
<1>9. CASE WkBoot \/ WkCommand \/ WkStage \/ WkPersist \/ WkPersistFails
    BY <1>0, <1>9 DEF WkBoot, WkCommand, WkStage, Replied, WkPersist, WkPersistFails
<1> QED  BY <1>1, <1>2, <1>3, <1>4, <1>5, <1>6, <1>7, <1>8, <1>9 DEF Worker

\* Each cleanup is asked for at most once, and what it has passed without an error is gone.
LEMMA CleanOnceStep ==
    ASSUME Shape, Ground, Post, Operations, Owner \/ Worker
    PROVE  CleanOnce'
<1> SUFFICES ASSUME NEW op \in {"guest-cleanup", "host-cleanup"}
             PROVE  /\ own'.pc \in BeforeClean(op) =>
                           ~OpIn(op)' /\ wk'.op # op /\ ~DoneIn(op)' /\ Kept(Walked(op))'
                    /\ OpIn(op)' => wk'.op # op /\ ~DoneIn(op)' /\ Kept(Walked(op))'
                    /\ ~Prior(cmd', Op(op), Op(op))
                    /\ wk'.op = op => ~DoneIn(op)'
                    /\ wk'.op = op /\ ~wk'.errs =>
                          \A r \in Walked(op) :
                             /\ r \notin ToSet(wk'.todo) => Clear(r)'
                             /\ ~Known(r)' /\ ~(InHand(r)' /\ wk'.wait) => Clear(r)'
    BY DEF CleanOnce
<1>0. /\ GuestOnce /\ Hand /\ Place /\ [Next]_vars /\ WkShape(wk)
      /\ cmd \in Seq(Commands) /\ op \in OwnerOps
      /\ own.pc \in BeforeClean(op) => ~OpIn(op) /\ wk.op # op /\ ~DoneIn(op) /\ Kept(Walked(op))
      /\ OpIn(op) => wk.op # op /\ ~DoneIn(op) /\ Kept(Walked(op))
      /\ ~Prior(cmd, Op(op), Op(op))
      /\ wk.op = op => ~DoneIn(op)
      /\ wk.op = op /\ ~wk.errs =>
            \A r \in Walked(op) :
               /\ r \notin ToSet(wk.todo) => Clear(r)
               /\ ~Known(r) /\ ~(InHand(r) /\ wk.wait) => Clear(r)
    BY DEF Operations, Post, Ground, Next, Shape, PipeShape, CleanOnce, OwnerOps
<1>w. Walked(op) \subseteq Roles /\ \A r \in Walked(op) : r \in Of(wk.op) /\ wk.op \in {"guest-cleanup", "host-cleanup"} => wk.op = op
    BY RolesOfGuest DEF Walked, Of, HostRoles
<1>k. wk.op # op /\ Kept(Walked(op)) => Kept(Walked(op))'
    <2> SUFFICES ASSUME wk.op # op, Kept(Walked(op)), NEW r \in Walked(op), ~Known(r)'
                 PROVE  Clear(r)'
        BY DEF Kept
    <2>1. r \in Roles /\ (~Known(r) => Clear(r))
        BY <1>w DEF Kept
    <2>2. ~(WkEvent /\ Role = r /\ wk.op \in {"guest-cleanup", "host-cleanup"})
        BY <1>w, <2>1, Creates
    <2> QED  BY <1>0, <2>1, <2>2, KeptStays
<1>c. ASSUME wk.op = op, NEW r \in Roles, Clear(r)
      PROVE  Clear(r)'
    <2>1. ~(WkEvent /\ Role = r)
        BY <1>c, Creates
    <2> QED  BY <1>0, <1>c, <2>1, ClearStays
<1>1. CASE Owner
    <2>1. /\ Forward(own'.pc)
          /\ OpIn(op)' => OpIn(op) \/ Asks(op)
          /\ Prior(cmd', Op(op), Op(op)) => Prior(cmd, Op(op), Op(op)) \/ (OpIn(op) /\ Asks(op))
          /\ DoneIn(op)' => DoneIn(op)
          /\ wk'.op = op => wk' = wk
        BY <1>0, <1>1, OwnerCourse, OwnerAsks, OwnerLeaves DEF OpIn, DoneIn
    <2>2. own'.pc \in BeforeClean(op) => own.pc \in BeforeClean(op)
        BY <2>1 DEF Forward, BeforeClean
    <2>3. Asks(op) => own.pc \in BeforeClean(op) /\ own'.pc \notin BeforeClean(op)
        BY DEF Asks, BeforeClean, BeforeGuestClean, BeforeHostClean, BeforeHost
    <2>4. own'.pc \in BeforeClean(op) => ~OpIn(op)' /\ wk'.op # op /\ ~DoneIn(op)' /\ Kept(Walked(op))'
        BY <1>0, <1>k, <2>1, <2>2, <2>3
    <2>5. OpIn(op)' => wk'.op # op /\ ~DoneIn(op)' /\ Kept(Walked(op))'
        BY <1>0, <1>k, <2>1, <2>3
    <2>6. ~Prior(cmd', Op(op), Op(op))
        BY <1>0, <2>1, <2>3
    <2>7. wk'.op = op => ~DoneIn(op)'
        BY <1>0, <2>1
    <2>8. ASSUME wk'.op = op, ~wk'.errs, NEW r \in Walked(op)
          PROVE  /\ r \notin ToSet(wk'.todo) => Clear(r)'
                 /\ ~Known(r)' /\ ~(InHand(r)' /\ wk'.wait) => Clear(r)'
        <3>1. wk' = wk /\ Known(r)' = Known(r) /\ InHand(r)' = InHand(r)
            BY <2>1, <2>8 DEF Known, InHand, Role
        <3> QED  BY <1>0, <1>c, <1>w, <2>8, <3>1
    <2> QED  BY <2>4, <2>5, <2>6, <2>7, <2>8
<1>2. CASE Worker
    <2>1. /\ own' = own
          /\ OpIn(op)' => OpIn(op)
          /\ Prior(cmd', Op(op), Op(op)) => Prior(cmd, Op(op), Op(op))
          /\ DoneIn(op)' => DoneIn(op) \/ Completes(op)
          /\ wk'.op = op => wk.op = op \/ Takes(op)
        BY <1>0, <1>2, WorkerOps, WorkerRest DEF OpIn, DoneIn
    <2>2. /\ Completes(op) => wk.op = op /\ wk'.op # op
          /\ Takes(op) => OpIn(op) /\ wk.op = "none" /\ (OpIn(op)' => Prior(cmd, Op(op), Op(op))) /\ res' = res
        <3>1. Completes(op) => wk.op = op /\ wk'.op # op
            <4>1. WkAt("idle").op = "none"
                BY AtEffect
            <4> QED  BY <4>1 DEF Completes
        <3>2. Takes(op) => OpIn(op) /\ wk.op = "none" /\ (OpIn(op)' => Prior(cmd, Op(op), Op(op))) /\ res' = res
            BY <1>0, TakesEffect DEF OpIn
        <3> QED  BY <3>1, <3>2
    <2>4. own'.pc \in BeforeClean(op) => ~OpIn(op)' /\ wk'.op # op /\ ~DoneIn(op)' /\ Kept(Walked(op))'
        BY <1>0, <1>k, <2>1, <2>2
    <2>5. OpIn(op)' => wk'.op # op /\ ~DoneIn(op)' /\ Kept(Walked(op))'
        BY <1>0, <1>k, <2>1, <2>2
    <2>6. ~Prior(cmd', Op(op), Op(op))
        BY <1>0, <2>1
    <2>7. wk'.op = op => ~DoneIn(op)'
        BY <1>0, <2>1, <2>2
    <2>8. ASSUME wk'.op = op, ~wk'.errs, NEW r \in Walked(op)
          PROVE  /\ r \notin ToSet(wk'.todo) => Clear(r)'
                 /\ ~Known(r)' /\ ~(InHand(r)' /\ wk'.wait) => Clear(r)'
        <3>1. CASE Takes(op)
            <4>1. ToSet(wk'.todo) = Walked(op)
                BY <1>0, <3>1, TakesEffect DEF Walked
            <4>2. Kept(Walked(op))'
                BY <1>0, <1>k, <2>2, <3>1
            <4> QED  BY <2>8, <4>1, <4>2 DEF Kept
        <3>2. CASE wk.op = op
            <4>0. /\ wk.pc = "work" /\ wk.todo # <<>> /\ ~wk.errs /\ r \in Roles
                  /\ \/ WkEvent
                     \/ /\ wk.wait /\ wk.step = "cleaned" /\ cmd # <<>> /\ Head(cmd) = Ack(Role, wk.step)
                        /\ wk' = Acknowledged /\ cmd' = Tail(cmd) /\ res' = res /\ objs' = objs
                     \/ WkSkip
                     \/ WkRemove /\ wk' = [wk EXCEPT !.step = "cleaned"]
                BY <1>0, <1>2, <1>w, <2>8, <3>2, CleanupSteps
            <4>1. /\ r \notin ToSet(wk.todo) => Clear(r)'
                  /\ ~Known(r) /\ ~(InHand(r) /\ wk.wait) => Clear(r)'
                BY <1>0, <1>c, <3>2, <4>0
            <4>2. ToSet(wk.todo) = {Role} \cup ToSet(Tail(wk.todo)) /\ Role \in Roles
                BY <1>0, <4>0, FirstAndRest, OnwardFields DEF WkShape, Role
            <4>3. r # Role => ~InHand(r)
                BY DEF InHand
            <4>4. CASE WkEvent
                <5>1. /\ wk'.todo = wk.todo /\ wk'.wait = TRUE /\ wk'.pc = "work" /\ wk'.src = wk.src
                      /\ wk'.ents = [wk.ents EXCEPT ![Role] = IF wk.step = "cleaned" THEN "none" ELSE wk.step]
                    BY <4>4, EventEffect DEF SameOp
                <5>2. CASE r = Role
                    <6>1. InHand(r)' /\ r \in ToSet(wk'.todo)
                        BY <4>0, <4>2, <5>1, <5>2 DEF InHand, Role
                    <6> QED  BY <5>1, <6>1
                <5>3. CASE r # Role
                    <6>1. Known(r)' = Known(r)
                        BY <1>0, <4>2, <5>1, <5>3 DEF Known, WkShape
                    <6> QED  BY <4>1, <4>3, <5>1, <5>3, <6>1
                <5> QED  BY <5>2, <5>3
            <4>5. CASE /\ wk.wait /\ wk.step = "cleaned" /\ cmd # <<>> /\ Head(cmd) = Ack(Role, wk.step)
                       /\ wk' = Acknowledged /\ cmd' = Tail(cmd) /\ res' = res /\ objs' = objs
                <5>1. /\ wk'.todo = Tail(wk.todo) /\ wk'.ents = wk.ents
                      /\ wk'.src = (wk.src /\ ~(wk.step = "cleaned" /\ Role = Source))
                    BY <4>0, <4>5, AckEffect DEF NextObject, Events
                <5>2. CASE r = Role
                    <6>1. Clear(r)'
                        BY <2>1, <4>0, <4>5, <5>2, AckPost DEF InHand
                    <6> QED  BY <6>1
                <5>3. CASE r # Role
                    <6>1. Known(r)' = Known(r) /\ (r \notin ToSet(wk'.todo) => r \notin ToSet(wk.todo))
                        BY <1>0, <4>2, <5>1, <5>3 DEF Known, WkShape
                    <6> QED  BY <4>1, <4>3, <5>3, <6>1
                <5> QED  BY <5>2, <5>3
            <4>6. CASE WkSkip
                <5>1. wk'.todo = Tail(wk.todo) /\ wk'.ents = wk.ents /\ wk'.src = wk.src /\ ~wk.wait /\ ~Known(Role)
                    BY <4>6, OnwardFields DEF WkSkip, Working
                <5>2. Known(r)' = Known(r)
                    BY <5>1 DEF Known
                <5>3. r = Role => Clear(r)'
                    BY <4>1, <5>1
                <5>4. r # Role => (r \notin ToSet(wk'.todo) => r \notin ToSet(wk.todo))
                    BY <4>2, <5>1
                <5> QED  BY <4>1, <5>1, <5>2, <5>3, <5>4
            <4>7. CASE WkRemove /\ wk' = [wk EXCEPT !.step = "cleaned"]
                <5>1. wk'.todo = wk.todo /\ wk'.ents = wk.ents /\ wk'.src = wk.src /\ ~wk.wait
                    BY <1>0, <4>7 DEF WkRemove, Working, WkShape
                <5>2. Known(r)' = Known(r)
                    BY <5>1 DEF Known
                <5> QED  BY <4>1, <5>1, <5>2
            <4> QED  BY <4>0, <4>4, <4>5, <4>6, <4>7
        <3> QED  BY <2>1, <2>8, <3>1, <3>2
    <2> QED  BY <2>4, <2>5, <2>6, <2>7, <2>8
<1> QED  BY <1>1, <1>2

\* Only a registration is acknowledged.
LEMMA OnlyRegister ==
    ASSUME Shape, Owner, ~Register
    PROVE  \A q, t : Has(cmd', Ack(q, t)) => Has(cmd, Ack(q, t))
<1>0. cmd \in Seq(Commands)
    BY DEF Shape, PipeShape
<1>1. CASE cmd' = cmd \/ cmd' = <<>>
    BY <1>1, NothingThere
<1>2. CASE \E m \in Commands : m.t # "ack" /\ cmd' = Append(cmd, m)
    <2>1. PICK m \in Commands : m.t # "ack" /\ cmd' = Append(cmd, m)
        BY <1>2
    <2>2. \A q, t : Ack(q, t) # m
        BY <2>1, Kinds
    <2> QED  BY <1>0, <2>1, <2>2, SentLast
<1>3. CASE GuestInit \/ Clean
    <2>1. \/ cmd' = cmd
          \/ \E op \in OwnerOps : Command(op)
        BY <1>3 DEF GuestInit, Clean, CleanOp, OwnerOps
    <2>2. \A op \in OwnerOps : Command(op) => Op(op) \in Commands /\ Op(op).t # "ack" /\ cmd' = Append(cmd, Op(op))
        BY Messages, Kinds DEF Command, Op
    <2> QED  BY <1>1, <1>2, <2>1, <2>2
<1>4. CASE Commit
    BY <1>1, <1>2, <1>4, CommitmentShape DEF Commit, Shape
<1>5. CASE ~GuestInit /\ ~Clean /\ ~Commit
    <2>1. cmd' = cmd \/ cmd' = <<>>
        BY <1>5, Zenon DEF Owner, EvidenceStart, EvidenceReady, Action, ActionDone, ActionLost, GuestReady,
             HostFork, RegisterTransport, HostCancel, HostDone, HostLost, UnwindBegins, CleanDone, WaitLost,
             Stop, Stopped, StopLost, Freeze, Receipt, ReceiptLost, Reap, Report, World
    <2> QED  BY <1>1, <2>1
<1> QED  BY <1>3, <1>4, <1>5

\* An object is made only after its intent was acknowledged.
LEMMA MakeAcknowledged ==
    ASSUME Shape, Hand, Worker, wk'.pc = "work", wk'.step = "make"
    PROVE  /\ wk.pc = "work" /\ wk'.todo = wk.todo
           /\ \/ wk.step = "make"
              \/ wk.step = "intent" /\ cmd # <<>> /\ Head(cmd) = Ack(Role, "intent")
<1>0. WkShape(wk)
    BY DEF Shape
<1>a. \A pc : pc # "work" => wk' # WkAt(pc)
    BY AtEffect
<1>e. ~(wk.pc = "work" /\ wk.todo # <<>> /\ OpError)
    BY OpErrorEffect
<1>s. \A op, todo : todo \in Seq(Roles) /\ IsInjective(todo) => ~Starts(op, todo)
    <2> SUFFICES ASSUME NEW op, NEW todo \in Seq(Roles), IsInjective(todo), Starts(op, todo)
                 PROVE  FALSE
        OBVIOUS
    <2>1. wk'.step = First(op)
        BY StartEffect
    <2> QED  BY <2>1 DEF First
<1>1. CASE WkBoot
    <2>1. <<Root>> \in Seq(Roles) /\ IsInjective(<<Root>>)
        BY RolesOfGuest DEF IsInjective
    <2> QED  BY <1>1, <1>a, <1>s, <2>1 DEF WkBoot, Dies
<1>2. CASE WkEvent
    BY <1>2, EventEffect DEF Events
<1>3. CASE WkAck
    <2>1. /\ wk.pc = "work" /\ wk.todo # <<>> /\ wk.step \in Events /\ cmd # <<>>
          /\ Head(cmd) = Ack(Role, wk.step) /\ wk' = Acknowledged
        BY <1>3, <1>e, AnswerEffect
    <2>2. wk.step = "intent" /\ wk'.todo = wk.todo
        BY <2>1, AckEffect DEF NextObject, First
    <2> QED  BY <2>1, <2>2
<1>4. CASE WkAckLost
    BY <1>4, <1>e DEF WkAckLost, Hand
<1>5. CASE WkMake
    <2>1. wk' = [wk EXCEPT !.step = "bound"]
        BY <1>5, <1>e DEF WkMake, Working
    <2> QED  BY <1>0, <2>1 DEF WkShape
<1>6. CASE WkSkip
    BY <1>6, OnwardFields DEF WkSkip, Working, First
<1>7. CASE WkRemove
    <2>1. wk' = [wk EXCEPT !.step = "cleaned"]
        BY <1>7, <1>e DEF WkRemove, Working
    <2> QED  BY <1>0, <2>1 DEF WkShape
<1>8. CASE WkDone
    <2>1. wk.pc = "work" /\ wk.op \in {"host", "guest", "stage"} /\ OpError
        BY <1>8, <1>a DEF WkDone, Replied
    <2> QED  BY <2>1, OpErrorEffect
<1>9. CASE WkCommand
    <2>1. (\E op : Starts(op, Walk(op))) \/ wk' = [wk EXCEPT !.pc = "persist", !.sent = Head(cmd)] \/ wk' = WkAt("dead")
        BY <1>9, Zenon DEF WkCommand, Dies
    <2>2. wk' = [wk EXCEPT !.pc = "persist", !.sent = Head(cmd)]
        BY <1>a, <1>s, <2>1, Walks
    <2> QED  BY <1>0, <2>2 DEF WkShape
<1>10. CASE WkStage
    <2>1. CASE wk' = wk
        BY <1>10, <2>1 DEF WkStage, Replied
    <2>2. CASE wk' # wk
        <3>1. wk'.step = First(net.stage)
            BY <1>0, <1>10, <2>2 DEF WkStage, Replied, WkShape
        <3> QED  BY <3>1 DEF First
    <2> QED  BY <2>1, <2>2
<1>11. CASE WkPersist
    <2>1. wk' = [wk EXCEPT !.pc = "seal"] \/ wk' = [wk EXCEPT !.pc = "answer"]
        BY <1>11, <1>a DEF WkPersist
    <2> QED  BY <1>0, <2>1 DEF WkShape
<1>12. CASE WkPersistFails
    BY <1>12, <1>a DEF WkPersistFails, Dies
<1>13. CASE WkFault
    BY <1>13, <1>a DEF WkFault
<1> QED  BY <1>1, <1>2, <1>3, <1>4, <1>5, <1>6, <1>7, <1>8, <1>9, <1>10, <1>11, <1>12, <1>13 DEF Worker

\* Once the host's cleanup was answered without errors, no object of the host is left, and none
\* is made that the owner did not record.
LEMMA HostCompleteStep ==
    ASSUME Shape, Ground, Post, Operations, Owner \/ Worker
    PROVE  HostComplete'
<1> DEFINE D == Done("host-cleanup")
<1> SUFFICES ASSUME NEW r \in HostRoles
             PROVE  /\ DoneIn("host-cleanup")' =>
                         /\ Settled(r)' /\ own'.registry[r] = "none"
                         /\ \A s \in Events : ~Prior(res', Reg(r, s), D)
                    /\ own'.host = "complete" =>
                         Settled(r)' /\ (own'.pc \in {"freeze", "commit0"} => own'.registry[r] = "none")
    BY DEF HostComplete
<1>0. /\ CleanOnce /\ Hand /\ Place /\ WkShape(wk) /\ r \in Roles /\ [Next]_vars
      /\ cmd \in Seq(Commands) /\ res \in Seq(Answered) /\ own.registry \in [Roles -> States]
      /\ DoneIn("host-cleanup") =>
            /\ Settled(r) /\ own.registry[r] = "none"
            /\ \A s \in Events : ~Prior(res, Reg(r, s), D)
      /\ own.host = "complete" =>
            Settled(r) /\ (own.pc \in {"freeze", "commit0"} => own.registry[r] = "none")
    BY RolesOfGuest DEF Operations, Post, Ground, Next, Shape, OwnShape, PipeShape, HostComplete
<1> HIDE DEF D
<1>1. CASE Owner
    <2>1. /\ DoneIn("host-cleanup")' => DoneIn("host-cleanup")
          /\ \A s : Prior(res', Reg(r, s), D) => Prior(res, Reg(r, s), D)
          /\ own'.host = "complete" => own.host = "complete" \/ DoneIn("host-cleanup")
          /\ own'.host = "complete" /\ own'.pc \in {"freeze", "commit0"} => own'.registry = own.registry
          /\ objs' = objs /\ Forward(own'.pc)
        BY <1>0, <1>1, OwnerCourse, OwnerAsks, OwnerRest DEF DoneIn, D
    <2>2. InHand(r)' => InHand(r) /\ wk' = wk
        BY <1>0, <1>1, OwnerLeaves DEF InHand, Role, Hand
    <2>3. own.host = "complete" /\ own'.pc \in {"freeze", "commit0"} => own.pc \in {"freeze", "commit0"}
        BY <1>0, <2>1 DEF Forward, BeforeCommit, Place, Deciding, BeforeHostClean, BeforeGuestClean, BeforeHost
    <2>4. own.host = "complete" => \A t \in Events : AckIn(r, t)' => AckIn(r, t)
        <3>1. own.host = "complete" => ~Register
            BY <1>0 DEF Register, Place, Deciding
        <3> QED  BY <1>1, <3>1, OnlyRegister DEF AckIn
    <2>5. own.host = "complete" /\ own'.host = "complete" =>
             Settled(r)' /\ (own'.pc \in {"freeze", "commit0"} => own'.registry[r] = "none")
        BY <1>0, <2>1, <2>2, <2>3, <2>4 DEF Settled
    <2>6. CASE Quietly
        <3>1. own'.registry = own.registry /\ \A s \in Events : AckIn(r, s)' => AckIn(r, s)
            BY <1>0, <2>6, QuietPipes DEF Quietly, NoNews, AckIn
        <3>2. DoneIn("host-cleanup") => Settled(r)' /\ own'.registry[r] = "none"
            BY <1>0, <2>1, <2>2, <3>1 DEF Settled
        <3> QED  BY <1>0, <2>1, <2>5, <3>2
    <2>7. CASE Records
        <3>1. PICK q \in Roles, s \in Events :
                 /\ res # <<>> /\ Head(res) = Reg(q, s)
                 /\ Recorded(Head(res)) = [own.registry EXCEPT ![q] = IF s = "cleaned" THEN "none" ELSE s]
            BY <2>7, Recording DEF Records
        <3>2. res' = Tail(res) /\ wk' = wk /\ (cmd' = cmd \/ cmd' = Append(cmd, Ack(q, s)))
            BY <2>7, <3>1, Kinds DEF Records
        <3>3. DoneIn("host-cleanup") => Prior(res, Reg(q, s), D)
            <4>1. D # Reg(q, s)
                BY Kinds DEF D
            <4> QED  BY <1>0, <3>1, <4>1, ReadFirst DEF DoneIn, D
        <3>4. DoneIn("host-cleanup") => q # r
            BY <1>0, <3>3
        <3>5. ASSUME q # r
              PROVE  own'.registry[r] = own.registry[r] /\ \A t \in Events : AckIn(r, t)' => AckIn(r, t)
            <4>1. own'.registry[r] = own.registry[r]
                BY <1>0, <2>7, <3>1, <3>5 DEF Records
            <4>2. \A t : Ack(r, t) # Ack(q, s)
                BY <3>5 DEF Ack
            <4>3. CASE cmd' = Append(cmd, Ack(q, s))
                BY <1>0, <4>1, <4>2, <4>3, Messages, SentLast DEF AckIn
            <4> QED  BY <3>2, <4>1, <4>3 DEF AckIn
        <3>6. DoneIn("host-cleanup") => Settled(r)' /\ own'.registry[r] = "none"
            BY <1>0, <2>1, <2>2, <3>4, <3>5 DEF Settled
        <3> QED  BY <1>0, <2>1, <2>5, <3>6
    <2> QED  BY <1>0, <1>1, <2>6, <2>7, OwnerMessages
<1>2. CASE Worker
    <2>1. /\ own' = own /\ (cmd' = cmd \/ (cmd # <<>> /\ cmd' = Tail(cmd)))
          /\ DoneIn("host-cleanup")' => DoneIn("host-cleanup") \/ Completes("host-cleanup")
          /\ \A s \in Events : Prior(res', Reg(r, s), D) =>
                Prior(res, Reg(r, s), D) \/ (Completes("host-cleanup") /\ RegIn(r, s))
        BY <1>0, <1>2, WorkerOps, WorkerReads, WorkerRest DEF DoneIn, D, RegIn
    <2>2. \A t : AckIn(r, t)' => AckIn(r, t)
        BY <1>0, <2>1, ReadFirst DEF AckIn
    <2>3. Settled(r) => Settled(r)'
        <3>1. ASSUME Settled(r)  PROVE r \notin objs'
            <4>1. CASE WkEvent
                BY <3>1, <4>1 DEF WkEvent, Settled
            <4>2. CASE WkMake
                <5>1. wk.pc = "work" /\ wk.todo # <<>> /\ wk.step = "make" /\ objs' \in {objs, objs \cup {Role}}
                    BY <4>2 DEF WkMake, Working
                <5> QED  BY <3>1, <5>1 DEF Settled, InHand
            <4>3. CASE ~WkEvent /\ ~WkMake
                <5>1. objs' = objs \/ objs' = objs \ {Role}
                    BY <1>2, <4>3, Zenon DEF Worker, WkBoot, WkAck, WkAckLost, WkSkip, WkRemove, WkDone, Replied,
                         WkCommand, WkStage, WkPersist, WkPersistFails, WkFault
                <5> QED  BY <3>1, <5>1 DEF Settled
            <4> QED  BY <4>1, <4>2, <4>3
        <3>2. ASSUME Settled(r), InHand(r)', wk'.step = "make"  PROVE FALSE
            <4>1. /\ wk.pc = "work" /\ wk'.todo = wk.todo /\ wk'.pc = "work" /\ wk'.todo # <<>> /\ Head(wk'.todo) = r
                  /\ \/ wk.step = "make"
                     \/ wk.step = "intent" /\ cmd # <<>> /\ Head(cmd) = Ack(Role, "intent")
                BY <1>0, <1>2, <3>2, MakeAcknowledged DEF InHand, Role
            <4>2. InHand(r) /\ Role = r
                BY <4>1 DEF InHand, Role
            <4>3. wk.step # "make"
                BY <3>2, <4>2 DEF Settled
            <4>4. AckIn(r, "intent")
                BY <1>0, <4>1, <4>2, <4>3, ReadFirst DEF AckIn
            <4> QED  BY <3>2, <4>4 DEF Settled, Events
        <3> QED  BY <2>2, <3>1, <3>2 DEF Settled
    <2>4. Completes("host-cleanup") =>
             /\ Settled(r)' /\ own.registry[r] = "none"
             /\ \A s \in Events : ~RegIn(r, s)
             /\ ~DoneIn("host-cleanup")
        <3> SUFFICES ASSUME Completes("host-cleanup")
                     PROVE  /\ Settled(r)' /\ own.registry[r] = "none"
                            /\ \A s \in Events : ~RegIn(r, s)
                            /\ ~DoneIn("host-cleanup")
            OBVIOUS
        <3>1. wk.op = "host-cleanup" /\ ~wk.errs /\ wk.todo = <<>> /\ ToSet(wk.todo) = {}
            BY WalkSets DEF Completes
        <3>2. Clear(r) /\ ~DoneIn("host-cleanup")
            BY <1>0, <3>1 DEF CleanOnce, Walked
        <3>3. Settled(r)
            BY <3>1, <3>2 DEF Clear, Quiet, Settled, InHand
        <3> QED  BY <2>3, <3>2, <3>3 DEF Clear, Quiet
    <2>5. DoneIn("host-cleanup") => \A s \in Events : ~Prior(res', Reg(r, s), D)
        BY <1>0, <2>1, <2>4
    <2>6. Completes("host-cleanup") => \A s \in Events : ~Prior(res', Reg(r, s), D)
        <3>1. \A s : Prior(res, Reg(r, s), D) => DoneIn("host-cleanup")
            BY DEF Prior, DoneIn, Has, D
        <3> QED  BY <2>1, <2>4, <3>1
    <2> QED  BY <1>0, <2>1, <2>3, <2>4, <2>5, <2>6
<1> QED  BY <1>1, <1>2

\* Controller, adapters and host stage take no part in the operations.
LEMMA OtherOperations ==
    ASSUME Shape, Operations, Others \/ UNCHANGED vars
    PROVE  Operations'
<1>1. UNCHANGED <<own, wk, objs, cmd, res>>
    BY OthersEffect DEF vars
<1> QED  BY <1>1, StillOperations

\* Every step keeps what is said of the operations.
LEMMA OperationsStep ==
    ASSUME Shape, Ground, Post, Operations, [Next]_vars
    PROVE  Operations'
<1>1. CASE Owner \/ Worker
    BY <1>1, GuestOnceStep, CleanOnceStep, GuestCompleteStep, HostCompleteStep DEF Operations
<1>2. CASE Others \/ UNCHANGED vars
    BY <1>2, OtherOperations
<1> QED  BY <1>1, <1>2 DEF Next, Others

\* No operation has been asked for in a new attempt.
LEMMA OperationsInit == Init => Operations
<1> SUFFICES ASSUME Init  PROVE Operations
    OBVIOUS
<1>1. cmd = <<>> /\ res = <<>> /\ objs = {} /\ wk.op = "none" /\ own.pc = "begin"
      /\ own.guest = "not-attempted" /\ own.host = "not-attempted"
      /\ \A r \in Roles : own.registry[r] = "none" /\ wk.ents[r] = "none"
    BY DEF Init
<1>2. \A r \in Roles : Clear(r)
    BY <1>1, NothingThere DEF Clear, Quiet, RegIn, AckIn
<1>3. \A r \in Guest \cup HostRoles : Clear(r)
    BY <1>2, RolesOfGuest DEF HostRoles, Roles
<1>4. GuestOnce
    BY <1>1, <1>3, NothingThere DEF GuestOnce, OpIn
<1>5. CleanOnce
    BY <1>1, <1>3, NothingThere DEF CleanOnce, OpIn, DoneIn, Kept, Walked
<1>6. GuestComplete
    BY <1>1, NothingThere DEF GuestComplete, DoneIn
<1>7. HostComplete
    BY <1>1, NothingThere DEF HostComplete, DoneIn
<1> QED  BY <1>4, <1>5, <1>6, <1>7 DEF Operations

(***************************************************************************)
(* What is committed and what becomes of it.                               *)
(***************************************************************************)

\* Once the facts are frozen, no step of the owner changes them.
LEMMA DecidedStays ==
    ASSUME Shape, Facts, Owner, own.pc \in Deciding
    PROVE  own'.facts = own.facts /\ own'.report = own.report /\ own'.pc \in Deciding \ {"commit0"}
<1>0. OwnShape(own) /\ CleanupError(own.facts) = own.facts
    BY MarksGrow DEF Shape, Facts
<1>1. Commit \/ Receipt \/ ReceiptLost \/ Reap \/ Report
    <2>1. ~(EvidenceStart \/ Register \/ EvidenceReady \/ Action \/ ActionDone \/ ActionLost \/ GuestInit \/ GuestReady)
        BY DEF Deciding, EvidenceStart, Register, EvidenceReady, Action, ActionDone, ActionLost, GuestInit, GuestReady
    <2>2. ~(HostFork \/ RegisterTransport \/ HostCancel \/ HostDone \/ HostLost \/ UnwindBegins)
        BY DEF Deciding, HostFork, RegisterTransport, HostCancel, HostDone, HostLost, UnwindBegins
    <2>3. ~(Clean \/ CleanDone \/ WaitLost \/ Stop \/ Stopped \/ StopLost \/ Freeze)
        BY DEF Deciding, Clean, CleanDone, WaitLost, Stop, Stopped, StopLost, Freeze, CleanStages, CleanWaits
    <2> QED  BY <2>1, <2>2, <2>3 DEF Owner
<1>2. CASE Commit
    BY <1>0, <1>2, GoMoves DEF Commit, Moves, SameReport, Deciding
<1>3. CASE Receipt
    BY <1>0, <1>3 DEF Receipt, OwnShape, Deciding
<1>4. CASE ReceiptLost
    BY <1>0, <1>4, GoMoves DEF ReceiptLost, Moves, SameReport, Deciding
<1>5. CASE Reap
    BY <1>0, <1>5 DEF Reap, OwnShape, Deciding
<1>6. CASE Report
    BY <1>0, <1>6, GoMoves DEF Report, Moves, SameReport, Deciding
<1> QED  BY <1>1, <1>2, <1>3, <1>4, <1>5, <1>6

\* The receipt that the owner holds is the one it read.
LEMMA ReceiptRead ==
    ASSUME Shape, Owner
    PROVE  /\ own'.receipt = "passed" => own.receipt = "passed" \/ Has(res, Sealing)
           /\ packet' = "passed" => packet = "passed" \/ own.receipt = "passed"
<1>0. OwnShape(own) /\ Shape
    BY DEF Shape
<1>1. CASE Receipt
    <2>1. res # <<>> /\ Head(res) \in Answered /\ Has(res, Head(res)) /\ packet' = packet
        BY <1>1, ReadFirst DEF Receipt, Shape, PipeShape
    <2>2. own'.receipt = "passed" => Head(res).t = "receipt" /\ Head(res).passed = "passed"
        BY <1>0, <1>1 DEF Receipt, OwnShape
    <2>3. Head(res).t = "receipt" /\ Head(res).passed = "passed" => Head(res) = Sealing
        BY <2>1 DEF Answered, Regs, Readies, Dones, Receipts, Sealing
    <2> QED  BY <2>1, <2>2, <2>3
<1>2. CASE Report
    BY <1>0, <1>2, GoMoves DEF Report
<1>3. CASE EvidenceStart \/ EvidenceReady \/ Action \/ ActionDone \/ ActionLost \/ GuestInit \/ GuestReady
    BY <1>0, <1>3, GoMoves, Zenon DEF EvidenceStart, EvidenceReady, Action, ActionDone, ActionLost, GuestInit,
                               GuestReady, Unwind, Finish
<1>4. CASE HostFork \/ RegisterTransport \/ HostCancel \/ StopLost \/ Commit \/ ReceiptLost
    BY <1>0, <1>4, GoMoves, Zenon DEF HostFork, RegisterTransport, HostCancel, StopLost, Commit, ReceiptLost, Unwind, World
<1>5. CASE HostDone \/ HostLost
    <2>1. \E f, report, registry : HostEnd(f, report, registry)
        BY <1>5, Zenon DEF HostDone, HostLost
    <2>2. own'.receipt = own.receipt
        BY <1>0, <2>1 DEF HostEnd, OwnShape
    <2> QED  BY <1>5, <2>2 DEF HostDone, HostLost
<1>6. CASE Register \/ UnwindBegins \/ Freeze \/ Reap
    BY <1>0, <1>6 DEF Register, UnwindBegins, Freeze, Frozen, Reap, OwnShape, World
<1>7. CASE Clean
    <2>1. own'.receipt = own.receipt
        BY <1>0, <1>7, GoMoves, CleanedShape DEF Clean
    <2> QED  BY <1>7, <2>1 DEF Clean
<1>8. CASE CleanDone
    <2>1. \E status \in {"unconfirmed", "complete"} : own' = Cleaned(status)
        BY <1>8 DEF CleanDone
    <2>2. own'.receipt = own.receipt
        BY <1>0, <1>8, <2>1, CleanedShape DEF CleanDone
    <2> QED  BY <1>8, <2>2 DEF CleanDone
<1>9. CASE WaitLost
    <2>1. own.pc \in {"evidence", "guest"} \cup CleanWaits /\ packet' = packet
          /\ (own' = GivenUp \/ own' = [GivenUp EXCEPT !.registry = Recorded(Head(res))])
        BY <1>9, Zenon DEF WaitLost
    <2>2. GivenUp.receipt = own.receipt /\ OwnShape(GivenUp)
        BY <1>0, <2>1, GivenUpShape, CleanedShape DEF OwnShape
    <2> QED  BY <2>1, <2>2 DEF OwnShape
<1>10. CASE Stop
    <2>1. own'.receipt = own.receipt
        BY <1>0, <1>10, GoMoves DEF Stop, OwnShape
    <2> QED  BY <1>10, <2>1 DEF Stop
<1>11. CASE Stopped
    <2>1. own'.receipt = own.receipt
        BY <1>0, <1>11 DEF Stopped, OwnShape
    <2> QED  BY <1>11, <2>1 DEF Stopped
<1> QED  BY <1>1, <1>2, <1>3, <1>4, <1>5, <1>6, <1>7, <1>8, <1>9, <1>10, <1>11 DEF Owner

\* What the worker's steps change of the commitment, the report on disk and
\* the answer to it.
LEMMA WorkerSeals ==
    ASSUME Shape, Hand, Worker
    PROVE  /\ wk'.pc \in {"persist", "seal", "answer"} =>
                 \/ cmd # <<>> /\ Head(cmd).t = "commit" /\ wk'.sent = Head(cmd)
                 \/ wk.pc \in {"persist", "seal", "answer"} /\ wk'.sent = wk.sent
           /\ disk' = "passed" =>
                 \/ disk = "passed"
                 \/ wk.pc = "seal" /\ wk'.pc = "answer" /\ "passed" \in wk.sent.facts
           /\ wk.pc \in {"answer", "done", "dead", "stuck"} =>
                 disk' = disk /\ wk'.pc \in {"answer", "done", "dead", "stuck"}
           /\ Has(res', Sealing) => Has(res, Sealing) \/ (disk = "passed" /\ wk.pc = "answer")
<1>0. WkShape(wk) /\ res \in Seq(Answered) /\ disk \in Disks
    BY DEF Shape, PipeShape
<1> DEFINE Late == {"answer", "done", "dead", "stuck"}
<1>n. /\ Sealing.t = "receipt" /\ Sealing.passed = "passed"
      /\ \A m \in Answered : Has(Append(res, m), Sealing) <=> Has(res, Sealing) \/ m = Sealing
    BY <1>0, Kinds, SentLast
<1>r. \A m \in Answered : res' = Append(res, m) /\ m.t # "receipt" => (Has(res', Sealing) => Has(res, Sealing))
    BY <1>n
<1>e. ASSUME wk.pc = "work", OpError, wk.op \in {"guest-cleanup", "host-cleanup"} => wk.todo # <<>>
      PROVE  wk'.pc \in {"idle", "work"} /\ (Has(res', Sealing) => Has(res, Sealing))
    <2>1. wk'.pc \in {"idle", "work"}
        BY <1>e, OpErrorEffect
    <2>2. res' = res \/ \E m \in Answered : res' = Append(res, m) /\ m.t \in {"ready", "done"}
        BY <1>e, OpErrorEffect
    <2> QED  BY <1>r, <2>1, <2>2
<1>q. ASSUME wk.pc \in {"boot", "work", "idle"}, wk'.pc \in {"idle", "work", "dead"}, Has(res', Sealing) => Has(res, Sealing),
             disk' \in {disk, "attempt"}
      PROVE  /\ wk'.pc \notin {"persist", "seal", "answer"} /\ (disk' = "passed" => disk = "passed") /\ wk.pc \notin Late
             /\ Has(res', Sealing) => Has(res, Sealing)
    BY <1>q
<1>1. CASE WkBoot
    <2>1. [t |-> "ready", attempt |-> TRUE, ok |-> TRUE] \in Answered
          /\ [t |-> "ready", attempt |-> FALSE, ok |-> FALSE] \in Answered
        BY Messages
    <2>2. Has(res', Sealing) => Has(res, Sealing)
        BY <1>1, <1>r, <2>1 DEF WkBoot
    <2>3. Starts("host", <<Root>>) \/ \E pc \in {"idle", "dead"} : wk' = WkAt(pc)
        BY <1>1, Zenon DEF WkBoot, Dies
    <2>4. <<Root>> \in Seq(Roles) /\ IsInjective(<<Root>>)
        BY RolesOfGuest DEF IsInjective
    <2>5. wk'.pc \in {"idle", "work", "dead"}
        BY <2>3, <2>4, StartEffect, AtEffect
    <2> QED  BY <1>1, <1>q, <2>2, <2>5 DEF WkBoot
<1>2. CASE WkEvent
    <2>1. Has(res', Sealing) => Has(res, Sealing)
        BY <1>2, <1>r, EventEffect, Kinds
    <2> QED  BY <1>2, <1>q, <2>1, EventEffect DEF WkEvent, SameOp
<1>3. CASE WkAck
    <2>1. wk'.pc \in {"idle", "work"} /\ (Has(res', Sealing) => Has(res, Sealing))
        BY <1>3, <1>e, AnswerEffect, AckEffect DEF SameOp
    <2> QED  BY <1>3, <1>q, <2>1 DEF WkAck
<1>4. CASE WkAckLost
    <2>1. wk.todo # <<>>
        BY <1>4 DEF WkAckLost, Hand
    <2> QED  BY <1>4, <1>e, <1>q, <2>1 DEF WkAckLost
<1>5. CASE WkMake
    <2>1. wk.todo # <<>> /\ wk.pc = "work"
        BY <1>5 DEF WkMake, Working
    <2>2. CASE wk' = [wk EXCEPT !.step = "bound"] /\ UNCHANGED <<net, res>>
        BY <1>0, <1>5, <1>q, <2>1, <2>2 DEF WkMake, WkShape
    <2>3. CASE OpError
        BY <1>5, <1>e, <1>q, <2>1, <2>3 DEF WkMake
    <2> QED  BY <1>5, <2>2, <2>3 DEF WkMake
<1>6. CASE WkSkip
    BY <1>6, <1>q, OnwardFields DEF WkSkip, Working
<1>7. CASE WkRemove
    <2>1. wk.todo # <<>> /\ wk.pc = "work"
        BY <1>7 DEF WkRemove, Working
    <2>2. CASE wk' = [wk EXCEPT !.step = "cleaned"] /\ UNCHANGED <<net, res>>
        BY <1>0, <1>7, <1>q, <2>1, <2>2 DEF WkRemove, WkShape
    <2>3. CASE OpError
        BY <1>7, <1>e, <1>q, <2>1, <2>3 DEF WkRemove
    <2> QED  BY <1>7, <2>2, <2>3 DEF WkRemove
<1>8. CASE WkDone
    <2>1. CASE wk' = WkAt("idle")
        <3>1. wk.op \in {"host", "guest", "stage", "clean", "guest-cleanup", "host-cleanup"}
            BY <1>8 DEF WkDone, Replied, Hand
        <3>2. Has(res', Sealing) => Has(res, Sealing)
            <4>1. [t |-> "ready", attempt |-> TRUE, ok |-> TRUE] \in Answered
                BY Messages
            <4>2. wk.op \in OwnerOps => [t |-> "done", op |-> wk.op, errs |-> wk.errs] \in Answered
                BY <1>0, Messages DEF WkShape
            <4>3. \/ wk.op \in {"host", "guest", "stage"} /\ OpError
                  \/ res' = res
                  \/ \E m \in Answered : res' = Append(res, m) /\ m.t \in {"ready", "done"}
                BY <1>8, <3>1, <4>1, <4>2 DEF WkDone, Replied, OwnerOps
            <4> QED  BY <1>8, <1>e, <1>r, <4>3 DEF WkDone, Replied
        <3> QED  BY <1>8, <1>q, <2>1, <3>2, AtEffect DEF WkDone, Replied
    <2>2. CASE wk.op \in {"host", "guest", "stage"} /\ OpError
        BY <1>8, <1>e, <1>q, <2>2 DEF WkDone, Replied
    <2> QED  BY <1>8, <2>1, <2>2 DEF WkDone, Replied
<1>9. CASE WkCommand
    <2>0. wk.pc = "idle" /\ res' = res /\ disk' = disk
        BY <1>9 DEF WkCommand
    <2>1. \/ \E op : Starts(op, Walk(op))
          \/ cmd # <<>> /\ Head(cmd).t = "commit" /\ wk' = [wk EXCEPT !.pc = "persist", !.sent = Head(cmd)]
          \/ wk' = WkAt("dead")
        BY <1>9, Zenon DEF WkCommand, Dies
    <2>2. CASE \E op : Starts(op, Walk(op))
        BY <1>q, <2>0, <2>2, Walks, StartEffect
    <2>3. CASE cmd # <<>> /\ Head(cmd).t = "commit" /\ wk' = [wk EXCEPT !.pc = "persist", !.sent = Head(cmd)]
        <3>1. wk'.pc = "persist" /\ wk'.sent = Head(cmd)
            BY <1>0, <2>3 DEF WkShape
        <3> QED  BY <2>0, <2>3, <3>1
    <2>4. CASE wk' = WkAt("dead")
        BY <1>q, <2>0, <2>4, AtEffect
    <2> QED  BY <2>1, <2>2, <2>3, <2>4
<1>10. CASE WkStage
    <2>1. wk'.pc \in {"idle", "work"}
        BY <1>0, <1>10 DEF WkStage, Replied, WkShape
    <2> QED  BY <1>10, <1>q, <2>1 DEF WkStage, Replied
<1>11. CASE WkPersist
    <2>1. CASE wk.pc = "persist"
        <3>1. wk'.pc = "seal" /\ wk'.sent = wk.sent /\ disk' = "report" /\ res' = res
            BY <1>0, <1>11, <2>1 DEF WkPersist, WkShape
        <3> QED  BY <2>1, <3>1
    <2>2. CASE wk.pc = "seal"
        <3>1. /\ wk'.pc = "answer" /\ wk'.sent = wk.sent /\ res' = res
              /\ disk' = "passed" => "passed" \in wk.sent.facts
            BY <1>0, <1>11, <2>2 DEF WkPersist, WkShape
        <3> QED  BY <2>2, <3>1
    <2>3. CASE wk.pc = "answer"
        <3>1. wk' = WkAt("done") /\ res' = Append(res, [t |-> "receipt", passed |-> disk]) /\ disk' = disk
            BY <1>11, <2>3 DEF WkPersist
        <3>2. wk'.pc = "done"
            BY <3>1, AtEffect
        <3>3. [t |-> "receipt", passed |-> disk] = Sealing => disk = "passed"
            BY DEF Sealing
        <3>4. Has(res', Sealing) => Has(res, Sealing) \/ disk = "passed"
            BY <1>0, <1>n, <3>1, <3>3, Messages
        <3> QED  BY <2>3, <3>1, <3>2, <3>4
    <2> QED  BY <1>11, <2>1, <2>2, <2>3 DEF WkPersist
<1>12. CASE WkPersistFails
    <2>1. Has(res', Sealing) => Has(res, Sealing)
        BY <1>12, <1>r, Messages DEF WkPersistFails
    <2>2. wk'.pc = "dead" /\ disk' = disk
        BY <1>12, AtEffect DEF WkPersistFails, Dies
    <2> QED  BY <1>12, <2>1, <2>2 DEF WkPersistFails
<1>13. CASE WkFault
    <2>1. wk'.pc \in {"dead", "stuck"} /\ disk' = disk /\ res' = res
        BY <1>13, AtEffect DEF WkFault
    <2> QED  BY <2>1
<1> QED  BY <1>1, <1>2, <1>3, <1>4, <1>5, <1>6, <1>7, <1>8, <1>9, <1>10, <1>11, <1>12, <1>13 DEF Worker

\* The one commitment is what the owner knows when it sends it.
LEMMA CommitSent ==
    ASSUME Shape, Owner, NEW m, Has(cmd', m), m.t = "commit"
    PROVE  Has(cmd, m) \/ (own.pc = "commit0" /\ own'.pc = "commit" /\ m = Commitment)
<1>0. cmd \in Seq(Commands) /\ OwnShape(own)
    BY DEF Shape, PipeShape
<1>1. CASE Commit
    <2>1. \/ cmd' = Append(cmd, Commitment) /\ Go("commit", own.facts)
          \/ cmd' = cmd
        BY <1>1 DEF Commit
    <2>2. CASE cmd' = Append(cmd, Commitment) /\ Go("commit", own.facts)
        <3>1. Has(cmd, m) \/ m = Commitment
            BY <1>0, <2>2, CommitmentShape, SentLast
        <3>2. own'.pc = "commit"
            BY <1>0, <2>2, GoMoves DEF Moves
        <3> QED  BY <1>1, <3>1, <3>2 DEF Commit
    <2> QED  BY <2>1, <2>2
<1>2. CASE Register
    <2>1. PICK r \in Roles, s \in Events : Head(res) = Reg(r, s)
        BY <1>2, Recording DEF Register
    <2>2. cmd' = Append(cmd, Ack(r, s)) /\ Ack(r, s).t # "commit" /\ Ack(r, s) \in Commands
        BY <1>2, <2>1, Kinds, Messages DEF Register, Ack
    <2> QED  BY <1>0, <2>2, SentLast
<1>3. CASE GuestInit \/ Clean
    <2>1. cmd' = cmd \/ \E op \in OwnerOps : cmd' = Append(cmd, Op(op))
        BY <1>3 DEF GuestInit, Clean, Command, Op, OwnerOps, CleanOp
    <2>2. CASE \E op \in OwnerOps : cmd' = Append(cmd, Op(op))
        <3>1. PICK op \in OwnerOps : cmd' = Append(cmd, Op(op))
            BY <2>2
        <3>2. Op(op) \in Commands /\ Op(op).t # "commit"
            BY Messages, Kinds
        <3> QED  BY <1>0, <3>1, <3>2, SentLast
    <2> QED  BY <2>1, <2>2
<1>4. CASE Reap
    BY <1>4, NothingThere DEF Reap
<1>5. CASE ~GuestInit /\ ~Clean /\ ~Commit /\ ~Register /\ ~Reap
    <2>1. cmd' = cmd
        BY <1>5, Zenon DEF Owner, EvidenceStart, EvidenceReady, Action, ActionDone, ActionLost, GuestReady,
             HostFork, RegisterTransport, HostCancel, HostDone, HostLost, UnwindBegins, CleanDone, WaitLost,
             Stop, Stopped, StopLost, Freeze, Receipt, ReceiptLost, Report, World
    <2> QED  BY <2>1
<1> QED  BY <1>1, <1>2, <1>3, <1>4, <1>5

\* What is being persisted is what the owner froze, and a pass on disk is a pass of the owner's.
LEMMA SealedStep ==
    ASSUME Shape, Ground, Post, Sealed, [Next]_vars
    PROVE  Sealed'
<1>0. /\ Facts /\ Hand /\ cmd \in Seq(Commands) /\ res \in Seq(Answered) /\ PipeShape'
      /\ \A m : Has(cmd, m) /\ m.t = "commit" => own.pc \in Deciding \ {"commit0"} /\ SameFacts(m)
      /\ "frozen" \in own.facts => own.pc \in Deciding
      /\ "passed" \in own.facts => "frozen" \in own.facts
    <2>1. PipeShape'
        BY ShapeStep DEF Shape, Ground, Post
    <2> QED  BY <2>1 DEF Ground, Post, Shape, PipeShape, Sealed, Has, Facts
<1>s. ASSUME \A m : Has(cmd', m) /\ m.t = "commit" => own'.pc \in Deciding \ {"commit0"} /\ SameFacts(m)',
             wk'.pc \in {"persist", "seal", "answer"} => own'.pc \in Deciding \ {"commit0"} /\ SameFacts(wk.sent)',
             disk' = "passed" => "passed" \in own'.facts /\ wk'.pc \in {"answer", "done", "dead", "stuck"},
             Has(res', Sealing) \/ own'.receipt = "passed" \/ packet' = "passed" => disk' = "passed"
      PROVE  Sealed'
    BY <1>s DEF Sealed, Has
<1>1. CASE Owner
    <2>1. /\ disk' = disk /\ (Has(res', Sealing) => Has(res, Sealing))
        <3>1. Has(res', Sealing) => Has(res, Sealing)
            <4>1. CASE res # <<>> /\ res' = Tail(res)
                BY <1>0, <4>1, ReadFirst
            <4>2. CASE res # <<>> /\ res' = [res EXCEPT ![1] = [t |-> "garbage"]]
                <5>1. Has(res', Sealing) => Has(res, Sealing) \/ Sealing = [t |-> "garbage"]
                    BY <1>0, <4>2, ReadInPart, Messages
                <5> QED  BY <5>1, Kinds
            <4> QED  BY <1>1, <4>1, <4>2, OwnerReads, NothingThere
        <3> QED  BY <1>1, <3>1, OwnerRest
    <2>2. own.pc \in Deciding => /\ own'.facts = own.facts /\ own'.report = own.report
                                 /\ own'.pc \in Deciding \ {"commit0"}
        BY <1>0, <1>1, DecidedStays
    <2>3. ASSUME NEW m, Has(cmd', m), m.t = "commit"
          PROVE  own'.pc \in Deciding \ {"commit0"} /\ SameFacts(m)'
        <3>1. CASE Has(cmd, m)
            BY <1>0, <2>2, <2>3, <3>1 DEF SameFacts
        <3>2. CASE own.pc = "commit0" /\ own'.pc = "commit" /\ m = Commitment
            <4>1. m.facts = own.facts /\ m.report = own.report
                BY <3>2, CommitmentShape DEF Shape
            <4> QED  BY <2>2, <3>2, <4>1 DEF SameFacts, Deciding
        <3> QED  BY <1>1, <2>3, <3>1, <3>2, CommitSent
    <2>4. CASE wk' = wk
        <3>1. wk'.pc \in {"persist", "seal", "answer"} => own'.pc \in Deciding \ {"commit0"} /\ SameFacts(wk.sent)'
            BY <2>2, <2>4 DEF Sealed, SameFacts
        <3>2. disk' = "passed" => "passed" \in own'.facts /\ wk'.pc \in {"answer", "done", "dead", "stuck"}
            BY <1>0, <2>1, <2>2, <2>4 DEF Sealed
        <3>3. Has(res', Sealing) \/ own'.receipt = "passed" \/ packet' = "passed" => disk' = "passed"
            BY <1>1, <2>1, ReceiptRead DEF Sealed
        <3> QED  BY <1>s, <2>3, <3>1, <3>2, <3>3
    <2>5. CASE wk' # wk
        <3>1. \/ wk.pc = "none" /\ wk'.pc = "boot"
              \/ wk'.pc \in {"dead", "stuck", wk.pc} /\ (WorkerLive => wk'.pc \in {"dead", "stuck"})
            <4>1. CASE EvidenceStart
                BY <1>0, <2>5, <4>1 DEF EvidenceStart, Ground, Place, Shape, WkShape
            <4>2. CASE Reap
                <5>1. \E end \in {"dead", "stuck"} : wk' = WkAt(IF WorkerLive THEN end ELSE wk.pc)
                    BY <2>5, <4>2 DEF Reap
                <5> QED  BY <4>2, <5>1, AtEffect
            <4>3. CASE ~EvidenceStart /\ ~Reap
                BY <1>1, <2>5, <4>3, Zenon DEF Owner, Register, EvidenceReady, Action, ActionDone, ActionLost, GuestInit,
                     GuestReady, HostFork, RegisterTransport, HostCancel, HostDone, HostLost, UnwindBegins, Clean,
                     CleanDone, WaitLost, Stop, Stopped, StopLost, Freeze, Commit, Receipt, ReceiptLost, Report, World
            <4> QED  BY <4>1, <4>2, <4>3
        <3>2. wk'.pc \notin {"persist", "seal", "answer"}
            BY <3>1 DEF WorkerLive
        <3>3. disk = "passed" => wk'.pc \in {"done", "dead", "stuck"}
            BY <3>1 DEF Sealed, WorkerLive
        <3>4. disk' = "passed" => "passed" \in own'.facts /\ wk'.pc \in {"answer", "done", "dead", "stuck"}
            BY <1>0, <2>1, <2>2, <3>3 DEF Sealed
        <3>5. Has(res', Sealing) \/ own'.receipt = "passed" \/ packet' = "passed" => disk' = "passed"
            BY <1>1, <2>1, ReceiptRead DEF Sealed
        <3> QED  BY <1>s, <2>3, <3>2, <3>4, <3>5
    <2> QED  BY <2>4, <2>5
<1>2. CASE Worker
    <2>1. own' = own /\ packet' = packet /\ (cmd' = cmd \/ (cmd # <<>> /\ cmd' = Tail(cmd)))
        BY <1>0, <1>2, WorkerRest, WorkerReads
    <2>2. \A m : Has(cmd', m) => Has(cmd, m)
        BY <1>0, <2>1, ReadFirst
    <2>3. cmd # <<>> => Has(cmd, Head(cmd))
        BY <1>0, ReadFirst
    <2>4. /\ wk'.pc \in {"persist", "seal", "answer"} =>
                 \/ cmd # <<>> /\ Head(cmd).t = "commit" /\ wk'.sent = Head(cmd)
                 \/ wk.pc \in {"persist", "seal", "answer"} /\ wk'.sent = wk.sent
          /\ disk' = "passed" =>
                 \/ disk = "passed"
                 \/ wk.pc = "seal" /\ wk'.pc = "answer" /\ "passed" \in wk.sent.facts
          /\ wk.pc \in {"answer", "done", "dead", "stuck"} =>
                 disk' = disk /\ wk'.pc \in {"answer", "done", "dead", "stuck"}
          /\ Has(res', Sealing) => Has(res, Sealing) \/ (disk = "passed" /\ wk.pc = "answer")
        BY <1>0, <1>2, WorkerSeals
    <2>5. \A m : Has(cmd', m) /\ m.t = "commit" => own'.pc \in Deciding \ {"commit0"} /\ SameFacts(m)'
        BY <1>0, <2>1, <2>2 DEF SameFacts
    <2>6. wk'.pc \in {"persist", "seal", "answer"} => own'.pc \in Deciding \ {"commit0"} /\ SameFacts(wk.sent)'
        BY <1>0, <2>1, <2>3, <2>4 DEF Sealed, SameFacts
    <2>7. disk' = "passed" => "passed" \in own'.facts /\ wk'.pc \in {"answer", "done", "dead", "stuck"}
        BY <2>1, <2>4 DEF Sealed, SameFacts
    <2>8. Has(res', Sealing) \/ own'.receipt = "passed" \/ packet' = "passed" => disk' = "passed"
        BY <2>1, <2>4 DEF Sealed
    <2> QED  BY <1>s, <2>5, <2>6, <2>7, <2>8
<1>3. CASE Others \/ UNCHANGED vars
    <2>1. UNCHANGED <<own, wk, cmd, res, disk, packet>>
        BY <1>3, OthersEffect DEF vars
    <2> QED  BY <2>1 DEF Sealed, SameFacts
<1> QED  BY <1>1, <1>2, <1>3 DEF Next, Others

(***************************************************************************)
(* Without initialisation.                                                 *)
(***************************************************************************)

\* Without initialisation the owner cleans nothing and stages nothing.
LEMMA OwnerPlain ==
    ASSUME Shape, Owner, mode = "plain", own.pc \notin CleanStages
    PROVE  own'.pc \notin CleanStages /\ net'.stage \in {net.stage, "none"}
<1>0. OwnShape(own) /\ DOMAIN net = {"wd", "tr", "reg", "admit", "stage", "staged", "told"}
    BY DEF Shape
<1>1. CASE EvidenceStart
    <2>1. own'.pc \in {"unwind", "evidence"}
        BY <1>0, <1>1, GoMoves DEF EvidenceStart, Unwind, Moves
    <2> QED  BY <1>1, <2>1 DEF EvidenceStart, CleanStages
<1>2. CASE EvidenceReady \/ GuestReady
    <2>1. own'.pc \in {"unwind", "start", "host0"}
        BY <1>0, <1>2, GoMoves DEF EvidenceReady, GuestReady, Unwind, Moves
    <2> QED  BY <1>2, <2>1 DEF EvidenceReady, GuestReady, CleanStages
<1>3. CASE Action
    <2>1. own'.pc \in {"unwind", "startWait", "readinessWait"}
        BY <1>0, <1>3, GoMoves DEF Action, Unwind, Moves
    <2> QED  BY <1>3, <2>1 DEF Action, CleanStages
<1>4. CASE ActionDone \/ ActionLost
    <2>1. own'.pc \in {"readiness", "guest0", "host0", "unwind"}
        BY <1>0, <1>4, GoMoves DEF ActionDone, ActionLost, Finish, Moves
    <2> QED  BY <1>4, <2>1 DEF ActionDone, ActionLost, CleanStages
<1>5. CASE GuestInit
    <2>1. own'.pc \in {"guest", "unwind"}
        BY <1>0, <1>5, GoMoves DEF GuestInit, Unwind, Moves
    <2> QED  BY <1>5, <2>1 DEF GuestInit, CleanStages
<1>6. CASE HostFork
    <2>1. own'.pc \in {"host", "unwind"}
        BY <1>0, <1>6, GoMoves DEF HostFork, Unwind, Moves
    <2>2. net'.stage = net.stage
        BY <1>0, <1>6 DEF HostFork
    <2> QED  BY <2>1, <2>2 DEF CleanStages
<1>7. CASE RegisterTransport \/ HostCancel
    <2>1. own'.pc = "host"
        BY <1>0, <1>7, GoMoves DEF RegisterTransport, HostCancel, Moves
    <2>2. net'.stage = net.stage
        BY <1>0, <1>7 DEF RegisterTransport, HostCancel
    <2> QED  BY <2>1, <2>2 DEF CleanStages
<1>8. CASE HostDone \/ HostLost
    <2>1. \E f, report, registry : HostEnd(f, report, registry)
        BY <1>8, Zenon DEF HostDone, HostLost
    <2>2. own'.pc = "unwind" /\ net'.stage \in {net.stage, "none"}
        BY <1>0, <2>1 DEF HostEnd, OwnShape
    <2> QED  BY <2>2 DEF CleanStages
<1>9. CASE Register
    BY <1>0, <1>9 DEF Register, OwnShape
<1>10. CASE UnwindBegins
    BY <1>0, <1>10 DEF UnwindBegins, OwnShape, World, CleanStages
<1>11. CASE Clean
    BY <1>11 DEF Clean
<1>12. CASE CleanDone
    <2>1. own.pc \in CleanWaits /\ \E status \in {"unconfirmed", "complete"} : own' = Cleaned(status)
        BY <1>12 DEF CleanDone
    <2>2. own'.pc \in {"stop", "freeze"}
        BY <1>0, <2>1, CleanedShape DEF AfterClean
    <2> QED  BY <1>12, <2>2 DEF CleanDone, CleanStages
<1>13. CASE WaitLost
    <2>1. /\ own.pc \in {"evidence", "guest"} \cup CleanWaits /\ net' = net
          /\ own' = GivenUp \/ own' = [GivenUp EXCEPT !.registry = Recorded(Head(res))]
        BY <1>13, Zenon DEF WaitLost
    <2>2. GivenUp.pc \in {"stop", "freeze", "unwind"} /\ OwnShape(GivenUp)
        <3>1. CASE own.pc \in CleanWaits
            BY <1>0, <3>1, GivenUpShape, CleanedShape DEF AfterClean
        <3>2. CASE own.pc \notin CleanWaits
            BY <1>0, <2>1, <3>2, GivenUpShape DEF OwnShape
        <3> QED  BY <3>1, <3>2
    <2>3. own'.pc = GivenUp.pc
        BY <2>1, <2>2 DEF OwnShape
    <2> QED  BY <2>1, <2>2, <2>3 DEF CleanStages
<1>14. CASE Stop
    <2>1. own'.pc \in {"stopWait", "freeze"}
        BY <1>0, <1>14, GoMoves DEF Stop, AfterStop, OwnShape, Moves
    <2> QED  BY <1>14, <2>1 DEF Stop, CleanStages
<1>15. CASE Stopped
    <2>1. own'.pc = "freeze"
        BY <1>0, <1>15 DEF Stopped, AfterStop, OwnShape
    <2> QED  BY <1>15, <2>1 DEF Stopped, CleanStages
<1>16. CASE StopLost
    <2>1. own'.pc = "freeze"
        BY <1>0, <1>16, GoMoves DEF StopLost, AfterStop, Moves
    <2> QED  BY <1>16, <2>1 DEF StopLost, CleanStages
<1>17. CASE Freeze \/ Receipt \/ Reap
    BY <1>0, <1>17 DEF Freeze, Frozen, Receipt, Reap, OwnShape, World, CleanStages
<1>18. CASE Commit \/ ReceiptLost \/ Report
    <2>1. own'.pc \in {"commit", "reap", "exit"}
        BY <1>0, <1>18, GoMoves DEF Commit, ReceiptLost, Report, Moves
    <2> QED  BY <1>18, <2>1 DEF Commit, ReceiptLost, Report, World, CleanStages
<1> QED  BY <1>1, <1>2, <1>3, <1>4, <1>5, <1>6, <1>7, <1>8, <1>9, <1>10, <1>11, <1>12, <1>13, <1>14, <1>15, <1>16,
            <1>17, <1>18 DEF Owner

\* Without initialisation the worker is asked for no operation and makes nothing.
LEMMA WorkerPlain ==
    ASSUME Shape, Hand, Worker, mode = "plain", wk.pc # "work", net.stage = "none",
           \A op \in OwnerOps : ~OpIn(op)
    PROVE  objs' = objs /\ wk'.pc # "work" /\ net'.stage = net.stage
<1>0. WkShape(wk) /\ cmd \in Seq(Commands)
    BY DEF Shape, PipeShape
<1>1. CASE WkBoot
    <2>1. \E pc \in {"idle", "dead"} : wk' = WkAt(pc)
        BY <1>1 DEF WkBoot, Dies
    <2> QED  BY <1>1, <2>1, AtEffect DEF WkBoot
<1>2. CASE WkCommand
    <2>1. cmd # <<>> => Head(cmd).t # "op"
        <3>1. cmd # <<>> => Head(cmd) \in Commands /\ Has(cmd, Head(cmd))
            BY <1>0, ReadFirst
        <3> QED  BY <3>1, Ordering DEF OpIn
    <2>2. wk' = WkAt("dead") \/ wk' = [wk EXCEPT !.pc = "persist", !.sent = Head(cmd)]
        BY <1>2, <2>1, Zenon DEF WkCommand, Dies
    <2>3. wk'.pc # "work"
        <3>1. CASE wk' = WkAt("dead")
            BY <3>1, AtEffect
        <3>2. CASE wk' = [wk EXCEPT !.pc = "persist", !.sent = Head(cmd)]
            BY <1>0, <3>2 DEF WkShape
        <3> QED  BY <2>2, <3>1, <3>2
    <2> QED  BY <1>2, <2>3 DEF WkCommand
<1>3. CASE WkPersist
    <2>1. wk' = WkAt("done") \/ \E pc \in {"seal", "answer"} : wk' = [wk EXCEPT !.pc = pc]
        BY <1>3, Zenon DEF WkPersist
    <2>2. wk'.pc # "work"
        <3>1. CASE wk' = WkAt("done")
            BY <3>1, AtEffect
        <3>2. CASE \E pc \in {"seal", "answer"} : wk' = [wk EXCEPT !.pc = pc]
            BY <1>0, <3>2 DEF WkShape
        <3> QED  BY <2>1, <3>1, <3>2
    <2> QED  BY <1>3, <2>2 DEF WkPersist
<1>4. CASE WkPersistFails
    BY <1>4, AtEffect DEF WkPersistFails, Dies
<1>5. CASE WkFault
    <2>1. wk'.pc # "work"
        BY <1>5, AtEffect DEF WkFault
    <2> QED  BY <1>5, <2>1 DEF WkFault
<1>6. ~(WkEvent \/ WkAck \/ WkAckLost \/ WkMake \/ WkSkip \/ WkRemove \/ WkDone \/ WkStage)
    BY DEF WkEvent, WkAck, WkAckLost, WkMake, WkSkip, WkRemove, WkDone, Replied, WkStage, Working
<1> QED  BY <1>1, <1>2, <1>3, <1>4, <1>5, <1>6 DEF Worker

\* Without initialisation there never are objects.
LEMMA PlainStep ==
    ASSUME Shape, Ground, Post, PlainIsBare, [Next]_vars
    PROVE  PlainIsBare'
<1>0. Hand /\ Place /\ mode' = mode
    BY OwnerRest, WorkerRest, OthersEffect DEF Post, Ground, Next, Others, vars
<1> SUFFICES ASSUME mode = "plain"
             PROVE  /\ objs' = {} /\ wk'.pc # "work" /\ net'.stage = "none"
                    /\ own'.pc \notin CleanStages /\ \A op \in OwnerOps : ~OpIn(op)'
    BY <1>0 DEF PlainIsBare
<1>1. /\ objs = {} /\ wk.pc # "work" /\ net.stage = "none"
      /\ own.pc \notin CleanStages /\ \A op \in OwnerOps : ~OpIn(op)
    BY DEF PlainIsBare
<1>2. CASE Owner
    <2>1. own'.pc \notin CleanStages /\ net'.stage = "none" /\ objs' = {}
        BY <1>1, <1>2, OwnerPlain, OwnerRest
    <2>2. wk'.pc # "work"
        <3>1. CASE EvidenceStart
            BY <1>1, <3>1 DEF EvidenceStart, Shape, WkShape
        <3>2. CASE Reap
            <4>1. wk' = wk \/ \E end \in {"dead", "stuck"} : wk' = WkAt(IF WorkerLive THEN end ELSE wk.pc)
                BY <3>2 DEF Reap
            <4> QED  BY <1>1, <4>1, AtEffect
        <3>3. CASE ~EvidenceStart /\ ~Reap
            <4>1. wk' = wk
                BY <1>2, <3>3, Zenon DEF Owner, Register, EvidenceReady, Action, ActionDone, ActionLost, GuestInit,
                     GuestReady, HostFork, RegisterTransport, HostCancel, HostDone, HostLost, UnwindBegins, Clean,
                     CleanDone, WaitLost, Stop, Stopped, StopLost, Freeze, Commit, Receipt, ReceiptLost, Report, World
            <4> QED  BY <1>1, <4>1
        <3> QED  BY <3>1, <3>2, <3>3
    <2>3. \A op \in OwnerOps : ~OpIn(op)'
        <3>1. \A op : OpIn(op)' => OpIn(op) \/ Asks(op)
            BY <1>2, OwnerAsks DEF OpIn
        <3>2. \A op : ~Asks(op)
            BY <1>0, <1>1 DEF Asks, Place, CleanStages
        <3> QED  BY <1>1, <3>1, <3>2
    <2> QED  BY <2>1, <2>2, <2>3
<1>3. CASE Worker
    <2>1. own' = own /\ objs' = {} /\ wk'.pc # "work" /\ net'.stage = "none"
        BY <1>0, <1>1, <1>3, WorkerPlain, WorkerRest
    <2>2. \A op : OpIn(op)' => OpIn(op)
        BY <1>0, <1>3, WorkerOps DEF OpIn
    <2> QED  BY <1>1, <2>1, <2>2
<1>4. CASE Others
    <2>1. UNCHANGED <<own, wk, objs, cmd>>
        BY <1>4, OthersEffect
    <2>2. net'.stage = net.stage
        BY <1>4 DEF Others, Cancel, KidActs, KidAnswers, LeftActs, Host, WatchForks, TransportRegisters, TransportAdmitted,
                    TransportEnds, TransportStages, WatchReports, WatchDies, Shape
    <2> QED  BY <1>1, <2>1, <2>2 DEF OpIn
<1>5. CASE UNCHANGED vars
    BY <1>1, <1>5 DEF vars, OpIn
<1> QED  BY <1>2, <1>3, <1>4, <1>5 DEF Next, Others

(***************************************************************************)
(* The inductive invariant and the theorems.                               *)
(***************************************************************************)

\* The initial states satisfy IInv.
LEMMA InvInit == Init => IInv
<1> SUFFICES ASSUME Init  PROVE IInv
    OBVIOUS
<1>1. Shape /\ Ground /\ Post /\ Operations
    BY ShapeInit, GroundInit, PostInit, OperationsInit
<1>2. Sealed
    BY NothingThere DEF Init, Sealed
<1>3. PlainIsBare
    BY NothingThere DEF Init, PlainIsBare, CleanStages, OpIn
<1> QED  BY <1>1, <1>2, <1>3 DEF IInv, Ground, Post, Operations

\* Every step keeps IInv.
LEMMA InvStep == IInv /\ [Next]_vars => IInv'
<1> SUFFICES ASSUME IInv, [Next]_vars  PROVE IInv'
    OBVIOUS
<1>1. /\ Shape /\ Ground /\ Post /\ Operations /\ Sealed /\ PlainIsBare
      /\ Running /\ Hand /\ GuestOnce
    BY DEF IInv, Ground, Post, Operations
<1>2. Shape' /\ Ground' /\ Post' /\ Operations' /\ Sealed' /\ PlainIsBare'
    BY <1>1, ShapeStep, GroundStep, PostStep, OperationsStep, SealedStep, PlainStep
<1> QED  BY <1>2 DEF IInv, Ground, Post, Operations

\* IInv is inductive: the owner's knowledge (Facts, Place, Running), the
\* registrations on their way (Ordered, Mail, Hand), the operations asked for
\* once (GuestOnce, CleanOnce) and what a complete one leaves (GuestComplete,
\* HostComplete), the commitment (Sealed), for every list of guest objects.
THEOREM Inductive == Spec => []IInv
<1>1. Init => IInv
    BY InvInit
<1>2. IInv /\ [Next]_vars => IInv'
    BY InvStep
<1> QED  BY <1>1, <1>2, PTL DEF Spec

\* Register before ACK: whatever the order in which registrations and
\* acknowledgements are lost, mismatched or read too late, an object that the
\* worker has made (InitializationWorker.event and what follows it) is in the
\* registry of the owner (_Owner.register).
THEOREM WritesAreRecorded == Spec => []NoUnrecordedWrite
<1>1. IInv => NoUnrecordedWrite
    BY DEF IInv, Shape, Mail, NoUnrecordedWrite
<1> QED  BY <1>1, Inductive, PTL

\* What _Owner.run leaves behind when it freezes its facts (a VM that is on, a
\* child, a watchdog or a transport that could not be reaped) is a cleanup
\* error among them.
THEOREM LeftoversAreReported == Spec => []LeftIsReported
<1>1. ASSUME IInv  PROVE LeftIsReported
    <2>1. "frozen" \in own.facts => own.pc \in Deciding
        BY <1>1 DEF IInv, Facts
    <2>2. own.pc \in Deciding => own.pc \notin BeforeHost \cup {"host"}
        BY DEF Deciding, BeforeHost
    <2> QED  BY <1>1, <2>1, <2>2 DEF IInv, Running, LeftIsReported
<1> QED  BY <1>1, Inductive, PTL

\* The facts that are frozen rest on each other.
LEMMA FrozenFacts ==
    ASSUME IInv, own.pc \in Deciding
    PROVE  LET f == own.facts IN
           /\ ("shutTried" \in f) = ("startTried" \in f)
           /\ "startTried" \notin f => f \cap {"started", "ready", "shutTried", "registered"} = {}
           /\ own.report = "passed" => {"attempt", "registered", "started", "ready", "startTried"} \subseteq f
           /\ "passed" \in f =>
                 /\ {"hostPassed", "attempt", "registered", "started", "ready", "startTried"} \subseteq f
                 /\ own.report = "passed" /\ own.shut = "normal" /\ {"failed", "cleanup"} \cap f = {}
                 /\ mode = "init" => "guestReady" \in f /\ own.guest = "complete" /\ (own.pc = "commit0" => own.host = "complete")
BY DEF IInv, Facts, Place, Deciding, Stopping

\* What passed facts say of the objects and of the registry.
LEMMA NothingIsLeft ==
    ASSUME IInv, "passed" \in own.facts
    PROVE  objs = {} /\ (mode = "init" => own.guest = "complete" /\ own.host = "complete")
<1>1. own.pc \in Deciding
    BY DEF IInv, Facts
<1>2. "attempt" \in own.facts /\ {"failed", "cleanup"} \cap own.facts = {}
    BY <1>1, FrozenFacts
<1>3. mode = "init" => own.guest = "complete" /\ own.host = "complete"
    BY <1>1, <1>2 DEF IInv, Place
<1>4. mode = "init" => \A r \in Guest \cup HostRoles : r \notin objs
    BY <1>3 DEF IInv, GuestComplete, HostComplete, Clear, Settled
<1>5. objs \subseteq Guest \cup HostRoles
    BY DEF IInv, Shape, Roles, Guest, HostRoles
<1>6. mode = "plain" => objs = {}
    BY DEF IInv, PlainIsBare
<1> QED  BY <1>3, <1>4, <1>5, <1>6 DEF IInv, Shape

\* What the owner sends to be persisted satisfies validate_lifecycle and
\* validate_initialization, on which the receipt depends, however the attempt
\* went: EvidenceStore.persist never refuses it.
THEOREM CommitmentsAreAdmissible == Spec => []Admissible
<1>1. ASSUME IInv, own.pc = "commit0"  PROVE Consistent(Commitment)
    <2> DEFINE m == Commitment
    <2>1. /\ m.facts = own.facts /\ m.report = own.report /\ m.shut = own.shut
          /\ m.guest = own.guest /\ m.host = own.host /\ m.registry = own.registry
        BY DEF Commitment
    <2>2. own.pc \in Deciding /\ Facts /\ Place
        BY <1>1 DEF Deciding, IInv
    <2>3. /\ own.guest = "complete" => \A r \in Guest : own.registry[r] = "none"
          /\ own.host = "complete" => \A r \in HostRoles : own.registry[r] = "none"
        BY <1>1 DEF IInv, GuestComplete, HostComplete, Clear
    <2>4. "passed" \in own.facts /\ mode = "init" => own.guest = "complete" /\ own.host = "complete"
        BY <1>1, NothingIsLeft
    <2> HIDE DEF m
    <2>5. /\ m.guest = "complete" => Pending(m) \cap Guest = {}
          /\ m.host = "complete" => Pending(m) \cap HostRoles = {}
          /\ "passed" \in m.facts /\ mode = "init" => Pending(m) = {}
        BY <2>1, <2>3, <2>4 DEF Pending, Roles, Guest, HostRoles
    <2>6. /\ "startTried" \notin own.facts => own.facts \cap {"started", "ready", "shutTried", "registered"} = {}
          /\ ("shutTried" \in own.facts) = ("startTried" \in own.facts)
          /\ own.report = "passed" => {"registered", "started", "ready"} \subseteq own.facts
        BY <1>1, <2>2, FrozenFacts
    <2>9. ("passed" \in own.facts) = (/\ own.report = "passed"
                                     /\ {"attempt", "started", "ready", "registered"} \subseteq own.facts
                                     /\ own.shut = "normal"
                                     /\ {"failed", "cleanup"} \cap own.facts = {})
        <3>1. "passed" \in own.facts =>
                 /\ own.report = "passed" /\ own.shut = "normal"
                 /\ {"attempt", "started", "ready", "registered"} \subseteq own.facts
                 /\ {"failed", "cleanup"} \cap own.facts = {}
            BY <1>1, <2>2, FrozenFacts
        <3>2. {"failed", "cleanup"} \cap own.facts = {} => "passed" \in own.facts
            BY <2>2 DEF Facts
        <3> QED  BY <3>1, <3>2
    <2>10. own.facts \cap {"passed", "failed", "cleanup"} # {}
        BY <2>2 DEF Facts
    <2>7. mode = "init" =>
             /\ "guestReady" \in own.facts => {"hostReady", "started", "ready"} \subseteq own.facts
             /\ "startTried" \in own.facts => "hostReady" \in own.facts
             /\ "registered" \in own.facts => "guestReady" \in own.facts
             /\ "passed" \in own.facts => "guestReady" \in own.facts
        BY <1>1, <2>2, FrozenFacts DEF Facts
    <2>8. Consistent(m)
        BY <2>1, <2>2, <2>4, <2>5, <2>6, <2>7, <2>9, <2>10 DEF Consistent, Facts, Guest, HostRoles
    <2> QED  BY <2>8 DEF m
<1>2. IInv => Admissible
    BY <1>1 DEF Admissible
<1> QED  BY <1>2, Inductive, PTL

\* A receipt that EvidenceStore.persist publishes as passed, and a result that
\* the owner reports as passed, is true of the VM, the processes, the objects
\* and the controller at that moment and from then on.
THEOREM PassesAreTrue == Spec => []PassIsTrue
<1>1. ASSUME IInv, disk = "passed"
      PROVE  /\ vm = "off" /\ own.shut = "normal" /\ ~cancel
             /\ left = {} /\ objs = {}
             /\ net.wd = "passed" /\ net.tr = "ended"
    <2>1. "passed" \in own.facts /\ own.pc \in Deciding
        BY <1>1 DEF IInv, Sealed, Facts
    <2>2. own.report = "passed" /\ own.shut = "normal" /\ {"failed", "cleanup"} \cap own.facts = {}
        BY <1>1, <2>1, FrozenFacts
    <2>3. net.wd = "passed" /\ net.tr = "ended"
        BY <1>1, <2>2 DEF IInv, Facts, Running
    <2>4. vm = "off" /\ left = {}
        BY <1>1, <2>1, <2>2 DEF IInv, Running
    <2>5. ~cancel
        BY <1>1, <2>1, <2>2 DEF IInv, Facts, Place
    <2> QED  BY <1>1, <2>1, <2>2, <2>3, <2>4, <2>5, NothingIsLeft
<1>2. IInv => PassIsTrue
    BY <1>1 DEF PassIsTrue, IInv, Sealed
<1> QED  BY <1>2, Inductive, PTL

=============================================================================
