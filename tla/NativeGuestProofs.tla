------------------------- MODULE NativeGuestProofs -------------------------
(***************************************************************************)
(* For any objects in any order of creation: TicketValid, WorkKeepsObjects *)
(* and SettledIsTrue of NativeGuest.                                       *)
(*                                                                         *)
(* What the parent knows is behind what the owner has done, and frames and *)
(* acknowledgements of registrations that were given up are still on the   *)
(* socket.  Retirement says what the owner's wait rests on, Registered     *)
(* what the registry owes to the frames that are on their way, Building    *)
(* that no object goes while a supervisor or a worker may use it, and      *)
(* Authority why a supervisor the owner does not know of cannot come to    *)
(* life when its groups have been looked at: not so when the owner was     *)
(* signalled alone in the tail of fork_supervisor.  Stopping says what the *)
(* handler of fork_supervisor rests on.                                    *)
(***************************************************************************)
EXTENDS NativeGuest, SequenceTheorems, TLAPS

FrameKinds ==
    {"intent", "bound", "cleaned", "ready", "supervisor", "worker", "task-stop", "task-retiring",
     "task-reaped", "supervisor-unconfirmed", "cleanup-start"}

Frames == [from : {"n", "s"}, kind : FrameKinds, role : Roles \cup {"none"}, clean : BOOLEAN]

OwnerPlaces ==
    {"create", "ready", "fork", "regS", "gate", "tail", "read", "stop", "retire", "reap", "reaped",
     "rUnc", "rStop", "rRetire", "rWait", "hUnc", "hReaped", "settle", "fStop", "fRetire", "fReap",
     "safe", "cleanStart", "barrier", "clean", "result", "exit", "dead"}

ObjectStates == {"none", "intent", "bound"}

OwnerFields ==
    {"pc", "todo", "step", "ents", "sent", "term", "known", "ret", "code", "exp", "failed", "errs", "alone"}

\* Settlement and NextRole are applied to intermediate records, hence m.
OwnerShape(m) ==
    /\ DOMAIN m = OwnerFields
    /\ m.pc \in OwnerPlaces /\ m.todo \in Seq(Roles) /\ m.ents \in [Roles -> ObjectStates]
    /\ m.step \in 1..3 /\ (m.pc = "clean" => m.step \in 1..2)

ParentFields ==
    {"pc", "failed", "reg", "ready", "sup", "wkr", "stopped", "retired", "reaped", "wreaped",
     "cleaning", "astray", "passed"}

ParentShape(q) == DOMAIN q = ParentFields /\ q.reg \in [Roles -> ObjectStates]

Shape ==
    /\ ParentShape(p)
    /\ OwnerShape(n)
    /\ DOMAIN s = {"at", "gate", "term", "rep"}
    /\ objs \subseteq Roles
    /\ up \in Seq(Frames) /\ down \in Seq(Frames)

\* The owner waits only for what the parent has retired.
Retirement ==
    /\ ~p.astray
    /\ n.ret => p.retired
    /\ n.pc \in {"reap", "rWait", "fReap"} => n.ret
    /\ s.at = "reaped" => p.retired
    /\ \A i \in DOMAIN down : down[i].kind = "task-retiring" => p.retired

Early == {"create", "ready", "fork"}

\* What an exit code, a missing supervisor and an export tell of the worker.
Outcome ==
    /\ n.code => s.at = "reaped"
    /\ n.pc \in Early => s.at = "none"
    /\ s.at = "none" => w = "none"
    /\ s.rep = "good" => w = "end" /\ s.at \in {"report", "exited", "reaped"}
    /\ n.exp = "good" => w = "end" /\ s.at \in {"exited", "reaped"}

\* What exists is registered; an object is gone before its "cleaned" is sent,
\* and announced before it is made.
Registered ==
    /\ \A r \in objs : p.reg[r] # "none"
    /\ \A i \in DOMAIN up : up[i].kind = "cleaned" => n.pc # "create" /\ up[i].role \notin objs
    /\ \A i \in DOMAIN up : up[i].kind \in {"intent", "bound", "cleaned"} => up[i].role \in Roles
    /\ n.pc = "clean" /\ n.todo # <<>> /\ n.step = 2 => Role \notin objs
    /\ n.pc = "create" /\ n.todo # <<>> /\ n.step >= 2 => p.reg[Role] # "none"
    /\ n.pc = "create" => \A i \in DOMAIN down : down[i].kind = "intent" => down[i].role \in Roles /\
         p.reg[down[i].role] # "none"

\* The owner makes no more use of what it knows of the groups.
Ended == {"clean", "result", "exit", "dead"}

\* A supervisor on its way into the group; nobody there, and nobody coming.
Through == s.at = "gate" /\ ~s.term /\ s.gate = "G"
Quiet == ~Occupied /\ ~Through

Whole == Roles \subseteq objs /\ n.ents[Cgroup] = "bound"

\* Until all objects are there, what is still to be done makes up for what is
\* missing; from then on to cleanup all are there; cleanup finds the group empty
\* (unless the owner was signalled alone in the tail of fork_supervisor).
Building ==
    /\ n.pc = "create" =>
         \A r \in Roles : (r \in objs /\ n.ents[r] = "bound") \/ \E i \in DOMAIN n.todo : n.todo[i] = r
    /\ n.pc = "create" /\ n.todo # <<>> /\ n.step = 3 =>
         Role \in objs /\ (n.sent => n.ents[Role] = "bound")
    /\ n.pc = "create" /\ n.step = 2 => ~n.sent
    /\ n.pc \in {"ready", "fork"} => Whole
    /\ s.at # "none" /\ n.pc \notin Ended => Whole
    /\ s.at # "none" /\ n.pc \in Ended => Roles \subseteq objs \/ Quiet \/ n.alone
    /\ n.pc = "clean" => Quiet \/ n.alone

\* Inside fork_supervisor, once the supervisor is forked.
Forking == {"regS", "gate", "rUnc", "rStop", "rRetire", "rWait", "hUnc"}

\* While fork_supervisor has not returned, nothing was retired: a signal of the
\* parent that takes the owner out of its tail has reached the supervisor,
\* registered by then, as well.
Before == Early \cup {"regS", "gate", "tail"}

Authority ==
    /\ n.pc \in {"gate", "tail"} => p.sup
    /\ \A i \in DOMAIN down : down[i].kind = "supervisor" => p.sup
    /\ n.pc \in Before => ~p.retired /\ \A i \in DOMAIN up : up[i].kind # "task-retiring"
    /\ n.pc = "tail" /\ n.term => s.term \/ n.alone
    /\ n.pc \in {"read", "stop", "retire", "reap", "reaped", "hUnc", "hReaped", "settle",
                 "fStop", "fRetire", "fReap"} => n.known
    /\ n.pc = "safe" /\ ~n.known => ~Through \/ n.alone
    /\ n.pc \in {"cleanStart", "barrier"} => ~Through \/ n.alone

\* A supervisor that the parent was asked to stop is gone: fork_supervisor's
\* handler waits only for such a one.
Stopping ==
    /\ n.pc \in Forking => s.at # "none"
    /\ \A i \in DOMAIN up : up[i].kind \in {"supervisor", "supervisor-unconfirmed"} => s.at # "none"
    /\ p.sup => s.at # "none"
    /\ \A i \in DOMAIN down : down[i].kind = "task-stop" => p.stopped
    /\ n.pc \in {"rRetire", "rWait"} => p.stopped
    /\ p.stopped => s.at \in {"exited", "reaped"}

\* The last part of SettledIsTrue, and that it is the last step.
Passing == p.passed = "yes" => p.pc = "done" /\ objs = {} /\ n.pc = "exit" /\ s.at = "reaped" /\ w = "end"

IInv == Shape /\ Retirement /\ Outcome /\ Registered /\ Building /\ Authority /\ Stopping /\ Passing

-----------------------------------------------------------------------------
(* The owner's registrations and exceptions *)

\* The object at hand is one of the objects, and one that is still to be done.
LEMMA RoleFacts ==
  ASSUME OwnerShape(n), Working
  PROVE  Role \in Roles /\ Tail(n.todo) \in Seq(Roles) /\ \E i \in DOMAIN n.todo : n.todo[i] = Role
BY DEF OwnerShape, Working, Role

\* What the owner's request is at each place where it registers.
LEMMA RequestFacts ==
  ASSUME OwnerShape(n), Registers
  PROVE  /\ Request \in Frames
         /\ Request.kind = "task-retiring" <=> n.pc \in {"retire", "rRetire", "fRetire"}
         /\ Request.kind = "supervisor" <=> n.pc = "regS"
         /\ Request.kind = "supervisor-unconfirmed" <=> n.pc \in {"rUnc", "hUnc"}
         /\ Request.kind = "task-stop" <=> n.pc \in {"stop", "rStop", "fStop"}
         /\ Request.kind = "intent" <=> n.pc = "create" /\ n.step = 1
         /\ Request.kind = "cleaned" <=> n.pc = "clean" /\ n.step = 2
         /\ Request.kind \in {"intent", "bound", "cleaned"} => Request.role = Role /\ Role \in Roles
         /\ n.pc = "clean" => n.step = 2
         /\ n.pc = "create" => n.step \in {1, 3}
<1>1. CASE n.pc \in DOMAIN Kinds
  <2>1. PICK b \in BOOLEAN : b <=> (n.pc \in {"retire", "reaped", "fRetire", "hReaped"} /\ Seen)  OBVIOUS
  <2>2. Request = [from |-> "n", kind |-> Kinds[n.pc], role |-> "none", clean |-> b]
    BY <1>1, <2>1 DEF Request, Frame
  <2>q. QED BY <1>1, <2>2 DEF Frames, FrameKinds, Kinds
<1>2. CASE n.pc \notin DOMAIN Kinds
  <2>1. Working /\ Steps(n.pc)[n.step] \in {"intent", "bound", "cleaned"}  BY <1>2 DEF Registers, Doing
  <2>2. Role \in Roles  BY <2>1, RoleFacts
  <2>3. Request = [from |-> "n", kind |-> Steps(n.pc)[n.step], role |-> Role, clean |-> FALSE]
    BY <1>2 DEF Request, Frame
  <2>4. n.pc \in {"create", "clean"}  BY <2>1 DEF Working
  <2>5. /\ Steps(n.pc)[n.step] = "intent" <=> n.pc = "create" /\ n.step = 1
        /\ Steps(n.pc)[n.step] = "cleaned" <=> n.pc = "clean" /\ n.step = 2
        /\ n.pc = "clean" => n.step = 2
        /\ n.pc = "create" => n.step \in {1, 3}
    BY <2>1, <2>4 DEF Steps, OwnerShape
  <2>q. QED BY <2>1, <2>2, <2>3, <2>4, <2>5 DEF Frames, FrameKinds
<1>q. QED BY <1>1, <1>2

\* Where the finally block begins.
Begins(m) == IF ~m.known \/ m.code THEN "safe" ELSE IF m.ret THEN "fReap" ELSE "fStop"

\* The finally block keeps all but the place.
LEMMA SettlementFacts ==
  ASSUME NEW m, OwnerShape(m)
  PROVE  /\ OwnerShape(Settlement(m)) /\ Settlement(m).pc = Begins(m)
         /\ Settlement(m).ents = m.ents /\ Settlement(m).term = m.term /\ Settlement(m).alone = m.alone /\
              Settlement(m).known = m.known
         /\ Settlement(m).ret = m.ret /\ Settlement(m).code = m.code /\ Settlement(m).exp = m.exp
BY DEF Settlement, OwnerShape, OwnerFields, OwnerPlaces, Begins

\* An exception or a failed registration leaves alone what the owner knows of
\* objects, retirement and exit.
Keeps(m, x) ==
  /\ x.ents = m.ents /\ x.ret = m.ret /\ x.code = m.code /\ x.exp = m.exp

\* Only fork_supervisor's own handler comes before the finally block.
LEMMA RaisedFacts ==
  ASSUME NEW m, OwnerShape(m)
  PROVE  /\ OwnerShape(Raised(m)) /\ Keeps(m, Raised(m)) /\ Raised(m).term = m.term /\ Raised(m).alone = m.alone
         /\ m.pc \in {"regS", "gate"} => Raised(m).pc = "rUnc"
         /\ m.pc \in {"rUnc", "rStop", "rRetire"} => Raised(m).pc = "hUnc" /\ Raised(m).known
         /\ m.pc \notin {"regS", "gate", "rUnc", "rStop", "rRetire"} =>
              Raised(m).pc = Begins(m) /\ Raised(m).known = m.known
<1> DEFINE f == [m EXCEPT !.failed = TRUE, !.sent = FALSE]
<1>1. OwnerShape(f) /\ Keeps(m, f) /\ f.pc = m.pc /\ f.known = m.known /\ Begins(f) = Begins(m) /\
      f.term = m.term /\ f.alone = m.alone
  BY DEF OwnerShape, OwnerFields, Keeps, Begins
<1>2. Raised(m) = CASE m.pc \in {"regS", "gate"} -> [f EXCEPT !.pc = "rUnc"]
                    [] m.pc \in {"rUnc", "rStop", "rRetire"} -> [f EXCEPT !.pc = "hUnc", !.known = TRUE]
                    [] OTHER -> Settlement(f)
  BY DEF Raised
<1> HIDE DEF f
<1>3. CASE m.pc \in {"regS", "gate"}
  <2>1. Raised(m) = [f EXCEPT !.pc = "rUnc"]  BY <1>2, <1>3
  <2>q. QED BY <1>1, <1>3, <2>1 DEF OwnerShape, OwnerFields, OwnerPlaces, Keeps
<1>4. CASE m.pc \in {"rUnc", "rStop", "rRetire"}
  <2>1. Raised(m) = [f EXCEPT !.pc = "hUnc", !.known = TRUE]  BY <1>2, <1>4
  <2>q. QED BY <1>1, <1>4, <2>1 DEF OwnerShape, OwnerFields, OwnerPlaces, Keeps
<1>5. CASE m.pc \notin {"regS", "gate", "rUnc", "rStop", "rRetire"}
  <2>1. Raised(m) = Settlement(f)  BY <1>2, <1>5
  <2>q. QED BY <1>1, <1>5, <2>1, SettlementFacts DEF Keeps
<1>q. QED BY <1>3, <1>4, <1>5

\* Going on to the next object changes nothing else.
LEMMA NextRoleFacts ==
  ASSUME NEW m, OwnerShape(m), m.todo # <<>>
  PROVE  /\ OwnerShape(NextRole(m)) /\ Keeps(m, NextRole(m)) /\ NextRole(m).term = m.term
         /\ NextRole(m).alone = m.alone
         /\ NextRole(m).known = m.known /\ NextRole(m).pc = m.pc /\ NextRole(m).sent = m.sent
         /\ NextRole(m).todo = Tail(m.todo) /\ NextRole(m).step = 1
<1>0. m.todo \in Seq(Roles)  BY DEF OwnerShape
<1>a. Tail(m.todo) \in Seq(Roles)  BY <1>0
<1>1. PICK t \in Seq(Roles) : t = Tail(m.todo)  BY <1>a, Zenon
<1>2. NextRole(m) = [m EXCEPT !.todo = t, !.step = 1]  BY <1>1 DEF NextRole
<1>q. QED BY <1>1, <1>2 DEF OwnerShape, OwnerFields, Keeps

\* Going on to the next step of an object, or past its last one.
LEMMA NextStepFacts ==
  ASSUME NEW m, OwnerShape(m), m.todo # <<>>, m.pc \in {"create", "clean"}
  PROVE  /\ OwnerShape(NextStep(m)) /\ Keeps(m, NextStep(m)) /\ NextStep(m).term = m.term
         /\ NextStep(m).alone = m.alone
         /\ NextStep(m).known = m.known /\ NextStep(m).pc = m.pc /\ NextStep(m).sent = m.sent
         /\ m.step = (IF m.pc = "create" THEN 3 ELSE 2) => NextStep(m).todo = Tail(m.todo) /\
              NextStep(m).step = 1
         /\ m.step # (IF m.pc = "create" THEN 3 ELSE 2) => NextStep(m).todo = m.todo /\
              NextStep(m).step = m.step + 1
<1>1. Len(Steps(m.pc)) = IF m.pc = "create" THEN 3 ELSE 2  BY DEF Steps
<1>2. CASE m.step = Len(Steps(m.pc))
  <2>1. NextStep(m) = NextRole(m)  BY <1>2 DEF NextStep
  <2>q. QED BY <1>1, <1>2, <2>1, NextRoleFacts
<1>3. CASE m.step # Len(Steps(m.pc))
  <2>1. PICK k \in 1..3 : k = m.step + 1 /\ (m.pc = "clean" => k \in 1..2)  BY <1>1, <1>3 DEF OwnerShape
  <2>a. NextStep(m) = [m EXCEPT !.step = m.step + 1]  BY <1>3, Zenon DEF NextStep
  <2>2. NextStep(m) = [m EXCEPT !.step = k]  BY <2>1, <2>a
  <2>q. QED BY <1>1, <1>3, <2>1, <2>2 DEF OwnerShape, OwnerFields, Keeps
<1>q. QED BY <1>2, <1>3

\* A registration that fails.
LEMMA RefusedFacts ==
  ASSUME OwnerShape(n), Registers
  PROVE  /\ OwnerShape(Refused) /\ Keeps(n, Refused) /\ Refused.term = n.term /\ Refused.alone = n.alone
         /\ n.pc \in {"regS", "gate"} => Refused.pc = "rUnc"
         /\ n.pc \in {"rUnc", "rStop", "rRetire"} => Refused.pc = "hUnc" /\ Refused.known
         /\ n.pc \in {"create", "ready", "stop", "retire", "reaped"} =>
              Refused.pc = Begins(n) /\ Refused.known = n.known
         /\ n.pc \in {"hUnc", "hReaped"} => Refused.pc \in {"hReaped", "settle"} /\ Refused.known = n.known
         /\ n.pc \in {"fStop", "fRetire"} => Refused.pc = "safe" /\ Refused.known = n.known
         /\ n.pc = "cleanStart" => Refused.pc = "result"
         /\ n.pc = "clean" => Refused.pc = "clean" /\ Refused.step = 1
<1>0. n.pc \in {"create", "clean"} \cup DOMAIN Kinds  BY DEF Registers, Doing, Working
<1>1. CASE InTry
  <2>1. Refused = Raised(n)  BY <1>1 DEF Refused, InTry
  <2>q. QED BY <1>1, <2>1, RaisedFacts DEF InTry
<1>2. CASE n.pc \in {"hUnc", "hReaped", "fStop", "fRetire", "cleanStart"}
  <2>1. PICK c : c = IF n.pc \in {"fStop", "fRetire"} THEN "safe"
                     ELSE IF n.pc = "cleanStart" THEN "result"
                     ELSE IF n.pc = "hUnc" /\ n.code THEN "hReaped" ELSE "settle"
    OBVIOUS
  <2>2. c \in OwnerPlaces /\ c # "clean"  BY <2>1 DEF OwnerPlaces
  <2>3. Refused = [n EXCEPT !.errs = TRUE, !.sent = FALSE, !.pc = c]
    BY <1>2, <2>1 DEF Refused, InTry
  <2>4. OwnerShape(Refused) /\ Keeps(n, Refused) /\ Refused.term = n.term /\ Refused.alone = n.alone /\
        Refused.pc = c /\ Refused.known = n.known
    BY <2>2, <2>3 DEF OwnerShape, OwnerFields, Keeps
  <2>q. QED BY <1>2, <2>1, <2>4
<1>3. CASE n.pc = "clean"
  <2>0. Working  BY <1>3 DEF Registers, Doing, Kinds
  <2> DEFINE m == [n EXCEPT !.errs = TRUE, !.sent = FALSE]
  <2>1. Refused = NextRole(m)  BY <1>3 DEF Refused, InTry
  <2>2. OwnerShape(m) /\ Keeps(n, m) /\ m.term = n.term /\ m.alone = n.alone /\ m.pc = "clean" /\ m.todo # <<>>
    BY <1>3, <2>0 DEF OwnerShape, OwnerFields, Keeps, Working
  <2>3. OwnerShape(Refused) /\ Keeps(m, Refused) /\ Refused.term = m.term /\ Refused.alone = m.alone /\
        Refused.pc = m.pc /\ Refused.step = 1
    BY <2>1, <2>2, NextRoleFacts
  <2>q. QED BY <1>3, <2>2, <2>3 DEF Keeps
<1>q. QED BY <1>0, <1>1, <1>2, <1>3 DEF InTry, Kinds

\* Where the owner goes on after a registration that is not about an object.
Onward(m) ==
    CASE m.pc = "ready" -> "fork" [] m.pc = "regS" -> "gate" [] m.pc = "stop" -> "retire"
      [] m.pc = "retire" -> "reap" [] m.pc = "reaped" -> Begins(m) [] m.pc = "rUnc" -> "rStop"
      [] m.pc = "rStop" -> "rRetire" [] m.pc = "rRetire" -> "rWait"
      [] m.pc = "hUnc" -> IF m.code THEN "hReaped" ELSE "settle"
      [] m.pc = "hReaped" -> "settle" [] m.pc = "fStop" -> "fRetire" [] m.pc = "fRetire" -> "fReap"
      [] m.pc = "cleanStart" -> "barrier"

\* It is a place, and not among the objects.
LEMMA OnwardPlace ==
  ASSUME n.pc \in DOMAIN Kinds
  PROVE  Onward(n) \in OwnerPlaces \ {"create", "clean"}
BY DEF Kinds, Onward, Begins, OwnerPlaces

\* A registration that was acknowledged.
LEMMA GrantedFacts ==
  ASSUME OwnerShape(n), Registers
  PROVE  /\ OwnerShape(Granted) /\ Granted.term = n.term /\ Granted.alone = n.alone /\ Granted.known = n.known
         /\ Granted.ents = n.ents /\ Granted.code = n.code /\ Granted.exp = n.exp
         /\ n.pc \notin {"retire", "rRetire", "fRetire"} => Granted.ret = n.ret
         /\ n.pc \in {"retire", "rRetire", "fRetire"} => Granted.ret
         /\ n.pc \notin {"create", "clean"} => Granted.pc = Onward(n)
         /\ n.pc \in {"create", "clean"} =>
              /\ n.todo # <<>> /\ Granted.pc = n.pc /\ ~Granted.sent
              /\ n.step = (IF n.pc = "create" THEN 3 ELSE 2) => Granted.todo = Tail(n.todo) /\ Granted.step = 1
              /\ n.step # (IF n.pc = "create" THEN 3 ELSE 2) => Granted.todo = n.todo /\
                   Granted.step = n.step + 1
<1>0. n.pc \in {"create", "clean"} \cup DOMAIN Kinds  BY DEF Registers, Doing, Working
<1>1. CASE n.pc \in {"create", "clean"}
  <2> DEFINE m == [n EXCEPT !.sent = FALSE]
  <2>0. n.todo # <<>>  BY <1>1 DEF Registers, Doing, Working, Kinds
  <2>1. Granted = NextStep(m)  BY <1>1 DEF Granted
  <2>2. /\ OwnerShape(m) /\ Keeps(n, m) /\ m.term = n.term /\ m.alone = n.alone /\ m.known = n.known /\
             m.pc = n.pc /\ ~m.sent
        /\ m.todo = n.todo /\ m.step = n.step
    BY DEF OwnerShape, OwnerFields, Keeps
  <2> HIDE DEF m
  <2>3. /\ OwnerShape(Granted) /\ Keeps(m, Granted) /\ Granted.term = m.term /\ Granted.alone = m.alone /\
             Granted.known = m.known
        /\ Granted.pc = m.pc /\ Granted.sent = m.sent
    BY <1>1, <2>0, <2>1, <2>2, NextStepFacts
  <2>4. /\ m.step = (IF m.pc = "create" THEN 3 ELSE 2) => Granted.todo = Tail(m.todo) /\ Granted.step = 1
        /\ m.step # (IF m.pc = "create" THEN 3 ELSE 2) => Granted.todo = m.todo /\ Granted.step = m.step + 1
    BY <1>1, <2>0, <2>1, <2>2, NextStepFacts
  <2>q. QED BY <1>1, <2>0, <2>2, <2>3, <2>4 DEF Keeps
<1>2. CASE n.pc = "reaped"
  <2>1. PICK b \in BOOLEAN : b <=> n.exp # "good"  OBVIOUS
  <2> DEFINE m == [n EXCEPT !.failed = b]
  <2>2. Granted = Settlement(m)  BY <1>2, <2>1 DEF Granted
  <2>3. OwnerShape(m) /\ Keeps(n, m) /\ m.term = n.term /\ m.alone = n.alone /\ m.known = n.known /\
        Begins(m) = Begins(n)
    BY DEF OwnerShape, OwnerFields, Keeps, Begins
  <2>4. Onward(n) = Begins(n)  BY <1>2 DEF Onward
  <2> HIDE DEF m
  <2>5. OwnerShape(Granted) /\ Keeps(m, Granted) /\ Granted.term = m.term /\ Granted.alone = m.alone /\
        Granted.known = m.known /\ Granted.pc = Begins(m)
    BY <2>2, <2>3, SettlementFacts DEF Keeps
  <2>q. QED BY <1>2, <2>3, <2>4, <2>5 DEF Keeps
<1>3. CASE n.pc \in {"retire", "rRetire", "fRetire"}
  <2>1. PICK c \in OwnerPlaces \ {"create", "clean"} : c = Onward(n)  BY <1>3, OnwardPlace DEF Kinds
  <2>2. Granted = [n EXCEPT !.sent = FALSE, !.pc = c, !.ret = TRUE]  BY <1>3, <2>1 DEF Granted, Onward
  <2>q. QED BY <1>3, <2>1, <2>2 DEF OwnerShape, OwnerFields
<1>4. CASE n.pc \notin {"create", "clean", "reaped", "retire", "rRetire", "fRetire"}
  <2>1. PICK c \in OwnerPlaces \ {"create", "clean"} : c = Onward(n)  BY <1>0, <1>4, OnwardPlace
  <2>2. Granted = [n EXCEPT !.sent = FALSE, !.pc = c]  BY <1>0, <1>4, <2>1 DEF Granted, Onward, Kinds
  <2>q. QED BY <1>4, <2>1, <2>2 DEF OwnerShape, OwnerFields
<1>q. QED BY <1>1, <1>2, <1>3, <1>4

\* What is left of a queue was in it.
LEMMA TailFacts ==
  ASSUME NEW T, NEW d \in Seq(T), d # <<>>
  PROVE  /\ Tail(d) \in Seq(T) /\ Head(d) \in T /\ 1 \in DOMAIN d /\ Head(d) = d[1]
         /\ \A i \in DOMAIN Tail(d) : i + 1 \in DOMAIN d /\ Tail(d)[i] = d[i + 1]
OBVIOUS

\* What a longer queue holds.
LEMMA AppendFacts ==
  ASSUME NEW T, NEW d \in Seq(T), NEW f \in T
  PROVE  Append(d, f) \in Seq(T) /\ \A i \in DOMAIN Append(d, f) : (i \in DOMAIN d /\
  Append(d, f)[i] = d[i]) \/ Append(d, f)[i] = f
OBVIOUS

\* One object less to go through.
LEMMA RestOf ==
  ASSUME NEW T, NEW d \in Seq(T), d # <<>>, NEW i \in DOMAIN d
  PROVE  d[i] = Head(d) \/ \E j \in DOMAIN Tail(d) : Tail(d)[j] = d[i]
<1>1. CASE i = 1  BY <1>1
<1>2. CASE i # 1
  <2>1. i - 1 \in DOMAIN Tail(d) /\ Tail(d)[i - 1] = d[i]  BY <1>2
  <2>q. QED BY <2>1
<1>q. QED BY <1>1, <1>2

\* Creation and cleanup go through objects, and creation through all of them.
LEMMA OrderFacts ==
  /\ CreateOrder \in Seq(Roles) /\ Reverse(CreateOrder) \in Seq(Roles)
  /\ \A r \in Roles : \E i \in DOMAIN CreateOrder : CreateOrder[i] = r
<1>1. Len(CreateOrder) \in Nat /\ DOMAIN CreateOrder = 1..Len(CreateOrder) /\
      CreateOrder = [i \in 1..Len(CreateOrder) |-> CreateOrder[i]]
  BY NativeAssumption
<1>2. \A i \in 1..Len(CreateOrder) : CreateOrder[i] \in Roles  BY <1>1 DEF Roles, ToSet
<1>3. CreateOrder \in [1..Len(CreateOrder) -> Roles]  BY <1>1, <1>2
<1>4. Reverse(CreateOrder) \in [1..Len(CreateOrder) -> Roles]  BY <1>1, <1>2 DEF Reverse
<1>5. \A N0 \in Nat : \A f \in [1..N0 -> Roles] : f \in Seq(Roles)  BY SeqDef
<1>6. \A r \in Roles : \E i \in DOMAIN CreateOrder : CreateOrder[i] = r  BY DEF Roles, ToSet
<1>q. QED BY <1>1, <1>3, <1>4, <1>5, <1>6

-----------------------------------------------------------------------------
(* The parent's registrations and signals *)

\* A ticket is only signalled while it is one.
LEMMA SignalledFacts ==
  ASSUME NEW q, ParentShape(q), ~q.astray, s.at = "reaped" => q.retired
  PROVE  /\ ParentShape(Signalled(q)) /\ ~Signalled(q).astray /\ Signalled(q).reg = q.reg
         /\ Signalled(q).pc = q.pc /\ Signalled(q).failed = q.failed /\ Signalled(q).passed = q.passed
         /\ Signalled(q).sup = q.sup /\ Signalled(q).retired = q.retired /\ Signalled(q).stopped = q.stopped
<1>1. CASE Ticket(q)
  <2>1. PICK b \in BOOLEAN : b <=> (q.astray \/ s.at = "reaped")  OBVIOUS
  <2>2. Signalled(q) = [q EXCEPT !.astray = b]  BY <1>1, <2>1 DEF Signalled
  <2>3. ~b  BY <1>1, <2>1 DEF Ticket
  <2>q. QED BY <2>2, <2>3 DEF ParentShape, ParentFields
<1>2. CASE ~Ticket(q)  BY <1>2 DEF Signalled
<1>q. QED BY <1>1, <1>2

\* What a recorded registration changes.
Recorded(f, q) ==
  /\ ParentShape(q) /\ ~q.astray /\ q.pc = p.pc /\ q.failed = p.failed /\ q.passed = p.passed
  /\ p.sup => q.sup
  /\ f.kind = "supervisor" => q.sup
  /\ q.sup => p.sup \/ f.kind \in {"supervisor", "supervisor-unconfirmed"}
  /\ p.stopped => q.stopped
  /\ q.stopped => p.stopped \/ f.kind = "task-stop"
  /\ f.kind = "task-stop" => q.stopped
  /\ p.retired => q.retired
  /\ q.retired => p.retired \/ f.kind = "task-retiring"
  /\ f.kind = "task-retiring" => q.retired
  /\ \A r \in Roles : q.reg[r] = "none" => p.reg[r] = "none" \/ (f.kind = "cleaned" /\ r = f.role)
  /\ f.kind = "intent" => q.reg[f.role] # "none"

\* The same of Entered, frame kind by frame kind.
LEMMA EnteredFacts ==
  ASSUME Shape, Retirement, NEW f \in Frames, f.kind \in {"intent", "bound", "cleaned"} => f.role \in Roles
  PROVE  Recorded(f, Entered(f))
<1>0. ParentShape(p) /\ ~p.astray /\ (s.at = "reaped" => p.retired) /\ f.kind \in FrameKinds
  BY DEF Shape, Retirement, Frames
<1>1. CASE f.kind \in {"intent", "bound"}
  <2>1. PICK k \in {"intent", "bound"} : k = f.kind  BY <1>1
  <2>2. PICK g : g = [p.reg EXCEPT ![f.role] = k]  OBVIOUS
  <2>3. p.reg \in [Roles -> ObjectStates] /\ f.role \in Roles  BY <1>0, <1>1 DEF ParentShape
  <2>4. g \in [Roles -> ObjectStates] /\ g[f.role] = k /\ \A r \in Roles : r # f.role => g[r] = p.reg[r]
    BY <2>2, <2>3 DEF ObjectStates
  <2>5. Entered(f) = [p EXCEPT !.reg = g]  BY <1>1, <2>1, <2>2 DEF Entered
  <2>q. QED BY <1>0, <1>1, <2>1, <2>4, <2>5 DEF Recorded, ParentShape, ParentFields
<1>2. CASE f.kind = "cleaned"
  <2>2. PICK g : g = [p.reg EXCEPT ![f.role] = "none"]  OBVIOUS
  <2>3. p.reg \in [Roles -> ObjectStates] /\ f.role \in Roles  BY <1>0, <1>2 DEF ParentShape
  <2>4. g \in [Roles -> ObjectStates] /\ \A r \in Roles : r # f.role => g[r] = p.reg[r]
    BY <2>2, <2>3 DEF ObjectStates
  <2>5. Entered(f) = [p EXCEPT !.reg = g]  BY <1>2, <2>2 DEF Entered
  <2>q. QED BY <1>0, <1>2, <2>4, <2>5 DEF Recorded, ParentShape, ParentFields
<1>3. CASE f.kind = "task-stop"
  <2>1. PICK q : q = [p EXCEPT !.stopped = TRUE]  OBVIOUS
  <2>2. /\ ParentShape(q) /\ ~q.astray /\ q.reg = p.reg /\ q.pc = p.pc /\ q.failed = p.failed /\
             q.passed = p.passed
        /\ q.sup = p.sup /\ q.retired = p.retired /\ q.stopped
    BY <1>0, <2>1 DEF ParentShape, ParentFields
  <2>3. Entered(f) = Signalled(q)  BY <1>3, <2>1 DEF Entered
  <2>q. QED BY <1>0, <1>3, <2>2, <2>3, SignalledFacts DEF Recorded
<1>4. CASE f.kind \in {"ready", "supervisor", "supervisor-unconfirmed", "worker", "task-reaped",
                         "task-retiring", "cleanup-start"}
  <2>1. f.kind = "ready" => Entered(f) = [p EXCEPT !.ready = TRUE]  BY DEF Entered
  <2>2. f.kind \in {"supervisor", "supervisor-unconfirmed"} => Entered(f) = [p EXCEPT !.sup = TRUE]
    BY DEF Entered
  <2>3. f.kind = "worker" => Entered(f) = [p EXCEPT !.wkr = TRUE]  BY DEF Entered
  <2>4. f.kind = "task-reaped" => Entered(f) = [p EXCEPT !.reaped = TRUE, !.wreaped = f.clean]  BY DEF Entered
  <2>5. f.kind = "task-retiring" => Entered(f) = [p EXCEPT !.retired = TRUE]  BY DEF Entered
  <2>6. f.kind = "cleanup-start" => Entered(f) = [p EXCEPT !.cleaning = TRUE]  BY DEF Entered
  <2>q. QED BY <1>0, <1>4, <2>1, <2>2, <2>3, <2>4, <2>5, <2>6 DEF Recorded, ParentShape, ParentFields
<1>q. QED BY <1>0, <1>1, <1>2, <1>3, <1>4 DEF FrameKinds

\* A supervisor that is killed, or dies.
Killed ==
  /\ DOMAIN s' = DOMAIN s /\ s'.gate = s.gate /\ s'.term = s.term
  /\ \/ s'.at = s.at /\ s'.rep = s.rep /\ w' = w
     \/ /\ s.at \notin {"none", "exited", "reaped"} /\ s'.at = "exited" /\ s'.rep = "none"
        /\ (w' = w /\ w \in {"none", "work"}) \/ w' = "end"

\* A group that is signalled ends as one that dies.
LEMMA KillFacts ==
  ASSUME Shape, NEW kill, KillGroup(kill)
  PROVE  Killed /\ (kill /\ s.at # "none" => s'.at \in {"exited", "reaped"})
<1>1. CASE kill /\ s.at \notin {"none", "exited", "reaped"}
  <2>1. /\ s' = [s EXCEPT !.at = "exited", !.rep = "none"]
        /\ w' \in (CASE w = "none" -> {"none"} [] w = "work" -> {"work", "end"} [] OTHER -> {"end"})
    BY <1>1 DEF KillGroup
  <2>q. QED BY <1>1, <2>1 DEF Killed, Shape
<1>2. CASE ~(kill /\ s.at \notin {"none", "exited", "reaped"})
  BY <1>2 DEF Killed, KillGroup
<1>q. QED BY <1>1, <1>2

-----------------------------------------------------------------------------
(* The steps of the owner *)

\* fork_supervisor returns.
LEMMA NReturnStep ==
  ASSUME IInv, NReturn
  PROVE  IInv'
<1>0. Shape /\ Retirement /\ Outcome /\ Registered /\ Building /\ Authority /\ Stopping /\
      Passing /\ OwnerShape(n)
  BY DEF IInv, Shape
<1>1. n.pc = "tail" /\ n' = [n EXCEPT !.pc = "read", !.known = TRUE] /\ UNCHANGED <<p, s, w, objs, up, down>>
  BY DEF NReturn
<1>2. n'.pc = "read" /\ n'.known /\ n'.ents = n.ents /\ n'.todo = n.todo /\ n'.step = n.step /\
      n'.ret = n.ret /\
      n'.code = n.code /\ n'.exp = n.exp /\ n'.term = n.term /\ n'.alone = n.alone /\ n'.sent = n.sent /\
      DOMAIN n' = DOMAIN n
  BY <1>0, <1>1 DEF OwnerShape, OwnerFields
<1>Shape. Shape'  BY <1>0, <1>1, <1>2 DEF Shape, OwnerShape, OwnerFields, OwnerPlaces
<1>Retirement. Retirement'  BY <1>0, <1>1, <1>2 DEF Shape, Retirement
<1>Outcome. Outcome'  BY <1>0, <1>1, <1>2 DEF Shape, Outcome, Early
<1>Registered. Registered'  BY <1>0, <1>1, <1>2 DEF Shape, Registered, Role
<1>Building. Building'  BY <1>0, <1>1, <1>2 DEF Shape, Building, Whole, Quiet, Through, Occupied, Ended, Role
<1>Authority. Authority'  BY <1>0, <1>1, <1>2 DEF Shape, Authority, Before, Early, Through
<1>Stopping. Stopping'  BY <1>0, <1>1, <1>2 DEF Shape, Stopping, Forking
<1>Passing. Passing'  BY <1>0, <1>1, <1>2 DEF Passing
<1>q. QED BY <1>Shape, <1>Retirement, <1>Outcome, <1>Registered, <1>Building, <1>Authority, <1>Stopping,
          <1>Passing DEF IInv

\* The owner is killed.
LEMMA NDiesStep ==
  ASSUME IInv, NDies
  PROVE  IInv'
<1>0. Shape /\ Retirement /\ Outcome /\ Registered /\ Building /\ Authority /\ Stopping /\
      Passing /\ OwnerShape(n)
  BY DEF IInv, Shape
<1>1. Alive /\ n' = [n EXCEPT !.pc = "dead"] /\ UNCHANGED <<p, s, w, objs, up, down>>  BY DEF NDies
<1>2. n'.pc = "dead" /\ n'.known = n.known /\ n'.ents = n.ents /\ n'.todo = n.todo /\ n'.step = n.step /\
      n'.ret = n.ret /\ n'.code = n.code /\ n'.exp = n.exp /\ n'.term = n.term /\ n'.alone = n.alone /\
      n'.sent = n.sent /\ DOMAIN n' = DOMAIN n
  BY <1>0, <1>1 DEF OwnerShape, OwnerFields
<1>Shape. Shape'  BY <1>0, <1>1, <1>2 DEF Shape, OwnerShape, OwnerFields, OwnerPlaces
<1>Retirement. Retirement'  BY <1>0, <1>1, <1>2 DEF Shape, Retirement
<1>Outcome. Outcome'  BY <1>0, <1>1, <1>2 DEF Shape, Outcome, Early
<1>Registered. Registered'  BY <1>0, <1>1, <1>2 DEF Shape, Registered, Role
<1>Building. Building'  BY <1>0, <1>1, <1>2 DEF Shape, Building, Whole, Quiet, Through, Occupied, Ended, Role
<1>Authority. Authority'  BY <1>0, <1>1, <1>2 DEF Shape, Authority, Before, Early, Through
<1>Stopping. Stopping'  BY <1>0, <1>1, <1>2 DEF Shape, Stopping, Forking
<1>Passing. Passing'  BY <1>0, <1>1, <1>2 DEF Passing, Alive
<1>q. QED BY <1>Shape, <1>Retirement, <1>Outcome, <1>Registered, <1>Building, <1>Authority, <1>Stopping,
          <1>Passing DEF IInv

\* An acknowledged registration: its retirement, supervisor or object is entered.
LEMMA GrantedStep ==
  ASSUME IInv, Registers, n.sent, down # <<>>, Head(down) = Request, n' = Granted, down' = Tail(down),
         UNCHANGED <<p, s, w, objs, up>>
  PROVE  IInv'
<1>0. Shape /\ Retirement /\ Outcome /\ Registered /\ Building /\ Authority /\ Stopping /\
      Passing /\ OwnerShape(n)
  BY DEF IInv, Shape
<1>1. /\ OwnerShape(n') /\ n'.term = n.term /\ n'.alone = n.alone /\ n'.known = n.known /\
           n'.ents = n.ents /\ n'.code = n.code /\ n'.exp = n.exp
      /\ n.pc \notin {"retire", "rRetire", "fRetire"} => n'.ret = n.ret
      /\ n.pc \in {"retire", "rRetire", "fRetire"} => n'.ret
      /\ n.pc \notin {"create", "clean"} => n'.pc = Onward(n)
  BY <1>0, GrantedFacts
<1>2. n.pc \in {"create", "clean"} =>
        /\ n.todo # <<>> /\ n'.pc = n.pc /\ ~n'.sent
        /\ n.step = (IF n.pc = "create" THEN 3 ELSE 2) => n'.todo = Tail(n.todo) /\ n'.step = 1
        /\ n.step # (IF n.pc = "create" THEN 3 ELSE 2) => n'.todo = n.todo /\ n'.step = n.step + 1
  BY <1>0, GrantedFacts
<1>3. down' \in Seq(Frames) /\ \A i \in DOMAIN down' : i + 1 \in DOMAIN down /\ down'[i] = down[i + 1]
  BY <1>0, TailFacts DEF Shape
<1>4. /\ n.pc \in {"retire", "rRetire", "fRetire"} => p.retired
      /\ n.pc = "regS" => p.sup
      /\ n.pc = "rStop" => p.stopped
      /\ n.pc = "create" /\ n.step = 1 => p.reg[Role] # "none"
  <2>1. 1 \in DOMAIN down /\ down[1] = Request  BY <1>0, TailFacts DEF Shape
  <2>2. /\ Request.kind = "task-retiring" <=> n.pc \in {"retire", "rRetire", "fRetire"}
        /\ Request.kind = "supervisor" <=> n.pc = "regS"
        /\ n.pc = "rStop" => Request.kind = "task-stop"
        /\ Request.kind = "intent" <=> n.pc = "create" /\ n.step = 1
        /\ Request.kind \in {"intent", "bound", "cleaned"} => Request.role = Role
    BY <1>0, RequestFacts
  <2>q. QED BY <1>0, <2>1, <2>2 DEF Retirement, Authority, Stopping, Registered
<1>5. n.pc \in {"create", "clean"} \cup DOMAIN Kinds  BY DEF Registers, Doing, Working
<1>8. (n.pc = "clean" => n.step = 2) /\ (n.pc = "create" => n.step \in {1, 3})  BY <1>0, RequestFacts
<1>6. UNCHANGED <<p, s, w, objs, up>>  OBVIOUS
<1>7. n.pc \notin {"create", "clean"} => n'.pc \notin {"create", "clean", "exit"} /\ n.pc # "exit"
  BY <1>1, <1>5, OnwardPlace DEF Onward, Begins, Kinds
<1>Shape. Shape'
  BY <1>0, <1>1, <1>2, <1>3, <1>4, <1>5, <1>8, <1>6, <1>7 DEF Shape, OwnerShape, OwnerFields, OwnerPlaces
<1>Retirement. Retirement'
  BY <1>0, <1>1, <1>2, <1>3, <1>4, <1>5, <1>8, <1>6, <1>7 DEF Shape, Retirement, Onward, Begins, Kinds
<1>Outcome. Outcome'
  BY <1>0, <1>1, <1>2, <1>3, <1>4, <1>5, <1>8, <1>6, <1>7 DEF Shape, Outcome, Early, Onward, Begins, Kinds
<1>Registered. Registered'  BY <1>0, <1>1, <1>2, <1>3, <1>4, <1>5, <1>8, <1>6, <1>7 DEF Shape, Registered, Role
<1>Building. Building'
  <2>1. CASE n.pc = "create"
    <3>0. n'.pc = "create" /\ s.at = "none" /\ n.todo \in Seq(Roles) /\ n.todo # <<>>
      BY <1>0, <1>2, <2>1 DEF Outcome, Early, OwnerShape
    <3>1. n.step \in {1, 3} /\ n'.ents = n.ents  BY <1>0, <1>1, <2>1, RequestFacts
    <3>2. CASE n.step = 1  BY <1>0, <1>1, <1>2, <1>6, <2>1, <3>0, <3>1, <3>2 DEF Building
    <3>3. CASE n.step = 3
      <4>1. n'.todo = Tail(n.todo) /\ n'.step = 1 /\ Role \in objs /\ n.ents[Role] = "bound"
        BY <1>0, <1>2, <2>1, <3>0, <3>3 DEF Building
      <4>2. \A r \in Roles : (r \in objs /\ n.ents[r] = "bound") \/ \E i \in DOMAIN n'.todo : n'.todo[i] = r
        <5>1. \A r \in Roles : (r \in objs /\ n.ents[r] = "bound") \/ \E i \in DOMAIN n.todo : n.todo[i] = r
          BY <1>0, <2>1 DEF Building
        <5>2. \A i \in DOMAIN n.todo : n.todo[i] = Role \/ \E j \in DOMAIN n'.todo : n'.todo[j] = n.todo[i]
          BY <3>0, <4>1, RestOf DEF Role
        <5>q. QED BY <4>1, <5>1, <5>2
      <4>q. QED BY <1>1, <1>2, <1>6, <2>1, <3>0, <4>1, <4>2 DEF Building
    <3>q. QED BY <3>1, <3>2, <3>3
  <2>2. CASE n.pc = "clean"
    BY <1>0, <1>1, <1>2, <1>6, <2>2 DEF Building, Whole, Quiet, Through, Occupied, Ended
  <2>3. CASE n.pc \notin {"create", "clean"}
    BY <1>0, <1>1, <1>5, <1>6, <1>7, <2>3 DEF Building, Whole, Quiet, Through, Occupied, Ended, Onward, Begins,
       Kinds
  <2>q. QED BY <2>1, <2>2, <2>3
<1>Authority. Authority'
  BY <1>0, <1>1, <1>2, <1>3, <1>4, <1>5, <1>8, <1>6, <1>7 DEF Shape, Authority, Before, Early, Through, Onward,
     Begins, Kinds
<1>Stopping. Stopping'
  BY <1>0, <1>1, <1>2, <1>3, <1>4, <1>5, <1>8, <1>6, <1>7 DEF Shape, Stopping, Onward, Begins, Kinds, Forking
<1>Passing. Passing'  BY <1>0, <1>1, <1>2, <1>3, <1>4, <1>5, <1>8, <1>6, <1>7 DEF Passing
<1>q. QED BY <1>Shape, <1>Retirement, <1>Outcome, <1>Registered, <1>Building, <1>Authority, <1>Stopping,
          <1>Passing DEF IInv

\* A failed registration, also one whose acknowledgement was torn with s.
LEMMA RefusedStep ==
  ASSUME IInv, Registers, n' = Refused, (down' = down) \/ (down # <<>> /\ down' = Tail(down)),
         (s' = s) \/ (s.at = "regW" /\ s' = [s EXCEPT !.at = "kill"]), UNCHANGED <<p, w, objs, up>>
  PROVE  IInv'
<1>0. Shape /\ Retirement /\ Outcome /\ Registered /\ Building /\ Authority /\ Stopping /\
      Passing /\ OwnerShape(n)
  BY DEF IInv, Shape
<1>1. /\ OwnerShape(n') /\ Keeps(n, n') /\ n'.term = n.term /\ n'.alone = n.alone
      /\ n.pc \in {"regS", "gate"} => n'.pc = "rUnc"
      /\ n.pc \in {"rUnc", "rStop", "rRetire"} => n'.pc = "hUnc" /\ n'.known
      /\ n.pc \in {"create", "ready", "stop", "retire", "reaped"} => n'.pc = Begins(n) /\ n'.known = n.known
  BY <1>0, RefusedFacts
<1>2. /\ n.pc \in {"hUnc", "hReaped"} => n'.pc \in {"hReaped", "settle"} /\ n'.known = n.known
      /\ n.pc \in {"fStop", "fRetire"} => n'.pc = "safe" /\ n'.known = n.known
      /\ n.pc = "cleanStart" => n'.pc = "result"
      /\ n.pc = "clean" => n'.pc = "clean" /\ n'.step = 1
  BY <1>0, RefusedFacts
<1>3. down' \in Seq(Frames) /\ \A i \in DOMAIN down' : \E j \in DOMAIN down : down'[i] = down[j]
  <2>0. down \in Seq(Frames)  BY <1>0 DEF Shape
  <2>1. CASE down' = down  BY <2>0, <2>1
  <2>2. CASE down # <<>> /\ down' = Tail(down)
    <3>1. down' \in Seq(Frames) /\ \A i \in DOMAIN down' : i + 1 \in DOMAIN down /\ down'[i] = down[i + 1]
      BY <2>0, <2>2, TailFacts
    <3>q. QED BY <3>1
  <2>q. QED BY <2>1, <2>2
<1>4. n.pc \in {"create", "clean", "ready", "regS", "stop", "retire", "reaped", "rUnc", "rStop", "rRetire",
                "hUnc", "hReaped", "fStop", "fRetire", "cleanStart"}
  BY DEF Registers, Doing, Working, Kinds
<1>5. UNCHANGED <<p, w, objs, up>>  OBVIOUS
<1>6. /\ DOMAIN s' = DOMAIN s /\ s'.gate = s.gate /\ s'.term = s.term /\ s'.rep = s.rep
      /\ s'.at = s.at \/ (s.at = "regW" /\ s'.at = "kill")
  BY <1>0 DEF Shape
<1>Shape. Shape'  BY <1>0, <1>1, <1>2, <1>3, <1>4, <1>5, <1>6 DEF Shape, OwnerShape, OwnerFields, OwnerPlaces
<1>Retirement. Retirement'  BY <1>0, <1>1, <1>2, <1>3, <1>4, <1>5, <1>6 DEF Shape, Retirement, Begins, Keeps
<1>Outcome. Outcome'  BY <1>0, <1>1, <1>2, <1>3, <1>4, <1>5, <1>6 DEF Shape, Outcome, Early, Begins, Keeps
<1>Registered. Registered'
  BY <1>0, <1>1, <1>2, <1>3, <1>4, <1>5, <1>6 DEF Shape, Registered, Role, Begins, Keeps
<1>Building. Building'
  BY <1>0, <1>1, <1>2, <1>3, <1>4, <1>5, <1>6 DEF Shape, Building, Whole, Quiet, Through, Occupied, Ended,
     Role, Begins, Keeps, Outcome, Early
<1>Authority. Authority'
  BY <1>0, <1>1, <1>2, <1>3, <1>4, <1>5, <1>6 DEF Shape, Authority, Before, Early, Through, Begins, Keeps,
     Outcome
<1>Stopping. Stopping'  BY <1>0, <1>1, <1>2, <1>3, <1>4, <1>5, <1>6 DEF Shape, Stopping, Begins, Keeps, Forking
<1>Passing. Passing'  BY <1>0, <1>1, <1>2, <1>3, <1>4, <1>5, <1>6 DEF Passing
<1>q. QED BY <1>Shape, <1>Retirement, <1>Outcome, <1>Registered, <1>Building, <1>Authority, <1>Stopping,
          <1>Passing DEF IInv

\* A request is sent: "cleaned" only of what is gone, "intent" of what is not yet there.
LEMMA NSendStep ==
  ASSUME IInv, NSend
  PROVE  IInv'
<1>0. Shape /\ Retirement /\ Outcome /\ Registered /\ Building /\ Authority /\ Stopping /\
      Passing /\ OwnerShape(n)
  BY DEF IInv, Shape
<1>1. Registers /\ ~n.sent /\ up' = Append(up, Request) /\ UNCHANGED <<p, s, w, objs, down>>  BY DEF NSend
<1>2. /\ Request \in Frames
      /\ Request.kind = "task-retiring" <=> n.pc \in {"retire", "rRetire", "fRetire"}
      /\ Request.kind = "cleaned" <=> n.pc = "clean" /\ n.step = 2
      /\ Request.kind \in {"intent", "bound", "cleaned"} => Request.role = Role /\ Role \in Roles
      /\ Request.kind \in {"supervisor", "supervisor-unconfirmed"} => n.pc \in {"regS", "rUnc", "hUnc"}
  BY <1>0, <1>1, RequestFacts
<1>3. n.pc = "create" => n.step \in {1, 3} /\ Role \in Roles /\ n.todo # <<>>
  BY <1>0, <1>1, RequestFacts, RoleFacts DEF Registers, Doing, Kinds, Working
<1>4. PICK e \in [Roles -> ObjectStates] :
        /\ n' = [n EXCEPT !.sent = TRUE, !.ents = e]
        /\ n.pc # "create" => e = n.ents
        /\ n.pc = "create" => /\ \A r \in Roles : r # Role => e[r] = n.ents[r]
                              /\ n.step = 3 => e[Role] = "bound"
                              /\ n.step = 1 => e[Role] = "intent"
  <2>1. CASE n.pc # "create"
    <3>1. n' = [n EXCEPT !.sent = TRUE, !.ents = n.ents]  BY <2>1 DEF NSend
    <3>q. QED BY <1>0, <2>1, <3>1 DEF OwnerShape
  <2>2. CASE n.pc = "create"
    <3>1. PICK v : v = Steps(n.pc)[n.step]  OBVIOUS
    <3>2. v \in ObjectStates /\ (n.step = 3 => v = "bound") /\ (n.step = 1 => v = "intent")
      BY <1>3, <2>2, <3>1 DEF Steps, ObjectStates
    <3>3. n' = [n EXCEPT !.sent = TRUE, !.ents = [n.ents EXCEPT ![Role] = v]]  BY <2>2, <3>1 DEF NSend
    <3>4. n.ents \in [Roles -> ObjectStates]  BY <1>0 DEF OwnerShape
    <3>5. PICK e : e = [n.ents EXCEPT ![Role] = v]  OBVIOUS
    <3>6. e \in [Roles -> ObjectStates] /\ e[Role] = v /\ \A r \in Roles : r # Role => e[r] = n.ents[r]
      BY <1>3, <2>2, <3>2, <3>4, <3>5
    <3>q. QED BY <2>2, <3>2, <3>3, <3>5, <3>6
  <2>q. QED BY <2>1, <2>2
<1>5. n'.ents = e /\ n'.sent /\ n'.pc = n.pc /\ n'.todo = n.todo /\ n'.step = n.step /\ n'.term = n.term /\
      n'.alone = n.alone /\
      n'.known = n.known /\ n'.ret = n.ret /\ n'.code = n.code /\ n'.exp = n.exp /\ DOMAIN n' = DOMAIN n
  BY <1>0, <1>4 DEF OwnerShape, OwnerFields
<1>6. up' \in Seq(Frames) /\ \A i \in DOMAIN up' : (i \in DOMAIN up /\ up'[i] = up[i]) \/ up'[i] = Request
  BY <1>0, <1>1, <1>2, AppendFacts DEF Shape
<1>7. n.pc \in {"create", "clean", "ready", "regS", "stop", "retire", "reaped", "rUnc", "rStop", "rRetire",
                "hUnc", "hReaped", "fStop", "fRetire", "cleanStart"}
  BY <1>1 DEF Registers, Doing, Working, Kinds
<1>8. n.pc = "clean" => n.todo # <<>>  BY <1>1 DEF Registers, Doing, Working, Kinds
<1>Shape. Shape'
  BY <1>0, <1>1, <1>2, <1>3, <1>4, <1>5, <1>6, <1>7, <1>8 DEF Shape, OwnerShape, OwnerFields, OwnerPlaces
<1>Retirement. Retirement'  BY <1>0, <1>1, <1>2, <1>3, <1>4, <1>5, <1>6, <1>7, <1>8 DEF Shape, Retirement
<1>Outcome. Outcome'  BY <1>0, <1>1, <1>2, <1>3, <1>4, <1>5, <1>6, <1>7, <1>8 DEF Shape, Outcome, Early
<1>Registered. Registered'  BY <1>0, <1>1, <1>2, <1>3, <1>4, <1>5, <1>6, <1>7, <1>8 DEF Shape, Registered, Role
<1>Building. Building'
  <2>1. CASE n.pc = "create"
    <3>1. s.at = "none" /\ n.todo # <<>> /\ Role \in Roles /\ \E i \in DOMAIN n.todo : n.todo[i] = Role
      BY <1>0, <1>3, <2>1, RoleFacts DEF Outcome, Early, Working
    <3>2. \A r \in Roles : (r \in objs /\ e[r] = "bound") \/ \E i \in DOMAIN n.todo : n.todo[i] = r
      BY <1>0, <1>4, <2>1, <3>1 DEF Building
    <3>3. n.step = 3 => Role \in objs /\ e[Role] = "bound"  BY <1>0, <1>4, <2>1, <3>1 DEF Building
    <3>q. QED BY <1>1, <1>3, <1>5, <2>1, <3>1, <3>2, <3>3 DEF Building, Role
  <2>2. CASE n.pc # "create"
    <3>1. n'.ents = n.ents  BY <1>4, <1>5, <2>2
    <3>q. QED BY <1>0, <1>1, <1>5, <2>2, <3>1 DEF Building, Whole, Quiet, Through, Occupied
  <2>q. QED BY <2>1, <2>2
<1>Authority. Authority'
  BY <1>0, <1>1, <1>2, <1>3, <1>4, <1>5, <1>6, <1>7, <1>8 DEF Shape, Authority, Before, Early, Through
<1>Stopping. Stopping'  BY <1>0, <1>1, <1>2, <1>3, <1>4, <1>5, <1>6, <1>7, <1>8 DEF Shape, Stopping, Forking
<1>Passing. Passing'  BY <1>0, <1>1, <1>2, <1>3, <1>4, <1>5, <1>6, <1>7, <1>8 DEF Passing
<1>q. QED BY <1>Shape, <1>Retirement, <1>Outcome, <1>Registered, <1>Building, <1>Authority, <1>Stopping,
          <1>Passing DEF IInv

\* The object was announced before it is made.
LEMMA NMakeStep ==
  ASSUME IInv, NMake
  PROVE  IInv'
<1>0. Shape /\ Retirement /\ Outcome /\ Registered /\ Building /\ Authority /\ Stopping /\
      Passing /\ OwnerShape(n)
  BY DEF IInv, Shape
<1>1. Undisturbed /\ Working /\ Steps(n.pc)[n.step] = "make" /\ UNCHANGED <<p, s, w, up, down>>
  BY DEF NMake, Doing
<1>2. n.pc = "create" /\ n.step = 2 /\ n.todo # <<>> /\ Role \in Roles
  BY <1>0, <1>1, RoleFacts DEF Working, Steps, OwnerShape
<1>3. objs' = objs \/ objs' = objs \cup {Role}  BY DEF NMake
<1>4. \/ n' = Raised(n)
      \/ n' = NextStep(n) /\ objs' = objs \cup {Role}
  BY DEF NMake
<1>5. n' = NextStep(n) => /\ OwnerShape(n') /\ Keeps(n, n') /\ n'.term = n.term /\ n'.alone = n.alone /\
                               n'.known = n.known /\ n'.pc = "create"
                          /\ n'.sent = n.sent /\ n'.todo = n.todo /\ n'.step = 3
  BY <1>0, <1>2, NextStepFacts
<1>6. n' = Raised(n) => /\ OwnerShape(n') /\ Keeps(n, n') /\ n'.term = n.term /\ n'.alone = n.alone /\
                             n'.known = n.known /\ n'.pc = Begins(n)
  BY <1>0, <1>2, RaisedFacts
<1>7. s.at = "none"  BY <1>0, <1>2 DEF Outcome, Early
<1>Shape. Shape'
  BY <1>0, <1>1, <1>2, <1>3, <1>4, <1>5, <1>6, <1>7 DEF Shape, OwnerShape, OwnerFields, OwnerPlaces
<1>Retirement. Retirement'
  BY <1>0, <1>1, <1>2, <1>3, <1>4, <1>5, <1>6, <1>7 DEF Shape, Retirement, Begins, Keeps
<1>Outcome. Outcome'  BY <1>0, <1>1, <1>2, <1>3, <1>4, <1>5, <1>6, <1>7 DEF Shape, Outcome, Early, Begins, Keeps
<1>Registered. Registered'
  BY <1>0, <1>1, <1>2, <1>3, <1>4, <1>5, <1>6, <1>7 DEF Shape, Registered, Role, Begins, Keeps
<1>Building. Building'
  <2>1. CASE n' = Raised(n)  BY <1>0, <1>1, <1>2, <1>6, <1>7, <2>1 DEF Building, Begins, Ended
  <2>2. CASE n' = NextStep(n) /\ objs' = objs \cup {Role}
    <3>1. \A r \in Roles : (r \in objs' /\ n'.ents[r] = "bound") \/ \E i \in DOMAIN n'.todo : n'.todo[i] = r
      BY <1>0, <1>2, <1>5, <2>2 DEF Building, Keeps
    <3>2. ~n.sent  BY <1>0, <1>2 DEF Building
    <3>q. QED BY <1>1, <1>2, <1>5, <1>7, <2>2, <3>1, <3>2 DEF Building, Role, Keeps
  <2>q. QED BY <1>4, <2>1, <2>2
<1>Authority. Authority'
  BY <1>0, <1>1, <1>2, <1>3, <1>4, <1>5, <1>6, <1>7 DEF Shape, Authority, Before, Early, Through, Begins, Keeps
<1>Stopping. Stopping'
  BY <1>0, <1>1, <1>2, <1>3, <1>4, <1>5, <1>6, <1>7 DEF Shape, Stopping, Begins, Keeps, Forking
<1>Passing. Passing'  BY <1>0, <1>1, <1>2, <1>3, <1>4, <1>5, <1>6, <1>7 DEF Passing
<1>q. QED BY <1>Shape, <1>Retirement, <1>Outcome, <1>Registered, <1>Building, <1>Authority, <1>Stopping,
          <1>Passing DEF IInv

\* When nothing is left to do, all objects are there.
LEMMA NWorkedStep ==
  ASSUME IInv, NWorked
  PROVE  IInv'
<1>0. Shape /\ Retirement /\ Outcome /\ Registered /\ Building /\ Authority /\ Stopping /\
      Passing /\ OwnerShape(n)
  BY DEF IInv, Shape
<1>1. n.pc \in {"create", "clean"} /\ n.todo = <<>> /\ UNCHANGED <<p, s, w, objs, up, down>>  BY DEF NWorked
<1>2. n' = [n EXCEPT !.pc = IF n.pc = "create" THEN "ready" ELSE "result"]  BY <1>1 DEF NWorked
<1>3. n'.pc = (IF n.pc = "create" THEN "ready" ELSE "result") /\ n'.todo = n.todo /\ n'.step = n.step /\
      n'.ents = n.ents /\ n'.sent = n.sent /\ n'.term = n.term /\ n'.alone = n.alone /\ n'.known = n.known /\
      n'.ret = n.ret /\ n'.code = n.code /\ n'.exp = n.exp /\ DOMAIN n' = DOMAIN n
  BY <1>0, <1>2 DEF OwnerShape, OwnerFields
<1>4. n.pc = "create" => Whole
  <2>1. DOMAIN n.todo = {}  BY <1>1
  <2>q. QED BY <1>0, <2>1, NativeAssumption DEF Building, Whole
<1>Shape. Shape'  BY <1>0, <1>1, <1>2, <1>3, <1>4 DEF Shape, OwnerShape, OwnerFields, OwnerPlaces
<1>Retirement. Retirement'  BY <1>0, <1>1, <1>2, <1>3, <1>4 DEF Shape, Retirement
<1>Outcome. Outcome'  BY <1>0, <1>1, <1>2, <1>3, <1>4 DEF Shape, Outcome, Early
<1>Registered. Registered'  BY <1>0, <1>1, <1>2, <1>3, <1>4 DEF Shape, Registered, Role
<1>Building. Building'
  BY <1>0, <1>1, <1>2, <1>3, <1>4 DEF Shape, Building, Whole, Quiet, Through, Occupied, Ended, Role
<1>Authority. Authority'  BY <1>0, <1>1, <1>2, <1>3, <1>4 DEF Shape, Authority, Before, Early, Through
<1>Stopping. Stopping'  BY <1>0, <1>1, <1>2, <1>3, <1>4 DEF Shape, Stopping, Forking
<1>Passing. Passing'  BY <1>0, <1>1, <1>2, <1>3, <1>4 DEF Passing
<1>q. QED BY <1>Shape, <1>Retirement, <1>Outcome, <1>Registered, <1>Building, <1>Authority, <1>Stopping,
          <1>Passing DEF IInv

\* The supervisor starts at an open gate, with all objects there.
LEMMA NForkStep ==
  ASSUME IInv, NFork
  PROVE  IInv'
<1>0. Shape /\ Retirement /\ Outcome /\ Registered /\ Building /\ Authority /\ Stopping /\
      Passing /\ OwnerShape(n)
  BY DEF IInv, Shape
<1>1. Undisturbed /\ n.pc = "fork" /\ UNCHANGED <<p, w, objs, up, down>>  BY DEF NFork
<1>2. \/ n' = Raised(n) /\ s' = s
      \/ n' = [n EXCEPT !.pc = "regS"] /\ s' = [s EXCEPT !.at = "gate", !.gate = "open"]
  BY DEF NFork
<1>3. n' = Raised(n) => OwnerShape(n') /\ Keeps(n, n') /\ n'.term = n.term /\ n'.alone = n.alone /\
      n'.known = n.known /\ n'.pc = Begins(n)
  BY <1>0, <1>1, RaisedFacts
<1>4. n' = [n EXCEPT !.pc = "regS"] => OwnerShape(n') /\ Keeps(n, n') /\ n'.term = n.term /\
      n'.alone = n.alone /\ n'.known = n.known /\ n'.pc = "regS"
  BY <1>0 DEF OwnerShape, OwnerFields, OwnerPlaces, Keeps
<1>5. s' = [s EXCEPT !.at = "gate", !.gate = "open"] =>
        DOMAIN s' = DOMAIN s /\ s'.at = "gate" /\ s'.gate = "open" /\ s'.term = s.term /\ s'.rep = s.rep
  BY <1>0 DEF Shape
<1>Shape. Shape'  BY <1>0, <1>1, <1>2, <1>3, <1>4, <1>5 DEF Shape, OwnerShape, OwnerFields, OwnerPlaces
<1>Retirement. Retirement'  BY <1>0, <1>1, <1>2, <1>3, <1>4, <1>5 DEF Shape, Retirement, Begins, Keeps
<1>Outcome. Outcome'  BY <1>0, <1>1, <1>2, <1>3, <1>4, <1>5 DEF Shape, Outcome, Early, Begins, Keeps
<1>Registered. Registered'  BY <1>0, <1>1, <1>2, <1>3, <1>4, <1>5 DEF Shape, Registered, Role, Begins, Keeps
<1>Building. Building'
  BY <1>0, <1>1, <1>2, <1>3, <1>4, <1>5 DEF Shape, Building, Whole, Quiet, Through, Occupied, Ended, Role,
     Begins, Keeps, Outcome, Early
<1>Authority. Authority'
  BY <1>0, <1>1, <1>2, <1>3, <1>4, <1>5 DEF Shape, Authority, Before, Early, Through, Begins, Keeps, Outcome
<1>Stopping. Stopping'
  BY <1>0, <1>1, <1>2, <1>3, <1>4, <1>5 DEF Shape, Stopping, Outcome, Early, Begins, Keeps, Forking
<1>Passing. Passing'  BY <1>0, <1>1, <1>2, <1>3, <1>4, <1>5 DEF Passing
<1>q. QED BY <1>Shape, <1>Retirement, <1>Outcome, <1>Registered, <1>Building, <1>Authority, <1>Stopping,
          <1>Passing DEF IInv

\* The gate's byte.
LEMMA NGateStep ==
  ASSUME IInv, NGate
  PROVE  IInv'
<1>0. Shape /\ Retirement /\ Outcome /\ Registered /\ Building /\ Authority /\ Stopping /\
      Passing /\ OwnerShape(n)
  BY DEF IInv, Shape
<1>1. n.pc = "gate" /\ ~n.term /\ UNCHANGED <<p, w, objs, up, down>>  BY DEF NGate, Undisturbed, InTry
<1>2. n' = [n EXCEPT !.pc = "tail"] /\ s' = [s EXCEPT !.gate = "G"]  BY DEF NGate
<1>3. n'.pc = "tail" /\ n'.todo = n.todo /\ n'.step = n.step /\ n'.ents = n.ents /\ n'.sent = n.sent /\
      n'.term = n.term /\ n'.alone = n.alone /\ n'.known = n.known /\ n'.ret = n.ret /\ n'.code = n.code /\
      n'.exp = n.exp /\ DOMAIN n' = DOMAIN n
  BY <1>0, <1>2 DEF OwnerShape, OwnerFields
<1>4. DOMAIN s' = DOMAIN s /\ s'.at = s.at /\ s'.gate = "G" /\ s'.term = s.term /\ s'.rep = s.rep
  BY <1>0, <1>2 DEF Shape
<1>Shape. Shape'  BY <1>0, <1>1, <1>2, <1>3, <1>4 DEF Shape, OwnerShape, OwnerFields, OwnerPlaces
<1>Retirement. Retirement'  BY <1>0, <1>1, <1>2, <1>3, <1>4 DEF Shape, Retirement
<1>Outcome. Outcome'  BY <1>0, <1>1, <1>2, <1>3, <1>4 DEF Shape, Outcome, Early
<1>Registered. Registered'  BY <1>0, <1>1, <1>2, <1>3, <1>4 DEF Shape, Registered, Role
<1>Building. Building'
  BY <1>0, <1>1, <1>2, <1>3, <1>4 DEF Shape, Building, Whole, Quiet, Through, Occupied, Ended, Role
<1>Authority. Authority'  BY <1>0, <1>1, <1>2, <1>3, <1>4 DEF Shape, Authority, Before, Early, Through
<1>Stopping. Stopping'  BY <1>0, <1>1, <1>2, <1>3, <1>4 DEF Shape, Stopping, Forking
<1>Passing. Passing'  BY <1>0, <1>1, <1>2, <1>3, <1>4 DEF Passing
<1>q. QED BY <1>Shape, <1>Retirement, <1>Outcome, <1>Registered, <1>Building, <1>Authority, <1>Stopping,
          <1>Passing DEF IInv

\* A good export is of a worker that has ended.
LEMMA NReadStep ==
  ASSUME IInv, NRead
  PROVE  IInv'
<1>0. Shape /\ Retirement /\ Outcome /\ Registered /\ Building /\ Authority /\ Stopping /\
      Passing /\ OwnerShape(n)
  BY DEF IInv, Shape
<1>1. n.pc = "read" /\ UNCHANGED <<p, s, w, objs, up, down>>  BY DEF NRead
<1>2. \/ n' = Raised(n)
      \/ s.at = "exited" /\ n' = [n EXCEPT !.exp = s.rep, !.pc = IF s.rep = "dirty" THEN "stop" ELSE "retire"]
  BY DEF NRead
<1>3. n' = Raised(n) => OwnerShape(n') /\ Keeps(n, n') /\ n'.term = n.term /\ n'.alone = n.alone /\
      n'.known = n.known /\ n'.pc = Begins(n)
  BY <1>0, <1>1, RaisedFacts
<1>4. n' = [n EXCEPT !.exp = s.rep, !.pc = IF s.rep = "dirty" THEN "stop" ELSE "retire"] =>
        n'.pc \in {"stop", "retire"} /\ n'.exp = s.rep /\ n'.todo = n.todo /\ n'.step = n.step /\
        n'.ents = n.ents /\ n'.sent = n.sent /\ n'.term = n.term /\ n'.alone = n.alone /\
        n'.known = n.known /\ n'.ret = n.ret /\ n'.code = n.code /\ DOMAIN n' = DOMAIN n
  BY <1>0 DEF OwnerShape, OwnerFields
<1>Shape. Shape'  BY <1>0, <1>1, <1>2, <1>3, <1>4 DEF Shape, OwnerShape, OwnerFields, OwnerPlaces
<1>Retirement. Retirement'  BY <1>0, <1>1, <1>2, <1>3, <1>4 DEF Shape, Retirement, Begins, Keeps
<1>Outcome. Outcome'  BY <1>0, <1>1, <1>2, <1>3, <1>4 DEF Shape, Outcome, Early, Begins, Keeps
<1>Registered. Registered'  BY <1>0, <1>1, <1>2, <1>3, <1>4 DEF Shape, Registered, Role, Begins, Keeps
<1>Building. Building'
  BY <1>0, <1>1, <1>2, <1>3, <1>4 DEF Shape, Building, Whole, Quiet, Through, Occupied, Ended, Role, Begins,
     Keeps
<1>Authority. Authority'
  BY <1>0, <1>1, <1>2, <1>3, <1>4 DEF Shape, Authority, Before, Early, Through, Begins, Keeps
<1>Stopping. Stopping'  BY <1>0, <1>1, <1>2, <1>3, <1>4 DEF Shape, Stopping, Begins, Keeps, Forking
<1>Passing. Passing'  BY <1>0, <1>1, <1>2, <1>3, <1>4 DEF Passing
<1>q. QED BY <1>Shape, <1>Retirement, <1>Outcome, <1>Registered, <1>Building, <1>Authority, <1>Stopping,
          <1>Passing DEF IInv

\* Only a retired supervisor is reaped.
LEMMA NReapStep ==
  ASSUME IInv, NReap
  PROVE  IInv'
<1>0. Shape /\ Retirement /\ Outcome /\ Registered /\ Building /\ Authority /\ Stopping /\
      Passing /\ OwnerShape(n)
  BY DEF IInv, Shape
<1>1. n.pc \in {"reap", "rWait", "fReap"} /\ UNCHANGED <<p, w, objs, up, down>>  BY DEF NReap
<1>2. \/ s.at = "exited" /\ s' = [s EXCEPT !.at = "reaped"]
      \/ s' = s
  BY DEF NReap
<1>3. /\ OwnerShape(n') /\ n'.ents = n.ents /\ n'.ret = n.ret /\ n'.exp = n.exp /\ n'.term = n.term /\
           n'.alone = n.alone
      /\ n'.code => n.code \/ s'.at = "reaped"
      /\ n.pc = "reap" => n'.pc \in {"reaped", Begins(n)} /\ n'.known = n.known
      /\ n.pc = "rWait" => n'.pc = "hUnc" /\ n'.known
      /\ n.pc = "fReap" => n'.pc = "safe" /\ n'.known = n.known
  <2>1. CASE n.pc = "reap" /\ n' = Raised(n)
    BY <1>0, <2>1, RaisedFacts DEF Keeps
  <2>2. CASE n.pc = "reap" /\ n' = [n EXCEPT !.code = TRUE, !.pc = "reaped"] /\ s'.at = "reaped"
    BY <1>0, <2>2 DEF OwnerShape, OwnerFields, OwnerPlaces
  <2>3. CASE n.pc = "rWait" /\ n' = [n EXCEPT !.known = TRUE, !.pc = "hUnc"]
    BY <1>0, <2>3 DEF OwnerShape, OwnerFields, OwnerPlaces
  <2>4. CASE n.pc = "rWait" /\ n' = [n EXCEPT !.code = TRUE, !.known = TRUE, !.pc = "hUnc"] /\ s'.at = "reaped"
    BY <1>0, <2>4 DEF OwnerShape, OwnerFields, OwnerPlaces
  <2>5. CASE n.pc = "fReap" /\ n' = [n EXCEPT !.errs = TRUE, !.pc = "safe"]
    BY <1>0, <2>5 DEF OwnerShape, OwnerFields, OwnerPlaces
  <2>6. CASE n.pc = "fReap" /\ n' = [n EXCEPT !.code = TRUE, !.pc = "safe"] /\ s'.at = "reaped"
    BY <1>0, <2>6 DEF OwnerShape, OwnerFields, OwnerPlaces
  <2>7. s' = [s EXCEPT !.at = "reaped"] => s'.at = "reaped"  BY <1>0 DEF Shape
  <2>q. QED BY <2>1, <2>2, <2>3, <2>4, <2>5, <2>6, <2>7 DEF NReap
<1>6. DOMAIN s' = DOMAIN s /\ s'.gate = s.gate /\ s'.term = s.term /\ s'.rep = s.rep /\
      (s'.at = s.at \/ (s.at = "exited" /\ s'.at = "reaped"))
  BY <1>0, <1>2 DEF Shape
<1>Shape. Shape'  BY <1>0, <1>1, <1>2, <1>3, <1>6 DEF Shape, OwnerShape, OwnerFields, OwnerPlaces
<1>Retirement. Retirement'  BY <1>0, <1>1, <1>2, <1>3, <1>6 DEF Shape, Retirement, Begins
<1>Outcome. Outcome'  BY <1>0, <1>1, <1>2, <1>3, <1>6 DEF Shape, Outcome, Early, Begins
<1>Registered. Registered'  BY <1>0, <1>1, <1>2, <1>3, <1>6 DEF Shape, Registered, Role, Begins
<1>Building. Building'
  BY <1>0, <1>1, <1>2, <1>3, <1>6 DEF Shape, Building, Whole, Quiet, Through, Occupied, Ended, Role, Begins
<1>Authority. Authority'  BY <1>0, <1>1, <1>2, <1>3, <1>6 DEF Shape, Authority, Before, Early, Through, Begins
<1>Stopping. Stopping'  BY <1>0, <1>1, <1>2, <1>3, <1>6 DEF Shape, Stopping, Begins, Forking
<1>Passing. Passing'  BY <1>0, <1>1, <1>2, <1>3, <1>6 DEF Passing
<1>q. QED BY <1>Shape, <1>Retirement, <1>Outcome, <1>Registered, <1>Building, <1>Authority, <1>Stopping,
          <1>Passing DEF IInv

\* The finally block reaps only what was retired.
LEMMA NSettleStep ==
  ASSUME IInv, NSettle
  PROVE  IInv'
<1>0. Shape /\ Retirement /\ Outcome /\ Registered /\ Building /\ Authority /\ Stopping /\
      Passing /\ OwnerShape(n)
  BY DEF IInv, Shape
<1>1. n.pc = "settle" /\ n' = Settlement(n) /\ UNCHANGED <<p, s, w, objs, up, down>>  BY DEF NSettle
<1>2. OwnerShape(n') /\ Keeps(n, n') /\ n'.term = n.term /\ n'.alone = n.alone /\ n'.known = n.known /\
      n'.pc = Begins(n)
  BY <1>0, <1>1, SettlementFacts DEF Keeps
<1>Shape. Shape'  BY <1>0, <1>1, <1>2 DEF Shape, OwnerShape, OwnerFields, OwnerPlaces
<1>Retirement. Retirement'  BY <1>0, <1>1, <1>2 DEF Shape, Retirement, Begins, Keeps
<1>Outcome. Outcome'  BY <1>0, <1>1, <1>2 DEF Shape, Outcome, Early, Begins, Keeps
<1>Registered. Registered'  BY <1>0, <1>1, <1>2 DEF Shape, Registered, Role, Begins, Keeps
<1>Building. Building'
  BY <1>0, <1>1, <1>2 DEF Shape, Building, Whole, Quiet, Through, Occupied, Ended, Role, Begins, Keeps
<1>Authority. Authority'  BY <1>0, <1>1, <1>2 DEF Shape, Authority, Before, Early, Through, Begins, Keeps
<1>Stopping. Stopping'  BY <1>0, <1>1, <1>2 DEF Shape, Stopping, Begins, Keeps, Forking
<1>Passing. Passing'  BY <1>0, <1>1, <1>2 DEF Passing
<1>q. QED BY <1>Shape, <1>Retirement, <1>Outcome, <1>Registered, <1>Building, <1>Authority, <1>Stopping,
          <1>Passing DEF IInv

\* Without a known supervisor, or with a reaped one, nobody is on his way to the groups.
LEMMA NSafeStep ==
  ASSUME IInv, NSafe
  PROVE  IInv'
<1>0. Shape /\ Retirement /\ Outcome /\ Registered /\ Building /\ Authority /\ Stopping /\
      Passing /\ OwnerShape(n)
  BY DEF IInv, Shape
<1>1. n.pc = "safe" /\ UNCHANGED <<p, s, w, objs, up, down>>  BY DEF NSafe
<1>2. \/ Safe /\ n' = [n EXCEPT !.pc = "cleanStart"]
      \/ n' = [n EXCEPT !.pc = "result", !.errs = TRUE]
  BY DEF NSafe
<1>3. ((n'.pc = "cleanStart" /\ Safe) \/ n'.pc = "result") /\ n'.todo = n.todo /\ n'.step = n.step /\
      n'.ents = n.ents /\ n'.sent = n.sent /\ n'.term = n.term /\ n'.alone = n.alone /\ n'.known = n.known /\
      n'.ret = n.ret /\ n'.code = n.code /\ n'.exp = n.exp /\ DOMAIN n' = DOMAIN n
  BY <1>0, <1>2 DEF OwnerShape, OwnerFields
<1>4. Safe => ~n.known \/ s.at = "reaped"  BY <1>0 DEF Safe, Outcome
<1>Shape. Shape'  BY <1>0, <1>1, <1>2, <1>3, <1>4 DEF Shape, OwnerShape, OwnerFields, OwnerPlaces
<1>Retirement. Retirement'  BY <1>0, <1>1, <1>2, <1>3, <1>4 DEF Shape, Retirement
<1>Outcome. Outcome'  BY <1>0, <1>1, <1>2, <1>3, <1>4 DEF Shape, Outcome, Early
<1>Registered. Registered'  BY <1>0, <1>1, <1>2, <1>3, <1>4 DEF Shape, Registered, Role
<1>Building. Building'
  BY <1>0, <1>1, <1>2, <1>3, <1>4 DEF Shape, Building, Whole, Quiet, Through, Occupied, Ended, Role
<1>Authority. Authority'  BY <1>0, <1>1, <1>2, <1>3, <1>4 DEF Shape, Authority, Before, Early, Through
<1>Stopping. Stopping'  BY <1>0, <1>1, <1>2, <1>3, <1>4 DEF Shape, Stopping, Forking
<1>Passing. Passing'  BY <1>0, <1>1, <1>2, <1>3, <1>4 DEF Passing
<1>q. QED BY <1>Shape, <1>Retirement, <1>Outcome, <1>Registered, <1>Building, <1>Authority, <1>Stopping,
          <1>Passing DEF IInv

\* Cleanup begins with empty groups.
LEMMA NBarrierStep ==
  ASSUME IInv, NBarrier
  PROVE  IInv'
<1>0. Shape /\ Retirement /\ Outcome /\ Registered /\ Building /\ Authority /\ Stopping /\
      Passing /\ OwnerShape(n)
  BY DEF IInv, Shape
<1>1. n.pc = "barrier" /\ UNCHANGED <<p, s, w, objs, up, down>>  BY DEF NBarrier
<1>2. PICK t \in Seq(Roles) : t = Reverse(CreateOrder)  BY OrderFacts
<1>3. \/ Barrier /\ n' = [n EXCEPT !.pc = "clean", !.todo = t, !.step = 1]
      \/ n' = [n EXCEPT !.pc = "result", !.errs = TRUE]
  BY <1>2 DEF NBarrier
<1>4. \/ Barrier /\ n'.pc = "clean" /\ n'.step = 1 /\ n'.todo = t /\ n'.ents = n.ents /\ n'.sent = n.sent /\
           n'.term = n.term /\ n'.alone = n.alone /\ n'.known = n.known /\ n'.ret = n.ret /\
           n'.code = n.code /\ n'.exp = n.exp /\ DOMAIN n' = DOMAIN n
      \/ n'.pc = "result" /\ n'.todo = n.todo /\ n'.step = n.step /\ n'.ents = n.ents /\ n'.sent = n.sent /\
           n'.term = n.term /\ n'.alone = n.alone /\ n'.known = n.known /\ n'.ret = n.ret /\
           n'.code = n.code /\ n'.exp = n.exp /\ DOMAIN n' = DOMAIN n
  BY <1>0, <1>3 DEF OwnerShape, OwnerFields
<1>5. Barrier => Quiet \/ n.alone
  <2>1. s.at # "none" => n.ents[Cgroup] = "bound"  BY <1>0, <1>1 DEF Building, Whole, Ended
  <2>2. ~Through \/ n.alone  BY <1>0, <1>1 DEF Authority
  <2>3. CASE s.at = "none"  BY <1>0, <2>2, <2>3 DEF Outcome, Quiet, Occupied
  <2>4. CASE s.at # "none"  BY <2>1, <2>2, <2>4 DEF Barrier, Quiet
  <2>q. QED BY <2>3, <2>4
<1>Shape. Shape'  BY <1>0, <1>1, <1>2, <1>3, <1>4, <1>5 DEF Shape, OwnerShape, OwnerFields, OwnerPlaces
<1>Retirement. Retirement'  BY <1>0, <1>1, <1>2, <1>3, <1>4, <1>5 DEF Shape, Retirement
<1>Outcome. Outcome'  BY <1>0, <1>1, <1>2, <1>3, <1>4, <1>5 DEF Shape, Outcome, Early
<1>Registered. Registered'  BY <1>0, <1>1, <1>2, <1>3, <1>4, <1>5 DEF Shape, Registered, Role
<1>Building. Building'
  BY <1>0, <1>1, <1>2, <1>3, <1>4, <1>5 DEF Shape, Building, Whole, Quiet, Through, Occupied, Ended, Role
<1>Authority. Authority'  BY <1>0, <1>1, <1>2, <1>3, <1>4, <1>5 DEF Shape, Authority, Before, Early, Through
<1>Stopping. Stopping'  BY <1>0, <1>1, <1>2, <1>3, <1>4, <1>5 DEF Shape, Stopping, Forking
<1>Passing. Passing'  BY <1>0, <1>1, <1>2, <1>3, <1>4, <1>5 DEF Passing
<1>q. QED BY <1>Shape, <1>Retirement, <1>Outcome, <1>Registered, <1>Building, <1>Authority, <1>Stopping,
          <1>Passing DEF IInv

\* The owner exits.
LEMMA NResultStep ==
  ASSUME IInv, NResult
  PROVE  IInv'
<1>0. Shape /\ Retirement /\ Outcome /\ Registered /\ Building /\ Authority /\ Stopping /\
      Passing /\ OwnerShape(n)
  BY DEF IInv, Shape
<1>1. n.pc = "result" /\ UNCHANGED <<p, s, w, objs, up, down>>  BY DEF NResult
<1>2. n' = [n EXCEPT !.pc = "exit"] \/ n' = [n EXCEPT !.pc = "dead"]  BY DEF NResult
<1>3. n'.pc \in {"exit", "dead"} /\ n'.todo = n.todo /\ n'.step = n.step /\ n'.ents = n.ents /\
      n'.sent = n.sent /\ n'.term = n.term /\ n'.alone = n.alone /\ n'.known = n.known /\ n'.ret = n.ret /\
      n'.code = n.code /\ n'.exp = n.exp /\ DOMAIN n' = DOMAIN n
  BY <1>0, <1>2 DEF OwnerShape, OwnerFields
<1>Shape. Shape'  BY <1>0, <1>1, <1>2, <1>3 DEF Shape, OwnerShape, OwnerFields, OwnerPlaces
<1>Retirement. Retirement'  BY <1>0, <1>1, <1>2, <1>3 DEF Shape, Retirement
<1>Outcome. Outcome'  BY <1>0, <1>1, <1>2, <1>3 DEF Shape, Outcome, Early
<1>Registered. Registered'  BY <1>0, <1>1, <1>2, <1>3 DEF Shape, Registered, Role
<1>Building. Building'
  BY <1>0, <1>1, <1>2, <1>3 DEF Shape, Building, Whole, Quiet, Through, Occupied, Ended, Role
<1>Authority. Authority'  BY <1>0, <1>1, <1>2, <1>3 DEF Shape, Authority, Before, Early, Through
<1>Stopping. Stopping'  BY <1>0, <1>1, <1>2, <1>3 DEF Shape, Stopping, Forking
<1>Passing. Passing'  BY <1>0, <1>1, <1>2, <1>3 DEF Passing
<1>q. QED BY <1>Shape, <1>Retirement, <1>Outcome, <1>Registered, <1>Building, <1>Authority, <1>Stopping,
          <1>Passing DEF IInv

\* A signal to the owner alone: in the tail of fork_supervisor the invariant says
\* little of the gate from then on.
LEMMA NSignalledStep ==
  ASSUME IInv, NSignalled
  PROVE  IInv'
<1>0. Shape /\ Retirement /\ Outcome /\ Registered /\ Building /\ Authority /\ Stopping /\
      Passing /\ OwnerShape(n)
  BY DEF IInv, Shape
<1>1. PICK b \in BOOLEAN : /\ b <=> n.alone \/ n.pc = "tail"
                          /\ n' = [n EXCEPT !.term = TRUE, !.alone = b]
                          /\ UNCHANGED <<p, s, w, objs, up, down>>
  BY DEF NSignalled
<1>2. n'.alone = b /\ n'.pc = n.pc /\ n'.todo = n.todo /\ n'.step = n.step /\ n'.ents = n.ents /\
      n'.sent = n.sent /\
      n'.known = n.known /\ n'.ret = n.ret /\ n'.code = n.code /\ n'.exp = n.exp /\ DOMAIN n' = DOMAIN n
  BY <1>0, <1>1 DEF OwnerShape, OwnerFields
<1>Shape. Shape'  BY <1>0, <1>1, <1>2 DEF Shape, OwnerShape, OwnerFields, OwnerPlaces
<1>Retirement. Retirement'  BY <1>0, <1>1, <1>2 DEF Shape, Retirement
<1>Outcome. Outcome'  BY <1>0, <1>1, <1>2 DEF Shape, Outcome, Early
<1>Registered. Registered'  BY <1>0, <1>1, <1>2 DEF Shape, Registered, Role
<1>Building. Building'  BY <1>0, <1>1, <1>2 DEF Shape, Building, Whole, Quiet, Through, Occupied, Ended, Role
<1>Authority. Authority'  BY <1>0, <1>1, <1>2 DEF Shape, Authority, Before, Early, Through
<1>Stopping. Stopping'  BY <1>0, <1>1, <1>2 DEF Shape, Stopping, Forking
<1>Passing. Passing'  BY <1>0, <1>1, <1>2 DEF Passing
<1>q. QED BY <1>Shape, <1>Retirement, <1>Outcome, <1>Registered, <1>Building, <1>Authority, <1>Stopping,
          <1>Passing DEF IInv

\* A swallowed signal.
LEMMA NSwallowsStep ==
  ASSUME IInv, NSwallows
  PROVE  IInv'
<1>0. Shape /\ Retirement /\ Outcome /\ Registered /\ Building /\ Authority /\ Stopping /\
      Passing /\ OwnerShape(n)
  BY DEF IInv, Shape
<1>1. Registers /\ n.term /\ n' = [n EXCEPT !.term = FALSE] /\ UNCHANGED <<p, s, w, objs, up, down>>
  BY DEF NSwallows
<1>2. ~n'.term /\ n'.alone = n.alone /\ n'.pc = n.pc /\ n'.todo = n.todo /\ n'.step = n.step /\
      n'.ents = n.ents /\ n'.sent = n.sent /\
      n'.known = n.known /\ n'.ret = n.ret /\ n'.code = n.code /\ n'.exp = n.exp /\ DOMAIN n' = DOMAIN n
  BY <1>0, <1>1 DEF OwnerShape, OwnerFields
<1>Shape. Shape'  BY <1>0, <1>1, <1>2 DEF Shape, OwnerShape, OwnerFields, OwnerPlaces
<1>Retirement. Retirement'  BY <1>0, <1>1, <1>2 DEF Shape, Retirement
<1>Outcome. Outcome'  BY <1>0, <1>1, <1>2 DEF Shape, Outcome, Early
<1>Registered. Registered'  BY <1>0, <1>1, <1>2 DEF Shape, Registered, Role
<1>Building. Building'  BY <1>0, <1>1, <1>2 DEF Shape, Building, Whole, Quiet, Through, Occupied, Ended, Role
<1>Authority. Authority'  BY <1>0, <1>1, <1>2 DEF Shape, Authority, Before, Early, Through
<1>Stopping. Stopping'  BY <1>0, <1>1, <1>2 DEF Shape, Stopping, Forking
<1>Passing. Passing'  BY <1>0, <1>1, <1>2 DEF Passing
<1>q. QED BY <1>Shape, <1>Retirement, <1>Outcome, <1>Registered, <1>Building, <1>Authority, <1>Stopping,
          <1>Passing DEF IInv

\* In the tail of fork_supervisor the parent, if it was the parent, has signalled
\* the supervisor too.
LEMMA NInterruptedStep ==
  ASSUME IInv, NInterrupted
  PROVE  IInv'
<1>0. Shape /\ Retirement /\ Outcome /\ Registered /\ Building /\ Authority /\ Stopping /\
      Passing /\ OwnerShape(n)
  BY DEF IInv, Shape
<1>1. n.term /\ InTry /\ UNCHANGED <<p, w, objs, up, down>>  BY DEF NInterrupted
<1> DEFINE m == [n EXCEPT !.term = FALSE]
<1>2. OwnerShape(m) /\ Keeps(n, m) /\ ~m.term /\ m.alone = n.alone /\ m.known = n.known /\ m.pc = n.pc /\
      Begins(m) = Begins(n)
  BY <1>0 DEF OwnerShape, OwnerFields, Keeps, Begins
<1>3. n' = Raised(m)  BY DEF NInterrupted
<1>4. \/ s' = IF s.gate = "open" THEN [s EXCEPT !.gate = "closed"] ELSE s
      \/ n.pc = "fork" /\ s' = [s EXCEPT !.at = "gate", !.gate = "closed"]
      \/ n.pc = "gate" /\ s' = [s EXCEPT !.gate = "G"]
  BY DEF NInterrupted
<1> HIDE DEF m
<1>5. /\ OwnerShape(n') /\ Keeps(m, n') /\ n'.term = m.term /\ n'.alone = m.alone
      /\ m.pc \in {"regS", "gate"} => n'.pc = "rUnc"
      /\ m.pc \in {"rUnc", "rStop", "rRetire"} => n'.pc = "hUnc" /\ n'.known
      /\ m.pc \notin {"regS", "gate", "rUnc", "rStop", "rRetire"} => n'.pc = Begins(m) /\ n'.known = m.known
  BY <1>2, <1>3, RaisedFacts
<1>6. DOMAIN s' = DOMAIN s /\ s'.term = s.term /\ s'.rep = s.rep
      /\ \/ s'.at = s.at /\ s'.gate = (IF s.gate = "open" THEN "closed" ELSE s.gate)
         \/ n.pc = "fork" /\ s'.at = "gate" /\ s'.gate = "closed"
         \/ n.pc = "gate" /\ s'.at = s.at /\ s'.gate = "G"
  BY <1>0, <1>4 DEF Shape
<1>7. n.pc \in {"create", "ready", "fork", "regS", "gate", "tail", "read", "stop", "retire", "reap", "reaped",
                "rUnc", "rStop", "rRetire", "rWait"}
  BY <1>1 DEF InTry
<1>Shape. Shape'
  BY <1>0, <1>1, <1>2, <1>3, <1>4, <1>5, <1>6, <1>7 DEF Shape, OwnerShape, OwnerFields, OwnerPlaces
<1>Retirement. Retirement'
  BY <1>0, <1>1, <1>2, <1>3, <1>4, <1>5, <1>6, <1>7 DEF Shape, Retirement, Begins, Keeps
<1>Outcome. Outcome'  BY <1>0, <1>1, <1>2, <1>3, <1>4, <1>5, <1>6, <1>7 DEF Shape, Outcome, Early, Begins, Keeps
<1>Registered. Registered'
  BY <1>0, <1>1, <1>2, <1>3, <1>4, <1>5, <1>6, <1>7 DEF Shape, Registered, Role, Begins, Keeps
<1>Building. Building'
  BY <1>0, <1>1, <1>2, <1>3, <1>4, <1>5, <1>6, <1>7 DEF Shape, Building, Whole, Quiet, Through, Occupied,
     Ended, Role, Begins, Keeps, Outcome, Early
<1>Authority. Authority'
  BY <1>0, <1>1, <1>2, <1>3, <1>4, <1>5, <1>6, <1>7 DEF Shape, Authority, Before, Early, Through, Begins,
     Keeps, Outcome, Stopping
<1>Stopping. Stopping'
  BY <1>0, <1>1, <1>2, <1>3, <1>4, <1>5, <1>6, <1>7 DEF Shape, Stopping, Outcome, Early, Begins, Keeps, Forking
<1>Passing. Passing'  BY <1>0, <1>1, <1>2, <1>3, <1>4, <1>5, <1>6, <1>7 DEF Passing
<1>q. QED BY <1>Shape, <1>Retirement, <1>Outcome, <1>Registered, <1>Building, <1>Authority, <1>Stopping,
          <1>Passing DEF IInv

\* An object is removed while nobody uses it.
LEMMA NRemoveStep ==
  ASSUME IInv, NRemove
  PROVE  IInv'
<1>0. Shape /\ Retirement /\ Outcome /\ Registered /\ Building /\ Authority /\ Stopping /\
      Passing /\ OwnerShape(n)
  BY DEF IInv, Shape
<1>1. n.pc = "clean" /\ n.step = 1 /\ n.todo # <<>> /\ Role \in Roles /\ UNCHANGED <<p, s, w, up, down>>
  BY <1>0, RoleFacts DEF NRemove, Doing, Working, Steps, OwnerShape
<1>2. PICK m : /\ OwnerShape(m) /\ m.pc = "clean" /\ m.todo = n.todo /\ m.step = 1 /\ m.term = n.term /\
                    m.alone = n.alone /\ m.known = n.known
               /\ m.ret = n.ret /\ m.code = n.code /\ m.exp = n.exp
               /\ \/ n' = NextRole(m) /\ objs' = objs
                  \/ n' = NextStep(m) /\ objs' = objs \ {Role}
  <2>1. CASE n' = NextRole(n) /\ objs' = objs  BY <1>0, <1>1, <2>1
  <2>2. CASE n' = NextStep([n EXCEPT !.ents[Role] = "none"]) /\ objs' = objs \ {Role}
    <3>0. n.ents \in [Roles -> ObjectStates]  BY <1>0 DEF OwnerShape
    <3>1. PICK e : e = [n.ents EXCEPT ![Role] = "none"]  OBVIOUS
    <3>2. e \in [Roles -> ObjectStates]  BY <3>0, <3>1 DEF ObjectStates
    <3>3. PICK m : m = [n EXCEPT !.ents = e]  OBVIOUS
    <3>4. n' = NextStep(m)  BY <2>2, <3>1, <3>3
    <3>5. /\ OwnerShape(m) /\ m.pc = "clean" /\ m.todo = n.todo /\ m.step = 1 /\ m.term = n.term /\
               m.alone = n.alone /\ m.known = n.known
          /\ m.ret = n.ret /\ m.code = n.code /\ m.exp = n.exp
      BY <1>0, <1>1, <3>2, <3>3 DEF OwnerShape, OwnerFields
    <3>q. QED BY <2>2, <3>4, <3>5
  <2>3. CASE n' = NextRole([n EXCEPT !.errs = TRUE]) /\ objs' = objs
    <3>1. PICK m : m = [n EXCEPT !.errs = TRUE]  OBVIOUS
    <3>2. /\ OwnerShape(m) /\ m.pc = "clean" /\ m.todo = n.todo /\ m.step = 1 /\ m.term = n.term /\
               m.alone = n.alone /\ m.known = n.known
          /\ m.ret = n.ret /\ m.code = n.code /\ m.exp = n.exp
      BY <1>0, <1>1, <3>1 DEF OwnerShape, OwnerFields
    <3>q. QED BY <2>3, <3>1, <3>2
  <2>q. QED BY <2>1, <2>2, <2>3 DEF NRemove
<1>3. n' = NextRole(m) => OwnerShape(n') /\ Keeps(m, n') /\ n'.term = m.term /\ n'.alone = m.alone /\
      n'.known = m.known /\ n'.pc = m.pc /\ n'.step = 1
  BY <1>1, <1>2, NextRoleFacts
<1>4. n' = NextStep(m) => OwnerShape(n') /\ Keeps(m, n') /\ n'.term = m.term /\ n'.alone = m.alone /\
      n'.known = m.known /\ n'.pc = m.pc /\ n'.step = 2 /\ n'.todo = n.todo
  BY <1>1, <1>2, NextStepFacts
<1>5. /\ OwnerShape(n') /\ n'.term = n.term /\ n'.alone = n.alone /\ n'.known = n.known /\ n'.pc = "clean" /\
           n'.ret = n.ret /\ n'.code = n.code /\ n'.exp = n.exp
      /\ \/ n'.step = 1 /\ objs' = objs
         \/ n'.step = 2 /\ objs' = objs \ {Role} /\ n'.todo = n.todo
  BY <1>2, <1>3, <1>4 DEF Keeps
<1>6. Quiet \/ n.alone  BY <1>0, <1>1 DEF Building
<1>Shape. Shape'  BY <1>0, <1>1, <1>2, <1>3, <1>4, <1>5, <1>6 DEF Shape, OwnerShape, OwnerFields, OwnerPlaces
<1>Retirement. Retirement'  BY <1>0, <1>1, <1>2, <1>3, <1>4, <1>5, <1>6 DEF Shape, Retirement
<1>Outcome. Outcome'  BY <1>0, <1>1, <1>2, <1>3, <1>4, <1>5, <1>6 DEF Shape, Outcome, Early
<1>Registered. Registered'  BY <1>0, <1>1, <1>2, <1>3, <1>4, <1>5, <1>6 DEF Shape, Registered, Role
<1>Building. Building'
  BY <1>0, <1>1, <1>2, <1>3, <1>4, <1>5, <1>6 DEF Shape, Building, Whole, Quiet, Through, Occupied, Ended, Role
<1>Authority. Authority'
  BY <1>0, <1>1, <1>2, <1>3, <1>4, <1>5, <1>6 DEF Shape, Authority, Before, Early, Through
<1>Stopping. Stopping'  BY <1>0, <1>1, <1>2, <1>3, <1>4, <1>5, <1>6 DEF Shape, Stopping, Forking
<1>Passing. Passing'  BY <1>0, <1>1, <1>2, <1>3, <1>4, <1>5, <1>6 DEF Passing
<1>q. QED BY <1>Shape, <1>Retirement, <1>Outcome, <1>Registered, <1>Building, <1>Authority, <1>Stopping,
          <1>Passing DEF IInv

-----------------------------------------------------------------------------
(* The steps of the supervisor and its worker *)

\* A supervisor is admitted only where its group is.
LEMMA SAdmittedStep ==
  ASSUME IInv, SAdmitted
  PROVE  IInv'
<1>0. Shape /\ Retirement /\ Outcome /\ Registered /\ Building /\ Authority /\ Stopping /\
      Passing /\ OwnerShape(n)
  BY DEF IInv, Shape
<1>1. Through /\ UNCHANGED <<p, n, w, objs, up, down>>  BY DEF SAdmitted, Through
<1>2. s'.at = "admitted" /\ s'.gate = s.gate /\ s'.term = s.term /\ s'.rep = s.rep /\ DOMAIN s' = DOMAIN s
  BY <1>0 DEF SAdmitted, SGo, Shape
<1>Shape. Shape'  BY <1>0, <1>1, <1>2 DEF Shape, OwnerShape, OwnerFields, OwnerPlaces
<1>Retirement. Retirement'  BY <1>0, <1>1, <1>2 DEF Shape, Retirement, Through
<1>Outcome. Outcome'  BY <1>0, <1>1, <1>2 DEF Shape, Outcome, Early, Through
<1>Registered. Registered'  BY <1>0, <1>1, <1>2 DEF Shape, Registered, Role
<1>Building. Building'  BY <1>0, <1>1, <1>2 DEF Shape, Building, Whole, Quiet, Through, Occupied, Ended, Role
<1>Authority. Authority'  BY <1>0, <1>1, <1>2 DEF Shape, Authority, Before, Early, Through
<1>Stopping. Stopping'  BY <1>0, <1>1, <1>2 DEF Shape, Stopping, Through, Forking
<1>Passing. Passing'  BY <1>0, <1>1, <1>2 DEF Passing, Through
<1>q. QED BY <1>Shape, <1>Retirement, <1>Outcome, <1>Registered, <1>Building, <1>Authority, <1>Stopping,
          <1>Passing DEF IInv

\* A supervisor that starts nothing.
LEMMA SEndsStep ==
  ASSUME IInv, SEnds
  PROVE  IInv'
<1>0. Shape /\ Retirement /\ Outcome /\ Registered /\ Building /\ Authority /\ Stopping /\
      Passing /\ OwnerShape(n)
  BY DEF IInv, Shape
<1>1. s.at \in {"gate", "admitted"} /\ UNCHANGED <<p, n, w, objs, up, down>>  BY DEF SEnds
<1>2. s'.at = "exited" /\ s'.rep \in {"none", "dirty"} /\ s'.gate = s.gate /\ s'.term = s.term /\
      DOMAIN s' = DOMAIN s
  BY <1>0 DEF SEnds, Shape
<1>Shape. Shape'  BY <1>0, <1>1, <1>2 DEF Shape, OwnerShape, OwnerFields, OwnerPlaces
<1>Retirement. Retirement'  BY <1>0, <1>1, <1>2 DEF Shape, Retirement
<1>Outcome. Outcome'  BY <1>0, <1>1, <1>2 DEF Shape, Outcome, Early
<1>Registered. Registered'  BY <1>0, <1>1, <1>2 DEF Shape, Registered, Role
<1>Building. Building'  BY <1>0, <1>1, <1>2 DEF Shape, Building, Whole, Quiet, Through, Occupied, Ended, Role
<1>Authority. Authority'  BY <1>0, <1>1, <1>2 DEF Shape, Authority, Before, Early, Through
<1>Stopping. Stopping'  BY <1>0, <1>1, <1>2 DEF Shape, Stopping, Forking
<1>Passing. Passing'  BY <1>0, <1>1, <1>2 DEF Passing
<1>q. QED BY <1>Shape, <1>Retirement, <1>Outcome, <1>Registered, <1>Building, <1>Authority, <1>Stopping,
          <1>Passing DEF IInv

\* The worker's registration is on the socket.
LEMMA SSpawnsStep ==
  ASSUME IInv, SSpawns
  PROVE  IInv'
<1>0. Shape /\ Retirement /\ Outcome /\ Registered /\ Building /\ Authority /\ Stopping /\
      Passing /\ OwnerShape(n)
  BY DEF IInv, Shape
<1>1. s.at = "admitted" /\ w' = "set" /\ UNCHANGED <<p, n, objs, down>>  BY DEF SSpawns
<1>2. s'.at = "regW" /\ s'.gate = s.gate /\ s'.term = s.term /\ s'.rep = s.rep /\ DOMAIN s' = DOMAIN s
  BY <1>0 DEF SSpawns, SGo, Shape
<1>3. PICK f \in Frames : f = Frame("s", "worker", "none", FALSE)
  BY DEF Frame, Frames, FrameKinds
<1>4. f.kind = "worker"  BY <1>3 DEF Frame
<1>5. up' \in Seq(Frames) /\ \A i \in DOMAIN up' : (i \in DOMAIN up /\ up'[i] = up[i]) \/ up'[i] = f
  <2>1. up \in Seq(Frames) /\ up' = Append(up, f)  BY <1>0, <1>3 DEF SSpawns, Shape
  <2>q. QED BY <2>1, AppendFacts
<1>Shape. Shape'  BY <1>0, <1>1, <1>2, <1>3, <1>4, <1>5 DEF Shape, OwnerShape, OwnerFields, OwnerPlaces
<1>Retirement. Retirement'  BY <1>0, <1>1, <1>2, <1>3, <1>4, <1>5 DEF Shape, Retirement
<1>Outcome. Outcome'  BY <1>0, <1>1, <1>2, <1>3, <1>4, <1>5 DEF Shape, Outcome, Early
<1>Registered. Registered'  BY <1>0, <1>1, <1>2, <1>3, <1>4, <1>5 DEF Shape, Registered, Role
<1>Building. Building'
  BY <1>0, <1>1, <1>2, <1>3, <1>4, <1>5 DEF Shape, Building, Whole, Quiet, Through, Occupied, Ended, Role
<1>Authority. Authority'  BY <1>0, <1>1, <1>2, <1>3, <1>4, <1>5 DEF Shape, Authority, Before, Early, Through
<1>Stopping. Stopping'  BY <1>0, <1>1, <1>2, <1>3, <1>4, <1>5 DEF Shape, Stopping, Forking
<1>Passing. Passing'  BY <1>0, <1>1, <1>2, <1>3, <1>4, <1>5 DEF Passing
<1>q. QED BY <1>Shape, <1>Retirement, <1>Outcome, <1>Registered, <1>Building, <1>Authority, <1>Stopping,
          <1>Passing DEF IInv

\* Whatever acknowledgement the supervisor takes.
LEMMA SAckStep ==
  ASSUME IInv, SAck
  PROVE  IInv'
<1>0. Shape /\ Retirement /\ Outcome /\ Registered /\ Building /\ Authority /\ Stopping /\
      Passing /\ OwnerShape(n)
  BY DEF IInv, Shape
<1>1. s.at = "regW" /\ down # <<>> /\ down' = Tail(down) /\ UNCHANGED <<p, n, objs, up>>  BY DEF SAck
<1>2. (s'.at = "setup" /\ w' = "in") \/ (s'.at = "kill" /\ w' = w)  BY <1>0 DEF SAck, SGo, Shape
<1>3. s'.gate = s.gate /\ s'.term = s.term /\ s'.rep = s.rep /\ DOMAIN s' = DOMAIN s
  BY <1>0 DEF SAck, SGo, Shape
<1>4. down' \in Seq(Frames) /\ \A i \in DOMAIN down' : i + 1 \in DOMAIN down /\ down'[i] = down[i + 1]
  BY <1>0, <1>1, TailFacts DEF Shape
<1>Shape. Shape'  BY <1>0, <1>1, <1>2, <1>3, <1>4 DEF Shape, OwnerShape, OwnerFields, OwnerPlaces
<1>Retirement. Retirement'  BY <1>0, <1>1, <1>2, <1>3, <1>4 DEF Shape, Retirement
<1>Outcome. Outcome'  BY <1>0, <1>1, <1>2, <1>3, <1>4 DEF Shape, Outcome, Early
<1>Registered. Registered'  BY <1>0, <1>1, <1>2, <1>3, <1>4 DEF Shape, Registered, Role
<1>Building. Building'
  BY <1>0, <1>1, <1>2, <1>3, <1>4 DEF Shape, Building, Whole, Quiet, Through, Occupied, Ended, Role
<1>Authority. Authority'  BY <1>0, <1>1, <1>2, <1>3, <1>4 DEF Shape, Authority, Before, Early, Through
<1>Stopping. Stopping'  BY <1>0, <1>1, <1>2, <1>3, <1>4 DEF Shape, Stopping, Forking
<1>Passing. Passing'  BY <1>0, <1>1, <1>2, <1>3, <1>4 DEF Passing
<1>q. QED BY <1>Shape, <1>Retirement, <1>Outcome, <1>Registered, <1>Building, <1>Authority, <1>Stopping,
          <1>Passing DEF IInv

\* Release, watch, failure and a good end.
LEMMA SWatchStep ==
  ASSUME IInv, SChecks \/ SReleases \/ SFails \/ SPasses
  PROVE  IInv'
<1>0. Shape /\ Retirement /\ Outcome /\ Registered /\ Building /\ Authority /\ Stopping /\
      Passing /\ OwnerShape(n)
  BY DEF IInv, Shape
<1>1. UNCHANGED <<p, n, objs, up, down>>  BY DEF SChecks, SReleases, SFails, SPasses
<1>2. /\ \/ s.at = "setup" /\ s'.at = "free" /\ w' = w /\ s'.rep = s.rep
         \/ s.at = "free" /\ s'.at = "watch" /\ w' = "work" /\ s'.rep = s.rep
         \/ s.at \in {"regW", "setup", "free", "watch"} /\ s'.at = "kill" /\ w' = w /\ s'.rep = s.rep
         \/ s.at = "watch" /\ w = "end" /\ s'.at = "report" /\ s'.rep = "good" /\ w' = w
      /\ s'.gate = s.gate /\ s'.term = s.term /\ DOMAIN s' = DOMAIN s
  BY <1>0 DEF SChecks, SReleases, SFails, SPasses, SGo, Shape
<1>Shape. Shape'  BY <1>0, <1>1, <1>2 DEF Shape, OwnerShape, OwnerFields, OwnerPlaces
<1>Retirement. Retirement'  BY <1>0, <1>1, <1>2 DEF Shape, Retirement
<1>Outcome. Outcome'  BY <1>0, <1>1, <1>2 DEF Shape, Outcome, Early
<1>Registered. Registered'  BY <1>0, <1>1, <1>2 DEF Shape, Registered, Role
<1>Building. Building'  BY <1>0, <1>1, <1>2 DEF Shape, Building, Whole, Quiet, Through, Occupied, Ended, Role
<1>Authority. Authority'  BY <1>0, <1>1, <1>2 DEF Shape, Authority, Before, Early, Through
<1>Stopping. Stopping'  BY <1>0, <1>1, <1>2 DEF Shape, Stopping, Forking
<1>Passing. Passing'  BY <1>0, <1>1, <1>2 DEF Passing
<1>q. QED BY <1>Shape, <1>Retirement, <1>Outcome, <1>Registered, <1>Building, <1>Authority, <1>Stopping,
          <1>Passing DEF IInv

\* The work ends.
LEMMA WEndsStep ==
  ASSUME IInv, WEnds
  PROVE  IInv'
<1>0. Shape /\ Retirement /\ Outcome /\ Registered /\ Building /\ Authority /\ Stopping /\
      Passing /\ OwnerShape(n)
  BY DEF IInv, Shape
<1>1. w = "work" /\ w' = "end" /\ UNCHANGED <<p, n, s, objs, up, down>>  BY DEF WEnds
<1>Shape. Shape'  BY <1>0, <1>1 DEF Shape, OwnerShape, OwnerFields, OwnerPlaces
<1>Retirement. Retirement'  BY <1>0, <1>1 DEF Shape, Retirement
<1>Outcome. Outcome'  BY <1>0, <1>1 DEF Shape, Outcome, Early
<1>Registered. Registered'  BY <1>0, <1>1 DEF Shape, Registered, Role
<1>Building. Building'  BY <1>0, <1>1 DEF Shape, Building, Whole, Quiet, Through, Occupied, Ended, Role
<1>Authority. Authority'  BY <1>0, <1>1 DEF Shape, Authority, Before, Early, Through
<1>Stopping. Stopping'  BY <1>0, <1>1 DEF Shape, Stopping, Forking
<1>Passing. Passing'  BY <1>0, <1>1 DEF Passing
<1>q. QED BY <1>Shape, <1>Retirement, <1>Outcome, <1>Registered, <1>Building, <1>Authority, <1>Stopping,
          <1>Passing DEF IInv

\* What the supervisor reports and exits with.
LEMMA SReportStep ==
  ASSUME IInv, SKills \/ SExits
  PROVE  IInv'
<1>0. Shape /\ Retirement /\ Outcome /\ Registered /\ Building /\ Authority /\ Stopping /\
      Passing /\ OwnerShape(n)
  BY DEF IInv, Shape
<1>1. UNCHANGED <<p, n, objs, up, down>>  BY DEF SKills, SExits
<1>2. /\ \/ s.at = "kill" /\ s'.at = "report" /\ s'.rep \in {"clean", "dirty"} /\ w' \in {w, "end"}
         \/ s.at = "report" /\ s'.at = "exited" /\ s'.rep \in {s.rep, "none"} /\ w' = w
      /\ s'.gate = s.gate /\ s'.term = s.term /\ DOMAIN s' = DOMAIN s
  BY <1>0 DEF SKills, SExits, Shape
<1>Shape. Shape'  BY <1>0, <1>1, <1>2 DEF Shape, OwnerShape, OwnerFields, OwnerPlaces
<1>Retirement. Retirement'  BY <1>0, <1>1, <1>2 DEF Shape, Retirement
<1>Outcome. Outcome'  BY <1>0, <1>1, <1>2 DEF Shape, Outcome, Early
<1>Registered. Registered'  BY <1>0, <1>1, <1>2 DEF Shape, Registered, Role
<1>Building. Building'  BY <1>0, <1>1, <1>2 DEF Shape, Building, Whole, Quiet, Through, Occupied, Ended, Role
<1>Authority. Authority'  BY <1>0, <1>1, <1>2 DEF Shape, Authority, Before, Early, Through
<1>Stopping. Stopping'  BY <1>0, <1>1, <1>2 DEF Shape, Stopping, Forking
<1>Passing. Passing'  BY <1>0, <1>1, <1>2 DEF Passing
<1>q. QED BY <1>Shape, <1>Retirement, <1>Outcome, <1>Registered, <1>Building, <1>Authority, <1>Stopping,
          <1>Passing DEF IInv

\* A supervisor that dies alone.
LEMMA SDiesStep ==
  ASSUME IInv, SDies
  PROVE  IInv'
<1>0. Shape /\ Retirement /\ Outcome /\ Registered /\ Building /\ Authority /\ Stopping /\
      Passing /\ OwnerShape(n)
  BY DEF IInv, Shape
<1>1. UNCHANGED <<p, n, objs, up, down>>  BY DEF SDies
<1>2. Killed  BY <1>0 DEF SDies, Killed, Shape
<1>Shape. Shape'  BY <1>0, <1>1, <1>2 DEF Shape, OwnerShape, OwnerFields, OwnerPlaces, Killed
<1>Retirement. Retirement'  BY <1>0, <1>1, <1>2 DEF Shape, Retirement, Killed
<1>Outcome. Outcome'  BY <1>0, <1>1, <1>2 DEF Shape, Outcome, Early, Killed
<1>Registered. Registered'  BY <1>0, <1>1, <1>2 DEF Shape, Registered, Role, Killed
<1>Building. Building'
  BY <1>0, <1>1, <1>2 DEF Shape, Building, Whole, Quiet, Through, Occupied, Ended, Role, Killed
<1>Authority. Authority'  BY <1>0, <1>1, <1>2 DEF Shape, Authority, Before, Early, Through, Killed
<1>Stopping. Stopping'  BY <1>0, <1>1, <1>2 DEF Shape, Stopping, Killed, Forking
<1>Passing. Passing'  BY <1>0, <1>1, <1>2 DEF Passing, Killed
<1>q. QED BY <1>Shape, <1>Retirement, <1>Outcome, <1>Registered, <1>Building, <1>Authority, <1>Stopping,
          <1>Passing DEF IInv

-----------------------------------------------------------------------------
(* The steps of the parent *)

\* The parent signals the ticket, and the owner in whatever it does.
LEMMA PFailsStep ==
  ASSUME IInv, PFails
  PROVE  IInv'
<1>0. Shape /\ Retirement /\ Outcome /\ Registered /\ Building /\ Authority /\ Stopping /\
      Passing /\ OwnerShape(n)
  BY DEF IInv, Shape
<1>1. p.pc = "loop" /\ ~p.failed /\ UNCHANGED <<w, objs, up, down>>  BY DEF PFails
<1>2. PICK q : q = [p EXCEPT !.failed = TRUE]  OBVIOUS
<1>3. /\ ParentShape(q) /\ ~q.astray /\ (s.at = "reaped" => q.retired) /\ q.reg = p.reg /\ q.pc = p.pc /\
           q.failed
      /\ q.passed = p.passed /\ q.sup = p.sup /\ q.retired = p.retired /\ q.stopped = p.stopped
  BY <1>0, <1>2 DEF ParentShape, ParentFields, Retirement, Shape
<1>4. p' = Signalled(q)  BY <1>2 DEF PFails
<1>5. /\ ParentShape(p') /\ ~p'.astray /\ p'.reg = p.reg /\ p'.pc = p.pc /\ p'.failed /\ p'.passed = p.passed
      /\ p'.sup = p.sup /\ p'.retired = p.retired /\ p'.stopped = p.stopped
  BY <1>3, <1>4, SignalledFacts
<1>6. s'.term \in BOOLEAN /\ (s.term => s'.term) /\ (Ticket(p) => s'.term) /\ s'.at = s.at /\
      s'.gate = s.gate /\
      s'.rep = s.rep /\ DOMAIN s' = DOMAIN s
  <2>1. PICK too \in {Ticket(p), Ticket(p) \/ s.at = "gate"} : s' = [s EXCEPT !.term = @ \/ too]  BY DEF PFails
  <2>2. PICK b \in BOOLEAN : b <=> (s.term \/ too)  OBVIOUS
  <2>3. s' = [s EXCEPT !.term = b]  BY <2>1, <2>2
  <2>4. Ticket(p) => too  BY <2>1
  <2>5. s'.term = b /\ s'.at = s.at /\ s'.gate = s.gate /\ s'.rep = s.rep /\ DOMAIN s' = DOMAIN s
    BY <1>0, <2>3 DEF Shape
  <2>q. QED BY <2>2, <2>4, <2>5
<1>7. n'.alone = n.alone /\ n'.pc = n.pc /\ n'.todo = n.todo /\ n'.step = n.step /\ n'.ents = n.ents /\
      n'.sent = n.sent /\
      n'.known = n.known /\ n'.ret = n.ret /\ n'.code = n.code /\ n'.exp = n.exp /\ DOMAIN n' = DOMAIN n
  <2>1. PICK b \in BOOLEAN : b <=> Alive  OBVIOUS
  <2>2. n' = [n EXCEPT !.term = b]  BY <2>1 DEF PFails
  <2>q. QED BY <1>0, <2>2 DEF OwnerShape, OwnerFields
<1>Shape. Shape'
  BY <1>0, <1>1, <1>2, <1>3, <1>4, <1>5, <1>6, <1>7 DEF Shape, OwnerShape, OwnerFields, OwnerPlaces
<1>Retirement. Retirement'  BY <1>0, <1>1, <1>2, <1>3, <1>4, <1>5, <1>6, <1>7 DEF Shape, Retirement
<1>Outcome. Outcome'  BY <1>0, <1>1, <1>2, <1>3, <1>4, <1>5, <1>6, <1>7 DEF Shape, Outcome, Early
<1>Registered. Registered'
  <2>1. (\A r \in objs : p.reg[r] # "none")'  BY <1>0, <1>1, <1>5, <1>7 DEF Shape, Registered, OwnerShape, Role
  <2>2. (\A i \in DOMAIN up : up[i].kind = "cleaned" => n.pc # "create" /\ up[i].role \notin objs)'
    BY <1>0, <1>1, <1>5, <1>7 DEF Shape, Registered, OwnerShape, Role
  <2>3. (\A i \in DOMAIN up : up[i].kind \in {"intent", "bound", "cleaned"} => up[i].role \in Roles)'
    BY <1>0, <1>1, <1>5, <1>7 DEF Shape, Registered, OwnerShape, Role
  <2>4. (n.pc = "clean" /\ n.todo # <<>> /\ n.step = 2 => Role \notin objs)'
    BY <1>0, <1>1, <1>5, <1>7 DEF Shape, Registered, OwnerShape, Role
  <2>5. (n.pc = "create" /\ n.todo # <<>> /\ n.step >= 2 => p.reg[Role] # "none")'
    BY <1>0, <1>1, <1>5, <1>7 DEF Shape, Registered, OwnerShape, Role
  <2>6. (n.pc = "create" => \A i \in DOMAIN down : down[i].kind = "intent" => down[i].role \in Roles /\
        p.reg[down[i].role] # "none")'
    BY <1>0, <1>1, <1>5, <1>7 DEF Shape, Registered, OwnerShape, Role
  <2>q. QED BY <2>1, <2>2, <2>3, <2>4, <2>5, <2>6 DEF Registered
<1>Building. Building'
  BY <1>0, <1>1, <1>2, <1>3, <1>4, <1>5, <1>6, <1>7 DEF Shape, Building, Whole, Quiet, Through, Occupied,
     Ended, Role
<1>Authority. Authority'
  BY <1>0, <1>1, <1>2, <1>3, <1>4, <1>5, <1>6, <1>7 DEF Shape, Authority, Before, Early, Through, Ticket
<1>Stopping. Stopping'  BY <1>0, <1>1, <1>2, <1>3, <1>4, <1>5, <1>6, <1>7 DEF Shape, Stopping, Forking
<1>Passing. Passing'  BY <1>0, <1>1, <1>2, <1>3, <1>4, <1>5, <1>6, <1>7 DEF Passing
<1>q. QED BY <1>Shape, <1>Retirement, <1>Outcome, <1>Registered, <1>Building, <1>Authority, <1>Stopping,
          <1>Passing DEF IInv

\* The parent kills the owner.
LEMMA PGivesUpStep ==
  ASSUME IInv, PGivesUp
  PROVE  IInv'
<1>0. Shape /\ Retirement /\ Outcome /\ Registered /\ Building /\ Authority /\ Stopping /\
      Passing /\ OwnerShape(n)
  BY DEF IInv, Shape
<1>1. p.pc = "loop" /\ KillOwner /\ UNCHANGED <<s, w, objs, up, down>>  BY DEF PGivesUp
<1>2. p' = [p EXCEPT !.failed = TRUE, !.pc = "settle"]  BY DEF PGivesUp
<1>3. /\ ParentShape(p') /\ ~p'.astray /\ p'.reg = p.reg /\ p'.pc = "settle" /\ p'.failed /\
           p'.passed = p.passed
      /\ p'.sup = p.sup /\ p'.retired = p.retired /\ p'.stopped = p.stopped
  BY <1>0, <1>2 DEF ParentShape, ParentFields, Retirement, Shape
<1>4. (n' = n) \/ (n'.pc = "dead" /\ n'.todo = n.todo /\ n'.step = n.step /\ n'.ents = n.ents /\
      n'.sent = n.sent /\ n'.term = n.term /\ n'.alone = n.alone /\ n'.known = n.known /\ n'.ret = n.ret /\
      n'.code = n.code /\ n'.exp = n.exp /\ DOMAIN n' = DOMAIN n)
  BY <1>0, <1>1 DEF KillOwner, OwnerShape, OwnerFields
<1>Shape. Shape'  BY <1>0, <1>1, <1>2, <1>3, <1>4 DEF Shape, OwnerShape, OwnerFields, OwnerPlaces
<1>Retirement. Retirement'  BY <1>0, <1>1, <1>2, <1>3, <1>4 DEF Shape, Retirement
<1>Outcome. Outcome'  BY <1>0, <1>1, <1>2, <1>3, <1>4 DEF Shape, Outcome, Early
<1>Registered. Registered'  BY <1>0, <1>1, <1>2, <1>3, <1>4 DEF Shape, Registered, Role
<1>Building. Building'
  BY <1>0, <1>1, <1>2, <1>3, <1>4 DEF Shape, Building, Whole, Quiet, Through, Occupied, Ended, Role
<1>Authority. Authority'  BY <1>0, <1>1, <1>2, <1>3, <1>4 DEF Shape, Authority, Before, Early, Through
<1>Stopping. Stopping'  BY <1>0, <1>1, <1>2, <1>3, <1>4 DEF Shape, Stopping, Forking
<1>Passing. Passing'  BY <1>0, <1>1, <1>2, <1>3, <1>4 DEF Passing
<1>q. QED BY <1>Shape, <1>Retirement, <1>Outcome, <1>Registered, <1>Building, <1>Authority, <1>Stopping,
          <1>Passing DEF IInv

\* The owner's end is seen.
LEMMA PResultStep ==
  ASSUME IInv, PResult
  PROVE  IInv'
<1>0. Shape /\ Retirement /\ Outcome /\ Registered /\ Building /\ Authority /\ Stopping /\
      Passing /\ OwnerShape(n)
  BY DEF IInv, Shape
<1>1. p.pc = "loop" /\ UNCHANGED <<n, s, w, objs, up, down>>  BY DEF PResult
<1>2. /\ ParentShape(p') /\ ~p'.astray /\ p'.reg = p.reg /\ p'.pc = "settle" /\ (p.failed => p'.failed) /\
           p'.passed = p.passed
      /\ p'.sup = p.sup /\ p'.retired = p.retired /\ p'.stopped = p.stopped
  <2>1. PICK b \in BOOLEAN : b <=> (p.failed \/ n.pc = "dead" \/ n.failed)  OBVIOUS
  <2>2. p' = [p EXCEPT !.pc = "settle", !.failed = b]  BY <2>1 DEF PResult
  <2>q. QED BY <1>0, <2>1, <2>2 DEF ParentShape, ParentFields, Retirement, Shape
<1>Shape. Shape'  BY <1>0, <1>1, <1>2 DEF Shape, OwnerShape, OwnerFields, OwnerPlaces
<1>Retirement. Retirement'  BY <1>0, <1>1, <1>2 DEF Shape, Retirement
<1>Outcome. Outcome'  BY <1>0, <1>1, <1>2 DEF Shape, Outcome, Early
<1>Registered. Registered'  BY <1>0, <1>1, <1>2 DEF Shape, Registered, Role
<1>Building. Building'  BY <1>0, <1>1, <1>2 DEF Shape, Building, Whole, Quiet, Through, Occupied, Ended, Role
<1>Authority. Authority'  BY <1>0, <1>1, <1>2 DEF Shape, Authority, Before, Early, Through
<1>Stopping. Stopping'  BY <1>0, <1>1, <1>2 DEF Shape, Stopping, Forking
<1>Passing. Passing'  BY <1>0, <1>1, <1>2 DEF Passing
<1>q. QED BY <1>Shape, <1>Retirement, <1>Outcome, <1>Registered, <1>Building, <1>Authority, <1>Stopping,
          <1>Passing DEF IInv

\* The one frame on the socket is recorded and acknowledged.
LEMMA PRegistersStep ==
  ASSUME IInv, PRegisters
  PROVE  IInv'
<1>0. Shape /\ Retirement /\ Outcome /\ Registered /\ Building /\ Authority /\ Stopping /\
      Passing /\ OwnerShape(n)
  BY DEF IInv, Shape
<1>1. p.pc = "loop" /\ up # <<>> /\ up' = <<>> /\ UNCHANGED <<n, objs>>
  <2>1. Len(up) = 1 /\ up \in Seq(Frames)  BY <1>0 DEF PRegisters, Shape
  <2>2. up # <<>>  BY <2>1
  <2>q. QED BY <2>2 DEF PRegisters

<1>2. PICK f \in Frames : f = Head(up) /\ 1 \in DOMAIN up /\ up[1] = f
  BY <1>0, <1>1, TailFacts DEF Shape
<1>3. f.kind \in {"intent", "bound", "cleaned"} => f.role \in Roles  BY <1>0, <1>2 DEF Registered
<1>4. Recorded(f, Entered(f))  BY <1>0, <1>3, EnteredFacts
<1>5. p' = Entered(f)  BY <1>2 DEF PRegisters
<1>6. Recorded(f, p')  BY <1>4, <1>5
<1>7. down' \in Seq(Frames) /\ \A i \in DOMAIN down' : (i \in DOMAIN down /\ down'[i] = down[i]) \/ down'[i] = f
  <2>1. down \in Seq(Frames) /\ down' = Append(down, f)  BY <1>0, <1>2 DEF PRegisters, Shape
  <2>q. QED BY <2>1, AppendFacts
<1>8. Killed /\ (f.kind = "task-stop" => s'.at \in {"exited", "reaped"})
  <2>1. KillGroup(f.kind = "task-stop") /\ Admitted(f)  BY <1>2 DEF PRegisters
  <2>2. f.kind = "task-stop" => s.at # "none"  BY <1>0, <2>1 DEF Admitted, Stopping
  <2>q. QED BY <1>0, <2>1, <2>2, KillFacts
<1>9. up' \in Seq(Frames) /\ DOMAIN up' = {}  BY <1>1
<1>Shape. Shape'
  BY <1>0, <1>1, <1>2, <1>3, <1>4, <1>5, <1>6, <1>7, <1>8, <1>9 DEF Shape, OwnerShape, OwnerFields,
     OwnerPlaces, Killed, Recorded
<1>Retirement. Retirement'
  BY <1>0, <1>1, <1>2, <1>3, <1>4, <1>5, <1>6, <1>7, <1>8, <1>9 DEF Shape, Retirement, Killed, Recorded
<1>Outcome. Outcome'
  BY <1>0, <1>1, <1>2, <1>3, <1>4, <1>5, <1>6, <1>7, <1>8, <1>9 DEF Shape, Outcome, Early, Killed, Recorded
<1>Registered. Registered'
  <2>1. (\A r \in objs : p.reg[r] # "none")'
    BY <1>0, <1>1, <1>2, <1>3, <1>6, <1>7, <1>9 DEF Shape, Registered, OwnerShape, Role, Recorded
  <2>2. (\A i \in DOMAIN up : up[i].kind = "cleaned" => n.pc # "create" /\ up[i].role \notin objs)'
    BY <1>0, <1>1, <1>2, <1>3, <1>6, <1>7, <1>9 DEF Shape, Registered, OwnerShape, Role, Recorded
  <2>3. (\A i \in DOMAIN up : up[i].kind \in {"intent", "bound", "cleaned"} => up[i].role \in Roles)'
    BY <1>0, <1>1, <1>2, <1>3, <1>6, <1>7, <1>9 DEF Shape, Registered, OwnerShape, Role, Recorded
  <2>4. (n.pc = "clean" /\ n.todo # <<>> /\ n.step = 2 => Role \notin objs)'
    BY <1>0, <1>1, <1>2, <1>3, <1>6, <1>7, <1>9 DEF Shape, Registered, OwnerShape, Role, Recorded
  <2>5. (n.pc = "create" /\ n.todo # <<>> /\ n.step >= 2 => p.reg[Role] # "none")'
    BY <1>0, <1>1, <1>2, <1>3, <1>6, <1>7, <1>9 DEF Shape, Registered, OwnerShape, Role, Recorded
  <2>6. (n.pc = "create" => \A i \in DOMAIN down : down[i].kind = "intent" => down[i].role \in Roles /\
        p.reg[down[i].role] # "none")'
    <3> SUFFICES ASSUME n.pc = "create", NEW i \in DOMAIN down', down'[i].kind = "intent"
                 PROVE  down'[i].role \in Roles /\ p'.reg[down'[i].role] # "none"
      BY <1>1
    <3>1. f.kind # "cleaned"  BY <1>0, <1>2 DEF Registered
    <3>2. CASE i \in DOMAIN down /\ down'[i] = down[i]
      <4>1. down[i].role \in Roles /\ p.reg[down[i].role] # "none"  BY <1>0, <3>2 DEF Registered
      <4>q. QED BY <1>6, <3>1, <3>2, <4>1 DEF Recorded
    <3>3. CASE down'[i] = f  BY <1>3, <1>6, <3>3 DEF Recorded
    <3>q. QED BY <1>7, <3>2, <3>3
  <2>q. QED BY <2>1, <2>2, <2>3, <2>4, <2>5, <2>6 DEF Registered
<1>Building. Building'
  BY <1>0, <1>1, <1>2, <1>3, <1>4, <1>5, <1>6, <1>7, <1>8, <1>9 DEF Shape, Building, Whole, Quiet, Through,
     Occupied, Ended, Role, Killed, Recorded
<1>Authority. Authority'
  BY <1>0, <1>1, <1>2, <1>3, <1>4, <1>5, <1>6, <1>7, <1>8, <1>9 DEF Shape, Authority, Before, Early, Through,
     Killed, Recorded
<1>Stopping. Stopping'
  BY <1>0, <1>1, <1>2, <1>3, <1>4, <1>5, <1>6, <1>7, <1>8, <1>9 DEF Shape, Stopping, Killed, Recorded, Forking
<1>Passing. Passing'
  BY <1>0, <1>1, <1>2, <1>3, <1>4, <1>5, <1>6, <1>7, <1>8, <1>9 DEF Passing, Killed, Recorded
<1>q. QED BY <1>Shape, <1>Retirement, <1>Outcome, <1>Registered, <1>Building, <1>Authority, <1>Stopping,
          <1>Passing DEF IInv

\* It is recorded, or not, and never acknowledged.
LEMMA PBreaksStep ==
  ASSUME IInv, PBreaks
  PROVE  IInv'
<1>0. Shape /\ Retirement /\ Outcome /\ Registered /\ Building /\ Authority /\ Stopping /\
      Passing /\ OwnerShape(n)
  BY DEF IInv, Shape
<1>1. p.pc = "loop" /\ up # <<>> /\ up' = <<>> /\ KillOwner /\ UNCHANGED <<objs, down>>  BY DEF PBreaks

<1>2. PICK f \in Frames : f = Head(up) /\ 1 \in DOMAIN up /\ up[1] = f
  BY <1>0, <1>1, TailFacts DEF Shape
<1>3. f.kind \in {"intent", "bound", "cleaned"} => f.role \in Roles  BY <1>0, <1>2 DEF Registered
<1>4. Recorded(f, Entered(f))  BY <1>0, <1>3, EnteredFacts
<1>5. PICK q : /\ q = p \/ (q = Entered(f) /\ Admitted(f))
             /\ p' = [Signalled(q) EXCEPT !.failed = TRUE, !.pc = "settle"]
             /\ KillGroup(Ticket(q) \/ (q # p /\ f.kind = "task-stop"))
  BY <1>2 DEF PBreaks
<1>6. /\ ParentShape(q) /\ ~q.astray /\ (s.at = "reaped" => q.retired) /\ q.passed = p.passed
      /\ (p.retired => q.retired) /\ (p.sup => q.sup)
      /\ q.sup => p.sup \/ f.kind \in {"supervisor", "supervisor-unconfirmed"}
      /\ p.stopped => q.stopped
      /\ q.stopped /\ ~p.stopped => f.kind = "task-stop" /\ p.sup
      /\ \A r \in Roles : q.reg[r] = "none" => p.reg[r] = "none" \/ (f.kind = "cleaned" /\ r = f.role)
  BY <1>0, <1>4, <1>5 DEF Recorded, Shape, Retirement, Admitted
<1>7. /\ ParentShape(Signalled(q)) /\ ~Signalled(q).astray /\ Signalled(q).reg = q.reg
      /\ Signalled(q).passed = q.passed /\ Signalled(q).sup = q.sup /\ Signalled(q).retired = q.retired
      /\ Signalled(q).stopped = q.stopped
  BY <1>6, SignalledFacts
<1>8. /\ ParentShape(p') /\ ~p'.astray /\ p'.reg = q.reg /\ p'.pc = "settle" /\ p'.failed /\
           p'.passed = p.passed
      /\ p'.sup = q.sup /\ p'.retired = q.retired /\ p'.stopped = q.stopped
  BY <1>5, <1>6, <1>7 DEF ParentShape, ParentFields
<1>9. Killed /\ (q.stopped /\ ~p.stopped => s'.at \in {"exited", "reaped"})
  <2>1. PICK kill : KillGroup(kill) /\ (q # p /\ f.kind = "task-stop" => kill)  BY <1>5
  <2>2. q.stopped /\ ~p.stopped => kill /\ s.at # "none"  BY <1>0, <1>6, <2>1 DEF Stopping
  <2>q. QED BY <1>0, <2>1, <2>2, KillFacts
<1>10. up' \in Seq(Frames) /\ DOMAIN up' = {}  BY <1>1
<1>11. (n' = n /\ ~Alive) \/ (n'.pc = "dead" /\ n'.todo = n.todo /\ n'.step = n.step /\ n'.ents = n.ents /\
       n'.sent = n.sent /\ n'.term = n.term /\ n'.alone = n.alone /\ n'.known = n.known /\ n'.ret = n.ret /\
       n'.code = n.code /\ n'.exp = n.exp /\ DOMAIN n' = DOMAIN n)
  BY <1>0, <1>1 DEF KillOwner, OwnerShape, OwnerFields
<1>Shape. Shape'
  BY <1>0, <1>1, <1>2, <1>3, <1>4, <1>5, <1>6, <1>7, <1>8, <1>9, <1>10, <1>11 DEF Shape, OwnerShape,
     OwnerFields, OwnerPlaces, Killed, Alive
<1>Retirement. Retirement'
  BY <1>0, <1>1, <1>2, <1>3, <1>4, <1>5, <1>6, <1>7, <1>8, <1>9, <1>10, <1>11 DEF Shape, Retirement, Killed,
     Alive
<1>Outcome. Outcome'
  BY <1>0, <1>1, <1>2, <1>3, <1>4, <1>5, <1>6, <1>7, <1>8, <1>9, <1>10, <1>11 DEF Shape, Outcome, Early,
     Killed, Alive
<1>Registered. Registered'
  BY <1>0, <1>1, <1>2, <1>3, <1>4, <1>5, <1>6, <1>7, <1>8, <1>9, <1>10, <1>11 DEF Shape, Registered, Role,
     Killed, Alive
<1>Building. Building'
  BY <1>0, <1>1, <1>2, <1>3, <1>4, <1>5, <1>6, <1>7, <1>8, <1>9, <1>10, <1>11 DEF Shape, Building, Whole,
     Quiet, Through, Occupied, Ended, Role, Killed, Alive
<1>Authority. Authority'
  BY <1>0, <1>1, <1>2, <1>3, <1>4, <1>5, <1>6, <1>7, <1>8, <1>9, <1>10, <1>11 DEF Shape, Authority, Before,
     Early, Through, Killed, Alive
<1>Stopping. Stopping'
  BY <1>0, <1>1, <1>2, <1>3, <1>4, <1>5, <1>6, <1>7, <1>8, <1>9, <1>10, <1>11 DEF Shape, Stopping, Killed,
     Alive, Forking
<1>Passing. Passing'
  BY <1>0, <1>1, <1>2, <1>3, <1>4, <1>5, <1>6, <1>7, <1>8, <1>9, <1>10, <1>11 DEF Passing, Killed, Alive
<1>q. QED BY <1>Shape, <1>Retirement, <1>Outcome, <1>Registered, <1>Building, <1>Authority, <1>Stopping,
          <1>Passing DEF IInv

\* What the parent has passed is over.
LEMMA PSettlesStep ==
  ASSUME IInv, PSettles
  PROVE  IInv'
<1>0. Shape /\ Retirement /\ Outcome /\ Registered /\ Building /\ Authority /\ Stopping /\
      Passing /\ OwnerShape(n)
  BY DEF IInv, Shape
<1>1. p.pc = "settle" /\ UNCHANGED <<n, objs, up, down>>  BY DEF PSettles
<1>2. /\ ParentShape(Signalled(p)) /\ ~Signalled(p).astray /\ Signalled(p).reg = p.reg /\
           Signalled(p).failed = p.failed
      /\ Signalled(p).sup = p.sup /\ Signalled(p).retired = p.retired /\ Signalled(p).stopped = p.stopped
  BY <1>0, SignalledFacts DEF Shape, Retirement
<1>3. p' = [Signalled(p) EXCEPT !.pc = "done", !.passed = IF Passed THEN "yes" ELSE "no"]  BY DEF PSettles
<1>4. /\ ParentShape(p') /\ ~p'.astray /\ p'.reg = p.reg /\ p'.failed = p.failed
      /\ p'.sup = p.sup /\ p'.retired = p.retired /\ p'.stopped = p.stopped
      /\ p'.pc = "done" /\ (p'.passed = "yes" => Passed)
  BY <1>2, <1>3 DEF ParentShape, ParentFields
<1>5. Killed  BY <1>0, KillFacts DEF PSettles
<1>6. Passed => objs = {} /\ n.pc = "exit" /\ s.at = "reaped" /\ w = "end"
  BY <1>0 DEF Passed, Registered, Outcome, Shape, Seen
<1>Shape. Shape'
  BY <1>0, <1>1, <1>2, <1>3, <1>4, <1>5, <1>6 DEF Shape, OwnerShape, OwnerFields, OwnerPlaces, Killed
<1>Retirement. Retirement'  BY <1>0, <1>1, <1>2, <1>3, <1>4, <1>5, <1>6 DEF Shape, Retirement, Killed
<1>Outcome. Outcome'  BY <1>0, <1>1, <1>2, <1>3, <1>4, <1>5, <1>6 DEF Shape, Outcome, Early, Killed
<1>Registered. Registered'  BY <1>0, <1>1, <1>2, <1>3, <1>4, <1>5, <1>6 DEF Shape, Registered, Role, Killed
<1>Building. Building'
  BY <1>0, <1>1, <1>2, <1>3, <1>4, <1>5, <1>6 DEF Shape, Building, Whole, Quiet, Through, Occupied, Ended,
     Role, Killed
<1>Authority. Authority'
  BY <1>0, <1>1, <1>2, <1>3, <1>4, <1>5, <1>6 DEF Shape, Authority, Before, Early, Through, Killed
<1>Stopping. Stopping'  BY <1>0, <1>1, <1>2, <1>3, <1>4, <1>5, <1>6 DEF Shape, Stopping, Killed, Forking
<1>Passing. Passing'  BY <1>0, <1>1, <1>2, <1>3, <1>4, <1>5, <1>6 DEF Passing, Killed
<1>q. QED BY <1>Shape, <1>Retirement, <1>Outcome, <1>Registered, <1>Building, <1>Authority, <1>Stopping,
          <1>Passing DEF IInv

-----------------------------------------------------------------------------
(* Acknowledgements *)

\* The acknowledgement is the owner's, or one of an earlier registration.
LEMMA NAckStep ==
  ASSUME IInv, NAck
  PROVE  IInv'
<1>1. Registers /\ n.sent /\ down # <<>> /\ down' = Tail(down) /\ UNCHANGED <<p, s, w, objs, up>>  BY DEF NAck
<1>2. CASE Head(down) = Request
  <2>1. n' = Granted  BY <1>2 DEF NAck
  <2>q. QED BY <1>1, <1>2, <2>1, GrantedStep
<1>3. CASE Head(down) # Request
  <2>1. n' = Refused  BY <1>3 DEF NAck
  <2>q. QED BY <1>1, <2>1, RefusedStep
<1>q. QED BY <1>2, <1>3

\* The registration is given up.
LEMMA NUnansweredStep ==
  ASSUME IInv, NUnanswered
  PROVE  IInv'
<1>1. Registers /\ n' = Refused /\ down' = down /\ s' = s /\ UNCHANGED <<p, w, objs, up>>  BY DEF NUnanswered
<1>q. QED BY <1>1, RefusedStep

\* Both readers fail.
LEMMA AckTornStep ==
  ASSUME IInv, AckTorn
  PROVE  IInv'
<1>1. /\ Registers /\ n' = Refused /\ down # <<>> /\ down' = Tail(down)
      /\ s.at = "regW" /\ s' = [s EXCEPT !.at = "kill"] /\ UNCHANGED <<p, w, objs, up>>
  BY DEF AckTorn, SGo
<1>q. QED BY <1>1, RefusedStep

-----------------------------------------------------------------------------
(* The invariant *)

\* At the start nothing is there and everything is to be done.
LEMMA InitIInv == Init => IInv
<1> SUFFICES ASSUME Init PROVE IInv  OBVIOUS
<1>1. /\ ParentShape(p) /\ ~p.astray /\ p.passed = "none" /\ ~p.retired /\ ~p.sup /\ ~p.stopped
  BY DEF Init, ParentShape, ParentFields, ObjectStates
<1>2. PICK t \in Seq(Roles) : t = CreateOrder /\ \A r \in Roles : \E i \in DOMAIN t : t[i] = r
  BY OrderFacts
<1>3. n = [pc |-> "create", todo |-> t, step |-> 1,
           ents |-> [r \in Roles |-> "none"], sent |-> FALSE, term |-> FALSE, known |-> FALSE,
           ret |-> FALSE, code |-> FALSE, exp |-> "none", failed |-> FALSE, errs |-> FALSE,
           alone |-> FALSE]
  BY <1>2 DEF Init
<1>4. OwnerShape(n) /\ n.pc = "create" /\ n.todo = t /\ n.step = 1 /\ ~n.sent /\ ~n.term /\ ~n.ret /\ ~n.code /\
      n.exp = "none"
  BY <1>3 DEF OwnerShape, OwnerFields, OwnerPlaces, ObjectStates
<1>5. s = [at |-> "none", gate |-> "shut", term |-> FALSE, rep |-> "none"] /\ w = "none" /\ objs = {} /\
      up = <<>> /\ down = <<>>
  BY DEF Init
<1>Shape. Shape  BY <1>1, <1>4, <1>5 DEF Shape
<1>Retirement. Retirement  BY <1>1, <1>4, <1>5 DEF Retirement
<1>Outcome. Outcome  BY <1>4, <1>5 DEF Outcome, Early
<1>Registered. Registered  BY <1>4, <1>5 DEF Registered
<1>Building. Building  BY <1>2, <1>4, <1>5 DEF Building, Ended, Quiet, Through, Occupied
<1>Authority. Authority  BY <1>1, <1>4, <1>5 DEF Authority, Before, Early, Through
<1>Stopping. Stopping  BY <1>1, <1>4, <1>5 DEF Stopping, Forking
<1>Passing. Passing  BY <1>1 DEF Passing
<1>q. QED BY <1>Shape, <1>Retirement, <1>Outcome, <1>Registered, <1>Building, <1>Authority, <1>Stopping,
          <1>Passing DEF IInv

\* Every step of every process.
LEMMA StepIInv == IInv /\ [Next]_vars => IInv'
<1> SUFFICES ASSUME IInv, [Next]_vars PROVE IInv'  OBVIOUS
<1>1. CASE N
  BY <1>1, NSendStep, NAckStep, NUnansweredStep, NMakeStep, NRemoveStep, NWorkedStep, NForkStep, NGateStep,
     NReturnStep, NReadStep, NReapStep, NSettleStep, NSafeStep, NBarrierStep, NResultStep, NSignalledStep,
     NInterruptedStep, NSwallowsStep, NDiesStep DEF N
<1>2. CASE S
  BY <1>2, SAdmittedStep, SEndsStep, SSpawnsStep, SAckStep, AckTornStep, SWatchStep, WEndsStep, SReportStep
     DEF S
<1>3. CASE P
  BY <1>3, PFailsStep, PGivesUpStep, PRegistersStep, PBreaksStep, PResultStep, PSettlesStep DEF P
<1>4. CASE SDies
  BY <1>4, SDiesStep
<1>5. CASE UNCHANGED vars
  <2>1. UNCHANGED <<p, n, s, w, objs, up, down>>  BY <1>5 DEF vars
  <2>q. QED BY <2>1 DEF IInv, Shape, Retirement, Outcome, Registered, Building, Authority, Stopping,
                        Passing, Forking,
                        ParentShape, OwnerShape, Early, Whole, Quiet, Through, Occupied, Ended, Before, Role
<1>q. QED BY <1>1, <1>2, <1>3, <1>4, <1>5 DEF Next

\* So it holds throughout.
LEMMA Invariant == Spec => []IInv
<1>1. Init => IInv  BY InitIInv
<1>2. IInv /\ [Next]_vars => IInv'  BY StepIInv
<1>q. QED BY <1>1, <1>2, PTL DEF Spec

-----------------------------------------------------------------------------
(* The theorems *)

\* The parent never signals a supervisor whose PID the owner has given back: a
\* wait is preceded by a retirement that the parent acknowledged, and what it
\* retired is no ticket any more, whatever crosses on the socket.
THEOREM TicketIsAlwaysValid == Spec => []TicketValid
<1>1. IInv => TicketValid  BY DEF IInv, Retirement, TicketValid
<1>q. QED BY <1>1, Invariant, PTL

\* A worker at work keeps every object, for any objects in any order: while a
\* supervisor or a worker may use them, no cleanup has begun.  A signal from
\* elsewhere may reach the owner wherever it is but in the tail of
\* fork_supervisor.
THEOREM WorkAlwaysKeepsObjects == Spec => []WorkKeepsObjects
<1>1. IInv => WorkKeepsObjects
  <2> SUFFICES ASSUME IInv, w = "work", ~n.alone PROVE Roles \subseteq objs  BY DEF WorkKeepsObjects
  <2>1. s.at # "none" /\ ~Quiet  BY DEF IInv, Outcome, Quiet, Occupied
  <2>q. QED BY <2>1 DEF IInv, Building, Whole
<1>q. QED BY <1>1, Invariant, PTL

\* The parent's report is true: an object that exists is in its registry, and a
\* pass means that nothing is left of objects, owner, supervisor and worker.
THEOREM SettledIsAlwaysTrue == Spec => []SettledIsTrue
<1>1. IInv => SettledIsTrue  BY DEF IInv, Registered, Passing, SettledIsTrue
<1>q. QED BY <1>1, Invariant, PTL

=============================================================================
