-------------------------- MODULE DurableRegister --------------------------
(***************************************************************************)
(* What a node expects of its state store (synthetic/store.go): a register *)
(* whose value survives failures.  A write that was not acknowledged may   *)
(* or may not take effect, but it takes effect whole or not at all, it is  *)
(* settled by the next recovery, and what a client has been shown is never *)
(* taken back.                                                             *)
(***************************************************************************)
CONSTANTS
  States, NoState,
  Follows            \* the pairs <<old, new>> such that new may replace old

VARIABLES
  phase,      \* "down", "up" or "busy" (a write is running)
  value,      \* the state the client was shown last
  target,     \* the state being written
  possible    \* the states a recovery may find

avars == <<phase, value, target, possible>>

ARegisterInit ==
  /\ phase = "down"
  /\ value = NoState
  /\ target = NoState
  /\ possible = {NoState}

\* The client asks for a write.
ABegin ==
  /\ phase = "up" \/ (phase = "down" /\ possible = {NoState})
  /\ target' \in States /\ <<value, target'>> \in Follows
  /\ phase' = "busy"
  /\ UNCHANGED <<value, possible>>

\* The write may have taken effect, or has certainly taken effect.
ALand ==
  /\ phase = "busy"
  /\ \/ possible' = possible \cup {target}
     \/ target \in possible /\ possible' = {target}
  /\ UNCHANGED <<phase, value, target>>

\* The write is acknowledged: nothing else can be recovered any more.
AAcknowledge ==
  /\ phase = "busy" /\ possible = {target}
  /\ phase' = "up"
  /\ value' = target
  /\ UNCHANGED <<target, possible>>

\* A failed write or a crash; the write may land at that very moment, and
\* some of the possible states may be ruled out, never all.
AFail ==
  /\ phase' = "down"
  /\ possible' # {}
  /\ possible' \subseteq possible \cup (IF phase = "busy" THEN {target} ELSE {})
  /\ UNCHANGED <<value, target>>

\* Recovery shows the client one of the possible states and rules out the rest.
ARecover ==
  /\ phase = "down"
  /\ \E s \in possible \ {NoState} : value' = s /\ possible' = {s}
  /\ phase' = "up"
  /\ UNCHANGED target

ANext == ABegin \/ ALand \/ AAcknowledge \/ AFail \/ ARecover

ARegisterSpec == ARegisterInit /\ [][ANext]_avars
=============================================================================
