-------------------------- MODULE DeliveryPromise --------------------------
(***************************************************************************)
(* What the relay chain promises the user of the origin, key by key:       *)
(* a message is accepted once; the destination stores it at most once,     *)
(* before the deadline and exactly as accepted; the origin is told         *)
(* "delivered" only after that; and it gives up only after the deadline.   *)
(* The verdict of the origin is final.                                     *)
(***************************************************************************)
EXTENDS Integers

CONSTANTS Keys, Cores, NoCore, Instants, Due(_)

VARIABLES
  clock,    \* the logical time
  origin,   \* per key: "none", "pending", "delivered" or "expired"
  accepted, \* per key: what the origin accepted
  held      \* per key: what the destination stores

pvars == <<clock, origin, accepted, held>>

PromiseInit ==
  /\ clock = 0
  /\ origin = [k \in Keys |-> "none"]
  /\ accepted = [k \in Keys |-> NoCore]
  /\ held = [k \in Keys |-> NoCore]

Same(k) == origin'[k] = origin[k] /\ accepted'[k] = accepted[k] /\ held'[k] = held[k]

Accept(k) ==
  /\ origin[k] = "none" /\ origin'[k] = "pending"
  /\ accepted'[k] \in Cores /\ accepted'[k].orig = clock
  /\ held'[k] = held[k]

Arrive(k) ==
  /\ origin[k] # "none" /\ held[k] = NoCore /\ clock < Due(accepted[k])
  /\ held'[k] = accepted[k]
  /\ origin'[k] = origin[k] /\ accepted'[k] = accepted[k]

Confirm(k) ==
  /\ origin[k] = "pending" /\ origin'[k] = "delivered"
  /\ held[k] = accepted[k] /\ clock < Due(accepted[k])
  /\ accepted'[k] = accepted[k] /\ held'[k] = held[k]

GiveUp(k) ==
  /\ origin[k] = "pending" /\ origin'[k] = "expired"
  /\ clock >= Due(accepted[k])
  /\ accepted'[k] = accepted[k] /\ held'[k] = held[k]

\* One batch may settle several keys.
Settle ==
  /\ \A k \in Keys : Same(k) \/ Accept(k) \/ Arrive(k) \/ Confirm(k) \/ GiveUp(k)
  /\ clock' = clock

Elapse ==
  /\ clock' \in Instants /\ clock' > clock
  /\ UNCHANGED <<origin, accepted, held>>

PromiseSpec == PromiseInit /\ [][Settle \/ Elapse]_pvars
=============================================================================
