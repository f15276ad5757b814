----------------------------- MODULE MCT0Relay -----------------------------
(* Instances of T0Relay for TLC. *)
EXTENDS T0Relay

CONSTANTS Expiry    \* when every message expires

MCExp == [m \in Msgs |-> Expiry]
=============================================================================
