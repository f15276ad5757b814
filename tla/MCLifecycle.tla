---------------------------- MODULE MCLifecycle ----------------------------
(* The attempt with one guest object beside the JXA root and its source. *)
EXTENDS Lifecycle

OneRole == <<"guest_root">>

=============================================================================
