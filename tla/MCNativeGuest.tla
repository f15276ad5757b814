---------------------------- MODULE MCNativeGuest ----------------------------
(***************************************************************************)
(* NativeGuest with a group between two directories.                           *)
(***************************************************************************)
EXTENDS NativeGuest

ThreeRoles == <<"guest_root", Cgroup, "control">>

=============================================================================
