------------------------------- MODULE MCMesh -------------------------------
(***************************************************************************)
(* Instances of Mesh for TLC.                                              *)
(***************************************************************************)
EXTENDS Mesh, TLC

\* demoSend takes any integer for the ttl.
AllTtls == {-1, 0, 1, 2}
=============================================================================
