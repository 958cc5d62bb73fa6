------------------------------- MODULE MCTcp -------------------------------
(***************************************************************************)
(* A TCP connection whose sequence numbers, in both directions, wrap soon  *)
(* after they start.                                                       *)
(***************************************************************************)
EXTENDS Tcp
=============================================================================
