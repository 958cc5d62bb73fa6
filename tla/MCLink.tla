------------------------------- MODULE MCLink -------------------------------
(* Two neighbours share the ring of one device; the other is without neighbours. *)
EXTENDS Neighbour, TLC

CONSTANTS d1, d2, n1, n2

MCDevice == {d1, d2}
MCNeighbour == {n1, n2}
MCDev == n1 :> d1 @@ n2 :> d1
=============================================================================
