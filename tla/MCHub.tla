------------------------------- MODULE MCHub -------------------------------
(* Hub for TLC: one request comes from an address of its own, the others   *)
(* share one.                                                              *)
EXTENDS Hub, TLC

CONSTANTS lone, ip1, ip2

MCIpOf == [c \in Conn |-> IF c = lone THEN ip2 ELSE ip1]

Symmetry == Permutations(Conn \ {lone}) \cup Permutations(Session)
=============================================================================
