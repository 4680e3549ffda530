---------------------------- MODULE MCDocSession ----------------------------
(* DocSession for TLC: all requests from one address. *)
EXTENDS DocSession, TLC

CONSTANT ip

MCIpOf == [c \in Conn |-> ip]

Symmetry == Permutations(Writer) \cup Permutations(Session)
=============================================================================
