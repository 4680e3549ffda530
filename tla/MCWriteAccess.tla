---------------------------- MODULE MCWriteAccess ----------------------------
(* WriteAccess for TLC: the visitor is a guest, the others are one member. *)
EXTENDS WriteAccess, TLC

CONSTANTS ip, member, guest, visitor

MCIpOf   == [c \in Conn |-> ip]
MCUserOf == [c \in Conn |-> IF c = visitor THEN guest ELSE member]

Symmetry == Permutations(Conn \ {visitor}) \cup Permutations(Session)
                \cup Permutations(Change)
=============================================================================
