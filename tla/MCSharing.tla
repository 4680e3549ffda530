------------------------------ MODULE MCSharing ------------------------------
(* Invites of one person, handled by requests that are interchangeable. *)
EXTENDS Sharing, TLC

Sym == Permutations(Handler)
=============================================================================
