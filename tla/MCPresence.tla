----------------------------- MODULE MCPresence -----------------------------
(* Two clients, interchangeable. *)
EXTENDS Presence, TLC

Sym == Permutations(Client)
=============================================================================
