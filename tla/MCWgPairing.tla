---------------------------- MODULE MCWgPairing -----------------------------
(* Instances of WgPairing for TLC. *)
EXTENDS WgPairing, TLC

CONSTANTS p1, box, phone

MCPages == {p1}
MCNames == {box, phone}
MCHosts == {2, 3}

Sym == Permutations(MCNames)
=============================================================================
