------------------------------ MODULE MCWebAuth -----------------------------
(* Instances of WebAuth for TLC. *)
EXTENDS WebAuth, TLC

CONSTANTS w1, w2, h1, h2, pa, pb

MCWorkers   == {w1, w2}
MCHandlers  == {h1, h2}
MCPasswords == {pa, pb}

Sym == Permutations(MCWorkers) \cup Permutations(MCHandlers) \cup Permutations(MCPasswords)
=============================================================================
