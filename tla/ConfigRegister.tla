--------------------------- MODULE ConfigRegister ---------------------------
(***************************************************************************)
(* What the configuration store promises its callers: a copy in memory and *)
(* a saved copy that is replaced as a whole by the copy in memory, and by  *)
(* nothing else.  A restart, at any moment, finds the last one saved.      *)
(***************************************************************************)
CONSTANTS Values, Initial

VARIABLES memory, saved

Init == memory = Initial /\ saved = Initial

Update == memory' \in Values /\ UNCHANGED saved

Save == saved' = memory /\ UNCHANGED memory

Reload == memory' = saved /\ UNCHANGED saved

Next == Update \/ Save \/ Reload

Spec == Init /\ [][Next]_<<memory, saved>>
=============================================================================
