----------------------------- MODULE NetworkList ----------------------------
(***************************************************************************)
(* What wpa_supplicant.conf is for: a list of known networks, at most one  *)
(* entry for each name, edited one entry at a time.  Harm stands for what  *)
(* the code does not protect the list from; nothing is promised after it.  *)
(***************************************************************************)
CONSTANTS Ssids, Passwords, Header

VARIABLES nets, harmed

Entry == [ssid : Ssids, pw : Passwords]

Others(s) == {n \in nets : n = Header \/ n.ssid # s}

Init == nets \subseteq Entry \cup {Header} /\ harmed = FALSE

Learn(s, p) == nets' = Others(s) \cup {[ssid |-> s, pw |-> p]} /\ UNCHANGED harmed
Forget(s)   == nets' = Others(s) /\ UNCHANGED harmed
Harm        == harmed'

Next ==
    \/ ~harmed /\ \E s \in Ssids : Forget(s) \/ \E p \in Passwords : Learn(s, p)
    \/ Harm

Spec == Init /\ [][Next]_<<nets, harmed>>
=============================================================================
