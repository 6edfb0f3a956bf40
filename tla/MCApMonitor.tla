---------------------------- MODULE MCApMonitor -----------------------------
(* Instances of ApMonitor for TLC. *)
EXTENDS ApMonitor

CONSTANTS a1, a2, boot

OneApply   == {a1}
NoApply    == {}
AutoOr11   == {0, 11}
Auto       == {0}
OneName    == {"home"}
LowBand    == {1, 6}
HighBand   == {6, 36}
IwHostapd  == {"iw", "hostapd"}
AllReliable == {}
=============================================================================
