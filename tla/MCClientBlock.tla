--------------------------- MODULE MCClientBlock ----------------------------
(* Instances of ClientBlock for TLC. *)
EXTENDS ClientBlock, TLC

CONSTANTS h1, h2, h3, a, b

MCHandlers == {h1, h2, h3}
MCIps      == {a, b}
MCRequests == [op : {"block"}, ip : MCIps] \cup [op : {"unblock"}, ip : {a}]
=============================================================================
