---------------------------- MODULE MCWifiConnect ---------------------------
(* Instances of WifiConnect for TLC. *)
EXTENDS WifiConnect, TLC

CONSTANTS h1, h2, home, cafe

TwoRequests == {h1, h2}

Sym == Permutations(TwoRequests)

MCSsids == {home, cafe}

Connect(s, p) == [op |-> "connect", ssid |-> s, pw |-> p]

MCRequests ==
    {Connect(home, "good"), Connect(cafe, "good"), Connect(cafe, "bad"),
     Connect(cafe, "short"), [op |-> "forget", ssid |-> home], [op |-> "disconnect"]}

MCSaved == {Connect(home, "good")}

MCAirs == {{home, cafe}, {}}
=============================================================================
