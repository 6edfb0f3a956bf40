--------------------------- MODULE MCConfigStore ----------------------------
(* Instances of ConfigStore for TLC. *)
EXTENDS ConfigStore, TLC

CONSTANTS h1, h2, h3, ap1, ap2, badAp, home, cafe, secret, k1, k2, alice, bob, ip1

MCHandlers2 == {h1, h2}
MCHandlers3 == {h1, h2, h3}
MCSavers2 == MCHandlers2 \X {"handler", "task"}
MCSavers3 == MCHandlers3 \X {"handler", "task"}

Form(mode, key) ==
    [mode |-> mode, filled |-> TRUE, ownKey |-> key, peerKey |-> key,
     serverKey |-> key, peers |-> {}]

ConfigRequest(ap, sta, web) == [kind |-> "config", ap |-> ap, sta |-> sta, web |-> web]

\* One request of every kind, and of every outcome its handler distinguishes.
LockedRequests ==
    {[kind |-> "vpn", vpn |-> Form("home", k1)],
     [kind |-> "vpn", vpn |-> Form("travel", NoKey)],
     [kind |-> "genkeys", scope |-> "client", key |-> k2],
     [kind |-> "add", name |-> alice, ip |-> AnyIp],
     [kind |-> "add", name |-> bob, ip |-> ip1],
     [kind |-> "remove", name |-> alice],
     [kind |-> "connect", sta |-> cafe, persist |-> TRUE],
     [kind |-> "connect", sta |-> home, persist |-> FALSE],
     [kind |-> "disconnect", persist |-> TRUE],
     [kind |-> "writable"]}

UnlockedRequests ==
    {ConfigRequest(ap2, home, Unset),
     ConfigRequest(badAp, Unset, secret),
     ConfigRequest(Unset, Unset, secret),
     [kind |-> "reset"]}

AllRequests == LockedRequests \cup UnlockedRequests

Symmetry2 == Permutations(MCHandlers2)
Symmetry3 == Permutations(MCHandlers3)
=============================================================================
