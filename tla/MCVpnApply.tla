----------------------------- MODULE MCVpnApply -----------------------------
(* Instances of VpnApply for TLC. *)
EXTENDS VpnApply, TLC

CONSTANTS t1, t2, t3

MCTasks2 == {t1, t2}
MCTasks3 == {t1, t2, t3}

Wg(role, all) == [backend |-> "wireguard", role |-> role, routeAll |-> all]
Ts(role)      == [backend |-> "tailscale", role |-> role, routeAll |-> TRUE]

MCConfigs == {Off, Wg("travel", TRUE), Wg("travel", FALSE), Wg("home", TRUE),
              Ts("travel"), Ts("home")}

Symmetry2 == Permutations(MCTasks2)
Symmetry3 == Permutations(MCTasks3)
=============================================================================
