------------------------------ MODULE VpnApply ------------------------------
(***************************************************************************)
(* Bringing the saved VPN settings into the kernel: vpn::apply, the nft    *)
(* table it owns, the kill switch, and firewall::apply_ruleset, which      *)
(* flushes that table and asserts it again (src/vpn/mod.rs,                *)
(* src/firewall/mod.rs, the boot order of src/main.rs).                    *)
(*                                                                         *)
(* Each is a program of external commands (nft, wg-quick, tailscale), run  *)
(* one after the other by a task of its own.  Nothing orders one task      *)
(* after another: every save spawns one, and each works from the settings  *)
(* it was given.  Any command may fail.  One under `?' ends its task; one  *)
(* whose result is bound to `_' (the removals: nft delete table, wg-quick  *)
(* down, tailscale down) is passed over, and what it should have removed   *)
(* stays.                                                                  *)
(***************************************************************************)
EXTENDS Naturals, Sequences

CONSTANTS
    Tasks,        \* background tasks of a run
    BootFirewall, BootVpn, \* the two programs main runs before it serves
    Configs,      \* VpnConfigs that pass validation
    NoConf, NoRule,
    Overlap,      \* FALSE: a request is sent only when no task is running
    MaxRestarts   \* bound on restarts

ConfigType ==
    [backend : {"none", "wireguard", "tailscale"}, role : {"home", "travel"},
     routeAll : BOOLEAN]

Off == [backend |-> "none", role |-> "travel", routeAll |-> TRUE]

Boot == {BootFirewall, BootVpn}
All  == Tasks \cup Boot

ASSUME VpnAssumption ==
    /\ Off \in Configs /\ Configs \subseteq ConfigType
    /\ Tasks \cap Boot = {} /\ BootFirewall # BootVpn
    /\ NoConf \notin Configs
    /\ NoRule \notin {"wg0", "tailscale0"}
    /\ Overlap \in BOOLEAN
    /\ MaxRestarts \in Nat

VARIABLES
    wanted,    \* the VpnConfig last saved
    latest,    \* the task vpn::apply was last handed to
    cfg,       \* cfg[t]: the clone task t works from
    kind,      \* vpn::apply or firewall::apply_ruleset
    todo,      \* todo[t]: the commands left to it
    outcome,   \* how it ended
    lastError, \* LAST_VPN_ERROR is not empty
    table,     \* nft table inet travel-vpn exists
    drop,      \* interface its killswitch chain spares, NoRule when empty
    conf,      \* /etc/wireguard/wg0.conf
    wg,        \* the configuration wg0 is up with, or NoConf
    handshake, \* wg0 has seen a handshake since it came up
    ts,        \* tailscale's BackendState
    kept,      \* what the last attempt to remove it left in place
    restarts

kernelVars == <<table, drop, conf, wg, handshake, ts, kept>>
vars == <<wanted, latest, cfg, kind, todo, outcome, lastError, kernelVars, restarts>>

Commands == {"nftDelete", "nftFlush", "nftLoad", "wgConf", "wgDown", "wgUp",
             "tsUp", "tsDown", "probe", "chainFlush", "chainDrop"}

TypeOK ==
    /\ wanted \in Configs
    /\ latest \in All
    /\ cfg \in [All -> Configs]
    /\ kind \in [All -> {"vpn", "firewall"}]
    /\ todo \in [All -> Seq(Commands)]
    /\ outcome \in [All -> {"idle", "running", "ok", "warned", "error"}]
    /\ lastError \in BOOLEAN
    /\ table \in BOOLEAN
    /\ drop \in {"wg0", "tailscale0", NoRule}
    /\ conf \in Configs \cup {NoConf}
    /\ wg \in Configs \cup {NoConf}
    /\ handshake \in BOOLEAN
    /\ ts \in {"Stopped", "Running", "NeedsLogin"}
    /\ kept \subseteq {"table", "wg0", "tailscale"}
    /\ restarts \in 0..MaxRestarts

-----------------------------------------------------------------------------
(* Programs *)

\* nft_assert, and reassert_rules = nft_assert and sync_kill_switch.
NftAssert == <<"nftDelete", "nftLoad">>
Reassert  == NftAssert \o <<"probe">>

\* Faulty variants of vpn::apply: "none" forgets Tailscale, and Tailscale
\* forgets WireGuard.
VpnProgramKeepsTs(c) ==
    <<"nftDelete">> \o
    CASE c.backend = "wireguard" -> <<"wgConf", "wgDown">> \o NftAssert \o <<"wgUp", "probe">>
      [] c.backend = "tailscale" -> <<"wgDown">> \o NftAssert \o <<"tsUp", "probe">>
      [] c.backend = "none"      -> <<"wgDown">>

VpnProgramKeepsWg(c) ==
    <<"nftDelete">> \o
    CASE c.backend = "wireguard" -> <<"wgConf", "wgDown">> \o NftAssert \o <<"wgUp", "probe">>
      [] c.backend = "tailscale" -> NftAssert \o <<"tsUp", "probe">>
      [] c.backend = "none"      -> <<"wgDown", "tsDown">>

\* vpn::apply: nft_teardown, then by backend and role.  WireGuard leaves
\* Tailscale as it finds it.
VpnProgram(c) ==
    <<"nftDelete">> \o
    CASE c.backend = "wireguard" /\ c.role = "travel" ->
            <<"wgConf", "wgDown">> \o NftAssert \o <<"wgUp", "probe">>
      [] c.backend = "wireguard" /\ c.role = "home" ->
            <<"wgConf", "wgDown">> \o NftAssert \o <<"wgUp">>
      [] c.backend = "tailscale" -> <<"wgDown">> \o NftAssert \o <<"tsUp", "probe">>
      [] c.backend = "none"      -> <<"wgDown", "tsDown">>

\* Faulty variant: the table is put back without the kill switch.
FirewallProgramBare(c) ==
    <<"nftFlush">> \o IF c.backend = "none" THEN <<>> ELSE NftAssert

\* firewall::apply_ruleset.
FirewallProgram(c) ==
    <<"nftFlush">> \o IF c.backend = "none" THEN <<>> ELSE Reassert

\* Faulty variant: the interface is named after the backend.
TunnelIfaceByName(c) == c.backend

TunnelIface(c) == IF c.backend = "tailscale" THEN "tailscale0" ELSE "wg0"

\* wireguard_status and tailscale_status as sync_kill_switch reads them.
Healthy(c) ==
    CASE c.backend = "none"      -> TRUE
      [] c.backend = "wireguard" -> wg # NoConf /\ handshake
      [] c.backend = "tailscale" -> ts = "Running"

\* Faulty variant: the role is not looked at.
KillSwitchAnyRole(c, healthy) ==
    IF healthy \/ (c.backend = "wireguard" /\ ~c.routeAll)
    THEN <<"chainFlush">>
    ELSE <<"chainFlush", "chainDrop">>

\* sync_kill_switch: clear for a home box, for WireGuard without route-all and
\* for a tunnel that looks healthy; set otherwise.
KillSwitchProgram(c, healthy) ==
    IF c.role # "travel" \/ healthy \/ (c.backend = "wireguard" /\ ~c.routeAll)
    THEN <<"chainFlush">>
    ELSE <<"chainFlush", "chainDrop">>

-----------------------------------------------------------------------------
\* First boot: defaults, and main about to run its two programs.
Init ==
    /\ wanted = Off
    /\ latest = BootVpn
    /\ cfg = [t \in All |-> Off]
    /\ kind = [t \in All |-> IF t = BootFirewall THEN "firewall" ELSE "vpn"]
    /\ todo = [t \in All |->
                 CASE t = BootFirewall -> FirewallProgram(Off)
                   [] t = BootVpn      -> VpnProgram(Off)
                   [] OTHER            -> <<>>]
    /\ outcome = [t \in All |-> IF t \in Boot THEN "running" ELSE "idle"]
    /\ lastError = FALSE
    /\ table = FALSE /\ drop = NoRule
    /\ conf = NoConf /\ wg = NoConf /\ handshake = FALSE
    /\ ts = "Stopped" /\ kept = {}
    /\ restarts = 0

Running(t) == todo[t] # <<>>

Served == \A t \in Boot : ~Running(t)

MaySubmit(t) ==
    /\ outcome[t] = "idle"
    /\ Served
    /\ Overlap \/ \A u \in All : ~Running(u)

\* api_vpn_post, api_vpn_peers: the settings are saved and vpn::apply spawned
\* with a clone.
SubmitVpn(t) ==
    /\ t \in Tasks
    /\ MaySubmit(t)
    /\ \E c \in Configs :
         /\ wanted' = c
         /\ cfg' = [cfg EXCEPT ![t] = c]
         /\ todo' = [todo EXCEPT ![t] = VpnProgram(c)]
    /\ latest' = t
    /\ kind' = [kind EXCEPT ![t] = "vpn"]
    /\ outcome' = [outcome EXCEPT ![t] = "running"]
    /\ UNCHANGED <<lastError, kernelVars, restarts>>

\* api_config_post: apply_config ends in apply_ruleset, with the VPN settings
\* of the clone it was spawned with.
SubmitFirewall(t) ==
    /\ t \in Tasks
    /\ MaySubmit(t)
    /\ cfg' = [cfg EXCEPT ![t] = wanted]
    /\ kind' = [kind EXCEPT ![t] = "firewall"]
    /\ todo' = [todo EXCEPT ![t] = FirewallProgram(wanted)]
    /\ outcome' = [outcome EXCEPT ![t] = "running"]
    /\ UNCHANGED <<wanted, latest, lastError, kernelVars, restarts>>

\* api_reset: the defaults are saved and apply_config spawned with them;
\* vpn::apply is not called.
SubmitReset(t) ==
    /\ t \in Tasks
    /\ MaySubmit(t)
    /\ wanted' = Off
    /\ cfg' = [cfg EXCEPT ![t] = Off]
    /\ kind' = [kind EXCEPT ![t] = "firewall"]
    /\ todo' = [todo EXCEPT ![t] = FirewallProgram(Off)]
    /\ outcome' = [outcome EXCEPT ![t] = "running"]
    /\ UNCHANGED <<latest, lastError, kernelVars, restarts>>

-----------------------------------------------------------------------------
At(t, command) ==
    /\ Running(t)
    /\ Head(todo[t]) = command
    /\ t = BootVpn => ~Running(BootFirewall)

\* Faulty variant: every task records its end.
RecordAlways(t, failed, before) == lastError' = failed

\* apply_vpn_in_background records how vpn::apply ended; main and
\* apply_ruleset only log it.
Record(t, failed, before) ==
    lastError' = IF kind[t] = "vpn" /\ t \notin Boot THEN failed ELSE before

\* rest is left to do.
Proceed(t, rest, error) ==
    /\ todo' = [todo EXCEPT ![t] = rest]
    /\ IF rest = <<>>
       THEN outcome' = [outcome EXCEPT ![t] = "ok"] /\ Record(t, FALSE, error)
       ELSE UNCHANGED outcome /\ lastError' = error
    /\ UNCHANGED <<wanted, latest, cfg, kind, restarts>>

\* A command under `?' failed.  apply_ruleset only logs a failed re-assertion.
Abort(t, error) ==
    /\ todo' = [todo EXCEPT ![t] = <<>>]
    /\ outcome' = [outcome EXCEPT ![t] =
                     IF kind[t] = "firewall" /\ Head(todo[t]) # "nftFlush"
                     THEN "warned" ELSE "error"]
    /\ Record(t, TRUE, error)
    /\ UNCHANGED <<wanted, latest, cfg, kind, restarts>>

Continue(t) == Proceed(t, Tail(todo[t]), lastError)

-----------------------------------------------------------------------------
(* Commands *)

\* The table goes, or the failure is passed over and it stays with its rule.
NftDelete(t) ==
    /\ At(t, "nftDelete")
    /\ \/ table' = FALSE /\ drop' = NoRule /\ kept' = kept \ {"table"}
       \/ table /\ kept' = kept \cup {"table"} /\ UNCHANGED <<table, drop>>
    /\ Continue(t)
    /\ UNCHANGED <<conf, wg, handshake, ts>>

\* The main ruleset starts with `flush ruleset', which takes every table.  A
\* failure is this command's or that of a step before it.
NftFlush(t) ==
    /\ At(t, "nftFlush")
    /\ \/ /\ table' = FALSE /\ drop' = NoRule /\ kept' = kept \ {"table"}
          /\ Continue(t)
       \/ /\ kept' = IF table THEN kept \cup {"table"} ELSE kept
          /\ Abort(t, lastError)
          /\ UNCHANGED <<table, drop>>
    /\ UNCHANGED <<conf, wg, handshake, ts>>

\* Loading the table over one that exists adds to it and empties no chain.
NftLoad(t) ==
    /\ At(t, "nftLoad")
    /\ \/ table' = TRUE /\ Continue(t)
       \/ Abort(t, lastError) /\ UNCHANGED table
    /\ UNCHANGED <<drop, conf, wg, handshake, ts, kept>>

WgConf(t) ==
    /\ At(t, "wgConf")
    /\ \/ conf' = cfg[t] /\ Continue(t)
       \/ Abort(t, lastError) /\ UNCHANGED conf
    /\ UNCHANGED <<table, drop, wg, handshake, ts, kept>>

WgDown(t) ==
    /\ At(t, "wgDown")
    /\ \/ wg' = NoConf /\ handshake' = FALSE /\ kept' = kept \ {"wg0"}
       \/ wg # NoConf /\ kept' = kept \cup {"wg0"} /\ UNCHANGED <<wg, handshake>>
    /\ Continue(t)
    /\ UNCHANGED <<table, drop, conf, ts>>

\* wg-quick reads the file another task may have replaced, and refuses an
\* interface that is already up.
WgUp(t) ==
    /\ At(t, "wgUp")
    /\ \/ /\ wg = NoConf
          /\ wg' = conf
          /\ Continue(t)
       \/ Abort(t, lastError) /\ UNCHANGED wg
    /\ UNCHANGED <<table, drop, conf, handshake, ts, kept>>

\* tailscale_up keeps LAST_VPN_ERROR itself; a refused key leaves the node
\* asking for a login.
TsUp(t) ==
    /\ At(t, "tsUp")
    /\ \/ ts' = "Running" /\ Proceed(t, Tail(todo[t]), FALSE)
       \/ ts' \in {ts, "NeedsLogin"} /\ Abort(t, TRUE)
    /\ UNCHANGED <<table, drop, conf, wg, handshake, kept>>

TsDown(t) ==
    /\ At(t, "tsDown")
    /\ \/ ts' = "Stopped" /\ kept' = kept \ {"tailscale"}
       \/ ts # "Stopped" /\ kept' = kept \cup {"tailscale"} /\ UNCHANGED ts
    /\ Continue(t)
    /\ UNCHANGED <<table, drop, conf, wg, handshake>>

\* The tunnel is looked at here and the rule changed by what follows.  A
\* status command that fails reads as a tunnel that is down.
Probe(t) ==
    /\ At(t, "probe")
    /\ \E healthy \in {Healthy(cfg[t]), cfg[t].backend = "none"} :
         Proceed(t, KillSwitchProgram(cfg[t], healthy), lastError)
    /\ UNCHANGED kernelVars

ChainFlush(t) ==
    /\ At(t, "chainFlush")
    /\ \/ table /\ drop' = NoRule /\ Continue(t)
       \/ Abort(t, lastError) /\ UNCHANGED drop
    /\ UNCHANGED <<table, conf, wg, handshake, ts, kept>>

ChainDrop(t) ==
    /\ At(t, "chainDrop")
    /\ \/ table /\ drop' = TunnelIface(cfg[t]) /\ Continue(t)
       \/ Abort(t, lastError) /\ UNCHANGED drop
    /\ UNCHANGED <<table, conf, wg, handshake, ts, kept>>

Step(t) ==
    \/ NftDelete(t) \/ NftFlush(t) \/ NftLoad(t)
    \/ WgConf(t) \/ WgDown(t) \/ WgUp(t)
    \/ TsUp(t) \/ TsDown(t)
    \/ Probe(t) \/ ChainFlush(t) \/ ChainDrop(t)

-----------------------------------------------------------------------------
(* The tunnels, and the end of the daemon *)

Handshake ==
    /\ wg # NoConf /\ ~handshake
    /\ handshake' = TRUE
    /\ UNCHANGED <<wanted, latest, cfg, kind, todo, outcome, lastError, restarts,
                   table, drop, conf, wg, ts, kept>>

\* The exit node's key expires, the account signs the node out, or back in.
TailscaleChanges ==
    /\ \/ ts = "Running" /\ ts' = "NeedsLogin"
       \/ ts = "NeedsLogin" /\ ts' = "Running"
    /\ UNCHANGED <<wanted, latest, cfg, kind, todo, outcome, lastError, restarts,
                   table, drop, conf, wg, handshake, kept>>

\* The daemon is restarted, with the kernel as it was or after a reboot of
\* the box, and main starts over from the saved settings.
Restart ==
    /\ restarts < MaxRestarts
    /\ restarts' = restarts + 1
    /\ latest' = BootVpn
    /\ cfg' = [t \in All |-> IF t \in Boot THEN wanted ELSE cfg[t]]
    /\ todo' = [t \in All |->
                  CASE t = BootFirewall -> FirewallProgram(wanted)
                    [] t = BootVpn      -> VpnProgram(wanted)
                    [] OTHER            -> <<>>]
    /\ outcome' = [t \in All |-> IF t \in Boot THEN "running"
                                 ELSE IF Running(t) THEN "error" ELSE outcome[t]]
    /\ lastError' = FALSE
    /\ \/ UNCHANGED kernelVars
       \/ /\ table' = FALSE /\ drop' = NoRule
          /\ wg' = NoConf /\ handshake' = FALSE
          /\ kept' = kept \ {"table", "wg0"}
          /\ UNCHANGED <<conf, ts>>
    /\ UNCHANGED <<wanted, kind>>

Next ==
    \/ \E t \in Tasks : SubmitVpn(t) \/ SubmitFirewall(t) \/ SubmitReset(t)
    \/ \E t \in All : Step(t)
    \/ Handshake
    \/ TailscaleChanges
    \/ Restart

Spec == Init /\ [][Next]_vars

-----------------------------------------------------------------------------
(* Properties *)

Quiet == \A t \in All : ~Running(t)

\* Nobody was told of a failure, and none was logged.
NoFailure == \A t \in All : outcome[t] \notin {"warned", "error"}

\* When the vpn::apply handed to the system last was for backend "none" and
\* went through, no tunnel and no rule of the VPN is left, whatever was on
\* before and however that had failed.  The exceptions are the three removals
\* whose failure the code passes over (vpn/mod.rs 270, 356, 548): what such a
\* command could not remove itself.
NoneRestoresRouting ==
    Quiet /\ cfg[latest].backend = "none" /\ outcome[latest] = "ok" =>
        /\ table \/ drop # NoRule => "table" \in kept
        /\ wg # NoConf => "wg0" \in kept
        /\ ts = "Running" => "tailscale" \in kept

\* A box whose saved settings are not for travelling, or without a VPN, keeps
\* no rule that cuts its clients off: not from an earlier role, not after a
\* switch or a factory reset of which a step failed.  The one exception is a
\* table that could not be taken away at the last attempt: it is loaded over,
\* and a home box never looks at the chain (vpn/mod.rs 256-257, 602-608).
KillSwitchOnlyForTravel ==
    Quiet /\ (wanted.role # "travel" \/ wanted.backend = "none") =>
        drop = NoRule \/ "table" \in kept

\* Once the last vpn::apply went through, wg0 runs the settings it was given,
\* and is down when they are not for WireGuard, also after ruleset re-applies,
\* a factory reset and restarts.  The one exception is an interface that
\* wg-quick could not take down, which is noticed only when wg0 is to come up
\* again (vpn/mod.rs 356, 763, 770).
TunnelIsWanted ==
    Quiet /\ outcome[latest] = "ok" =>
        \/ wg = IF cfg[latest].backend = "wireguard" THEN cfg[latest] ELSE NoConf
        \/ cfg[latest].backend # "wireguard" /\ "wg0" \in kept

\* A travel box that routes everything through WireGuard drops its clients'
\* direct traffic for as long as the tunnel has not come up, provided that no
\* task reported or logged a failure: the rule is put back after every ruleset
\* flush (vpn/mod.rs 260-267, firewall/mod.rs 50-55).
KillSwitchUntilHandshake ==
    /\ Quiet /\ NoFailure
    /\ wanted = [backend |-> "wireguard", role |-> "travel", routeAll |-> TRUE]
    /\ ~handshake
    => table /\ drop = "wg0"

\* After a request the VPN page shows an error exactly when the vpn::apply of
\* the last one failed, whatever ruleset task ran since (api.rs 509-520).  Of
\* boot's vpn::apply it shows only what tailscale_up kept: main logs the rest
\* (main.rs 79-83, vpn/mod.rs 536-543).
ErrorShown ==
    Quiet =>
        /\ latest \in Tasks => (lastError <=> outcome[latest] = "error")
        /\ latest = BootVpn /\ lastError =>
             outcome[BootVpn] = "error" /\ cfg[BootVpn].backend = "tailscale"

-----------------------------------------------------------------------------
(* What the documentation says and the code does not do *)

\* docs/VPN_TECHNICAL.md 156 and 279: if the tunnel drops, travel devices lose
\* internet; the rules are re-asserted on state change.
KillSwitchOnDrop ==
    /\ Quiet /\ NoFailure
    /\ wanted.role = "travel" /\ wanted.backend = "tailscale" /\ wanted.routeAll
    /\ ts # "Running"
    => drop = "tailscale0"
=============================================================================
