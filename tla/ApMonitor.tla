----------------------------- MODULE ApMonitor ------------------------------
(***************************************************************************)
(* The access point of a device without NetworkManager: hostapd on a       *)
(* virtual interface of the radio the uplink (STA) uses too, and dnsmasq   *)
(* beside it (src/ap/, src/dhcp/, src/main.rs).                            *)
(*                                                                         *)
(* Three kinds of task start and stop them, with no lock between them: main*)
(* at boot (start_ap), every apply_config task, and the channel monitor,   *)
(* which looks every five seconds and works from the configuration the     *)
(* daemon was started with.                                                *)
(***************************************************************************)
EXTENDS Naturals, SequencesExt

CONSTANTS
    Applies,      \* ids of the apply_config tasks of a run
    Boot,         \* main, starting the access point
    Names,        \* values of the settings other than the channel
    CfgChannels,  \* values of ap_channel, 0 for automatic
    StaChannels,  \* channels the uplink can be on
    None,
    MaxMoves,     \* bound on changes of the uplink
    MaxDeaths,    \* bound on deaths of hostapd
    Fallible,     \* the commands that may fail: "iw", "hostapd", "dnsmasq"
    MaxFaults     \* bound on their transient failures

Starters == Applies \cup {Boot}
Safe     == {1, 6, 11}
Band24   == 1..13
Channels == Safe \cup StaChannels \cup (CfgChannels \ {0})
Settings == [name : Names, chan : CfgChannels]
ApConf   == [cfg : Settings, ch : Channels]

ASSUME ApAssumption ==
    /\ Boot \notin Applies
    /\ CfgChannels \subseteq Nat /\ 0 \in CfgChannels
    /\ StaChannels \subseteq Nat \ {0}
    /\ None \notin StaChannels \cup ApConf \cup Settings
    /\ MaxMoves \in Nat /\ MaxDeaths \in Nat /\ MaxFaults \in Nat

VARIABLES
    sta,      \* channel of the connected uplink, or None
    saved,    \* the configuration last saved
    bootCfg,  \* the clone the monitor was given
    cfg,      \* cfg[p]: the clone a starter works from
    pc, mpc,  \* where each starter, and the monitor, is
    cand,     \* cand[p]: channels start_hostapd has still to try
    mch,      \* the channel the monitor wants
    hconf,    \* /etc/hostapd/travel-net.conf
    iface,    \* the AP interface; "stale" after a hostapd left it
    serving,  \* what the hostapd on that interface runs, or None
    orphan,   \* a hostapd whose interface was deleted is still running
    dconf,    \* /etc/travel-net/dnsmasq.conf
    dhcp,     \* what dnsmasq runs, or None
    moves, deaths, faults

bounds == <<moves, deaths, faults>>
vars == <<sta, saved, bootCfg, cfg, pc, mpc, cand, mch, hconf, iface, serving,
          orphan, dconf, dhcp, bounds>>

TypeOK ==
    /\ sta \in StaChannels \cup {None}
    /\ saved \in Settings /\ bootCfg \in Settings
    /\ cfg \in [Starters -> Settings]
    /\ pc \in [Starters -> {"idle", "create", "stop", "detect", "recreate", "spawn",
                            "dhcpStop", "dhcpStart", "done", "error"}]
    /\ mpc \in {"sleep", "compare", "stop", "recreate", "spawn", "dhcpStop", "dhcpStart"}
    /\ cand \in [Starters -> Seq(Channels)]
    /\ mch \in Channels
    /\ hconf \in ApConf \cup {None}
    /\ iface \in {"absent", "fresh", "busy", "stale"}
    /\ serving \in ApConf \cup {None}
    /\ orphan \in BOOLEAN
    /\ dconf \in Settings \cup {None}
    /\ dhcp \in Settings \cup {None}
    /\ moves \in 0..MaxMoves /\ deaths \in 0..MaxDeaths /\ faults \in 0..MaxFaults
    /\ serving # None <=> iface = "busy"

Init ==
    /\ sta \in StaChannels \cup {None}
    /\ saved \in Settings
    /\ bootCfg = saved
    /\ cfg = [p \in Starters |-> saved]
    /\ pc = [p \in Starters |-> IF p = Boot THEN "create" ELSE "idle"]
    /\ mpc = "sleep"
    /\ cand = [p \in Starters |-> <<>>]
    /\ mch = 6
    /\ hconf = None /\ iface = "absent" /\ serving = None /\ orphan = FALSE
    /\ dconf = None /\ dhcp = None
    /\ moves = 0 /\ deaths = 0 /\ faults = 0

-----------------------------------------------------------------------------
(* Shared commands *)

Fault(command) == command \in Fallible /\ faults < MaxFaults /\ faults' = faults + 1
NoFault == UNCHANGED faults

\* hostapd::is_running is pgrep: any hostapd will do.
IsRunning == serving # None \/ orphan

\* Faulty variant: only the hostapd of the pid file is killed.
KillByPid ==
    /\ serving' = None
    /\ UNCHANGED orphan
    /\ iface' = IF iface = "busy" THEN "stale" ELSE iface

\* stop_hostapd: pkill takes every hostapd and leaves the interface unusable.
KillHostapd ==
    /\ serving' = None
    /\ orphan' = FALSE
    /\ iface' = IF iface = "busy" THEN "stale" ELSE iface

\* iw del, create_ap_interface, assign_ap_ip: a hostapd on the old interface
\* keeps running without one.
Recreate(made) ==
    /\ iface' = IF made THEN "fresh" ELSE "absent"
    /\ orphan' = (orphan \/ serving # None)
    /\ serving' = None

\* iw del fails, which is passed over; create_ap_interface takes the interface
\* that is there, whoever used it.
ReuseInterface == iface # "absent" /\ Fault("iw") /\ UNCHANGED <<iface, serving, orphan>>

\* hostapd -B: reads the configuration there is, needs an interface no other
\* hostapd has used, and with hw_mode=g refuses every 5 GHz channel.
CanStart == iface = "fresh" /\ hconf.ch \in Band24

SpawnOk == CanStart /\ serving' = hconf /\ iface' = "busy" /\ UNCHANGED orphan

\* dnsmasq cannot start beside another one.
DhcpOk == dhcp = None /\ dhcp' = dconf

-----------------------------------------------------------------------------
(* start_ap at boot, and the tail of apply_config *)

Goto(p, step) == pc' = [pc EXCEPT ![p] = step]

\* api_config_post: saved, and apply_config spawned with a clone.
Submit(p) ==
    /\ p \in Applies /\ pc[p] = "idle" /\ pc[Boot] \in {"done", "error"}
    /\ \E c \in Settings : saved' = c /\ cfg' = [cfg EXCEPT ![p] = c]
    /\ Goto(p, "stop")
    /\ UNCHANGED <<sta, bootCfg, mpc, cand, mch, hconf, iface, serving, orphan,
                   dconf, dhcp, bounds>>

\* start_ap at boot: without an interface main goes on to dnsmasq.
Create(p) ==
    /\ pc[p] = "create"
    /\ \/ iface' = "fresh" /\ NoFault /\ Goto(p, "detect")
       \/ UNCHANGED iface /\ Fault("iw") /\ Goto(p, "dhcpStop")
    /\ UNCHANGED <<sta, saved, bootCfg, cfg, mpc, cand, mch, hconf, serving, orphan,
                   dconf, dhcp, moves, deaths>>

Stop(p) ==
    /\ pc[p] = "stop"
    /\ KillHostapd
    /\ Goto(p, "detect")
    /\ UNCHANGED <<sta, saved, bootCfg, cfg, mpc, cand, mch, hconf, dconf, dhcp, bounds>>

\* A channel goes to the end of the list, unless it is none or already there.
Push(list, c) == IF c = 0 \/ Contains(list, c) THEN list ELSE Append(list, c)

\* Faulty variant: channel 0, automatic, is tried as a channel.
CandidatesWithZero(chan, staCh, scanned) ==
    LET detected == Push(<<chan>>, IF staCh = None THEN scanned ELSE staCh)
    IN  Push(Push(Push(detected, 6), 1), 11)

\* The channels in order of preference, each once: configured, the uplink's,
\* the least congested (scanned only without an uplink), the safe ones.
Candidates(chan, staCh, scanned) ==
    LET detected == Push(Push(<<>>, chan), IF staCh = None THEN scanned ELSE staCh)
    IN  Push(Push(Push(detected, 6), 1), 11)

\* start_hostapd stops hostapd again and works out its candidates.
Detect(p) ==
    /\ pc[p] = "detect"
    /\ KillHostapd
    /\ \E scanned \in Safe : cand' = [cand EXCEPT ![p] = Candidates(cfg[p].chan, sta, scanned)]
    /\ Goto(p, "recreate")
    /\ UNCHANGED <<sta, saved, bootCfg, cfg, mpc, mch, hconf, dconf, dhcp, bounds>>

\* One attempt: a new interface, whether or not that works, and the file.
RecreateFor(p) ==
    /\ pc[p] = "recreate"
    /\ \/ Recreate(TRUE) /\ NoFault
       \/ Recreate(FALSE) /\ Fault("iw")
       \/ ReuseInterface
    /\ hconf' = [cfg |-> cfg[p], ch |-> Head(cand[p])]
    /\ cand' = [cand EXCEPT ![p] = Tail(@)]
    /\ Goto(p, "spawn")
    /\ UNCHANGED <<sta, saved, bootCfg, cfg, mpc, mch, dconf, dhcp, moves, deaths>>

\* A failed attempt stops every hostapd before the next.  Out of channels,
\* apply_config gives up; main goes on to dnsmasq.
Spawn(p) ==
    /\ pc[p] = "spawn"
    /\ \/ SpawnOk /\ NoFault /\ Goto(p, "dhcpStop")
       \/ /\ \/ ~CanStart /\ NoFault
             \/ CanStart /\ Fault("hostapd")
          /\ serving' = None
          /\ orphan' = FALSE
          /\ iface' = IF iface = "absent" THEN "absent" ELSE "stale"
          /\ Goto(p, IF cand[p] # <<>> THEN "recreate"
                     ELSE IF p = Boot THEN "dhcpStop" ELSE "error")
    /\ UNCHANGED <<sta, saved, bootCfg, cfg, mpc, cand, mch, hconf, dconf, dhcp,
                   moves, deaths>>

DhcpStop(p) ==
    /\ pc[p] = "dhcpStop"
    /\ dconf' = cfg[p]
    /\ dhcp' = None
    /\ Goto(p, "dhcpStart")
    /\ UNCHANGED <<sta, saved, bootCfg, cfg, mpc, cand, mch, hconf, iface, serving,
                   orphan, bounds>>

DhcpStart(p) ==
    /\ pc[p] = "dhcpStart"
    /\ \/ DhcpOk /\ NoFault /\ Goto(p, "done")
       \/ /\ \/ dhcp # None /\ NoFault
             \/ Fault("dnsmasq")
          /\ UNCHANGED dhcp
          /\ Goto(p, "error")
    /\ UNCHANGED <<sta, saved, bootCfg, cfg, mpc, cand, mch, hconf, iface, serving,
                   orphan, dconf, moves, deaths>>

StarterStep(p) ==
    \/ Create(p) \/ Stop(p) \/ Detect(p) \/ RecreateFor(p) \/ Spawn(p)
    \/ DhcpStop(p) \/ DhcpStart(p)

-----------------------------------------------------------------------------
(* start_ap_channel_monitor *)

Booted == pc[Boot] \in {"done", "error"}
ByMonitor == UNCHANGED <<sta, saved, bootCfg, cfg, pc, cand, moves, deaths>>

\* A pass that finds no hostapd restarts on the channel resolve_ap_channel
\* picks: the configured one first, then the uplink's, then a scan's.
FindDead ==
    /\ Booted /\ mpc = "sleep" /\ ~IsRunning
    /\ mch' \in IF bootCfg.chan # 0 THEN {bootCfg.chan}
               ELSE IF sta # None THEN {sta}
               ELSE Safe
    /\ mpc' = "stop"
    /\ ByMonitor
    /\ UNCHANGED <<hconf, iface, serving, orphan, dconf, dhcp, faults>>

\* A pass that finds one asks first for the uplink's channel ...
SeeUplink ==
    /\ Booted /\ mpc = "sleep" /\ IsRunning /\ sta # None
    /\ mch' = sta
    /\ mpc' = "compare"
    /\ ByMonitor
    /\ UNCHANGED <<hconf, iface, serving, orphan, dconf, dhcp, faults>>

\* Faulty variant: an access point that runs is left alone.
CompareNothing ==
    /\ mpc = "compare"
    /\ mpc' = "sleep"
    /\ ByMonitor
    /\ UNCHANGED <<mch, hconf, iface, serving, orphan, dconf, dhcp, faults>>

\* ... then for the access point's, which may be none yet.
Compare ==
    /\ mpc = "compare"
    /\ mpc' = IF serving # None /\ serving.ch # mch THEN "stop" ELSE "sleep"
    /\ ByMonitor
    /\ UNCHANGED <<mch, hconf, iface, serving, orphan, dconf, dhcp, faults>>

\* stop_ap
MonitorStop ==
    /\ mpc = "stop"
    /\ KillHostapd
    /\ dhcp' = None
    /\ mpc' = "recreate"
    /\ ByMonitor
    /\ UNCHANGED <<mch, hconf, dconf, faults>>

\* restart_ap_on_channel, with the configuration of the boot: one attempt,
\* given up at the first error and not cleaned up.
MonitorRecreate ==
    /\ mpc = "recreate"
    /\ \/ /\ (Recreate(TRUE) /\ NoFault) \/ ReuseInterface
          /\ hconf' = [cfg |-> bootCfg, ch |-> mch]
          /\ mpc' = "spawn"
       \/ /\ Recreate(FALSE) /\ Fault("iw")
          /\ mpc' = "sleep"
          /\ UNCHANGED hconf
    /\ ByMonitor
    /\ UNCHANGED <<mch, dconf, dhcp>>

\* Faulty variant: dnsmasq is not started again.
MonitorSpawnOnly ==
    /\ mpc = "spawn"
    /\ \/ SpawnOk /\ NoFault
       \/ /\ \/ ~CanStart /\ NoFault
             \/ CanStart /\ Fault("hostapd")
          /\ iface' = IF iface = "fresh" THEN "stale" ELSE iface
          /\ UNCHANGED <<serving, orphan>>
    /\ mpc' = "sleep"
    /\ ByMonitor
    /\ UNCHANGED <<mch, hconf, dconf, dhcp>>

MonitorSpawn ==
    /\ mpc = "spawn"
    /\ \/ SpawnOk /\ NoFault /\ mpc' = "dhcpStop"
       \/ /\ \/ ~CanStart /\ NoFault
             \/ CanStart /\ Fault("hostapd")
          /\ iface' = IF iface = "fresh" THEN "stale" ELSE iface
          /\ mpc' = "sleep"
          /\ UNCHANGED <<serving, orphan>>
    /\ ByMonitor
    /\ UNCHANGED <<mch, hconf, dconf, dhcp>>

MonitorDhcpStop ==
    /\ mpc = "dhcpStop"
    /\ dconf' = bootCfg
    /\ dhcp' = None
    /\ mpc' = "dhcpStart"
    /\ ByMonitor
    /\ UNCHANGED <<mch, hconf, iface, serving, orphan, faults>>

\* The result is ignored.
MonitorDhcpStart ==
    /\ mpc = "dhcpStart"
    /\ \/ DhcpOk /\ NoFault
       \/ /\ \/ dhcp # None /\ NoFault
             \/ Fault("dnsmasq")
          /\ UNCHANGED dhcp
    /\ mpc' = "sleep"
    /\ ByMonitor
    /\ UNCHANGED <<mch, hconf, iface, serving, orphan, dconf>>

Monitor ==
    \/ FindDead \/ SeeUplink \/ Compare \/ MonitorStop \/ MonitorRecreate
    \/ MonitorSpawn \/ MonitorDhcpStop \/ MonitorDhcpStart

-----------------------------------------------------------------------------
(* The environment *)

\* The uplink connects, roams or is lost.
UplinkMoves ==
    /\ moves < MaxMoves
    /\ \E c \in (StaChannels \cup {None}) \ {sta} : sta' = c
    /\ moves' = moves + 1
    /\ UNCHANGED <<saved, bootCfg, cfg, pc, mpc, cand, mch, hconf, iface, serving,
                   orphan, dconf, dhcp, deaths, faults>>

HostapdDies ==
    /\ serving # None /\ deaths < MaxDeaths
    /\ serving' = None /\ iface' = "stale"
    /\ deaths' = deaths + 1
    /\ UNCHANGED <<sta, saved, bootCfg, cfg, pc, mpc, cand, mch, hconf, orphan,
                   dconf, dhcp, moves, faults>>

-----------------------------------------------------------------------------

Next ==
    \/ \E p \in Starters : Submit(p) \/ StarterStep(p)
    \/ Monitor
    \/ UplinkMoves
    \/ HostapdDies

Spec == Init /\ [][Next]_vars

\* A task that can run is run; nothing is assumed of uplink, users or failures.
FairSpec ==
    /\ Spec
    /\ WF_vars(Monitor)
    /\ \A p \in Starters : WF_vars(StarterStep(p))

-----------------------------------------------------------------------------
(* Properties *)

\* A hostapd without an interface: pgrep finds it, so the monitor sees an
\* access point that runs, and iw reports no channel to compare.
Masked == orphan /\ serving = None

\* Once the uplink stays put, the access point comes up and stays up, and on the
\* uplink's channel when there is an uplink, whatever died, failed or was
\* applied before; except behind a hostapd that lost its interface
\* (start_ap_channel_monitor).
ApInSync ==
    <>[](Masked \/ (serving # None /\ (sta # None => serving.ch = sta)))

\* Clients eventually get addresses again and keep getting them, although every
\* restart of the access point stops dnsmasq (stop_ap, apply_config).
DhcpUp == <>[](Masked \/ dhcp # None)

\* Starters and monitor replace each other's interface, but by that alone never
\* leave such a hostapd in charge: it takes a command that failed, a hostapd
\* that died, or a channel hw_mode=g refuses, which the monitor tries once and
\* does not clean up after (start_hostapd, restart_ap_on_channel).
MaskedNeedsFailure ==
    Masked => \/ faults + deaths > 0
              \/ mpc = "spawn" \/ \E p \in Starters : pc[p] = "spawn"
              \/ hconf.ch \notin Band24

\* An access point that is down comes back: "If the AP ever dies ... the monitor
\* restarts the AP" (main.rs).
ApComesBack == (serving = None) ~> (serving # None)
=============================================================================
