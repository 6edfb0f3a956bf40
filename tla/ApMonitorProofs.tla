--------------------------- MODULE ApMonitorProofs ---------------------------
(***************************************************************************)
(* Theorems about ApMonitor, for any number of apply_config tasks, any     *)
(* channels, and any number of failures (src/ap/, src/dhcp/, src/main.rs). *)
(***************************************************************************)
EXTENDS ApMonitor, TLAPS

-----------------------------------------------------------------------------
(* The inductive invariant *)

\* Until main has started the access point nobody else touches it.
BootInv ==
    /\ \A p \in Starters : pc[p] = "create" => p = Boot
    /\ ~Booted => mpc = "sleep" /\ \A p \in Applies : pc[p] = "idle"
    /\ pc[Boot] = "create" => iface = "absent" /\ ~orphan

\* There is a channel left whenever one is about to be tried.
CandInv == \A p \in Starters : pc[p] = "recreate" => cand[p] # <<>>

Spawning == mpc = "spawn" \/ \E p \in Starters : pc[p] = "spawn"

\* Every hostapd that was started, or is about to be, has been given a file.
ConfInv == Spawning \/ serving # None \/ orphan => hconf # None

\* The one who took a running hostapd's interface has a fresh one, and starts
\* its own there unless something fails.
MaskInv ==
    Masked => \/ faults + deaths > 0
              \/ Spawning /\ iface = "fresh"
              \/ hconf.ch \notin Band24

ApInv == TypeOK /\ BootInv /\ CandInv /\ ConfInv /\ MaskInv

-----------------------------------------------------------------------------
(* The channels start_hostapd tries *)

\* Pushing a channel, or none, keeps a list of channels one.
LEMMA PushTyped ==
  ASSUME NEW list \in Seq(Channels), NEW c \in Channels \cup {0}
  PROVE  /\ Push(list, c) \in Seq(Channels)
         /\ c # 0 => Push(list, c) # <<>>
<1>1. CASE c = 0 \/ Contains(list, c)
  <2>1. Contains(list, c) => list # <<>>
    BY DEF Contains
  <2> QED BY <1>1, <2>1 DEF Push
<1>2. CASE ~(c = 0 \/ Contains(list, c))
  <2>1. c \in Channels /\ Push(list, c) = Append(list, c)
    BY <1>2 DEF Push
  <2> QED BY <2>1
<1> QED BY <1>1, <1>2

\* There is always a channel to try: the safe ones end the list.
LEMMA CandidatesTyped ==
  ASSUME NEW chan \in CfgChannels, NEW staCh \in StaChannels \cup {None}, NEW scanned \in Safe
  PROVE  /\ Candidates(chan, staCh, scanned) \in Seq(Channels)
         /\ Candidates(chan, staCh, scanned) # <<>>
<1>1. /\ chan \in Channels \cup {0}
      /\ (IF staCh = None THEN scanned ELSE staCh) \in Channels \cup {0}
      /\ 6 \in Channels /\ 1 \in Channels /\ 11 \in Channels /\ 11 # 0
  BY DEF Channels, Safe
<1>2. <<>> \in Seq(Channels)
  OBVIOUS
<1> DEFINE detected == Push(Push(<<>>, chan), IF staCh = None THEN scanned ELSE staCh)
<1>3. detected \in Seq(Channels)
  BY <1>1, <1>2, PushTyped
<1> HIDE DEF detected
<1>4. Push(Push(detected, 6), 1) \in Seq(Channels)
  BY <1>1, <1>3, PushTyped
<1>5. /\ Push(Push(Push(detected, 6), 1), 11) \in Seq(Channels)
      /\ Push(Push(Push(detected, 6), 1), 11) # <<>>
  BY <1>1, <1>4, PushTyped
<1> QED BY <1>5 DEF Candidates, detected

-----------------------------------------------------------------------------
(* Type correctness *)

\* The box is switched on.
LEMMA InitAp == Init => ApInv
<1> SUFFICES ASSUME Init PROVE ApInv
  OBVIOUS
<1>1. TypeOK
  <2>1. pc \in [Starters -> {"idle", "create", "stop", "detect", "recreate", "spawn",
                             "dhcpStop", "dhcpStart", "done", "error"}]
    BY DEF Init
  <2>2. cand \in [Starters -> Seq(Channels)] /\ mch \in Channels
    BY DEF Init, Channels, Safe
  <2>3. cfg \in [Starters -> Settings]
    BY DEF Init
  <2>4. moves \in 0..MaxMoves /\ deaths \in 0..MaxDeaths /\ faults \in 0..MaxFaults
    BY ApAssumption DEF Init
  <2> QED BY <2>1, <2>2, <2>3, <2>4 DEF Init, TypeOK
<1>2. BootInv /\ CandInv /\ ConfInv /\ MaskInv
  BY ApAssumption DEF Init, BootInv, Booted, CandInv, ConfInv, Spawning, MaskInv, Masked, Starters
<1> QED BY <1>1, <1>2 DEF ApInv

\* A command fails, or does not.
LEMMA FaultTyped ==
  ASSUME TypeOK
  PROVE  /\ \A command : Fault(command) => faults' \in 0..MaxFaults /\ faults' > 0
         /\ NoFault => faults' = faults
  BY ApAssumption DEF TypeOK, Fault, NoFault

\* A starter moves to one of its steps.
LEMMA StepTyped ==
  ASSUME TypeOK, NEW p \in Starters,
         NEW step \in {"stop", "detect", "recreate", "spawn", "dhcpStop", "dhcpStart",
                       "done", "error"},
         Goto(p, step)
  PROVE  /\ pc' \in [Starters -> {"idle", "create", "stop", "detect", "recreate", "spawn",
                                  "dhcpStop", "dhcpStart", "done", "error"}]
         /\ \A q \in Starters : pc'[q] = IF q = p THEN step ELSE pc[q]
  BY DEF TypeOK, Goto

\* Every step of a starter keeps the types.
LEMMA StarterTyped ==
  ASSUME ApInv, NEW p \in Starters, Submit(p) \/ StarterStep(p)
  PROVE  TypeOK'
<1> USE DEF ApInv
<1>1. CASE Submit(p)
  <2>1. PICK c \in Settings : saved' = c /\ cfg' = [cfg EXCEPT ![p] = c]
    BY <1>1 DEF Submit
  <2> QED BY <1>1, <2>1, StepTyped DEF Submit, TypeOK, bounds
<1>2. CASE Create(p)
  <2>1. serving = None
    BY <1>2 DEF Create, BootInv, TypeOK
  <2> QED BY <1>2, <2>1, StepTyped, FaultTyped DEF Create, TypeOK
<1>3. CASE Stop(p)
  <2>1. Goto(p, "detect") /\ KillHostapd
        /\ UNCHANGED <<sta, saved, bootCfg, cfg, mpc, cand, mch, hconf, dconf, dhcp, bounds>>
    BY <1>3 DEF Stop
  <2>2. iface' \in {"absent", "fresh", "stale"} /\ serving' = None /\ orphan' = FALSE
    BY <2>1 DEF KillHostapd, TypeOK
  <2>3. pc' \in [Starters -> {"idle", "create", "stop", "detect", "recreate", "spawn",
                              "dhcpStop", "dhcpStart", "done", "error"}]
    BY <2>1, StepTyped
  <2>4. serving' \in ApConf \cup {None} /\ orphan' \in BOOLEAN
        /\ (serving' # None <=> iface' = "busy")
    BY <2>2
  <2> HIDE DEF KillHostapd
  <2> QED BY <2>1, <2>2, <2>3, <2>4 DEF TypeOK, bounds
<1>4. CASE Detect(p)
  <2>1. cand' \in [Starters -> Seq(Channels)]
    <3>1. cfg[p].chan \in CfgChannels /\ sta \in StaChannels \cup {None}
      BY DEF TypeOK, Settings
    <3> QED BY <1>4, <3>1, CandidatesTyped DEF Detect, TypeOK
  <2> QED BY <1>4, <2>1, StepTyped DEF Detect, KillHostapd, TypeOK, bounds
<1>5. CASE RecreateFor(p)
  <2>1. cand[p] \in Seq(Channels) /\ cand[p] # <<>>
    BY <1>5 DEF RecreateFor, CandInv, TypeOK
  <2>2. Head(cand[p]) \in Channels /\ Tail(cand[p]) \in Seq(Channels)
    BY <2>1
  <2>3. hconf' \in ApConf /\ cand' \in [Starters -> Seq(Channels)]
    BY <1>5, <2>2 DEF RecreateFor, ApConf, TypeOK
  <2>4. /\ \/ iface' \in {"fresh", "absent"} /\ serving' = None
           \/ UNCHANGED <<iface, serving>>
        /\ orphan' \in BOOLEAN /\ faults' \in 0..MaxFaults
    BY <1>5, FaultTyped DEF RecreateFor, Recreate, ReuseInterface, TypeOK
  <2> QED BY <1>5, <2>3, <2>4, StepTyped DEF RecreateFor, TypeOK
<1>6. CASE Spawn(p)
  <2>1. hconf \in ApConf /\ hconf # None
    BY <1>6 DEF Spawn, ConfInv, Spawning, TypeOK
  <2>2. /\ serving' \in ApConf \cup {None} /\ iface' \in {"absent", "stale", "busy"}
        /\ orphan' \in BOOLEAN /\ faults' \in 0..MaxFaults
        /\ serving' # None <=> iface' = "busy"
    BY <1>6, <2>1, FaultTyped DEF Spawn, SpawnOk, TypeOK
  <2>3. \E step \in {"dhcpStop", "recreate", "error"} : Goto(p, step)
    BY <1>6 DEF Spawn
  <2> QED BY <1>6, <2>2, <2>3, StepTyped DEF Spawn, TypeOK
<1>7. CASE DhcpStop(p)
  BY <1>7, StepTyped DEF DhcpStop, TypeOK, bounds
<1>8. CASE DhcpStart(p)
  BY <1>8, StepTyped, FaultTyped DEF DhcpStart, DhcpOk, TypeOK
<1> QED BY <1>1, <1>2, <1>3, <1>4, <1>5, <1>6, <1>7, <1>8 DEF StarterStep

\* So does every step of the monitor.
LEMMA MonitorTyped ==
  ASSUME ApInv, Monitor
  PROVE  TypeOK'
<1> USE DEF ApInv, ByMonitor
<1>1. CASE FindDead
  <2>1. mch' \in Channels
    BY <1>1 DEF FindDead, TypeOK, Channels, Settings
  <2> QED BY <1>1, <2>1 DEF FindDead, TypeOK
<1>2. CASE SeeUplink
  BY <1>2 DEF SeeUplink, TypeOK, Channels
<1>3. CASE Compare
  BY <1>3 DEF Compare, TypeOK
<1>4. CASE MonitorStop
  BY <1>4 DEF MonitorStop, KillHostapd, TypeOK
<1>5. CASE MonitorRecreate
  <2>1. hconf' \in ApConf \cup {None}
    <3>1. [cfg |-> bootCfg, ch |-> mch] \in ApConf
      BY DEF ApConf, TypeOK
    <3>2. hconf' = [cfg |-> bootCfg, ch |-> mch] \/ hconf' = hconf
      BY <1>5 DEF MonitorRecreate
    <3> QED BY <3>1, <3>2 DEF TypeOK
  <2>2. /\ \/ iface' \in {"fresh", "absent"} /\ serving' = None
           \/ UNCHANGED <<iface, serving>>
        /\ mpc' \in {"spawn", "sleep"}
        /\ orphan' \in BOOLEAN /\ faults' \in 0..MaxFaults
    BY <1>5, FaultTyped DEF MonitorRecreate, Recreate, ReuseInterface, TypeOK
  <2> QED BY <1>5, <2>1, <2>2 DEF MonitorRecreate, TypeOK
<1>6. CASE MonitorSpawn
  <2>1. hconf \in ApConf /\ hconf # None
    BY <1>6 DEF MonitorSpawn, ConfInv, Spawning, TypeOK
  <2>2. /\ serving' \in ApConf \cup {None} /\ iface' \in {"absent", "stale", "busy"}
        /\ orphan' \in BOOLEAN /\ faults' \in 0..MaxFaults /\ mpc' \in {"dhcpStop", "sleep"}
        /\ serving' # None <=> iface' = "busy"
    BY <1>6, <2>1, FaultTyped DEF MonitorSpawn, SpawnOk, TypeOK
  <2> QED BY <1>6, <2>2 DEF MonitorSpawn, TypeOK
<1>7. CASE MonitorDhcpStop
  BY <1>7 DEF MonitorDhcpStop, TypeOK
<1>8. CASE MonitorDhcpStart
  BY <1>8, FaultTyped DEF MonitorDhcpStart, DhcpOk, TypeOK
<1> QED BY <1>1, <1>2, <1>3, <1>4, <1>5, <1>6, <1>7, <1>8 DEF Monitor

\* So does the environment.
LEMMA NextTyped == ApInv /\ [Next]_vars => TypeOK'
<1> SUFFICES ASSUME ApInv, [Next]_vars PROVE TypeOK'
  OBVIOUS
<1>1. CASE UplinkMoves
  <2>1. moves' \in 0..MaxMoves
    BY <1>1, ApAssumption DEF UplinkMoves, ApInv, TypeOK
  <2> QED BY <1>1, <2>1 DEF UplinkMoves, ApInv, TypeOK
<1>2. CASE HostapdDies
  <2>1. deaths' \in 0..MaxDeaths
    BY <1>2, ApAssumption DEF HostapdDies, ApInv, TypeOK
  <2> QED BY <1>2, <2>1 DEF HostapdDies, ApInv, TypeOK
<1>3. CASE UNCHANGED vars
  BY <1>3 DEF vars, bounds, ApInv, TypeOK
<1> QED BY <1>1, <1>2, <1>3, StarterTyped, MonitorTyped DEF Next

-----------------------------------------------------------------------------
(* Who may leave a hostapd without its interface *)

\* Killing every hostapd leaves none behind.
LEMMA Killed ==
  ASSUME KillHostapd
  PROVE  ~orphan' /\ serving' = None
  BY DEF KillHostapd

\* One failure is a failure.
LEMMA SumPositive == \A m, n \in Nat : m > 0 => m + n > 0
  OBVIOUS

\* Nobody but main acts before the access point of the boot is up.
LEMMA StarterBoot ==
  ASSUME ApInv, NEW p \in Starters, Submit(p) \/ StarterStep(p)
  PROVE  BootInv'
<1> USE DEF ApInv, Starters
<1>1. p = Boot \/ Booted
  <2>1. pc[p] = "idle" => Submit(p)
    BY DEF StarterStep, Create, Stop, Detect, RecreateFor, Spawn, DhcpStop, DhcpStart
  <2> QED BY <2>1 DEF BootInv, Submit, Booted
<1>2. PICK step \in {"stop", "detect", "recreate", "spawn", "dhcpStop", "dhcpStart",
                     "done", "error"} : Goto(p, step)
  BY DEF StarterStep, Submit, Create, Stop, Detect, RecreateFor, Spawn, DhcpStop, DhcpStart
<1>3. \A q \in Starters : pc'[q] = IF q = p THEN step ELSE pc[q]
  BY <1>2, StepTyped
<1>4. mpc' = mpc
  BY DEF StarterStep, Submit, Create, Stop, Detect, RecreateFor, Spawn, DhcpStop, DhcpStart
<1>5. pc[Boot] = "done" \/ pc[Boot] = "error" => p # Boot
  BY ApAssumption
  DEF StarterStep, Submit, Create, Stop, Detect, RecreateFor, Spawn, DhcpStop, DhcpStart
<1>6. pc'[Boot] # "create"
  BY <1>1, <1>3 DEF Booted
<1> QED BY <1>1, <1>3, <1>4, <1>5, <1>6, ApAssumption DEF BootInv, Booted

\* A starter has a channel to try, and a file for the hostapd it starts.
LEMMA StarterConf ==
  ASSUME ApInv, NEW p \in Starters, Submit(p) \/ StarterStep(p)
  PROVE  CandInv' /\ ConfInv'
<1> USE DEF ApInv
<1>1. CASE Submit(p)
  BY <1>1, StepTyped DEF Submit, CandInv, ConfInv, Spawning
<1>2. CASE Create(p)
  BY <1>2, StepTyped DEF Create, CandInv, ConfInv, Spawning
<1>3. CASE Stop(p)
  BY <1>3, StepTyped, Killed DEF Stop, CandInv, ConfInv, Spawning
<1>4. CASE Detect(p)
  <2>1. cand'[p] # <<>> /\ \A q \in Starters \ {p} : cand'[q] = cand[q]
    <3>1. cfg[p].chan \in CfgChannels /\ sta \in StaChannels \cup {None}
      BY DEF TypeOK, Settings
    <3> QED BY <1>4, <3>1, CandidatesTyped DEF Detect, TypeOK
  <2> QED BY <1>4, <2>1, StepTyped, Killed DEF Detect, CandInv, ConfInv, Spawning
<1>5. CASE RecreateFor(p)
  <2>1. hconf' # None
    <3>1. cand[p] \in Seq(Channels) /\ cand[p] # <<>>
      BY <1>5 DEF RecreateFor, CandInv, TypeOK
    <3>2. Head(cand[p]) \in Channels
      BY <3>1
    <3>3. hconf' \in ApConf
      BY <1>5, <3>2 DEF RecreateFor, ApConf, TypeOK
    <3> QED BY <3>3, ApAssumption
  <2>2. \A q \in Starters \ {p} : cand'[q] = cand[q]
    BY <1>5 DEF RecreateFor, TypeOK
  <2> QED BY <1>5, <2>1, <2>2, StepTyped DEF RecreateFor, CandInv, ConfInv
<1>6. CASE Spawn(p)
  <2>1. hconf # None /\ UNCHANGED <<hconf, cand>>
    BY <1>6 DEF Spawn, ConfInv, Spawning
  <2>2. PICK step \in {"dhcpStop", "recreate", "error"} :
          Goto(p, step) /\ (step = "recreate" => cand[p] # <<>>)
    BY <1>6 DEF Spawn
  <2> QED BY <2>1, <2>2, StepTyped DEF CandInv, ConfInv
<1>7. CASE DhcpStop(p)
  BY <1>7, StepTyped DEF DhcpStop, CandInv, ConfInv, Spawning
<1>8. CASE DhcpStart(p)
  <2>1. \E step \in {"done", "error"} : Goto(p, step)
    BY <1>8 DEF DhcpStart
  <2> QED BY <1>8, <2>1, StepTyped DEF DhcpStart, CandInv, ConfInv, Spawning
<1> QED BY <1>1, <1>2, <1>3, <1>4, <1>5, <1>6, <1>7, <1>8 DEF StarterStep

\* A starter that took an interface has a fresh one, and cleans up when its own
\* hostapd does not start.
LEMMA StarterMask ==
  ASSUME ApInv, NEW p \in Starters, Submit(p) \/ StarterStep(p)
  PROVE  MaskInv'
<1> USE DEF ApInv
<1>0. faults \in Nat /\ deaths \in Nat /\ faults' \in Nat
  BY StarterTyped, ApAssumption DEF TypeOK
<1>1. CASE Submit(p)
  <2>1. /\ UNCHANGED <<hconf, iface, serving, orphan, mpc, deaths, faults>>
        /\ pc[p] # "spawn" /\ Goto(p, "stop")
    BY <1>1 DEF Submit, bounds
  <2> QED BY <2>1, StepTyped DEF MaskInv, Masked, Spawning
<1>2. CASE Create(p)
  <2>1. ~orphan'
    BY <1>2 DEF Create, BootInv
  <2> QED BY <2>1 DEF MaskInv, Masked
<1>3. CASE Stop(p) \/ Detect(p)
  BY <1>3, Killed DEF Stop, Detect, MaskInv, Masked
<1>4. CASE RecreateFor(p)
  <2>1. deaths' = deaths /\ pc'[p] = "spawn"
    BY <1>4, StepTyped DEF RecreateFor
  <2>2. iface' = "fresh" \/ faults' > 0
    BY <1>4, FaultTyped DEF RecreateFor, Recreate, ReuseInterface
  <2>3. faults' > 0 => faults' + deaths' > 0
    <3>1. deaths' \in Nat
      BY <1>0, <2>1
    <3> QED BY <1>0, <3>1, SumPositive
  <2> QED BY <2>1, <2>2, <2>3 DEF MaskInv, Spawning
<1>5. CASE Spawn(p)
  <2>1. serving' # None \/ ~orphan'
    <3>1. hconf # None
      BY <1>5 DEF Spawn, ConfInv, Spawning
    <3> QED BY <1>5, <3>1 DEF Spawn, SpawnOk
  <2> QED BY <2>1 DEF MaskInv, Masked
<1>6. CASE DhcpStop(p)
  <2>1. /\ UNCHANGED <<hconf, iface, serving, orphan, mpc, deaths, faults>>
        /\ pc[p] # "spawn" /\ Goto(p, "dhcpStart")
    BY <1>6 DEF DhcpStop, bounds
  <2> QED BY <2>1, StepTyped DEF MaskInv, Masked, Spawning
<1>7. CASE DhcpStart(p)
  <2>1. /\ UNCHANGED <<hconf, iface, serving, orphan, mpc, deaths>>
        /\ pc[p] # "spawn" /\ \E step \in {"done", "error"} : Goto(p, step)
        /\ faults' = faults \/ faults' > 0
    BY <1>7, FaultTyped DEF DhcpStart
  <2>2. Spawning => Spawning'
    BY <2>1, StepTyped DEF Spawning
  <2>3. faults' > 0 => faults' + deaths' > 0
    <3>1. deaths' \in Nat
      BY <1>0, <2>1
    <3> QED BY <1>0, <3>1, SumPositive
  <2> QED BY <2>1, <2>2, <2>3 DEF MaskInv, Masked
<1> QED BY <1>1, <1>2, <1>3, <1>4, <1>5, <1>6, <1>7 DEF StarterStep

\* The monitor waits for the boot.
LEMMA MonitorBoot ==
  ASSUME ApInv, Monitor
  PROVE  BootInv' /\ CandInv'
<1>1. UNCHANGED <<pc, cand>>
  BY DEF Monitor, FindDead, SeeUplink, Compare, MonitorStop, MonitorRecreate, MonitorSpawn,
         MonitorDhcpStop, MonitorDhcpStart, ByMonitor
<1>2. Booted
  BY DEF Monitor, FindDead, SeeUplink, Compare, MonitorStop, MonitorRecreate, MonitorSpawn,
         MonitorDhcpStop, MonitorDhcpStart, ApInv, BootInv
<1> QED BY <1>1, <1>2 DEF ApInv, BootInv, Booted, CandInv

\* The monitor, too, writes the file before it starts a hostapd.
LEMMA MonitorConf ==
  ASSUME ApInv, Monitor
  PROVE  ConfInv'
<1> USE DEF ApInv, ByMonitor
<1>1. CASE FindDead \/ SeeUplink \/ Compare
  BY <1>1 DEF FindDead, SeeUplink, Compare, ConfInv, Spawning
<1>2. CASE MonitorStop
  BY <1>2, Killed DEF MonitorStop, ConfInv, Spawning
<1>3. CASE MonitorRecreate
  <2>1. CASE mpc' = "sleep" /\ hconf' = hconf
    BY <1>3, <2>1 DEF MonitorRecreate, Recreate, ConfInv, Spawning
  <2>2. CASE hconf' = [cfg |-> bootCfg, ch |-> mch]
    <3>1. hconf' \in ApConf
      BY <2>2 DEF ApConf, TypeOK
    <3> QED BY <3>1, ApAssumption DEF ConfInv
  <2> QED BY <1>3, <2>1, <2>2 DEF MonitorRecreate
<1>4. CASE MonitorSpawn
  BY <1>4 DEF MonitorSpawn, ConfInv, Spawning
<1>5. CASE MonitorDhcpStop \/ MonitorDhcpStart
  BY <1>5 DEF MonitorDhcpStop, MonitorDhcpStart, ConfInv, Spawning
<1> QED BY <1>1, <1>2, <1>3, <1>4, <1>5 DEF Monitor

\* The monitor does not clean up after a hostapd that does not start; with a
\* fresh interface and no failure that is the channel's fault.
LEMMA MonitorMask ==
  ASSUME ApInv, Monitor
  PROVE  MaskInv'
<1> USE DEF ApInv, ByMonitor
<1>1. /\ faults \in Nat /\ deaths \in Nat /\ faults' \in Nat /\ deaths' = deaths
      /\ faults' > 0 => faults' + deaths' > 0
  <2>1. faults \in Nat /\ deaths \in Nat /\ faults' \in Nat
    BY MonitorTyped, ApAssumption DEF TypeOK
  <2>2. deaths' = deaths
    BY DEF Monitor, FindDead, SeeUplink, Compare, MonitorStop, MonitorRecreate, MonitorSpawn,
           MonitorDhcpStop, MonitorDhcpStart
  <2>3. faults' > 0 => faults' + deaths' > 0
    <3>1. deaths' \in Nat
      BY <2>1, <2>2
    <3> QED BY <2>1, <3>1, SumPositive
  <2> QED BY <2>1, <2>2, <2>3
<1>2. CASE FindDead \/ SeeUplink \/ Compare
  BY <1>2, <1>1 DEF FindDead, SeeUplink, Compare, MaskInv, Masked, Spawning
<1>3. CASE MonitorStop
  BY <1>3, Killed DEF MonitorStop, MaskInv, Masked
<1>4. CASE MonitorRecreate
  <2>1. (mpc' = "spawn" /\ iface' = "fresh") \/ faults' > 0
    BY <1>4, FaultTyped DEF MonitorRecreate, Recreate, ReuseInterface
  <2> QED BY <1>1, <2>1 DEF MaskInv, Spawning
<1>5. CASE MonitorSpawn
  <2>1. CASE SpawnOk
    <3>1. hconf # None
      BY <1>5 DEF MonitorSpawn, ConfInv, Spawning
    <3> QED BY <2>1, <3>1 DEF SpawnOk, MaskInv, Masked
  <2>2. CASE ~CanStart /\ NoFault /\ UNCHANGED <<serving, orphan, hconf>>
    <3>1. iface = "fresh" => hconf.ch \notin Band24
      BY <2>2 DEF CanStart
    <3>2. Masked' => Masked
      BY <2>2 DEF Masked
    <3>3. faults' = faults
      BY <2>2 DEF NoFault
    <3> QED BY <1>1, <2>2, <3>1, <3>2, <3>3 DEF MaskInv
  <2>3. CASE Fault("hostapd")
    BY <1>1, <2>3, FaultTyped DEF MaskInv
  <2> QED BY <1>5, <2>1, <2>2, <2>3 DEF MonitorSpawn
<1>6. CASE MonitorDhcpStop
  BY <1>1, <1>6 DEF MonitorDhcpStop, MaskInv, Masked, Spawning
<1>7. CASE MonitorDhcpStart
  <2>1. /\ UNCHANGED <<hconf, iface, serving, orphan, pc>>
        /\ Spawning => Spawning'
        /\ faults' = faults \/ faults' > 0
    BY <1>7, FaultTyped DEF MonitorDhcpStart, Spawning
  <2> QED BY <1>1, <2>1 DEF MaskInv, Masked
<1> QED BY <1>2, <1>3, <1>4, <1>5, <1>6, <1>7 DEF Monitor

\* Every step of boot, tasks, monitor, uplink and hostapd.
LEMMA NextAp == ApInv /\ [Next]_vars => ApInv'
<1> SUFFICES ASSUME ApInv, [Next]_vars PROVE BootInv' /\ CandInv' /\ ConfInv' /\ MaskInv'
  BY NextTyped DEF ApInv
<1>1. ASSUME NEW p \in Starters, Submit(p) \/ StarterStep(p)
      PROVE  BootInv' /\ CandInv' /\ ConfInv' /\ MaskInv'
  BY <1>1, StarterBoot, StarterConf, StarterMask
<1>2. CASE Monitor
  BY <1>2, MonitorBoot, MonitorConf, MonitorMask
<1>3. CASE UplinkMoves
  BY <1>3 DEF UplinkMoves, ApInv, BootInv, Booted, CandInv, ConfInv, Spawning, MaskInv, Masked
<1>4. CASE HostapdDies
  <2>1. faults \in Nat /\ deaths \in Nat /\ faults' = faults /\ deaths' = deaths + 1
    BY <1>4, ApAssumption DEF HostapdDies, ApInv, TypeOK
  <2>2. MaskInv'
    BY <2>1 DEF MaskInv
  <2>3. pc[Boot] # "create"
    BY <1>4 DEF HostapdDies, ApInv, BootInv, TypeOK
  <2> QED BY <1>4, <2>2, <2>3 DEF HostapdDies, ApInv, BootInv, Booted, CandInv, ConfInv, Spawning
<1>5. CASE UNCHANGED vars
  BY <1>5 DEF vars, bounds, ApInv, BootInv, Booted, CandInv, ConfInv, Spawning, MaskInv, Masked
<1> QED BY <1>1, <1>2, <1>3, <1>4, <1>5 DEF Next

\* Every variable of the access point keeps its type (src/ap/, src/dhcp/).
THEOREM ApTyped == Spec => []TypeOK
<1>1. ApInv => TypeOK
  BY DEF ApInv
<1> QED BY <1>1, InitAp, NextAp, PTL DEF Spec

\* An access point that pgrep sees and no client can, because its interface was
\* deleted, takes a failure or a 5 GHz channel: boot, apply_config tasks and the
\* monitor, however they interleave, do not bring it about by themselves.
THEOREM MaskTakesFailure == Spec => []MaskedNeedsFailure
<1>1. ApInv => MaskedNeedsFailure
  BY DEF ApInv, MaskInv, MaskedNeedsFailure, Spawning
<1> QED BY <1>1, InitAp, NextAp, PTL DEF Spec
=============================================================================
