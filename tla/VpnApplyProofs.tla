---------------------------- MODULE VpnApplyProofs --------------------------
(***************************************************************************)
(* Proofs about vpn::apply, firewall::apply_ruleset and the kill switch    *)
(* (src/vpn/mod.rs, src/firewall/mod.rs), for every set of settings, any   *)
(* number of requests and restarts.                                        *)
(*                                                                         *)
(* Any command may fail, and a removal may fail unnoticed.  The types hold *)
(* however tasks overlap.  The rest is proved of requests that are sent    *)
(* when no task runs: nothing in the code orders two tasks, and with two   *)
(* of them none of it holds.                                               *)
(***************************************************************************)
EXTENDS VpnApply, TLAPS

-----------------------------------------------------------------------------
(* What is left of a program, from its end to its start *)

Check        == <<"probe">>
CheckIf(c)   == IF c.role = "travel" THEN Check ELSE <<>>

WgUpLeft(c)     == <<"wgUp">> \o CheckIf(c)
WgLoadLeft(c)   == <<"nftLoad">> \o WgUpLeft(c)
WgAssertLeft(c) == <<"nftDelete">> \o WgLoadLeft(c)
WgDownLeft(c)   == <<"wgDown">> \o WgAssertLeft(c)
WgConfLeft(c)   == <<"wgConf">> \o WgDownLeft(c)

TsUpLeft     == <<"tsUp">> \o Check
TsLoadLeft   == <<"nftLoad">> \o TsUpLeft
TsAssertLeft == <<"nftDelete">> \o TsLoadLeft
TsDownLeft   == <<"wgDown">> \o TsAssertLeft

OffTsLeft == <<"tsDown">>
OffWgLeft == <<"wgDown">> \o OffTsLeft

FwLoadLeft   == <<"nftLoad">> \o Check
FwAssertLeft == <<"nftDelete">> \o FwLoadLeft

JustFlush == <<"chainFlush">>
JustDrop  == <<"chainDrop">>
FlushDrop == <<"chainFlush">> \o JustDrop

-----------------------------------------------------------------------------
(* The inductive invariant *)

Full(c) == c = [backend |-> "wireguard", role |-> "travel", routeAll |-> TRUE]
CutOff(c) == c.role = "travel" /\ c.backend # "none"

\* After the look at the tunnel: the rule is set on travel boxes only, and
\* left away with everything routed through WireGuard only if that is up.
KillStage(s, c) ==
    \/ s = JustFlush /\ (Full(c) => handshake)
    \/ s \in {FlushDrop, JustDrop} /\ CutOff(c)

\* What the removals achieve, unless they failed unnoticed.
TableGone == (~table /\ drop = NoRule) \/ "table" \in kept
Down      == wg = NoConf \/ "wg0" \in kept
TsGone    == ts = "Stopped" \/ "tailscale" \in kept

\* What vpn::apply has done with c when s is left of it.
VpnStage(s, c) ==
    \/ s = VpnProgram(c)
    \/ c.backend = "none" /\ s = OffWgLeft /\ TableGone
    \/ c.backend = "none" /\ s = OffTsLeft /\ TableGone /\ Down
    \/ c.backend = "tailscale" /\ s = TsDownLeft
    \/ /\ c.backend = "tailscale" /\ Down
       /\ s \in {TsAssertLeft, TsLoadLeft, TsUpLeft, Check} \/ KillStage(s, c)
    \/ c.backend = "wireguard" /\ s = WgConfLeft(c)
    \/ /\ c.backend = "wireguard" /\ conf = c
       /\ s \in {WgDownLeft(c), WgAssertLeft(c), WgLoadLeft(c), WgUpLeft(c)}
    \/ c.backend = "wireguard" /\ wg = c /\ c.role = "travel" /\ (s = Check \/ KillStage(s, c))

\* What firewall::apply_ruleset has done when s is left of it.
FirewallStage(s, c) ==
    \/ s = FirewallProgram(c)
    \/ /\ c.backend # "none"
       /\ s \in {FwAssertLeft, FwLoadLeft, Check} \/ KillStage(s, c)

StageOK(t) ==
    IF kind[t] = "vpn" THEN VpnStage(todo[t], wanted) ELSE FirewallStage(todo[t], wanted)

\* One task runs, or main's two in their order; it works from the settings
\* last saved, and only the last vpn::apply can be one that still runs.  What
\* that was given is what is saved, unless a factory reset came after it.
TaskInv ==
    /\ \A t \in All : outcome[t] = "running" <=> Running(t)
    /\ \A t \in All : Running(t) => cfg[t] = wanted /\ StageOK(t)
    /\ \A t \in All : Running(t) /\ kind[t] = "vpn" => t = latest
    /\ kind[latest] = "vpn" /\ outcome[latest] # "idle"
    /\ cfg[latest] = wanted \/ wanted = Off
    /\ kind[BootVpn] = "vpn" /\ kind[BootFirewall] = "firewall"
    /\ \A t, u \in All : Running(t) /\ Running(u) => t = u \/ {t, u} \subseteq Boot
    /\ Running(BootFirewall) => latest = BootVpn /\ todo[BootVpn] = VpnProgram(wanted)

\* What a successful vpn::apply leaves, whatever ruleset task runs after it.
NoneInv ==
    cfg[latest].backend = "none" /\ outcome[latest] = "ok" => TableGone /\ Down /\ TsGone

TunnelInv ==
    outcome[latest] = "ok" =>
        \/ wg = IF cfg[latest].backend = "wireguard" THEN cfg[latest] ELSE NoConf
        \/ cfg[latest].backend # "wireguard" /\ "wg0" \in kept

\* A task that was started and has not taken its first step.
Fresh(t) == Running(t) /\ todo[t] \in {VpnProgram(wanted), FirewallProgram(wanted)}

\* A rule is one of a table, and an old one outlives new settings until a task
\* takes its first step, or longer in a table that could not be removed.
DropInv ==
    /\ drop # NoRule => table
    /\ CutOff(wanted) \/ drop = NoRule \/ "table" \in kept \/ \E t \in All : Fresh(t)

ErrorInv ==
    /\ latest \in Tasks /\ ~Running(latest) => (lastError <=> outcome[latest] = "error")
    /\ latest = BootVpn /\ lastError =>
         outcome[BootVpn] = "error" /\ cfg[BootVpn].backend = "tailscale"

VpnInv ==
    /\ TypeOK /\ TaskInv /\ NoneInv /\ TunnelInv /\ DropInv
    /\ KillSwitchUntilHandshake /\ ErrorInv

-----------------------------------------------------------------------------
(* Programs *)

\* The first command of a program and the rest of it.
LEMMA Cons ==
  ASSUME NEW x \in Commands, NEW s \in Seq(Commands)
  PROVE  /\ <<x>> \o s \in Seq(Commands) /\ <<x>> \o s # <<>>
         /\ Head(<<x>> \o s) = x /\ Tail(<<x>> \o s) = s
<1> DEFINE r == <<x>> \o s
<1>1. <<x>> \in Seq(Commands) /\ Len(<<x>>) = 1 /\ <<x>>[1] = x
  OBVIOUS
<1>2. r \in Seq(Commands) /\ Len(r) = Len(s) + 1 /\ r[1] = x
  BY <1>1
<1>3. \A i \in 1..Len(s) : r[i + 1] = s[i]
  BY <1>1
<1>4. r # <<>> /\ Head(r) = x
  BY <1>2
<1>5. Tail(r) \in Seq(Commands) /\ Len(Tail(r)) = Len(s)
  BY <1>2
<1>6. \A i \in 1..Len(s) : Tail(r)[i] = s[i]
  BY <1>2, <1>3
<1>7. Tail(r) = s
  BY <1>5, <1>6
<1> QED BY <1>2, <1>4, <1>7

\* A program of one command.
LEMMA One == ASSUME NEW x \in Commands
             PROVE  /\ <<x>> \in Seq(Commands) /\ <<x>> # <<>>
                    /\ Head(<<x>>) = x /\ Tail(<<x>>) = <<>>
  OBVIOUS

\* Two commands, one after the other.
LEMMA Pair == \A x, y : <<x>> \o <<y>> = <<x, y>>
<1> TAKE x, y
<1> DEFINE r == <<x>> \o <<y>>
<1>1. <<x>> \in Seq({x, y}) /\ <<y>> \in Seq({x, y}) /\ <<x, y>> \in Seq({x, y})
  OBVIOUS
<1>2. r \in Seq({x, y}) /\ Len(r) = 2 /\ r[1] = x /\ r[2] = y
  BY <1>1
<1>3. Len(<<x, y>>) = 2 /\ <<x, y>>[1] = x /\ <<x, y>>[2] = y
  OBVIOUS
<1>4. \A i \in 1..2 : r[i] = <<x, y>>[i]
  <2>1. \A i \in 1..2 : i = 1 \/ i = 2
    OBVIOUS
  <2> QED BY <1>2, <1>3, <2>1
<1> HIDE DEF r
<1>5. r = <<x, y>>
  BY <1>1, <1>2, <1>3, <1>4
<1> QED BY <1>5 DEF r

\* An end s of a program that starts with command x and goes on with r.
Starts(s, x, r) ==
    s \in Seq(Commands) /\ s # <<>> /\ Head(s) = x /\ Tail(s) = r

\* Every end of a program: its next command, and the end after it.
LEMMA Ends ==
  /\ Starts(Check, "probe", <<>>)
  /\ \A c : Starts(WgUpLeft(c), "wgUp", CheckIf(c))
  /\ \A c : Starts(WgLoadLeft(c), "nftLoad", WgUpLeft(c))
  /\ \A c : Starts(WgAssertLeft(c), "nftDelete", WgLoadLeft(c))
  /\ \A c : Starts(WgDownLeft(c), "wgDown", WgAssertLeft(c))
  /\ \A c : Starts(WgConfLeft(c), "wgConf", WgDownLeft(c))
  /\ Starts(TsUpLeft, "tsUp", Check)
  /\ Starts(TsLoadLeft, "nftLoad", TsUpLeft)
  /\ Starts(TsAssertLeft, "nftDelete", TsLoadLeft)
  /\ Starts(TsDownLeft, "wgDown", TsAssertLeft)
  /\ Starts(OffTsLeft, "tsDown", <<>>)
  /\ Starts(OffWgLeft, "wgDown", OffTsLeft)
  /\ Starts(FwLoadLeft, "nftLoad", Check)
  /\ Starts(FwAssertLeft, "nftDelete", FwLoadLeft)
  /\ Starts(JustFlush, "chainFlush", <<>>)
  /\ Starts(JustDrop, "chainDrop", <<>>)
  /\ Starts(FlushDrop, "chainFlush", JustDrop)
<1> USE DEF Starts
<1>1. \A x \in Commands : Starts(<<x>>, x, <<>>)
  BY One
<1>2. \A x \in Commands : \A s \in Seq(Commands) : Starts(<<x>> \o s, x, s)
  BY Cons
<1>3. {"nftDelete", "nftFlush", "nftLoad", "wgConf", "wgDown", "wgUp",
       "tsUp", "tsDown", "probe", "chainFlush", "chainDrop"} = Commands
  BY DEF Commands
<1> HIDE DEF Starts
<1>4. \A s, x, r : Starts(s, x, r) => s \in Seq(Commands)
  BY DEF Starts
<1>5. Starts(Check, "probe", <<>>)
  BY <1>1, <1>3 DEF Check
<1>6. ASSUME NEW c
      PROVE  /\ Starts(WgUpLeft(c), "wgUp", CheckIf(c))
             /\ Starts(WgLoadLeft(c), "nftLoad", WgUpLeft(c))
             /\ Starts(WgAssertLeft(c), "nftDelete", WgLoadLeft(c))
             /\ Starts(WgDownLeft(c), "wgDown", WgAssertLeft(c))
             /\ Starts(WgConfLeft(c), "wgConf", WgDownLeft(c))
  <2>1. CheckIf(c) \in Seq(Commands)
    BY <1>4, <1>5 DEF CheckIf
  <2>2. Starts(WgUpLeft(c), "wgUp", CheckIf(c))
    BY <1>2, <1>3, <2>1 DEF WgUpLeft
  <2>3. Starts(WgLoadLeft(c), "nftLoad", WgUpLeft(c))
    BY <1>2, <1>3, <1>4, <2>2 DEF WgLoadLeft
  <2>4. Starts(WgAssertLeft(c), "nftDelete", WgLoadLeft(c))
    BY <1>2, <1>3, <1>4, <2>3 DEF WgAssertLeft
  <2>5. Starts(WgDownLeft(c), "wgDown", WgAssertLeft(c))
    BY <1>2, <1>3, <1>4, <2>4 DEF WgDownLeft
  <2>6. Starts(WgConfLeft(c), "wgConf", WgDownLeft(c))
    BY <1>2, <1>3, <1>4, <2>5 DEF WgConfLeft
  <2> QED BY <2>2, <2>3, <2>4, <2>5, <2>6
<1>7. Starts(TsUpLeft, "tsUp", Check)
  BY <1>2, <1>3, <1>4, <1>5 DEF TsUpLeft
<1>8. Starts(TsLoadLeft, "nftLoad", TsUpLeft)
  BY <1>2, <1>3, <1>4, <1>7 DEF TsLoadLeft
<1>9. Starts(TsAssertLeft, "nftDelete", TsLoadLeft)
  BY <1>2, <1>3, <1>4, <1>8 DEF TsAssertLeft
<1>10. Starts(TsDownLeft, "wgDown", TsAssertLeft)
  BY <1>2, <1>3, <1>4, <1>9 DEF TsDownLeft
<1>11. Starts(OffTsLeft, "tsDown", <<>>)
  BY <1>1, <1>3 DEF OffTsLeft
<1>12. Starts(OffWgLeft, "wgDown", OffTsLeft)
  BY <1>2, <1>3, <1>4, <1>11 DEF OffWgLeft
<1>13. Starts(FwLoadLeft, "nftLoad", Check)
  BY <1>2, <1>3, <1>4, <1>5 DEF FwLoadLeft
<1>14. Starts(FwAssertLeft, "nftDelete", FwLoadLeft)
  BY <1>2, <1>3, <1>4, <1>13 DEF FwAssertLeft
<1>15. Starts(JustFlush, "chainFlush", <<>>) /\ Starts(JustDrop, "chainDrop", <<>>)
  BY <1>1, <1>3 DEF JustFlush, JustDrop
<1>16. Starts(FlushDrop, "chainFlush", JustDrop)
  BY <1>2, <1>3, <1>4, <1>15 DEF FlushDrop
<1> QED
  BY <1>5, <1>6, <1>7, <1>8, <1>9, <1>10, <1>11, <1>12, <1>13, <1>14, <1>15, <1>16

\* vpn::apply tears the table down and goes on by backend.
LEMMA VpnStarts ==
  ASSUME NEW c \in Configs
  PROVE  Starts(VpnProgram(c), "nftDelete",
                CASE c.backend = "wireguard" -> WgConfLeft(c)
                  [] c.backend = "tailscale" -> TsDownLeft
                  [] c.backend = "none"      -> OffWgLeft)
<1> DEFINE Rest == CASE c.backend = "wireguard" -> WgConfLeft(c)
                     [] c.backend = "tailscale" -> TsDownLeft
                     [] c.backend = "none"      -> OffWgLeft
<1>1. c.backend \in {"none", "wireguard", "tailscale"} /\ c.role \in {"home", "travel"}
  BY VpnAssumption DEF ConfigType
<1>2. Rest \in Seq(Commands)
  BY <1>1, Ends DEF Starts
<1>3. Starts(<<"nftDelete">> \o Rest, "nftDelete", Rest)
  <2> HIDE DEF Rest
  <2>1. "nftDelete" \in Commands
    BY DEF Commands
  <2> QED BY <1>2, <2>1, Cons DEF Starts
<1>4. VpnProgram(c) = <<"nftDelete">> \o Rest
  <2>1. CASE c.backend = "wireguard" /\ c.role = "travel"
    <3>1. WgConfLeft(c) = <<"wgConf", "wgDown">> \o NftAssert \o <<"wgUp", "probe">>
      BY <2>1 DEF WgConfLeft, WgDownLeft, WgAssertLeft, WgLoadLeft, WgUpLeft, CheckIf,
                  Check, NftAssert
    <3> QED BY <2>1, <3>1 DEF VpnProgram
  <2>2. CASE c.backend = "wireguard" /\ c.role = "home"
    <3>1. WgConfLeft(c) = <<"wgConf", "wgDown">> \o NftAssert \o <<"wgUp">>
      BY <2>2 DEF WgConfLeft, WgDownLeft, WgAssertLeft, WgLoadLeft, WgUpLeft, CheckIf,
                  Check, NftAssert
    <3> QED BY <2>2, <3>1 DEF VpnProgram
  <2>3. CASE c.backend = "tailscale"
    <3>1. TsDownLeft = <<"wgDown">> \o NftAssert \o <<"tsUp", "probe">>
      BY DEF TsDownLeft, TsAssertLeft, TsLoadLeft, TsUpLeft, Check, NftAssert
    <3> QED BY <2>3, <3>1 DEF VpnProgram
  <2>4. CASE c.backend = "none"
    <3>1. OffWgLeft = <<"wgDown", "tsDown">>
      BY Pair DEF OffWgLeft, OffTsLeft
    <3> QED BY <2>4, <3>1 DEF VpnProgram
  <2> QED BY <1>1, <2>1, <2>2, <2>3, <2>4
<1> QED BY <1>3, <1>4

\* apply_ruleset flushes and, with a VPN, puts the table back.
LEMMA FirewallStarts ==
  ASSUME NEW c \in Configs
  PROVE  Starts(FirewallProgram(c), "nftFlush",
                IF c.backend = "none" THEN <<>> ELSE FwAssertLeft)
<1> DEFINE Rest == IF c.backend = "none" THEN <<>> ELSE FwAssertLeft
<1>1. Rest \in Seq(Commands)
  BY Ends DEF Starts
<1>2. Starts(<<"nftFlush">> \o Rest, "nftFlush", Rest)
  BY <1>1, Cons DEF Starts, Commands
<1>3. FwAssertLeft = Reassert
  BY DEF FwAssertLeft, FwLoadLeft, Check, Reassert, NftAssert
<1> QED BY <1>2, <1>3 DEF FirewallProgram

\* What a look at the tunnel can find.
Looks(c) == {Healthy(c), c.backend = "none"}

\* The kill switch is cleared, and set again on a travel box with a VPN; with
\* everything routed through WireGuard it stays cleared only if that is up.
LEMMA KillSwitchStarts ==
  ASSUME NEW c \in Configs, NEW healthy \in Looks(c)
  PROVE  /\ KillSwitchProgram(c, healthy) \in Seq(Commands)
         /\ KillStage(KillSwitchProgram(c, healthy), c)
<1>1. FlushDrop = <<"chainFlush", "chainDrop">>
  BY Pair DEF FlushDrop, JustDrop
<1>2. c.backend = "none" => healthy
  BY DEF Looks, Healthy
<1>3. Full(c) /\ healthy => handshake
  <2>1. Full(c) => Healthy(c) = (wg # NoConf /\ handshake) /\ c.backend # "none"
    BY DEF Full, Healthy
  <2> QED BY <2>1 DEF Looks
<1>4. CASE KillSwitchProgram(c, healthy) = JustFlush
  <2>1. JustFlush # FlushDrop
    BY <1>1 DEF JustFlush
  <2>2. Full(c) => healthy
    BY <1>1, <1>4, <2>1 DEF KillSwitchProgram, JustFlush, Full
  <2> QED BY <1>3, <1>4, <2>2, Ends DEF KillStage, Starts
<1>5. CASE KillSwitchProgram(c, healthy) # JustFlush
  <2>1. KillSwitchProgram(c, healthy) = FlushDrop /\ c.role = "travel" /\ ~healthy
    BY <1>1, <1>5 DEF KillSwitchProgram, JustFlush
  <2>2. CutOff(c)
    BY <1>2, <2>1 DEF CutOff
  <2> QED BY <2>1, <2>2, Ends DEF KillStage, Starts
<1> QED BY <1>4, <1>5

-----------------------------------------------------------------------------
(* Types *)

LEMMA BootTasks ==
  /\ BootFirewall \in All /\ BootVpn \in All /\ Tasks \subseteq All
  /\ \A t \in Tasks : t \notin Boot
  /\ BootFirewall # BootVpn
  /\ \A t \in All : t \in Boot <=> t = BootFirewall \/ t = BootVpn
  BY VpnAssumption DEF All, Boot

\* The variables a command leaves to Proceed and Abort.
TaskTyped ==
    /\ wanted \in Configs
    /\ latest \in All
    /\ cfg \in [All -> Configs]
    /\ kind \in [All -> {"vpn", "firewall"}]
    /\ todo \in [All -> Seq(Commands)]
    /\ outcome \in [All -> {"idle", "running", "ok", "warned", "error"}]
    /\ lastError \in BOOLEAN
    /\ restarts \in 0..MaxRestarts

KernelTyped ==
    /\ table \in BOOLEAN
    /\ drop \in {"wg0", "tailscale0", NoRule}
    /\ conf \in Configs \cup {NoConf}
    /\ wg \in Configs \cup {NoConf}
    /\ handshake \in BOOLEAN
    /\ ts \in {"Stopped", "Running", "NeedsLogin"}
    /\ kept \subseteq {"table", "wg0", "tailscale"}

LEMMA Typed == TypeOK <=> TaskTyped /\ KernelTyped
  BY DEF TypeOK, TaskTyped, KernelTyped

\* A task that goes on keeps the types, and so does one that ends early.
LEMMA ProceedTyped ==
  ASSUME TaskTyped, NEW t \in All,
         \E rest \in Seq(Commands), e \in BOOLEAN : Proceed(t, rest, e)
  PROVE  TaskTyped'
<1>1. PICK rest \in Seq(Commands), e \in BOOLEAN : Proceed(t, rest, e)
  OBVIOUS
<1>2. todo' \in [All -> Seq(Commands)]
  BY <1>1 DEF Proceed, TaskTyped
<1>3. outcome' \in [All -> {"idle", "running", "ok", "warned", "error"}] /\ lastError' \in BOOLEAN
  BY <1>1 DEF Proceed, Record, TaskTyped
<1> QED BY <1>1, <1>2, <1>3 DEF Proceed, TaskTyped

LEMMA AbortTyped ==
  ASSUME TaskTyped, NEW t \in All, \E e \in BOOLEAN : Abort(t, e)
  PROVE  TaskTyped'
<1>1. PICK e \in BOOLEAN : Abort(t, e)
  OBVIOUS
<1>2. <<>> \in Seq(Commands)
  OBVIOUS
<1>3. todo' \in [All -> Seq(Commands)]
  BY <1>1, <1>2 DEF Abort, TaskTyped
<1>4. outcome' \in [All -> {"idle", "running", "ok", "warned", "error"}] /\ lastError' \in BOOLEAN
  BY <1>1 DEF Abort, Record, TaskTyped
<1> QED BY <1>1, <1>3, <1>4 DEF Abort, TaskTyped

LEMMA RestTyped ==
  ASSUME TaskTyped, NEW t \in All, Running(t)
  PROVE  Tail(todo[t]) \in Seq(Commands)
<1>1. todo[t] \in Seq(Commands) /\ todo[t] # <<>>
  BY DEF TaskTyped, Running
<1> QED BY <1>1

\* Every command keeps the types of the tasks.
LEMMA StepTaskTyped == ASSUME TaskTyped, NEW t \in All, Step(t) PROVE TaskTyped'
<1>1. Running(t)
  BY DEF Step, NftDelete, NftFlush, NftLoad, WgConf, WgDown, WgUp, TsUp, TsDown, Probe,
         ChainFlush, ChainDrop, At
<1>2. Tail(todo[t]) \in Seq(Commands) /\ lastError \in BOOLEAN
  BY <1>1, RestTyped DEF TaskTyped
<1>3. \A healthy \in Looks(cfg[t]) : KillSwitchProgram(cfg[t], healthy) \in Seq(Commands)
  BY KillSwitchStarts DEF TaskTyped
<1>4. \/ Continue(t) \/ Abort(t, lastError) \/ Abort(t, TRUE)
      \/ Proceed(t, Tail(todo[t]), FALSE)
      \/ \E healthy \in Looks(cfg[t]) : Proceed(t, KillSwitchProgram(cfg[t], healthy), lastError)
  BY DEF Step, NftDelete, NftFlush, NftLoad, WgConf, WgDown, WgUp, TsUp, TsDown, Probe,
         ChainFlush, ChainDrop, Looks
<1>5. CASE Continue(t)
  BY <1>2, <1>5, ProceedTyped DEF Continue
<1>6. CASE Abort(t, lastError) \/ Abort(t, TRUE)
  BY <1>2, <1>6, AbortTyped
<1>7. CASE Proceed(t, Tail(todo[t]), FALSE)
  BY <1>2, <1>7, ProceedTyped
<1>8. CASE \E healthy \in Looks(cfg[t]) :
             Proceed(t, KillSwitchProgram(cfg[t], healthy), lastError)
  BY <1>2, <1>3, <1>8, ProceedTyped
<1> QED BY <1>4, <1>5, <1>6, <1>7, <1>8

\* Every command keeps the types of what is in the kernel.
LEMMA StepKernelTyped ==
  ASSUME TaskTyped, KernelTyped, NEW t \in All, Step(t)
  PROVE  KernelTyped'
<1>1. TunnelIface(cfg[t]) \in {"wg0", "tailscale0"} /\ cfg[t] \in Configs
  BY DEF TunnelIface, TaskTyped
<1>2. ASSUME NftDelete(t) \/ NftFlush(t) \/ NftLoad(t) PROVE KernelTyped'
  BY <1>2 DEF NftDelete, NftFlush, NftLoad, KernelTyped
<1>3. ASSUME WgConf(t) \/ WgDown(t) \/ WgUp(t) PROVE KernelTyped'
  BY <1>1, <1>3 DEF WgConf, WgDown, WgUp, KernelTyped
<1>4. ASSUME TsUp(t) \/ TsDown(t) \/ Probe(t) PROVE KernelTyped'
  BY <1>4 DEF TsUp, TsDown, Probe, KernelTyped, kernelVars
<1>5. ASSUME ChainFlush(t) \/ ChainDrop(t) PROVE KernelTyped'
  BY <1>1, <1>5 DEF ChainFlush, ChainDrop, KernelTyped
<1> QED BY <1>2, <1>3, <1>4, <1>5 DEF Step

LEMMA InitTyped == Init => TypeOK
<1> SUFFICES ASSUME Init PROVE TypeOK
  OBVIOUS
<1>1. Off \in Configs
  BY VpnAssumption
<1>2. todo \in [All -> Seq(Commands)]
  <2>1. /\ FirewallProgram(Off) \in Seq(Commands) /\ VpnProgram(Off) \in Seq(Commands)
        /\ <<>> \in Seq(Commands)
    BY <1>1, FirewallStarts, VpnStarts DEF Starts
  <2> QED BY <2>1 DEF Init
<1>3. /\ cfg \in [All -> Configs] /\ kind \in [All -> {"vpn", "firewall"}]
      /\ outcome \in [All -> {"idle", "running", "ok", "warned", "error"}]
  BY <1>1 DEF Init
<1>4. restarts \in 0..MaxRestarts
  BY VpnAssumption DEF Init
<1> QED BY <1>1, <1>2, <1>3, <1>4, BootTasks DEF Init, TypeOK

\* The types, however many tasks overlap.
LEMMA NextTyped == TypeOK /\ [Next]_vars => TypeOK'
<1> SUFFICES ASSUME TypeOK, [Next]_vars PROVE TypeOK'
  OBVIOUS
<1>0. TaskTyped /\ KernelTyped
  BY Typed
<1>1. ASSUME NEW t \in Tasks, SubmitVpn(t) PROVE TypeOK'
  <2>1. PICK c \in Configs :
          /\ wanted' = c /\ cfg' = [cfg EXCEPT ![t] = c]
          /\ todo' = [todo EXCEPT ![t] = VpnProgram(c)]
    BY <1>1 DEF SubmitVpn
  <2>2. VpnProgram(c) \in Seq(Commands) /\ t \in All
    BY VpnStarts, BootTasks DEF Starts
  <2>3. /\ todo' \in [All -> Seq(Commands)] /\ cfg' \in [All -> Configs]
    BY <2>1, <2>2, <1>0 DEF TaskTyped
  <2>4. TaskTyped'
    BY <1>0, <1>1, <2>1, <2>2, <2>3 DEF SubmitVpn, TaskTyped
  <2>5. KernelTyped'
    BY <1>0, <1>1 DEF SubmitVpn, KernelTyped, kernelVars
  <2> QED BY <2>4, <2>5, Typed DEF TypeOK, TaskTyped, KernelTyped
<1>2. ASSUME NEW t \in Tasks, SubmitFirewall(t) PROVE TypeOK'
  <2>1. FirewallProgram(wanted) \in Seq(Commands) /\ t \in All
    BY FirewallStarts, BootTasks, <1>0 DEF Starts, TaskTyped
  <2>2. TaskTyped'
    BY <1>0, <1>2, <2>1 DEF SubmitFirewall, TaskTyped
  <2>3. KernelTyped'
    BY <1>0, <1>2 DEF SubmitFirewall, KernelTyped, kernelVars
  <2> QED BY <2>2, <2>3 DEF TypeOK, TaskTyped, KernelTyped
<1>3. ASSUME NEW t \in Tasks, SubmitReset(t) PROVE TypeOK'
  <2>1. Off \in Configs /\ FirewallProgram(Off) \in Seq(Commands) /\ t \in All
    BY FirewallStarts, BootTasks, VpnAssumption DEF Starts
  <2>2. TaskTyped'
    BY <1>0, <1>3, <2>1 DEF SubmitReset, TaskTyped
  <2>3. KernelTyped'
    BY <1>0, <1>3 DEF SubmitReset, KernelTyped, kernelVars
  <2> QED BY <2>2, <2>3 DEF TypeOK, TaskTyped, KernelTyped
<1>4. ASSUME NEW t \in All, Step(t) PROVE TypeOK'
  BY <1>0, <1>4, StepTaskTyped, StepKernelTyped DEF TypeOK, TaskTyped, KernelTyped
<1>5. ASSUME Handshake \/ TailscaleChanges PROVE TypeOK'
  BY <1>5 DEF Handshake, TailscaleChanges, TypeOK
<1>6. ASSUME Restart PROVE TypeOK'
  <2>1. /\ FirewallProgram(wanted) \in Seq(Commands) /\ VpnProgram(wanted) \in Seq(Commands)
        /\ <<>> \in Seq(Commands)
    BY FirewallStarts, VpnStarts, <1>0 DEF Starts, TaskTyped
  <2>2. todo' \in [All -> Seq(Commands)]
    BY <1>6, <2>1 DEF Restart
  <2>3. cfg' \in [All -> Configs]
    BY <1>0, <1>6 DEF Restart, TaskTyped
  <2>4. outcome' \in [All -> {"idle", "running", "ok", "warned", "error"}]
    BY <1>0, <1>6 DEF Restart, TaskTyped
  <2>5. restarts' \in 0..MaxRestarts
    BY <1>0, <1>6, VpnAssumption DEF Restart, TaskTyped
  <2>6. TaskTyped'
    BY <1>0, <1>6, <2>2, <2>3, <2>4, <2>5, BootTasks DEF Restart, TaskTyped
  <2>7. KernelTyped'
    BY <1>0, <1>6 DEF Restart, KernelTyped, kernelVars
  <2> QED BY <2>6, <2>7 DEF TypeOK, TaskTyped, KernelTyped
<1>7. CASE UNCHANGED vars
  BY <1>7 DEF vars, kernelVars, TypeOK
<1> QED BY <1>1, <1>2, <1>4, <1>5, <1>6, <1>7, <1>3 DEF Next

\* The types of the tasks, their programs and the kernel's state, for every
\* interleaving of overlapping tasks (vpn/mod.rs, firewall/mod.rs).
THEOREM VpnTyped == Spec => []TypeOK
  BY InitTyped, NextTyped, PTL DEF Spec

-----------------------------------------------------------------------------
(* Where a task stands *)

\* What vpn::apply knows of the kernel behind its last table load.
Behind(c) ==
    \/ c.backend = "tailscale" /\ Down
    \/ c.backend = "wireguard" /\ wg = c /\ c.role = "travel"

\* The next command of vpn::apply(c) says where it stands.
LEMMA VpnAt ==
  ASSUME NEW c \in Configs, NEW s, VpnStage(s, c)
  PROVE  /\ Head(s) # "nftFlush"
         /\ Head(s) = "nftDelete" =>
              \/ c.backend = "none" /\ Tail(s) = OffWgLeft
              \/ c.backend = "tailscale" /\ Tail(s) = TsDownLeft
              \/ c.backend = "wireguard" /\ Tail(s) = WgConfLeft(c)
              \/ c.backend = "tailscale" /\ Down /\ Tail(s) = TsLoadLeft
              \/ c.backend = "wireguard" /\ conf = c /\ Tail(s) = WgLoadLeft(c)
         /\ Head(s) = "nftLoad" =>
              \/ c.backend = "tailscale" /\ Down /\ Tail(s) = TsUpLeft
              \/ c.backend = "wireguard" /\ conf = c /\ Tail(s) = WgUpLeft(c)
         /\ Head(s) = "wgConf" => c.backend = "wireguard" /\ Tail(s) = WgDownLeft(c)
         /\ Head(s) = "wgDown" =>
              \/ c.backend = "none" /\ TableGone /\ Tail(s) = OffTsLeft
              \/ c.backend = "tailscale" /\ Tail(s) = TsAssertLeft
              \/ c.backend = "wireguard" /\ conf = c /\ Tail(s) = WgAssertLeft(c)
         /\ Head(s) = "wgUp" =>
              c.backend = "wireguard" /\ conf = c /\ Tail(s) = CheckIf(c)
         /\ Head(s) = "tsUp" =>
              c.backend = "tailscale" /\ Down /\ Tail(s) = Check
         /\ Head(s) = "tsDown" =>
              c.backend = "none" /\ TableGone /\ Down /\ Tail(s) = <<>>
         /\ Head(s) = "probe" => Behind(c)
         /\ Head(s) = "chainFlush" =>
              /\ Behind(c)
              /\ \/ Tail(s) = <<>> /\ (Full(c) => handshake)
                 \/ Tail(s) = JustDrop /\ CutOff(c)
         /\ Head(s) = "chainDrop" => Behind(c) /\ CutOff(c) /\ Tail(s) = <<>>
<1> USE Ends DEF Starts
<1>1. CASE s = VpnProgram(c)
  <2>1. c.backend \in {"none", "wireguard", "tailscale"}
    BY VpnAssumption DEF ConfigType
  <2> QED BY <1>1, <2>1, VpnStarts
<1>2. CASE c.backend = "none" /\ s = OffWgLeft /\ TableGone
  BY <1>2
<1>3. CASE c.backend = "none" /\ s = OffTsLeft /\ TableGone /\ Down
  BY <1>3
<1>4. CASE c.backend = "tailscale" /\ s = TsDownLeft
  BY <1>4
<1>5. CASE c.backend = "tailscale" /\ Down
           /\ s \in {TsAssertLeft, TsLoadLeft, TsUpLeft, Check}
  BY <1>5 DEF Behind
<1>6. CASE Behind(c) /\ KillStage(s, c)
  BY <1>6 DEF KillStage
<1>7. CASE c.backend = "wireguard" /\ s = WgConfLeft(c)
  BY <1>7
<1>8. CASE c.backend = "wireguard" /\ conf = c
           /\ s \in {WgDownLeft(c), WgAssertLeft(c), WgLoadLeft(c), WgUpLeft(c)}
  <2>1. CASE s = WgDownLeft(c)
    BY <1>8, <2>1
  <2>2. CASE s = WgAssertLeft(c)
    BY <1>8, <2>2
  <2>3. CASE s = WgLoadLeft(c)
    BY <1>8, <2>3
  <2>4. CASE s = WgUpLeft(c)
    BY <1>8, <2>4
  <2> QED BY <1>8, <2>1, <2>2, <2>3, <2>4
<1>9. CASE Behind(c) /\ s = Check
  BY <1>9
<1> HIDE Ends DEF Starts
<1>10. \/ s = VpnProgram(c)
       \/ c.backend = "none" /\ s = OffWgLeft /\ TableGone
       \/ c.backend = "none" /\ s = OffTsLeft /\ TableGone /\ Down
       \/ c.backend = "tailscale" /\ s = TsDownLeft
       \/ /\ c.backend = "tailscale" /\ Down
          /\ s \in {TsAssertLeft, TsLoadLeft, TsUpLeft, Check}
       \/ Behind(c) /\ KillStage(s, c)
       \/ c.backend = "wireguard" /\ s = WgConfLeft(c)
       \/ /\ c.backend = "wireguard" /\ conf = c
          /\ s \in {WgDownLeft(c), WgAssertLeft(c), WgLoadLeft(c), WgUpLeft(c)}
       \/ Behind(c) /\ s = Check
  BY DEF VpnStage, Behind
<1> QED
  BY <1>1, <1>2, <1>3, <1>4, <1>5, <1>6, <1>7, <1>8, <1>9, <1>10

\* Where a program has more to do, it is not at its end.
LEMMA NotDone ==
  /\ \A c : /\ WgUpLeft(c) # <<>> /\ WgLoadLeft(c) # <<>> /\ WgAssertLeft(c) # <<>>
           /\ WgDownLeft(c) # <<>> /\ WgConfLeft(c) # <<>>
  /\ Check # <<>> /\ TsUpLeft # <<>> /\ TsLoadLeft # <<>> /\ TsAssertLeft # <<>>
  /\ TsDownLeft # <<>> /\ OffTsLeft # <<>> /\ OffWgLeft # <<>>
<1>1. \A s, x, r : Starts(s, x, r) => s # <<>>
  BY DEF Starts
<1> QED BY <1>1, Ends

\* The same of apply_ruleset.
LEMMA FirewallAt ==
  ASSUME NEW c \in Configs, NEW s, FirewallStage(s, c)
  PROVE  /\ Head(s) \notin {"wgConf", "wgDown", "wgUp", "tsUp", "tsDown"}
         /\ Head(s) = "nftFlush" => Tail(s) = IF c.backend = "none" THEN <<>> ELSE FwAssertLeft
         /\ Head(s) # "nftFlush" => c.backend # "none"
         /\ Head(s) = "nftDelete" => Tail(s) = FwLoadLeft
         /\ Head(s) = "nftLoad" => Tail(s) = Check
         /\ Head(s) = "chainFlush" =>
              \/ Tail(s) = <<>> /\ (Full(c) => handshake)
              \/ Tail(s) = JustDrop /\ CutOff(c)
         /\ Head(s) = "chainDrop" => CutOff(c) /\ Tail(s) = <<>>
<1> USE Ends DEF Starts
<1>1. CASE s = FirewallProgram(c)
  BY <1>1, FirewallStarts
<1>2. CASE c.backend # "none" /\ s \in {FwAssertLeft, FwLoadLeft, Check}
  BY <1>2
<1>3. CASE c.backend # "none" /\ KillStage(s, c)
  BY <1>3 DEF KillStage
<1> QED BY <1>1, <1>2, <1>3 DEF FirewallStage

-----------------------------------------------------------------------------
(* One task runs *)

\* A step of the task whose turn it is keeps TaskInv, if what is left of the
\* task fits the kernel afterwards.
LEMMA Advance ==
  ASSUME TypeOK, TaskInv, NEW t \in All,
         Running(t), t = BootVpn => ~Running(BootFirewall),
         UNCHANGED <<wanted, latest, cfg, kind>>,
         \A u \in All \ {t} : todo'[u] = todo[u] /\ outcome'[u] = outcome[u],
         outcome'[t] = "running" <=> Running(t)', outcome'[t] # "idle",
         Running(t)' => StageOK(t)'
  PROVE  TaskInv'
<1>1. \A u \in All : u # t => (Running(u)' <=> Running(u))
  BY DEF Running
<1>2. ASSUME NEW u \in All \ {t}, Running(u) PROVE u = BootVpn /\ t = BootFirewall
  BY <1>2, BootTasks DEF TaskInv
<1>3. ASSUME NEW u \in All, Running(u)' PROVE cfg'[u] = wanted' /\ StageOK(u)'
  <2>1. CASE u = t
    BY <1>3, <2>1 DEF TaskInv
  <2>2. CASE u # t
    <3>1. u = BootVpn /\ t = BootFirewall /\ Running(u)
      BY <1>1, <1>2, <1>3, <2>2
    <3>2. todo[u] = VpnProgram(wanted) /\ kind[u] = "vpn" /\ cfg[u] = wanted
      BY <3>1 DEF TaskInv
    <3>3. todo'[u] = VpnProgram(wanted') /\ kind'[u] = "vpn"
      BY <2>2, <3>2
    <3> QED BY <3>2, <3>3 DEF StageOK, VpnStage
  <2> QED BY <2>1, <2>2
<1>4. \A u \in All : outcome'[u] = "running" <=> Running(u)'
  BY <1>1 DEF TaskInv
<1>5. \A u \in All : Running(u)' => Running(u)
  BY <1>1
<1>6. /\ kind'[latest'] = "vpn" /\ outcome'[latest'] # "idle"
      /\ cfg'[latest'] = wanted' \/ wanted' = Off
  BY DEF TaskInv, TypeOK
<1>7. Running(BootFirewall)' => latest' = BootVpn /\ todo'[BootVpn] = VpnProgram(wanted')
  <2> SUFFICES ASSUME Running(BootFirewall)'
               PROVE  latest' = BootVpn /\ todo'[BootVpn] = VpnProgram(wanted')
    OBVIOUS
  <2>1. Running(BootFirewall)
    BY <1>5, BootTasks
  <2>2. t # BootVpn
    BY <2>1
  <2> QED BY <2>1, <2>2, BootTasks DEF TaskInv
<1> QED BY <1>3, <1>4, <1>5, <1>6, <1>7 DEF TaskInv

\* What a command does to the tasks: its own goes on, ends or fails.
LEMMA StepTasks ==
  ASSUME TypeOK, TaskInv, NEW t \in All, Step(t)
  PROVE  /\ Running(t) /\ StageOK(t) /\ cfg[t] = wanted /\ wanted \in Configs
         /\ t = BootVpn => ~Running(BootFirewall)
         /\ UNCHANGED <<wanted, latest, cfg, kind>>
         /\ \A u \in All \ {t} : todo'[u] = todo[u] /\ outcome'[u] = outcome[u]
         /\ outcome'[t] \in {"running", "ok", "warned", "error"}
         /\ outcome'[t] = "running" <=> Running(t)'
         /\ outcome'[t] \in {"running", "ok"} =>
              \/ todo'[t] = Tail(todo[t])
              \/ /\ Head(todo[t]) = "probe"
                 /\ \E healthy \in Looks(wanted) : todo'[t] = KillSwitchProgram(wanted, healthy)
         /\ outcome'[t] \in {"warned", "error"} => todo'[t] = <<>>
<1>1. Running(t) /\ (t = BootVpn => ~Running(BootFirewall))
  BY DEF Step, NftDelete, NftFlush, NftLoad, WgConf, WgDown, WgUp, TsUp, TsDown, Probe,
         ChainFlush, ChainDrop, At
<1>2. cfg[t] = wanted /\ wanted \in Configs /\ StageOK(t) /\ outcome[t] = "running"
  BY <1>1 DEF TaskInv, TypeOK
<1>3. \/ Continue(t) \/ Abort(t, lastError) \/ Abort(t, TRUE)
      \/ Proceed(t, Tail(todo[t]), FALSE)
      \/ /\ Head(todo[t]) = "probe"
         /\ \E healthy \in Looks(cfg[t]) :
              Proceed(t, KillSwitchProgram(cfg[t], healthy), lastError)
  BY DEF Step, NftDelete, NftFlush, NftLoad, WgConf, WgDown, WgUp, TsUp, TsDown, Probe,
         ChainFlush, ChainDrop, At, Looks
<1>4. CASE Continue(t) \/ Proceed(t, Tail(todo[t]), FALSE)
  BY <1>1, <1>2, <1>4 DEF Continue, Proceed, Running, TypeOK
<1>5. CASE Abort(t, lastError) \/ Abort(t, TRUE)
  BY <1>1, <1>2, <1>5 DEF Abort, Running, TypeOK
<1>6. CASE /\ Head(todo[t]) = "probe"
           /\ \E healthy \in Looks(cfg[t]) :
                Proceed(t, KillSwitchProgram(cfg[t], healthy), lastError)
  BY <1>1, <1>2, <1>6 DEF Proceed, Running, TypeOK
<1> QED BY <1>3, <1>4, <1>5, <1>6

\* The page's error follows the last vpn::apply and nothing else.
LEMMA StepError ==
  ASSUME TypeOK, TaskInv, ErrorInv, NEW t \in All, Step(t)
  PROVE  ErrorInv'
<1>1. /\ Running(t) /\ StageOK(t) /\ wanted \in Configs
      /\ UNCHANGED <<latest, cfg, kind>>
      /\ \A u \in All \ {t} : todo'[u] = todo[u] /\ outcome'[u] = outcome[u]
  BY StepTasks
<1>2. \/ \E rest : Proceed(t, rest, lastError)
      \/ Abort(t, lastError)
      \/ Abort(t, TRUE) /\ TsUp(t)
      \/ Proceed(t, Tail(todo[t]), FALSE) /\ TsUp(t)
  BY DEF Step, NftDelete, NftFlush, NftLoad, WgConf, WgDown, WgUp, TsUp, TsDown, Probe,
         ChainFlush, ChainDrop, Continue
<1>3. CASE kind[t] = "vpn" /\ t \in Tasks
  <2>1. t = latest /\ t \notin Boot /\ latest # BootVpn
    BY <1>1, <1>3, BootTasks DEF TaskInv
  <2>2. ASSUME ~Running(t)' PROVE lastError' <=> outcome'[t] = "error"
    <3>1. CASE \E rest, e : Proceed(t, rest, e)
      <4>1. PICK rest, e : Proceed(t, rest, e)
        BY <3>1
      <4>2. rest = <<>>
        BY <2>2, <4>1 DEF Proceed, Running, TypeOK
      <4> QED BY <1>3, <2>1, <4>1, <4>2 DEF Proceed, Record, TypeOK
    <3>2. CASE \E e : Abort(t, e)
      BY <1>3, <2>1, <3>2 DEF Abort, Record, TypeOK
    <3> QED BY <1>2, <3>1, <3>2
  <2> QED BY <1>1, <2>1, <2>2 DEF ErrorInv
<1>4. CASE kind[t] = "vpn" /\ t \notin Tasks
  <2>1. t = latest /\ t = BootVpn /\ t \in Boot /\ latest \notin Tasks
    BY <1>1, <1>4, BootTasks DEF TaskInv, All
  <2>2. outcome[t] = "running" /\ cfg[t] = wanted /\ wanted \in Configs
    BY <1>1, StepTasks DEF TaskInv
  <2>3. ~lastError
    BY <2>1, <2>2 DEF ErrorInv
  <2>4. lastError' => Abort(t, TRUE) /\ TsUp(t)
    BY <1>2, <2>1, <2>3 DEF Proceed, Abort, Record
  <2>5. TsUp(t) => cfg[t].backend = "tailscale"
    <3>1. VpnStage(todo[t], wanted)
      BY <1>1, <1>4 DEF StageOK
    <3>2. Head(todo[t]) = "tsUp" => wanted.backend = "tailscale"
      BY <2>2, <3>1, VpnAt
    <3> QED BY <2>2, <3>2 DEF TsUp, At
  <2>6. Abort(t, TRUE) => outcome'[t] = "error"
    BY <1>4 DEF Abort, TypeOK
  <2> QED BY <1>1, <2>1, <2>4, <2>5, <2>6 DEF ErrorInv
<1>5. CASE kind[t] # "vpn"
  <2>1. t # latest /\ kind[t] = "firewall" /\ latest \in All
    BY <1>5 DEF TaskInv, TypeOK
  <2>2. FirewallStage(todo[t], wanted)
    BY <1>1, <1>5 DEF StageOK
  <2>3. Head(todo[t]) # "tsUp"
    BY <1>1, <2>2, FirewallAt
  <2>4. ~TsUp(t)
    BY <2>3 DEF TsUp, At
  <2>5. lastError' = lastError
    BY <1>2, <1>5, <2>4 DEF Proceed, Abort, Record
  <2>6. (Running(latest)' <=> Running(latest)) /\ outcome'[latest] = outcome[latest]
    BY <1>1, <2>1 DEF Running
  <2> QED BY <1>1, <2>1, <2>5, <2>6 DEF ErrorInv
<1> QED BY <1>3, <1>4, <1>5

\* What a command has to leave for the invariant to hold after it.
LEMMA Conclude ==
  ASSUME VpnInv, NEW t \in All, Step(t),
         Running(t)' => StageOK(t)',
         kind[t] = "vpn" /\ outcome'[t] = "ok" =>
           /\ \/ wg' = IF wanted.backend = "wireguard" THEN wanted ELSE NoConf
              \/ wanted.backend # "wireguard" /\ "wg0" \in kept'
           /\ wanted.backend = "none" => TableGone' /\ Down' /\ TsGone',
         kind[t] = "firewall" =>
           /\ UNCHANGED <<wg, ts>> /\ kept \ {"table"} = kept' \ {"table"}
           /\ wanted.backend = "none" => TableGone',
         drop' # NoRule => table',
         \/ CutOff(wanted) \/ drop' = NoRule \/ "table" \in kept'
         \/ /\ drop' = drop /\ ("table" \in kept => "table" \in kept')
            /\ Head(todo[t]) \notin {"nftDelete", "nftFlush"},
         outcome'[t] = "ok" /\ Full(wanted) /\ ~handshake' => table' /\ drop' = "wg0"
  PROVE  VpnInv'
<1> USE DEF VpnInv
<1>1. TypeOK'
  BY NextTyped DEF Next
<1>2. /\ Running(t) /\ StageOK(t) /\ cfg[t] = wanted /\ wanted \in Configs
      /\ t = BootVpn => ~Running(BootFirewall)
      /\ UNCHANGED <<wanted, latest, cfg, kind>>
      /\ \A u \in All \ {t} : todo'[u] = todo[u] /\ outcome'[u] = outcome[u]
      /\ outcome'[t] \in {"running", "ok", "warned", "error"}
      /\ outcome'[t] = "running" <=> Running(t)'
  BY StepTasks
<1>3. TaskInv'
  BY <1>2, Advance
<1>4. ErrorInv'
  BY StepError
<1>5. ASSUME kind[t] = "vpn" PROVE NoneInv' /\ TunnelInv'
  <2>1. t = latest
    BY <1>2, <1>5 DEF TaskInv
  <2> QED BY <1>2, <1>5, <2>1 DEF NoneInv, TunnelInv
<1>6. ASSUME kind[t] # "vpn" PROVE NoneInv' /\ TunnelInv'
  <2>1. kind[t] = "firewall" /\ t # latest /\ latest \in All
    BY <1>6 DEF TaskInv, TypeOK
  <2>2. outcome'[latest'] = outcome[latest] /\ cfg'[latest'] = cfg[latest]
    BY <1>2, <2>1
  <2>3. /\ UNCHANGED <<wg, ts>>
        /\ "wg0" \in kept' <=> "wg0" \in kept
        /\ "tailscale" \in kept' <=> "tailscale" \in kept
    BY <2>1
  <2>4. cfg[latest].backend = "none" => wanted.backend = "none"
    BY DEF TaskInv, Off
  <2>5. NoneInv'
    BY <2>1, <2>2, <2>3, <2>4 DEF NoneInv, Down, TsGone
  <2>6. TunnelInv'
    BY <2>2, <2>3 DEF TunnelInv
  <2> QED BY <2>5, <2>6
<1>7. NoneInv' /\ TunnelInv'
  BY <1>5, <1>6
<1>8. DropInv'
  <2>1. ASSUME Head(todo[t]) \notin {"nftDelete", "nftFlush"}, NEW u \in All, Fresh(u)
        PROVE  Fresh(u)'
    <3>1. Head(VpnProgram(wanted)) = "nftDelete" /\ Head(FirewallProgram(wanted)) = "nftFlush"
      BY <1>2, VpnStarts, FirewallStarts DEF Starts
    <3>2. u # t
      BY <2>1, <3>1 DEF Fresh
    <3> QED BY <1>2, <2>1, <3>2 DEF Fresh, Running
  <2> QED BY <1>2, <2>1 DEF DropInv
<1>9. KillSwitchUntilHandshake'
  BY <1>2 DEF KillSwitchUntilHandshake, Quiet, NoFailure, Full
<1> QED BY <1>1, <1>3, <1>4, <1>7, <1>8, <1>9

-----------------------------------------------------------------------------
(* The commands *)

\* Where the task of a command stands before it.
LEMMA Standing ==
  ASSUME TypeOK, TaskInv, NEW t \in All, Step(t)
  PROVE  /\ kind[t] \in {"vpn", "firewall"} /\ cfg[t] = wanted /\ wanted \in Configs
         /\ kind[t] = "vpn" => VpnStage(todo[t], wanted)
         /\ kind[t] = "firewall" => FirewallStage(todo[t], wanted)
         /\ UNCHANGED <<wanted, kind>>
         /\ Running(t)' => outcome'[t] = "running"
  BY StepTasks DEF StageOK, TypeOK

\* The nft table: torn down, flushed away or loaded again.
LEMMA TableInv ==
  ASSUME VpnInv, NEW t \in All, NftDelete(t) \/ NftFlush(t) \/ NftLoad(t)
  PROVE  VpnInv'
<1> DEFINE s == todo[t]
<1>0. Step(t)
  BY DEF Step
<1>1. /\ kind[t] \in {"vpn", "firewall"} /\ cfg[t] = wanted /\ wanted \in Configs
      /\ kind[t] = "vpn" => VpnStage(s, wanted)
      /\ kind[t] = "firewall" => FirewallStage(s, wanted)
      /\ UNCHANGED <<wanted, kind, wg, ts, conf, handshake>>
      /\ kept \ {"table"} = kept' \ {"table"}
      /\ Running(t)' => outcome'[t] = "running"
  BY <1>0, Standing DEF VpnInv, NftDelete, NftFlush, NftLoad
<1>2. /\ Head(s) \in {"nftDelete", "nftFlush", "nftLoad"}
      /\ Head(s) # "nftLoad" => TableGone'
      /\ Head(s) = "nftLoad" => drop' = drop /\ kept' = kept
      /\ drop' # NoRule => table'
  <2>1. drop # NoRule => table
    BY DEF VpnInv, DropInv
  <2>2. CASE NftDelete(t)
    BY <2>1, <2>2 DEF NftDelete, At, TableGone
  <2>3. CASE NftFlush(t)
    BY <2>1, <2>3 DEF NftFlush, At, TableGone
  <2>4. CASE NftLoad(t)
    BY <2>1, <2>4 DEF NftLoad, At
  <2> QED BY <2>2, <2>3, <2>4
<1>3. Down => Down'
  BY <1>1 DEF Down
<1>4. outcome'[t] \in {"running", "ok"} => todo'[t] = Tail(s)
  BY <1>0, <1>2, StepTasks DEF VpnInv
<1>5. outcome'[t] = "ok" => todo'[t] = <<>>
  BY <1>0, StepTasks DEF VpnInv, Running
<1>6. CASE kind[t] = "vpn"
  <2>1. /\ Head(s) \in {"nftDelete", "nftLoad"}
        /\ Head(s) = "nftDelete" =>
             \/ wanted.backend = "none" /\ Tail(s) = OffWgLeft
             \/ wanted.backend = "tailscale" /\ Tail(s) = TsDownLeft
             \/ wanted.backend = "wireguard" /\ Tail(s) = WgConfLeft(wanted)
             \/ wanted.backend = "tailscale" /\ Down /\ Tail(s) = TsLoadLeft
             \/ wanted.backend = "wireguard" /\ conf = wanted /\ Tail(s) = WgLoadLeft(wanted)
        /\ Head(s) = "nftLoad" =>
             \/ wanted.backend = "tailscale" /\ Down /\ Tail(s) = TsUpLeft
             \/ wanted.backend = "wireguard" /\ conf = wanted /\ Tail(s) = WgUpLeft(wanted)
    BY <1>1, <1>2, <1>6, VpnAt
  <2>2. outcome'[t] # "ok"
    <3>1. Tail(s) # <<>>
      BY <2>1, NotDone
    <3> QED BY <1>4, <1>5, <3>1
  <2>3. Running(t)' => StageOK(t)'
    <3> SUFFICES ASSUME Running(t)' PROVE StageOK(t)'
      OBVIOUS
    <3>1. todo'[t] = Tail(s)
      BY <1>1, <1>4
    <3>2. VpnStage(todo[t], wanted)'
      BY <1>1, <1>2, <1>3, <2>1, <3>1 DEF VpnStage
    <3> QED BY <1>1, <1>6, <3>2 DEF StageOK
  <2>4. \/ drop' = NoRule \/ "table" \in kept'
        \/ drop' = drop /\ kept' = kept /\ Head(s) \notin {"nftDelete", "nftFlush"}
    BY <1>2, <2>1 DEF TableGone
  <2> HIDE DEF s
  <2> QED BY <1>0, <1>1, <1>2, <1>6, <2>2, <2>3, <2>4, Conclude DEF s
<1>7. CASE kind[t] = "firewall"
  <2>1. /\ Head(s) = "nftFlush" =>
             Tail(s) = IF wanted.backend = "none" THEN <<>> ELSE FwAssertLeft
        /\ Head(s) # "nftFlush" => wanted.backend # "none"
        /\ Head(s) = "nftDelete" => Tail(s) = FwLoadLeft
        /\ Head(s) = "nftLoad" => Tail(s) = Check
    BY <1>1, <1>7, FirewallAt
  <2>2. outcome'[t] = "ok" => wanted.backend = "none"
    BY <1>2, <1>4, <1>5, <2>1, Ends DEF Starts
  <2>3. Running(t)' => StageOK(t)'
    <3> SUFFICES ASSUME Running(t)' PROVE StageOK(t)'
      OBVIOUS
    <3>1. todo'[t] = Tail(s) /\ todo'[t] # <<>>
      BY <1>1, <1>4 DEF Running
    <3>2. wanted.backend # "none" /\ todo'[t] \in {FwAssertLeft, FwLoadLeft, Check}
      BY <1>2, <2>1, <3>1
    <3>3. FirewallStage(todo[t], wanted)'
      BY <1>1, <3>2 DEF FirewallStage
    <3> QED BY <1>1, <1>7, <3>3 DEF StageOK
  <2>4. \/ drop' = NoRule \/ "table" \in kept'
        \/ drop' = drop /\ kept' = kept /\ Head(s) \notin {"nftDelete", "nftFlush"}
    BY <1>2 DEF TableGone
  <2>5. wanted.backend = "none" => TableGone'
    BY <1>2, <2>1
  <2>6. ~(outcome'[t] = "ok" /\ Full(wanted))
    BY <2>2 DEF Full
  <2> HIDE DEF s
  <2> QED BY <1>0, <1>1, <1>2, <1>7, <2>3, <2>4, <2>5, <2>6, Conclude DEF s
<1> QED BY <1>1, <1>6, <1>7

\* wg-quick and its configuration file.
LEMMA WireguardInv ==
  ASSUME VpnInv, NEW t \in All, WgConf(t) \/ WgDown(t) \/ WgUp(t)
  PROVE  VpnInv'
<1> DEFINE s == todo[t]
<1>0. Step(t)
  BY DEF Step
<1>1. /\ kind[t] \in {"vpn", "firewall"} /\ cfg[t] = wanted /\ wanted \in Configs
      /\ kind[t] = "vpn" => VpnStage(s, wanted)
      /\ kind[t] = "firewall" => FirewallStage(s, wanted)
      /\ UNCHANGED <<wanted, kind, table, drop, ts>>
      /\ "table" \in kept <=> "table" \in kept'
      /\ Running(t)' => outcome'[t] = "running"
  BY <1>0, Standing DEF VpnInv, WgConf, WgDown, WgUp
<1>2. /\ Head(s) \in {"wgConf", "wgDown", "wgUp"}
      /\ Head(s) = "wgConf" /\ outcome'[t] \in {"running", "ok"} => conf' = wanted
      /\ Head(s) = "wgDown" => conf' = conf /\ Down'
      /\ Head(s) = "wgUp" /\ outcome'[t] \in {"running", "ok"} => wg' = conf
  BY <1>1 DEF WgConf, WgDown, WgUp, At, Abort, Down, VpnInv, TypeOK
<1>3. outcome'[t] \in {"running", "ok"} => todo'[t] = Tail(s)
  BY <1>0, <1>2, StepTasks DEF VpnInv
<1>4. outcome'[t] = "ok" => todo'[t] = <<>>
  BY <1>0, StepTasks DEF VpnInv, Running
<1>5. kind[t] = "vpn"
  BY <1>1, <1>2, FirewallAt
<1>6. /\ Head(s) = "wgConf" => wanted.backend = "wireguard" /\ Tail(s) = WgDownLeft(wanted)
      /\ Head(s) = "wgDown" =>
           \/ wanted.backend = "none" /\ TableGone /\ Tail(s) = OffTsLeft
           \/ wanted.backend = "tailscale" /\ Tail(s) = TsAssertLeft
           \/ wanted.backend = "wireguard" /\ conf = wanted /\ Tail(s) = WgAssertLeft(wanted)
      /\ Head(s) = "wgUp" =>
           wanted.backend = "wireguard" /\ conf = wanted /\ Tail(s) = CheckIf(wanted)
  BY <1>1, <1>5, VpnAt
<1>7. outcome'[t] = "ok" => Head(s) = "wgUp" /\ wanted.role # "travel"
  <2>1. WgDownLeft(wanted) # <<>> /\ WgAssertLeft(wanted) # <<>> /\ OffTsLeft # <<>>
        /\ TsAssertLeft # <<>> /\ Check # <<>>
    BY NotDone
  <2>2. outcome'[t] = "ok" => Tail(s) = <<>>
    BY <1>3, <1>4
  <2> QED BY <1>2, <1>6, <2>1, <2>2 DEF CheckIf
<1>8. TableGone => TableGone'
  BY <1>1 DEF TableGone
<1>9. Running(t)' => StageOK(t)'
  <2> SUFFICES ASSUME Running(t)' PROVE StageOK(t)'
    OBVIOUS
  <2>1. todo'[t] = Tail(s) /\ todo'[t] # <<>> /\ outcome'[t] = "running"
    BY <1>1, <1>3 DEF Running
  <2>2. Head(s) = "wgUp" => wanted.role = "travel" /\ todo'[t] = Check
    BY <1>6, <2>1 DEF CheckIf
  <2>3. VpnStage(todo[t], wanted)'
    BY <1>1, <1>2, <1>6, <1>8, <2>1, <2>2 DEF VpnStage
  <2> QED BY <1>1, <1>5, <2>3 DEF StageOK
<1>10. outcome'[t] = "ok" => wanted.backend = "wireguard" /\ wg' = wanted /\ ~Full(wanted)
  BY <1>2, <1>6, <1>7 DEF Full
<1>11. /\ drop' = drop /\ Head(s) \notin {"nftDelete", "nftFlush"}
       /\ drop' # NoRule => table'
  BY <1>1, <1>2 DEF VpnInv, DropInv
<1> HIDE DEF s
<1> QED BY <1>0, <1>1, <1>5, <1>9, <1>10, <1>11, Conclude DEF s

\* Tailscale.
LEMMA TailscaleInv ==
  ASSUME VpnInv, NEW t \in All, TsUp(t) \/ TsDown(t)
  PROVE  VpnInv'
<1> DEFINE s == todo[t]
<1>0. Step(t)
  BY DEF Step
<1>1. /\ kind[t] \in {"vpn", "firewall"} /\ cfg[t] = wanted /\ wanted \in Configs
      /\ kind[t] = "vpn" => VpnStage(s, wanted)
      /\ kind[t] = "firewall" => FirewallStage(s, wanted)
      /\ UNCHANGED <<wanted, kind, table, drop, conf, wg, handshake>>
      /\ "table" \in kept <=> "table" \in kept'
      /\ "wg0" \in kept <=> "wg0" \in kept'
      /\ Running(t)' => outcome'[t] = "running"
  BY <1>0, Standing DEF VpnInv, TsUp, TsDown
<1>2. Head(s) \in {"tsUp", "tsDown"} /\ (Head(s) = "tsDown" => TsGone')
  BY DEF TsUp, TsDown, At, TsGone
<1>3. (Down => Down') /\ (TableGone => TableGone')
  BY <1>1 DEF Down, TableGone
<1>4. outcome'[t] \in {"running", "ok"} => todo'[t] = Tail(s)
  BY <1>0, <1>2, StepTasks DEF VpnInv
<1>5. outcome'[t] = "ok" => todo'[t] = <<>>
  BY <1>0, StepTasks DEF VpnInv, Running
<1>6. kind[t] = "vpn"
  BY <1>1, <1>2, FirewallAt
<1>7. /\ Head(s) = "tsUp" => wanted.backend = "tailscale" /\ Down /\ Tail(s) = Check
      /\ Head(s) = "tsDown" =>
           wanted.backend = "none" /\ TableGone /\ Down /\ Tail(s) = <<>>
  BY <1>1, <1>6, VpnAt
<1>8. outcome'[t] = "ok" => Head(s) = "tsDown"
  BY <1>2, <1>4, <1>5, <1>7, Ends DEF Starts
<1>9. Running(t)' => StageOK(t)'
  <2> SUFFICES ASSUME Running(t)' PROVE StageOK(t)'
    OBVIOUS
  <2>1. todo'[t] = Tail(s) /\ todo'[t] # <<>>
    BY <1>1, <1>4 DEF Running
  <2>2. wanted.backend = "tailscale" /\ Down' /\ todo'[t] = Check
    BY <1>1, <1>2, <1>7, <1>3, <2>1
  <2>3. VpnStage(todo[t], wanted)'
    BY <1>1, <2>2 DEF VpnStage
  <2> QED BY <1>1, <1>6, <2>3 DEF StageOK
<1>10. outcome'[t] = "ok" => /\ wanted.backend = "none" /\ ~Full(wanted)
                            /\ TableGone' /\ Down' /\ TsGone'
  BY <1>1, <1>2, <1>7, <1>8, <1>3 DEF Full
<1>11. outcome'[t] = "ok" => wg' = NoConf \/ "wg0" \in kept'
  BY <1>10 DEF Down
<1>12. /\ drop' = drop /\ Head(s) \notin {"nftDelete", "nftFlush"}
       /\ drop' # NoRule => table'
  BY <1>1, <1>2 DEF VpnInv, DropInv
<1> HIDE DEF s
<1> QED BY <1>0, <1>1, <1>6, <1>9, <1>10, <1>12, <1>11, Conclude DEF s

\* The look at the tunnel and the rule that follows from it.
LEMMA RuleInv ==
  ASSUME VpnInv, NEW t \in All, Probe(t) \/ ChainFlush(t) \/ ChainDrop(t)
  PROVE  VpnInv'
<1> DEFINE s == todo[t]
<1>0. Step(t)
  BY DEF Step
<1>1. /\ kind[t] \in {"vpn", "firewall"} /\ cfg[t] = wanted /\ wanted \in Configs
      /\ kind[t] = "vpn" => VpnStage(s, wanted)
      /\ kind[t] = "firewall" => FirewallStage(s, wanted)
      /\ UNCHANGED <<wanted, kind, table, conf, wg, handshake, ts, kept>>
      /\ Running(t)' => outcome'[t] = "running"
  BY <1>0, Standing DEF VpnInv, Probe, ChainFlush, ChainDrop, kernelVars
<1>2. /\ Head(s) \in {"probe", "chainFlush", "chainDrop"}
      /\ Head(s) = "probe" => drop' = drop
      /\ Head(s) = "chainFlush" => drop' = NoRule \/ drop' = drop
      /\ Head(s) = "chainDrop" /\ outcome'[t] \in {"running", "ok"} =>
           table /\ drop' = TunnelIface(wanted)
      /\ Head(s) = "chainDrop" => table' \/ drop' = drop
  <2>1. CASE Probe(t)
    BY <1>0, <2>1, StepTasks DEF Probe, At, kernelVars, VpnInv
  <2>2. CASE ChainFlush(t)
    BY <2>2 DEF ChainFlush, At
  <2>3. CASE ChainDrop(t)
    <3>1. Head(s) = "chainDrop"
      BY <2>3 DEF ChainDrop, At
    <3>2. CASE table /\ drop' = TunnelIface(cfg[t])
      BY <1>1, <3>1, <3>2
    <3>3. CASE Abort(t, lastError) /\ drop' = drop
      <4>1. outcome'[t] \notin {"running", "ok"}
        BY <3>3 DEF Abort, VpnInv, TypeOK
      <4> QED BY <3>1, <3>3, <4>1
    <3> QED BY <2>3, <3>2, <3>3 DEF ChainDrop
  <2> QED BY <2>1, <2>2, <2>3
<1>3. outcome'[t] \in {"running", "ok"} =>
        \/ todo'[t] = Tail(s) /\ Head(s) # "probe"
        \/ /\ Head(s) = "probe"
           /\ \E healthy \in Looks(wanted) : todo'[t] = KillSwitchProgram(wanted, healthy)
  <2>1. Probe(t) =>
          \E healthy \in Looks(wanted) : todo'[t] = KillSwitchProgram(wanted, healthy)
    BY <1>1 DEF Probe, Proceed, Looks, VpnInv, TypeOK
  <2>2. Head(s) = "probe" => Probe(t)
    BY DEF Probe, ChainFlush, ChainDrop, At
  <2> QED BY <1>0, <2>1, <2>2, StepTasks DEF VpnInv
<1>4. outcome'[t] = "ok" => todo'[t] = <<>>
  BY <1>0, StepTasks DEF VpnInv, Running
<1>5. /\ kind[t] = "vpn" => Behind(wanted)
      /\ kind[t] = "firewall" => wanted.backend # "none"
  BY <1>1, <1>2, VpnAt, FirewallAt
<1>6. /\ Head(s) = "chainFlush" =>
           \/ Tail(s) = <<>> /\ (Full(wanted) => handshake)
           \/ Tail(s) = JustDrop /\ CutOff(wanted)
      /\ Head(s) = "chainDrop" => CutOff(wanted) /\ Tail(s) = <<>>
  BY <1>1, VpnAt, FirewallAt
<1>7. Head(s) = "probe" /\ outcome'[t] \in {"running", "ok"} =>
        KillStage(todo[t], wanted)' /\ todo'[t] # <<>>
  <2>1. \A healthy \in Looks(wanted) : KillStage(KillSwitchProgram(wanted, healthy), wanted)
    BY <1>1, KillSwitchStarts
  <2>2. \A healthy \in Looks(wanted) : KillSwitchProgram(wanted, healthy) # <<>>
    BY <2>1, Ends DEF KillStage, Starts
  <2> QED BY <1>1, <1>3, <2>1, <2>2 DEF KillStage
<1>8. Running(t)' => StageOK(t)'
  <2> SUFFICES ASSUME Running(t)' PROVE StageOK(t)'
    OBVIOUS
  <2>1. todo'[t] # <<>> /\ outcome'[t] = "running"
    BY <1>1 DEF Running
  <2>2. KillStage(todo[t], wanted)'
    BY <1>1, <1>2, <1>3, <1>6, <1>7, <2>1 DEF KillStage
  <2>3. CASE kind[t] = "vpn"
    <3>1. VpnStage(todo[t], wanted)'
      BY <1>1, <1>5, <2>2, <2>3 DEF VpnStage, Behind, Down
    <3> QED BY <1>1, <2>3, <3>1 DEF StageOK
  <2>4. CASE kind[t] = "firewall"
    <3>1. FirewallStage(todo[t], wanted)'
      BY <1>1, <1>5, <2>2, <2>4 DEF FirewallStage
    <3> QED BY <1>1, <2>4, <3>1 DEF StageOK
  <2> QED BY <1>1, <2>3, <2>4
<1>9. wanted.backend # "none"
  BY <1>1, <1>5 DEF Behind
<1>10. kind[t] = "vpn" =>
         \/ wg' = IF wanted.backend = "wireguard" THEN wanted ELSE NoConf
         \/ wanted.backend # "wireguard" /\ "wg0" \in kept'
  BY <1>1, <1>5 DEF Behind, Down
<1>11. /\ \/ CutOff(wanted) \/ drop' = NoRule
          \/ drop' = drop /\ Head(s) \notin {"nftDelete", "nftFlush"}
       /\ drop' # NoRule => table'
  BY <1>1, <1>2, <1>6 DEF VpnInv, DropInv
<1>12. outcome'[t] = "ok" /\ Full(wanted) /\ ~handshake' => table' /\ drop' = "wg0"
  <2> SUFFICES ASSUME outcome'[t] = "ok", Full(wanted), ~handshake'
               PROVE  table' /\ drop' = "wg0"
    OBVIOUS
  <2>1. todo'[t] = <<>> /\ Head(s) # "probe" /\ JustDrop # <<>>
    BY <1>4, <1>7, Ends DEF Starts
  <2>2. Head(s) = "chainDrop"
    BY <1>1, <1>2, <1>3, <1>6, <2>1
  <2>3. TunnelIface(wanted) = "wg0"
    BY DEF Full, TunnelIface
  <2> QED BY <1>1, <1>2, <2>2, <2>3
<1> HIDE DEF s
<1> QED BY <1>0, <1>1, <1>8, <1>9, <1>10, <1>11, <1>12, Conclude DEF s

\* Every command keeps the invariant.
LEMMA StepInv == ASSUME VpnInv, NEW t \in All, Step(t) PROVE VpnInv'
  BY TableInv, WireguardInv, TailscaleInv, RuleInv DEF Step

-----------------------------------------------------------------------------
(* Requests, restarts, and the invariance *)

\* main's two programs are all that runs, before their first command.
Booting ==
    /\ latest = BootVpn /\ lastError = FALSE
    /\ kind[BootVpn] = "vpn" /\ kind[BootFirewall] = "firewall"
    /\ \A t \in Boot : cfg[t] = wanted /\ outcome[t] = "running"
    /\ todo[BootFirewall] = FirewallProgram(wanted) /\ todo[BootVpn] = VpnProgram(wanted)
    /\ \A t \in Tasks : todo[t] = <<>> /\ outcome[t] # "running"

\* They fit any kernel, once a rule is one of a table.
LEMMA BootInv == TypeOK /\ Booting /\ (drop # NoRule => table) => VpnInv
<1> SUFFICES ASSUME TypeOK, Booting, drop # NoRule => table PROVE VpnInv
  OBVIOUS
<1> USE DEF Booting
<1>1. wanted \in Configs /\ FirewallProgram(wanted) # <<>> /\ VpnProgram(wanted) # <<>>
  BY FirewallStarts, VpnStarts DEF TypeOK, Starts
<1>2. \A t \in All : Running(t) <=> t \in Boot
  BY <1>1, BootTasks DEF Running, All, Boot
<1>3. StageOK(BootFirewall) /\ StageOK(BootVpn)
  BY DEF StageOK, VpnStage, FirewallStage
<1>4. \A t \in All : t \in Boot \/ t \in Tasks
  BY DEF All
<1>5. TaskInv
  <2>1. \A t \in All : outcome[t] = "running" <=> Running(t)
    BY <1>2, <1>4, BootTasks
  <2>2. \A t \in All : Running(t) => cfg[t] = wanted /\ StageOK(t)
    BY <1>2, <1>3, BootTasks
  <2>3. \A t \in All : Running(t) /\ kind[t] = "vpn" => t = latest
    BY <1>2, BootTasks
  <2>4. \A t, u \in All : Running(t) /\ Running(u) => t = u \/ {t, u} \subseteq Boot
    BY <1>2
  <2>5. outcome[latest] # "idle" /\ cfg[latest] = wanted
    BY BootTasks
  <2> QED BY <2>1, <2>2, <2>3, <2>4, <2>5 DEF TaskInv
<1>6. outcome[latest] # "ok" /\ latest \notin Tasks /\ ~Quiet
  BY <1>2, BootTasks DEF Quiet
<1>7. NoneInv /\ TunnelInv /\ KillSwitchUntilHandshake /\ ErrorInv
  BY <1>6 DEF NoneInv, TunnelInv, KillSwitchUntilHandshake, ErrorInv
<1>8. DropInv
  BY <1>2, BootTasks DEF DropInv, Fresh
<1> QED BY <1>5, <1>7, <1>8 DEF VpnInv

LEMMA InitInv == Init => VpnInv
<1> SUFFICES ASSUME Init PROVE VpnInv
  OBVIOUS
<1>1. Booting
  <2>1. \A t \in Boot : cfg[t] = wanted /\ outcome[t] = "running"
    BY BootTasks DEF Init, All
  <2>2. todo[BootFirewall] = FirewallProgram(wanted) /\ todo[BootVpn] = VpnProgram(wanted)
    BY BootTasks DEF Init
  <2>3. \A t \in Tasks : todo[t] = <<>> /\ outcome[t] # "running"
    BY BootTasks DEF Init
  <2>4. kind[BootVpn] = "vpn" /\ kind[BootFirewall] = "firewall"
    BY BootTasks DEF Init
  <2> QED BY <2>1, <2>2, <2>3, <2>4 DEF Init, Booting
<1>2. drop = NoRule
  BY DEF Init
<1> QED BY <1>1, <1>2, InitTyped, BootInv

\* A restart starts main's programs over, and every other task is gone.
LEMMA RestartInv == ASSUME VpnInv, Restart PROVE VpnInv'
<1>1. TypeOK'
  BY NextTyped DEF Next, VpnInv
<1>2. Booting'
  <2>1. \A t \in Boot : cfg'[t] = wanted' /\ outcome'[t] = "running"
    BY BootTasks DEF Restart, All
  <2>2. todo'[BootFirewall] = FirewallProgram(wanted') /\ todo'[BootVpn] = VpnProgram(wanted')
    BY BootTasks DEF Restart
  <2>3. \A t \in Tasks : todo'[t] = <<>>
    BY BootTasks DEF Restart
  <2>4. \A t \in Tasks : outcome'[t] # "running"
    <3> SUFFICES ASSUME NEW t \in Tasks PROVE outcome'[t] # "running"
      OBVIOUS
    <3>1. outcome'[t] = IF Running(t) THEN "error" ELSE outcome[t]
      BY BootTasks DEF Restart
    <3>2. outcome[t] = "running" <=> Running(t)
      BY BootTasks DEF VpnInv, TaskInv
    <3> QED BY <3>1, <3>2
  <2>5. kind'[BootVpn] = "vpn" /\ kind'[BootFirewall] = "firewall"
    BY DEF Restart, VpnInv, TaskInv
  <2>6. latest' = BootVpn /\ lastError' = FALSE
    BY DEF Restart
  <2> QED BY <2>1, <2>2, <2>3, <2>4, <2>5, <2>6 DEF Booting
<1>3. (drop # NoRule => table)'
  <2>1. \/ drop' = drop /\ table' = table
        \/ drop' = NoRule
    BY DEF Restart, kernelVars
  <2> QED BY <2>1 DEF VpnInv, DropInv
<1> QED BY <1>1, <1>2, <1>3, BootInv, PTL

\* One request at a time: nothing in the code sees to it.
Serial == ~Overlap

\* A save starts vpn::apply over, whatever the kernel holds.
LEMMA SubmitVpnInv == ASSUME Serial, VpnInv, NEW t \in Tasks, SubmitVpn(t) PROVE VpnInv'
<1>1. TypeOK'
  BY NextTyped DEF Next, VpnInv
<1>2. t \in All /\ t \notin Boot /\ \A u \in All : ~Running(u)
  BY BootTasks DEF SubmitVpn, MaySubmit, Serial
<1>3. /\ todo'[t] = VpnProgram(wanted') /\ cfg'[t] = wanted' /\ kind'[t] = "vpn"
      /\ latest' = t /\ outcome'[t] = "running"
  BY <1>2 DEF SubmitVpn, VpnInv, TypeOK
<1>4. \A u \in All \ {t} : /\ todo'[u] = todo[u] /\ kind'[u] = kind[u]
                           /\ outcome'[u] = outcome[u]
  BY DEF SubmitVpn, VpnInv, TypeOK
<1>5. todo'[t] # <<>>
  BY <1>1, <1>3, VpnStarts DEF TypeOK, Starts
<1>6. \A u \in All : Running(u)' <=> u = t
  BY <1>2, <1>4, <1>5 DEF Running
<1>7. TaskInv'
  <2>1. \A u \in All : outcome'[u] = "running" <=> Running(u)'
    BY <1>2, <1>3, <1>4, <1>6 DEF VpnInv, TaskInv
  <2>2. StageOK(t)'
    BY <1>3 DEF StageOK, VpnStage
  <2>3. kind'[BootVpn] = "vpn" /\ kind'[BootFirewall] = "firewall"
    BY <1>2, <1>4, BootTasks DEF VpnInv, TaskInv
  <2>4. ~Running(BootFirewall)'
    BY <1>2, <1>6, BootTasks
  <2> QED BY <1>3, <1>6, <2>1, <2>2, <2>3, <2>4 DEF TaskInv
<1>8. outcome'[latest'] # "ok" /\ Running(latest)' /\ ~Quiet'
  BY <1>2, <1>3, <1>6 DEF Quiet
<1>9. NoneInv' /\ TunnelInv' /\ KillSwitchUntilHandshake' /\ ErrorInv'
  BY <1>2, <1>3, <1>8, BootTasks
  DEF NoneInv, TunnelInv, KillSwitchUntilHandshake, ErrorInv
<1>10. DropInv'
  <2>1. Fresh(t)'
    BY <1>2, <1>3, <1>6 DEF Fresh
  <2>2. UNCHANGED <<drop, table>>
    BY DEF SubmitVpn, kernelVars
  <2> QED BY <1>2, <2>1, <2>2 DEF DropInv, VpnInv
<1> QED BY <1>1, <1>7, <1>9, <1>10 DEF VpnInv

\* A ruleset task is given the settings last saved, or the defaults of a factory
\* reset, and leaves what the last vpn::apply came to as it is.
LEMMA SubmitRulesetInv ==
  ASSUME Serial, VpnInv, NEW t \in Tasks, SubmitFirewall(t) \/ SubmitReset(t)
  PROVE  VpnInv'
<1>1. TypeOK'
  BY NextTyped DEF Next, VpnInv
<1>2. t \in All /\ t \notin Boot /\ \A u \in All : ~Running(u)
  BY BootTasks DEF SubmitFirewall, SubmitReset, MaySubmit, Serial
<1>3. /\ todo'[t] = FirewallProgram(wanted') /\ cfg'[t] = wanted' /\ kind'[t] = "firewall"
      /\ outcome'[t] = "running" /\ UNCHANGED <<latest, lastError, kernelVars>>
      /\ wanted' = wanted \/ wanted' = Off
  BY <1>2 DEF SubmitFirewall, SubmitReset, VpnInv, TypeOK
<1>4. \A u \in All \ {t} : /\ todo'[u] = todo[u] /\ kind'[u] = kind[u]
                           /\ outcome'[u] = outcome[u] /\ cfg'[u] = cfg[u]
  BY DEF SubmitFirewall, SubmitReset, VpnInv, TypeOK
<1>5. todo'[t] # <<>>
  BY <1>1, <1>3, FirewallStarts DEF TypeOK, Starts
<1>6. \A u \in All : Running(u)' <=> u = t
  BY <1>2, <1>4, <1>5 DEF Running
<1>7. latest \in All \ {t}
  BY DEF SubmitFirewall, SubmitReset, MaySubmit, VpnInv, TaskInv, TypeOK
<1>8. TaskInv'
  <2>1. \A u \in All : outcome'[u] = "running" <=> Running(u)'
    BY <1>2, <1>3, <1>4, <1>6 DEF VpnInv, TaskInv
  <2>2. StageOK(t)'
    BY <1>3 DEF StageOK, FirewallStage
  <2>3. kind'[BootVpn] = "vpn" /\ kind'[BootFirewall] = "firewall"
    BY <1>2, <1>4, BootTasks DEF VpnInv, TaskInv
  <2>4. ~Running(BootFirewall)'
    BY <1>2, <1>6, BootTasks
  <2>5. kind'[latest'] = "vpn" /\ outcome'[latest'] # "idle"
    BY <1>3, <1>4, <1>7 DEF VpnInv, TaskInv
  <2>6. cfg'[latest'] = wanted' \/ wanted' = Off
    BY <1>3, <1>4, <1>7 DEF VpnInv, TaskInv
  <2> QED BY <1>3, <1>6, <2>1, <2>2, <2>3, <2>4, <2>5, <2>6 DEF TaskInv
<1>9. UNCHANGED <<table, drop, conf, wg, handshake, ts, kept>>
  BY <1>3 DEF kernelVars
<1>10. NoneInv' /\ TunnelInv'
  BY <1>3, <1>4, <1>7, <1>9 DEF VpnInv, NoneInv, TunnelInv, TableGone, Down, TsGone
<1>11. DropInv'
  <2>1. Fresh(t)'
    BY <1>2, <1>3, <1>6 DEF Fresh
  <2> QED BY <1>2, <1>9, <2>1 DEF DropInv, VpnInv
<1>12. KillSwitchUntilHandshake'
  BY <1>2, <1>6 DEF KillSwitchUntilHandshake, Quiet
<1>13. ErrorInv'
  BY <1>2, <1>3, <1>4, <1>7 DEF VpnInv, ErrorInv
<1> QED BY <1>1, <1>8, <1>10, <1>11, <1>12, <1>13 DEF VpnInv

\* A handshake and Tailscale's own changes touch nothing a program relies on.
LEMMA TunnelsInv ==
  ASSUME VpnInv, Handshake \/ TailscaleChanges
  PROVE  VpnInv'
<1>1. TypeOK'
  BY NextTyped DEF Next, VpnInv
<1>2. /\ UNCHANGED <<wanted, latest, cfg, kind, todo, outcome, lastError, table, drop, conf,
                    wg, kept>>
      /\ handshake => handshake'
      /\ ts = "Stopped" => ts' = "Stopped"
  BY DEF Handshake, TailscaleChanges
<1>3. \A t \in All : Running(t)' <=> Running(t)
  BY <1>2 DEF Running
<1>4. ASSUME NEW t \in All, Running(t) PROVE StageOK(t)'
  <2>1. StageOK(t)
    BY <1>4 DEF VpnInv, TaskInv
  <2>2. KillStage(todo[t], wanted) => KillStage(todo[t], wanted)'
    BY <1>2 DEF KillStage
  <2>3. VpnStage(todo[t], wanted) => VpnStage(todo[t], wanted)'
    BY <1>2, <2>2 DEF VpnStage, TableGone, Down
  <2>4. FirewallStage(todo[t], wanted) => FirewallStage(todo[t], wanted)'
    BY <1>2, <2>2 DEF FirewallStage
  <2> QED BY <1>2, <2>1, <2>3, <2>4 DEF StageOK
<1>5. TaskInv'
  BY <1>2, <1>3, <1>4, BootTasks DEF VpnInv, TaskInv
<1>6. NoneInv' /\ TunnelInv'
  BY <1>2 DEF VpnInv, NoneInv, TunnelInv, TableGone, Down, TsGone
<1>7. DropInv' /\ KillSwitchUntilHandshake'
  BY <1>2, <1>3 DEF VpnInv, DropInv, Fresh, KillSwitchUntilHandshake, Quiet, NoFailure
<1>8. ErrorInv'
  BY <1>2, <1>3, BootTasks DEF VpnInv, ErrorInv, All
<1> QED BY <1>1, <1>5, <1>6, <1>7, <1>8 DEF VpnInv

LEMMA NextInv == ASSUME Serial PROVE VpnInv /\ [Next]_vars => VpnInv'
<1> SUFFICES ASSUME VpnInv, [Next]_vars PROVE VpnInv'
  OBVIOUS
<1>1. CASE Next
  BY <1>1, SubmitVpnInv, SubmitRulesetInv, StepInv, TunnelsInv, RestartInv DEF Next
<1>2. CASE UNCHANGED vars
  <2>1. TypeOK'
    BY NextTyped DEF VpnInv
  <2>2. ASSUME NEW t \in All PROVE (Running(t)' <=> Running(t)) /\ (StageOK(t)' <=> StageOK(t))
    BY <1>2 DEF vars, kernelVars, Running, StageOK, VpnStage, FirewallStage, KillStage,
           TableGone, Down
  <2>3. TaskInv'
    BY <1>2, <2>2, BootTasks DEF VpnInv, TaskInv, vars
  <2> QED
    BY <1>2, <2>1, <2>2, <2>3, BootTasks
    DEF VpnInv, NoneInv, TunnelInv, TableGone, Down, TsGone, DropInv, Fresh,
        KillSwitchUntilHandshake, NoFailure, ErrorInv, Quiet, All, vars, kernelVars
<1> QED BY <1>1, <1>2

LEMMA Invariance == ASSUME Serial PROVE Spec => []VpnInv
<1>1. VpnInv /\ [Next]_vars => VpnInv'
  BY NextInv
<1> QED BY <1>1, InitInv, PTL DEF Spec

-----------------------------------------------------------------------------
(* What follows *)

\* Once vpn::apply with backend "none" is through, no tunnel and no rule of
\* the VPN is left, but for what a removal could not remove and nobody was told
\* (vpn/mod.rs 762-773).
THEOREM RoutingRestored == ASSUME Serial PROVE Spec => []NoneRestoresRouting
<1>1. VpnInv => NoneRestoresRouting
  BY DEF VpnInv, NoneInv, NoneRestoresRouting, TableGone, Down, TsGone
<1> QED BY <1>1, Invariance, PTL

\* A quiet box whose saved settings are not for travelling or without a VPN
\* drops nobody's traffic, also after a failed switch or a factory reset, unless
\* the nft table could not be taken away at the last attempt (nft_assert,
\* sync_kill_switch).
THEOREM DropOnlyForTravel == ASSUME Serial PROVE Spec => []KillSwitchOnlyForTravel
<1>1. VpnInv => KillSwitchOnlyForTravel
  BY DEF VpnInv, DropInv, Fresh, Quiet, CutOff, KillSwitchOnlyForTravel
<1> QED BY <1>1, Invariance, PTL

\* After a successful apply wg0 runs the settings it was given, or is down
\* unless wg-quick could not take it down, also after the ruleset tasks, factory
\* resets and restarts that follow (wg_server_apply, wg_client_apply, apply).
THEOREM TunnelFollowsSettings == ASSUME Serial PROVE Spec => []TunnelIsWanted
<1>1. VpnInv => TunnelIsWanted
  BY DEF VpnInv, TunnelInv, TunnelIsWanted
<1> QED BY <1>1, Invariance, PTL

\* With everything routed through WireGuard the direct traffic of a travel
\* box's clients is dropped until the tunnel is up, if no task reported or
\* logged a failure (vpn/mod.rs 260-267, firewall/mod.rs 50-55).
THEOREM DropUntilHandshake == ASSUME Serial PROVE Spec => []KillSwitchUntilHandshake
<1>1. VpnInv => KillSwitchUntilHandshake
  BY DEF VpnInv
<1> QED BY <1>1, Invariance, PTL

\* After a request the VPN page shows an error exactly when the vpn::apply of
\* the last one failed; after boot only one that tailscale_up kept, and only if
\* boot's vpn::apply failed (api.rs 509-520, main.rs 79-83, vpn/mod.rs 536-543).
THEOREM PageShowsError == ASSUME Serial PROVE Spec => []ErrorShown
<1>1. VpnInv => ErrorShown
  BY BootTasks DEF VpnInv, ErrorInv, ErrorShown, Quiet
<1> QED BY <1>1, Invariance, PTL
=============================================================================
