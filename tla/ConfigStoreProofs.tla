-------------------------- MODULE ConfigStoreProofs --------------------------
(***************************************************************************)
(* Theorems about ConfigStore, for any number of requests, any bodies, any *)
(* number of failing writes and restarts.                                  *)
(***************************************************************************)
EXTENDS ConfigStore, TLAPS

-----------------------------------------------------------------------------
(* Settings *)

\* Config::default() is a configuration that validate() accepts.
LEMMA DefaultIsConfig == Default \in Config /\ Valid(Default)
  BY ApAssumption DEF Default, DefaultVpn, Config, VpnConfig, Modes, Valid, VpnValid

\* A body that is a configuration update has the fields of one.
LEMMA ConfigRequestTyped ==
  ASSUME NEW r \in Request, r.kind = "config"
  PROVE  /\ r.ap \in ApForms \cup {Unset}
         /\ r.sta \in Uplinks \cup {NoUplink, Unset}
         /\ r.web \in Passwords \cup {NoPassword, Unset}
  BY DEF Request

\* A body of POST /api/vpn is a VPN configuration.
LEMMA VpnRequestTyped ==
  ASSUME NEW r \in Request, r.kind = "vpn"
  PROVE  r.vpn \in VpnConfig
  BY DEF Request

\* A key request brings a fresh key pair (gen_keypair).
LEMMA GenkeysRequestTyped ==
  ASSUME NEW r \in Request, r.kind = "genkeys"
  PROVE  r.scope \in {"client", "server", "other"} /\ r.key \in Keys
  BY DEF Request

\* A request to add a peer names it and may give its address.
LEMMA AddRequestTyped ==
  ASSUME NEW r \in Request, r.kind = "add"
  PROVE  r.name \in PeerNames /\ r.ip \in PeerIps \cup {BadIp, AnyIp}
  BY DEF Request

\* A request to connect names a network.
LEMMA ConnectRequestTyped ==
  ASSUME NEW r \in Request, r.kind = "connect"
  PROVE  r.sta \in Uplinks
  BY DEF Request

\* The kinds of requests are the state-changing routes of build_router.
LEMMA RequestKinds ==
  ASSUME NEW r \in Request
  PROVE  r.kind \in {"config", "vpn", "genkeys", "add", "remove", "writable",
                     "connect", "disconnect", "reset"}
  BY DEF Request

\* gen_peer makes a well-formed peer, if it makes one.
LEMMA GenPeerTyped ==
  ASSUME NEW name \in PeerNames, NEW v \in VpnConfig, NEW p \in GenPeer(name, v)
  PROVE  p \in Peer
  BY DEF GenPeer, Peer, VpnConfig

\* Every handler leaves a configuration in memory, whatever it was asked.
LEMMA EditsTyped ==
  ASSUME NEW r \in Request, NEW c \in Config, NEW new \in Edits(r, c)
  PROVE  new \in Config
<1> USE DEF Config
<1>1. CASE r.kind = "config"
  BY <1>1, ConfigRequestTyped, ZenonT(60) DEF Edits, ConfigEdit, Take
<1>2. CASE r.kind = "vpn"
  BY <1>2, VpnRequestTyped DEF Edits
<1>3. CASE r.kind = "genkeys"
  <2>1. new \in GenkeysEdit(r, c)
    BY <1>3 DEF Edits
  <2>2. r.key \in Keys
    BY <1>3, GenkeysRequestTyped
  <2>3. CASE r.scope = "server"
    BY <2>1, <2>2, <2>3 DEF GenkeysEdit, VpnConfig
  <2>4. CASE r.scope = "client"
    <3>1. new = [c EXCEPT !.vpn.ownKey = r.key, !.vpn.peerKey = r.key]
      BY <2>1, <2>4 DEF GenkeysEdit
    <3> QED BY <2>2, <3>1 DEF VpnConfig
  <2>5. CASE r.scope = "other"
    BY <2>1, <2>5 DEF GenkeysEdit
  <2> QED BY <1>3, <2>3, <2>4, <2>5, GenkeysRequestTyped
<1>4. CASE r.kind = "add"
  <2>1. PICK p \in Peer : new = [c EXCEPT !.vpn.peers = @ \cup {p}]
    <3>1. \A p \in GenPeer(r.name, c.vpn) : p \in Peer
      BY <1>4, AddRequestTyped, GenPeerTyped
    <3>2. r.ip # AnyIp => [name |-> r.name, ip |-> r.ip] \in Peer
      BY <1>4, AddRequestTyped DEF Peer
    <3> QED BY <1>4, <3>1, <3>2 DEF Edits, AddEdit
  <2> QED BY <2>1 DEF VpnConfig
<1>5. CASE r.kind = "remove"
  BY <1>5 DEF Edits, RemoveEdit, VpnConfig
<1>6. CASE r.kind = "writable"
  BY <1>6 DEF Edits
<1>7. CASE r.kind = "connect"
  BY <1>7, ConnectRequestTyped DEF Edits
<1>8. CASE r.kind = "disconnect"
  BY <1>8 DEF Edits
<1>9. CASE r.kind = "reset"
  BY <1>9, DefaultIsConfig DEF Edits
<1> QED BY <1>1, <1>2, <1>3, <1>4, <1>5, <1>6, <1>7, <1>8, <1>9, RequestKinds

\* A section of a configuration is one that exists.
LEMMA SectionsTyped ==
  ASSUME NEW c \in Config
  PROVE  /\ c.ap \in ApForms
         /\ c.web \in Passwords \cup {NoPassword}
         /\ c.vpn \in VpnConfig
  BY DEF Config

-----------------------------------------------------------------------------
(* The file *)

\* What a boot reads, when it can read, is a configuration.
LEMMA OnDiskTyped ==
  ASSUME FileTypeOK, Readable
  PROVE  OnDisk \in Config
<1>1. CASE Missing
  BY <1>1, DefaultIsConfig DEF OnDisk
<1>2. CASE ~Missing
  <2>1. PICK c \in file[confName] : file[confName] = {c}
    BY <1>2 DEF Readable, Stored
  <2>2. confName \in Savers /\ file[confName] \subseteq Config
    BY <1>2 DEF FileTypeOK, Missing
  <2>3. OnDisk \in file[confName]
    BY <1>2, <2>1 DEF OnDisk
  <2> QED BY <2>2, <2>3
<1> QED BY <1>1, <1>2

\* The steps of a save keep files, names and descriptors well-formed.
LEMMA OpenTyped ==
  ASSUME FileTypeOK, NEW s \in Savers, OpenTmp(s)
  PROVE  FileTypeOK'
  BY DEF FileTypeOK, OpenTmp

\* Writing a configuration leaves files that hold configurations.
LEMMA WriteTyped ==
  ASSUME FileTypeOK, NEW s \in Savers, NEW c \in Config, WriteTmp(s, c)
  PROVE  FileTypeOK'
<1>1. PICK tail \in {{}, file[fd[s]]} : file' = [file EXCEPT ![fd[s]] = {c} \cup tail]
  BY DEF WriteTmp
<1>2. file' \in [Savers -> SUBSET Config]
  <2>1. CASE fd[s] \in Savers
    BY <1>1, <2>1 DEF FileTypeOK
  <2>2. CASE fd[s] \notin Savers
    BY <1>1, <2>2 DEF FileTypeOK
  <2> QED BY <2>1, <2>2
<1> QED BY <1>2 DEF FileTypeOK, WriteTmp

\* Renaming the temporary file gives config.json an existing file.
LEMMA RenameTyped ==
  ASSUME FileTypeOK, RenameTmp
  PROVE  FileTypeOK'
  BY DEF FileTypeOK, RenameTmp

\* A dying process leaves its files as they are.
LEMMA CloseTyped ==
  ASSUME FileTypeOK, CloseAll
  PROVE  FileTypeOK'
  BY DEF FileTypeOK, CloseAll

-----------------------------------------------------------------------------
(* Type correctness *)

\* Handlers and tasks are the savers.
LEMMA SaversAre ==
  /\ \A h \in Handlers : H(h) \in Savers /\ T(h) \in Savers /\ H(h) # T(h)
  /\ \A s \in Savers : \E h \in Handlers : s = H(h) \/ s = T(h)
  /\ \A g, h \in Handlers : H(g) # T(h) /\ (H(g) = H(h) => g = h) /\ (T(g) = T(h) => g = h)
  BY StoreAssumption DEF H, T

\* The first component of a saver is the request it serves.
LEMMA SaverHandler ==
  ASSUME NEW s \in Savers
  PROVE  s[1] \in Handlers
  BY StoreAssumption

\* A saver that moves to a step is at a step.
LEMMA GotoTyped ==
  ASSUME pc \in [Savers -> Steps], NEW s \in Savers, NEW step \in Steps, Goto(s, step)
  PROVE  pc' \in [Savers -> Steps]
  BY DEF Goto

\* A spawned task starts at one of its first steps.
LEMMA SpawnTyped ==
  ASSUME NEW h \in Handlers, NEW p \in [Savers -> Steps]
  PROVE  Spawn(h, p) \in [Savers -> Steps]
  BY SaversAre DEF Spawn, Steps, Saving

\* What a saver writes is a configuration.
LEMMA DataTyped ==
  ASSUME TypeOK, NEW s \in Savers
  PROVE  Data(s) \in Config
  BY SaverHandler, DefaultIsConfig DEF Data, TypeOK

\* The first boot, with no config.json, starts well-typed (build_router, load).
LEMMA InitTyped == Init => TypeOK
<1> SUFFICES ASSUME Init PROVE TypeOK
  OBVIOUS
<1>1. FileTypeOK
  BY DEF Init, FileInit, FileTypeOK
<1>2. mem \in Config /\ snap \in [Handlers -> Config]
  BY DefaultIsConfig DEF Init
<1>3. live \in [ap : ApForms, vpn : VpnConfig]
  BY DefaultIsConfig, ApAssumption DEF Init, Default, Config
<1>4. pc \in [Savers -> Steps]
  BY DEF Init, Steps, Settled
<1> QED BY <1>1, <1>2, <1>3, <1>4, StoreAssumption DEF Init, TypeOK

\* Every handler, save, task and restart keeps the types.
LEMMA NextTyped == TypeOK /\ [Next]_vars => TypeOK'
<1> SUFFICES ASSUME TypeOK, [Next]_vars PROVE TypeOK'
  OBVIOUS
<1> USE DEF TypeOK
<1>1. ASSUME NEW h \in Handlers, Arrive(h) PROVE TypeOK'
  <2>1. pc' \in [Savers -> Steps]
    BY <1>1, SaversAre, GotoTyped DEF Arrive, Steps, Saving
  <2>2. readers' \subseteq Handlers
    BY <1>1 DEF Arrive
  <2> QED BY <1>1, <2>1, <2>2 DEF Arrive, fileVars, FileTypeOK
<1>2. ASSUME NEW h \in Handlers, CommandDone(h) PROVE TypeOK'
  <2>1. pc' \in [Savers -> Steps]
    BY <1>2, SaversAre, GotoTyped DEF CommandDone, Steps, Settled
  <2> QED BY <1>2, <2>1 DEF CommandDone, fileVars, FileTypeOK
<1>3. ASSUME NEW h \in Handlers, Refuse(h) PROVE TypeOK'
  <2>1. pc' \in [Savers -> Steps]
    BY <1>3, SaversAre, GotoTyped DEF Refuse, Steps, Settled
  <2> QED BY <1>3, <2>1 DEF Refuse, fileVars, FileTypeOK
<1>4. ASSUME NEW h \in Handlers, Edit(h) PROVE TypeOK'
  <2>1. mem' \in Config
    BY <1>4, EditsTyped, StoreAssumption DEF Edit
  <2>2. pc' \in [Savers -> Steps]
    BY <1>4, SaversAre, GotoTyped DEF Edit, Steps, Settled, Saving
  <2>3. cred' \in Passwords \cup {NoPassword}
    BY <1>4, ConfigRequestTyped, StoreAssumption DEF Edit, CredAfter
  <2>4. writer' \in Handlers \cup {NoOne}
    BY <1>4 DEF Edit
  <2> QED BY <1>4, <2>1, <2>2, <2>3, <2>4 DEF Edit, fileVars, FileTypeOK
<1>5. ASSUME NEW h \in Handlers, Install(h) PROVE TypeOK'
  <2>1. pc' \in [Savers -> Steps]
    BY <1>5, SaversAre, GotoTyped DEF Install, Steps
  <2> QED BY <1>5, <2>1, DefaultIsConfig DEF Install, fileVars, FileTypeOK
<1>6. ASSUME NEW h \in Handlers, ClearCredential(h) PROVE TypeOK'
  <2>1. [pc EXCEPT ![H(h)] = "ok"] \in [Savers -> Steps]
    BY SaversAre DEF Steps, Settled
  <2>2. pc' \in [Savers -> Steps]
    BY <1>6, <2>1, SpawnTyped DEF ClearCredential
  <2>3. snap' \in [Handlers -> Config]
    BY <1>6, DefaultIsConfig DEF ClearCredential
  <2> QED BY <1>6, <2>2, <2>3 DEF ClearCredential, fileVars, FileTypeOK
<1>7. ASSUME NEW h \in Handlers, Check(h) PROVE TypeOK'
  <2>1. pc' \in [Savers -> Steps]
    BY <1>7, SaversAre, GotoTyped DEF Check, Steps, Settled, Saving
  <2> QED BY <1>7, <2>1 DEF Check, fileVars, FileTypeOK
<1>8. ASSUME NEW h \in Handlers, Apply(h) PROVE TypeOK'
  <2>1. pc' \in [Savers -> Steps]
    BY <1>8, SaversAre, GotoTyped DEF Apply, Steps, Settled
  <2>2. live' \in [ap : ApForms, vpn : VpnConfig]
    BY <1>8, SectionsTyped DEF Apply
  <2> QED BY <1>8, <2>1, <2>2 DEF Apply, fileVars, FileTypeOK
<1>9. ASSUME NEW s \in Savers, Open(s) PROVE TypeOK'
  <2>1. pc' \in [Savers -> Steps]
    BY <1>9, GotoTyped DEF Open, Steps, Saving
  <2> QED BY <1>9, <2>1, OpenTyped DEF Open
<1>10. ASSUME NEW s \in Savers, Write(s) PROVE TypeOK'
  <2>1. pc' \in [Savers -> Steps]
    BY <1>10, GotoTyped DEF Write, Steps, Saving
  <2>2. FileTypeOK'
    BY <1>10, DataTyped, WriteTyped DEF Write
  <2> QED BY <1>10, <2>1, <2>2 DEF Write
<1>11. ASSUME NEW s \in Savers, AfterSave(s)
       PROVE  /\ pc' \in [Savers -> Steps]
              /\ writer' \in Handlers \cup {NoOne}
              /\ snap' \in [Handlers -> Config]
  <2>1. CASE s[2] = "task" \/ req[s[1]].kind = "reset"
    BY <1>11, <2>1, GotoTyped DEF AfterSave, Steps
  <2>2. CASE ~(s[2] = "task" \/ req[s[1]].kind = "reset")
    <3>1. [pc EXCEPT ![s] = "ok"] \in [Savers -> Steps]
      BY DEF Steps, Settled
    <3>2. /\ writer' = NoOne
          /\ pc' = Spawn(s[1], [pc EXCEPT ![s] = "ok"])
          /\ snap' = [snap EXCEPT ![s[1]] = mem]
      BY <1>11, <2>2 DEF AfterSave
    <3>3. pc' \in [Savers -> Steps]
      BY <3>1, <3>2, SaverHandler, SpawnTyped
    <3> QED BY <3>2, <3>3
  <2> QED BY <2>1, <2>2
<1>12. ASSUME NEW s \in Savers, AfterFailedSave(s)
       PROVE  /\ pc' \in [Savers -> Steps]
              /\ writer' \in Handlers \cup {NoOne}
              /\ snap' \in [Handlers -> Config]
  <2>1. pc' \in [Savers -> Steps]
    BY <1>12, GotoTyped DEF AfterFailedSave, Steps, Settled
  <2> QED BY <1>12, <2>1 DEF AfterFailedSave
<1>13. ASSUME NEW s \in Savers, Rename(s) PROVE TypeOK'
  BY <1>11, <1>13, RenameTyped DEF Rename
<1>14. ASSUME NEW s \in Savers, RenameMissing(s) PROVE TypeOK'
  BY <1>12, <1>14 DEF RenameMissing, fileVars, FileTypeOK
<1>15. ASSUME NEW s \in Savers, SaveError(s) PROVE TypeOK'
  <2>1. FileTypeOK'
    BY <1>15 DEF SaveError, FileTypeOK
  <2>2. faults' \in 0..MaxFaults
    BY <1>15, StoreAssumption DEF SaveError
  <2> QED BY <1>12, <1>15, <2>1, <2>2 DEF SaveError
<1>16. ASSUME Restart PROVE TypeOK'
  <2>1. FileTypeOK'
    BY <1>16, CloseTyped DEF Restart
  <2>2. pc' \in [Savers -> Steps]
    BY <1>16 DEF Restart, Steps, Settled
  <2>3. restarts' \in 0..MaxRestarts
    BY <1>16, StoreAssumption DEF Restart
  <2>4. mem' \in Config /\ cred' \in Passwords \cup {NoPassword}
        /\ live' \in [ap : ApForms, vpn : VpnConfig]
    BY <1>16, OnDiskTyped, SectionsTyped DEF Restart
  <2>5. up' \in BOOLEAN
    BY <1>16 DEF Restart, Readable, Missing
  <2> QED BY <1>16, <2>1, <2>2, <2>3, <2>4, <2>5 DEF Restart
<1>17. CASE UNCHANGED vars
  BY <1>17 DEF vars, fileVars, storeVars, FileTypeOK
<1> QED
  BY <1>1, <1>2, <1>3, <1>4, <1>5, <1>6, <1>7, <1>8, <1>9, <1>10, <1>13, <1>14, <1>15,
     <1>16, <1>17
  DEF Next, HandlerStep, TaskStep, SaverStep, Rest

\* Every variable keeps its type in every behaviour (config.rs, api.rs).
THEOREM TypeCorrect == Spec => []TypeOK
  BY InitTyped, NextTyped, PTL DEF Spec

-----------------------------------------------------------------------------
(* What apply_config is given has been validated *)

\* A handler that saves under the lock holds it until the save is over, and the
\* memory it validated is the memory it will clone.
HeldInv ==
    \A h \in Handlers :
        pc[H(h)] \in Saving /\ req[h].kind # "reset"
            => writer = h /\ (req[h].kind \in Validated => Valid(mem))

\* Only apply_config validates and saves in the background, and what it got is
\* valid.
TaskInv ==
    \A h \in Handlers :
        pc[T(h)] \in {"check"} \cup Saving
            => req[h].kind \in SpawnsApply /\ Valid(snap[h])

AppliedInv == TypeOK /\ HeldInv /\ TaskInv

\* At the first boot nobody holds the lock and no task has a snapshot.
LEMMA InitApplied == Init => AppliedInv
  BY InitTyped, SaversAre DEF AppliedInv, HeldInv, TaskInv, Init, Saving

\* A step that moves one saver only, to a step outside the save, and changes
\* neither memory nor lock nor snapshots keeps both parts.
LEMMA MoveKeeps ==
  ASSUME TypeOK, HeldInv, TaskInv, NEW s \in Savers,
         NEW step, step \notin {"check"} \cup Saving, Goto(s, step),
         UNCHANGED <<mem, writer, req, snap>>
  PROVE  HeldInv' /\ TaskInv'
  BY SaversAre DEF HeldInv, TaskInv, Goto, TypeOK

\* A step within a save does so too.
LEMMA SavingKeeps ==
  ASSUME TypeOK, HeldInv, TaskInv, NEW s \in Savers, pc[s] \in Saving,
         NEW step \in Saving, Goto(s, step),
         UNCHANGED <<mem, writer, req, snap>>
  PROVE  HeldInv' /\ TaskInv'
  BY SaversAre DEF HeldInv, TaskInv, Goto, TypeOK

\* Releasing the lock at the end of the holder's save.
LEMMA ReleaseKeeps ==
  ASSUME TypeOK, HeldInv, NEW h \in Handlers, pc[H(h)] \in Saving, req[h].kind # "reset",
         pc'[H(h)] \notin Saving, \A g \in Handlers \ {h} : pc'[H(g)] = pc[H(g)],
         UNCHANGED <<mem, req>>
  PROVE  HeldInv'
<1> SUFFICES ASSUME NEW g \in Handlers, pc'[H(g)] \in Saving, req[g].kind # "reset"
             PROVE  FALSE
  BY DEF HeldInv
<1>1. g # h /\ pc[H(g)] \in Saving
  OBVIOUS
<1>2. writer = g /\ writer = h
  BY <1>1 DEF HeldInv
<1> QED BY <1>1, <1>2

\* Every step keeps the lock holder's copy and the snapshots validated.
LEMMA NextApplied == AppliedInv /\ [Next]_vars => AppliedInv'
<1> SUFFICES ASSUME TypeOK, HeldInv, TaskInv, [Next]_vars PROVE HeldInv' /\ TaskInv'
  BY NextTyped DEF AppliedInv
<1> USE SaversAre
<1>1. ASSUME NEW h \in Handlers, Arrive(h) PROVE HeldInv' /\ TaskInv'
  <2>1. CASE req[h].kind = "reset"
    <3>1. Goto(H(h), "open") /\ UNCHANGED <<mem, writer, req, snap>>
      BY <1>1, <2>1 DEF Arrive
    <3> QED BY <2>1, <3>1 DEF HeldInv, TaskInv, Goto, TypeOK
  <2>2. CASE req[h].kind # "reset"
    <3>1. /\ Goto(H(h), "command") \/ Goto(H(h), "lock")
          /\ UNCHANGED <<mem, writer, req, snap>>
      BY <1>1, <2>2 DEF Arrive
    <3> QED BY <3>1, MoveKeeps DEF Saving
  <2> QED BY <2>1, <2>2
<1>2. ASSUME NEW h \in Handlers, CommandDone(h) PROVE HeldInv' /\ TaskInv'
  BY <1>2, MoveKeeps DEF CommandDone, Saving
<1>3. ASSUME NEW h \in Handlers, Refuse(h) PROVE HeldInv' /\ TaskInv'
  BY <1>3, MoveKeeps DEF Refuse, Saving
<1>4. ASSUME NEW h \in Handlers, Edit(h) PROVE HeldInv' /\ TaskInv'
  <2>1. writer = NoOne /\ UNCHANGED <<req, snap>>
    BY <1>4 DEF Edit, Free
  <2>2. \A g \in Handlers : pc[H(g)] \in Saving => req[g].kind = "reset"
    BY <2>1, StoreAssumption DEF HeldInv
  <2>3. PICK new : /\ mem' = new
                   /\ IF req[h].kind \in Validated /\ ~Valid(new)
                      THEN Goto(H(h), "rejected") /\ UNCHANGED writer
                      ELSE Goto(H(h), "open") /\ writer' = h
    BY <1>4 DEF Edit
  <2>4. HeldInv'
    BY <2>1, <2>2, <2>3 DEF HeldInv, Goto, TypeOK, Saving
  <2>5. TaskInv'
    BY <2>1, <2>3 DEF TaskInv, Goto, TypeOK
  <2> QED BY <2>4, <2>5
<1>5. ASSUME NEW h \in Handlers, Install(h) PROVE HeldInv' /\ TaskInv'
  <2>1. /\ writer = NoOne /\ UNCHANGED <<writer, req, snap>>
        /\ Goto(H(h), "credential")
    BY <1>5 DEF Install, Free
  <2>2. \A g \in Handlers : pc[H(g)] \in Saving => req[g].kind = "reset"
    BY <2>1, StoreAssumption DEF HeldInv
  <2> QED BY <2>1, <2>2 DEF HeldInv, TaskInv, Goto, TypeOK, Saving
<1>6. ASSUME NEW h \in Handlers, ClearCredential(h) PROVE HeldInv' /\ TaskInv'
  <2>1. /\ UNCHANGED <<mem, writer, req>>
        /\ snap' = [snap EXCEPT ![h] = Default]
        /\ pc' = Spawn(h, [pc EXCEPT ![H(h)] = "ok"])
    BY <1>6 DEF ClearCredential
  <2>2. HeldInv'
    BY <2>1 DEF HeldInv, Spawn, TypeOK, Saving
  <2>3. TaskInv'
    BY <2>1, DefaultIsConfig DEF TaskInv, Spawn, TypeOK, Saving
  <2> QED BY <2>2, <2>3
<1>7. ASSUME NEW h \in Handlers, Check(h) PROVE HeldInv' /\ TaskInv'
  <2>1. /\ pc[T(h)] = "check" /\ UNCHANGED <<mem, writer, req, snap>>
        /\ Goto(T(h), "open") \/ Goto(T(h), "failed")
    BY <1>7 DEF Check
  <2> QED BY <2>1 DEF HeldInv, TaskInv, Goto, TypeOK, Saving
<1>8. ASSUME NEW h \in Handlers, Apply(h) PROVE HeldInv' /\ TaskInv'
  BY <1>8, MoveKeeps DEF Apply, Saving
<1>9. ASSUME NEW s \in Savers, Open(s) PROVE HeldInv' /\ TaskInv'
  BY <1>9, SavingKeeps DEF Open, Saving
<1>10. ASSUME NEW s \in Savers, Write(s) PROVE HeldInv' /\ TaskInv'
  BY <1>10, SavingKeeps DEF Write, Saving
<1>11. ASSUME NEW s \in Savers, Rename(s) PROVE HeldInv' /\ TaskInv'
  <2>1. pc[s] \in Saving /\ AfterSave(s) /\ UNCHANGED <<mem, req>>
    BY <1>11 DEF Rename, Saving
  <2>2. CASE s[2] = "task" \/ req[s[1]].kind = "reset"
    BY <2>1, <2>2, MoveKeeps DEF AfterSave, Saving
  <2>3. CASE ~(s[2] = "task" \/ req[s[1]].kind = "reset")
    <3>1. PICK h \in Handlers : s = H(h) /\ s[1] = h /\ req[h].kind # "reset"
      BY <2>3 DEF H, T
    <3>2. /\ pc' = Spawn(h, [pc EXCEPT ![H(h)] = "ok"])
          /\ snap' = [snap EXCEPT ![h] = mem]
      BY <2>1, <2>3, <3>1 DEF AfterSave
    <3>3. HeldInv'
      <4>1. \A g \in Handlers : pc'[H(g)] = IF g = h THEN "ok" ELSE pc[H(g)]
        BY <3>2 DEF Spawn, TypeOK
      <4>2. pc[H(h)] \in Saving /\ pc'[H(h)] \notin Saving
        BY <2>1, <3>1, <4>1 DEF Saving
      <4> QED BY <2>1, <3>1, <4>1, <4>2, ReleaseKeeps
    <3>4. TaskInv'
      <4>1. req[h].kind \in SpawnsApply => Valid(mem)
        BY <2>1, <3>1 DEF HeldInv, SpawnsApply, Validated
      <4> QED BY <2>1, <3>1, <3>2, <4>1 DEF TaskInv, Spawn, TypeOK, Saving
    <3> QED BY <3>3, <3>4
  <2> QED BY <2>2, <2>3
<1>12. ASSUME NEW s \in Savers, pc[s] \in Saving, AfterFailedSave(s), UNCHANGED <<mem, req>>
       PROVE  HeldInv' /\ TaskInv'
  <2>1. /\ Goto(s, "ok") \/ Goto(s, "failed")
        /\ writer' = IF Unlocked(s) THEN writer ELSE NoOne
        /\ UNCHANGED snap
    BY <1>12 DEF AfterFailedSave
  <2>2. CASE Unlocked(s)
    BY <1>12, <2>1, <2>2, MoveKeeps DEF Saving
  <2>3. CASE ~Unlocked(s)
    <3>1. PICK h \in Handlers : s = H(h) /\ req[h].kind # "reset"
      BY <2>3 DEF H, T, Unlocked
    <3>2. HeldInv'
      <4>1. /\ pc[H(h)] \in Saving /\ pc'[H(h)] \notin Saving
            /\ \A g \in Handlers \ {h} : pc'[H(g)] = pc[H(g)]
        BY <1>12, <2>1, <3>1 DEF Goto, TypeOK, Saving
      <4> QED BY <1>12, <3>1, <4>1, ReleaseKeeps
    <3>3. TaskInv'
      BY <1>12, <2>1, <3>1 DEF TaskInv, Goto, TypeOK, Saving
    <3> QED BY <3>2, <3>3
  <2> QED BY <2>2, <2>3
<1>13. ASSUME NEW s \in Savers, RenameMissing(s) PROVE HeldInv' /\ TaskInv'
  BY <1>12, <1>13 DEF RenameMissing, Saving
<1>14. ASSUME NEW s \in Savers, SaveError(s) PROVE HeldInv' /\ TaskInv'
  BY <1>12, <1>14 DEF SaveError, Saving
<1>15. ASSUME Restart PROVE HeldInv' /\ TaskInv'
  <2>1. \A s \in Savers : pc'[s] \notin {"check"} \cup Saving
    BY <1>15 DEF Restart, Settled, Saving
  <2> QED BY <2>1 DEF HeldInv, TaskInv
<1>16. CASE UNCHANGED vars
  BY <1>16 DEF vars, storeVars, HeldInv, TaskInv
<1> QED
  BY <1>1, <1>2, <1>3, <1>4, <1>5, <1>6, <1>7, <1>8, <1>9, <1>10, <1>11, <1>13, <1>14,
     <1>15, <1>16
  DEF Next, HandlerStep, TaskStep, SaverStep, Rest

\* No apply_config task ever refuses, or saves, a configuration that the handler
\* which spawned it had not validated (api_config_post, api_reset, apply.rs).
THEOREM AppliedConfigsAreValid == Spec => []AppliedIsValid
<1>1. AppliedInv => AppliedIsValid
  BY DEF AppliedInv, TaskInv, AppliedIsValid
<1> QED BY <1>1, InitApplied, NextApplied, PTL DEF Spec

-----------------------------------------------------------------------------
(* An invalid configuration is stored only after a refusal *)

\* The handlers that do not validate do not make a valid configuration invalid.
LEMMA EditsKeepValid ==
  ASSUME NEW r \in Request, NEW c \in Config, NEW new \in Edits(r, c),
         r.kind \notin Validated, Valid(c)
  PROVE  Valid(new)
<1> USE DEF Config
<1>1. CASE r.kind = "genkeys"
  <2>1. new \in GenkeysEdit(r, c) /\ r.scope \in {"client", "server", "other"}
        /\ r.key \in Keys /\ r.key # NoKey
    BY <1>1, GenkeysRequestTyped, KeyAssumption DEF Edits
  <2>2. CASE r.scope = "server"
    <3>1. new = [c EXCEPT !.vpn.serverKey = r.key]
      BY <2>1, <2>2 DEF GenkeysEdit
    <3> QED BY <2>1, <3>1 DEF Valid, VpnValid, VpnConfig, Modes
  <2>3. CASE r.scope = "client"
    <3>1. new = [c EXCEPT !.vpn.ownKey = r.key, !.vpn.peerKey = r.key]
      BY <2>1, <2>3 DEF GenkeysEdit
    <3> QED BY <2>1, <3>1 DEF Valid, VpnValid, VpnConfig, Modes
  <2>4. CASE r.scope = "other"
    BY <2>1, <2>4 DEF GenkeysEdit
  <2> QED BY <2>1, <2>2, <2>3, <2>4
<1>2. CASE r.kind = "remove"
  <2>1. new = [c EXCEPT !.vpn.peers = {p \in @ : p.name # r.name}]
    BY <1>2 DEF Edits, RemoveEdit
  <2>2. new.ap = c.ap /\ new.vpn = [c.vpn EXCEPT !.peers = {p \in @ : p.name # r.name}]
    BY <2>1
  <2>3. PeersValid(c.vpn.peers) => PeersValid({p \in c.vpn.peers : p.name # r.name})
    BY DEF PeersValid
  <2> QED BY <2>2, <2>3 DEF Valid, VpnValid, VpnConfig, Modes
<1>3. CASE r.kind \in {"writable", "connect", "disconnect"}
  <2>1. new.ap = c.ap /\ new.vpn = c.vpn
    BY <1>3 DEF Edits
  <2> QED BY <2>1 DEF Valid
<1>4. CASE r.kind = "reset"
  BY <1>4, DefaultIsConfig DEF Edits
<1> QED BY <1>1, <1>2, <1>3, <1>4, RequestKinds DEF Validated

Refused == \E h \in Handlers : pc[H(h)] = "rejected"

\* Without a refusal everything there is to save, or was saved, is valid, in
\* files that hold two documents too.
ValidInv ==
    /\ Valid(mem)
    /\ \A h \in Handlers : Valid(snap[h])
    /\ \A s \in Savers : \A c \in file[s] : Valid(c)

CleanInv == TypeOK /\ (~Refused => ValidInv)

\* The first boot has the defaults and no file.
LEMMA InitClean == Init => CleanInv
  BY InitTyped, DefaultIsConfig DEF CleanInv, ValidInv, Init, FileInit

\* A refusal is not forgotten: its handler has ended.
LEMMA RefusalStays ==
  ASSUME TypeOK, [Next]_vars
  PROVE  Refused => Refused'
<1> SUFFICES ASSUME NEW h \in Handlers, pc[H(h)] = "rejected"
             PROVE  pc'[H(h)] = "rejected"
  BY DEF Refused
<1> USE SaversAre DEF TypeOK
<1>1. ASSUME NEW g \in Handlers, Arrive(g) PROVE pc'[H(h)] = "rejected"
  <2>1. pc[H(g)] = "idle" /\ \E step : Goto(H(g), step)
    BY <1>1 DEF Arrive
  <2> QED BY <2>1 DEF Goto
<1>2. ASSUME NEW g \in Handlers, HandlerStep(g) PROVE pc'[H(h)] = "rejected"
  <2>1. CASE ClearCredential(g)
    BY <2>1 DEF ClearCredential, Spawn
  <2>2. CASE ~ClearCredential(g)
    <3>1. pc[H(g)] \in {"command", "lock", "install"} /\ \E step : Goto(H(g), step)
      BY <1>2, <2>2 DEF HandlerStep, CommandDone, Refuse, Edit, Install
    <3> QED BY <3>1 DEF Goto
  <2> QED BY <2>1, <2>2
<1>3. ASSUME NEW g \in Handlers, TaskStep(g) PROVE pc'[H(h)] = "rejected"
  BY <1>3 DEF TaskStep, Check, Apply, Goto
<1>4. ASSUME NEW s \in Savers, SaverStep(s) \/ SaveError(s) PROVE pc'[H(h)] = "rejected"
  <2>1. pc[s] \in Saving
    BY <1>4 DEF SaverStep, Open, Write, Rename, RenameMissing, SaveError, Saving
  <2>2. s # H(h)
    BY <2>1 DEF Saving
  <2>3. CASE \E step : Goto(s, step)
    BY <2>2, <2>3 DEF Goto
  <2>4. CASE Rename(s)
    BY <2>2, <2>4, SaverHandler DEF Rename, AfterSave, Spawn, Goto
  <2>5. CASE RenameMissing(s) \/ SaveError(s)
    BY <2>2, <2>5 DEF RenameMissing, SaveError, AfterFailedSave, Goto
  <2> QED BY <1>4, <2>3, <2>4, <2>5 DEF SaverStep, Open, Write
<1>5. CASE Restart
  BY <1>5 DEF Restart, Settled
<1>6. CASE UNCHANGED vars
  BY <1>6 DEF vars, storeVars
<1> QED BY <1>1, <1>2, <1>3, <1>4, <1>5, <1>6 DEF Next, Rest

\* Every step keeps what is valid valid, or is a refusal.
LEMMA NextClean == CleanInv /\ [Next]_vars => CleanInv'
<1> SUFFICES ASSUME TypeOK, ValidInv, [Next]_vars, ~Refused'
             PROVE  ValidInv'
  BY NextTyped, RefusalStays DEF CleanInv
<1>1. ASSUME NEW h \in Handlers,
             Arrive(h) \/ CommandDone(h) \/ Refuse(h) \/ TaskStep(h)
      PROVE  ValidInv'
  BY <1>1 DEF Arrive, CommandDone, Refuse, TaskStep, Check, Apply, fileVars, ValidInv
<1>2. ASSUME NEW h \in Handlers, Edit(h) PROVE ValidInv'
  <2>1. PICK new \in Edits(req[h], mem) :
          /\ mem' = new
          /\ req[h].kind \in Validated /\ ~Valid(new) => Goto(H(h), "rejected")
    BY <1>2 DEF Edit
  <2>2. ~Goto(H(h), "rejected")
    BY SaversAre DEF Goto, TypeOK, Refused
  <2>3. req[h] \in Request /\ mem \in Config
    BY StoreAssumption DEF TypeOK
  <2>4. Valid(mem')
    BY <2>1, <2>2, <2>3, EditsKeepValid DEF ValidInv
  <2> QED BY <1>2, <2>4 DEF Edit, fileVars, ValidInv
<1>3. ASSUME NEW h \in Handlers, Install(h) PROVE ValidInv'
  BY <1>3, DefaultIsConfig DEF Install, fileVars, ValidInv
<1>4. ASSUME NEW h \in Handlers, ClearCredential(h) PROVE ValidInv'
  BY <1>4, DefaultIsConfig DEF ClearCredential, fileVars, ValidInv, TypeOK
<1>5. ASSUME NEW s \in Savers, Open(s) PROVE ValidInv'
  BY <1>5 DEF Open, OpenTmp, ValidInv, TypeOK, FileTypeOK
<1>6. ASSUME NEW s \in Savers, Write(s) PROVE ValidInv'
  <2>1. Valid(Data(s))
    BY SaverHandler, DefaultIsConfig DEF Data, ValidInv
  <2>2. PICK tail \in {{}, file[fd[s]]} : file' = [file EXCEPT ![fd[s]] = {Data(s)} \cup tail]
    BY <1>6 DEF Write, WriteTmp
  <2>3. \A r \in Savers : \A c \in file'[r] : Valid(c)
    BY <2>1, <2>2 DEF ValidInv, TypeOK, FileTypeOK
  <2> QED BY <1>6, <2>3 DEF Write, ValidInv
<1>7. ASSUME NEW s \in Savers, Rename(s) PROVE ValidInv'
  <2>1. snap' = snap \/ snap' = [snap EXCEPT ![s[1]] = mem]
    BY <1>7 DEF Rename, AfterSave
  <2> QED BY <1>7, <2>1, SaverHandler DEF Rename, RenameTmp, ValidInv, TypeOK
<1>8. ASSUME NEW s \in Savers, RenameMissing(s) \/ SaveError(s) PROVE ValidInv'
  BY <1>8 DEF RenameMissing, SaveError, AfterFailedSave, fileVars, ValidInv
<1>9. CASE Restart
  <2>1. Readable => Valid(OnDisk)
    <3>1. CASE Missing
      BY <3>1, DefaultIsConfig DEF OnDisk
    <3>2. CASE Readable /\ ~Missing
      <4>1. OnDisk \in file[confName] /\ confName \in Savers
        BY <3>2 DEF Readable, OnDisk, Missing, TypeOK, FileTypeOK
      <4> QED BY <4>1 DEF ValidInv
    <3> QED BY <3>1, <3>2
  <2> QED BY <1>9, <2>1 DEF Restart, CloseAll, ValidInv
<1>10. CASE UNCHANGED vars
  BY <1>10 DEF vars, fileVars, storeVars, ValidInv
<1> QED
  BY <1>1, <1>2, <1>3, <1>4, <1>5, <1>6, <1>7, <1>8, <1>9, <1>10
  DEF Next, HandlerStep, SaverStep, Rest

\* docs/VPN_TECHNICAL.md 236: a configuration that validation refuses is on disk
\* only after a request was refused, whose edit stayed in memory (api.rs
\* 318-345), however handlers, tasks, failing saves and restarts interleave.
THEOREM InvalidFilesNeedRefusal == Spec => []InvalidNeedsRefusal
<1>1. CleanInv => InvalidNeedsRefusal
  <2> SUFFICES ASSUME CleanInv, ~Missing, Readable, ~Refused PROVE Valid(OnDisk)
    BY DEF InvalidNeedsRefusal, Refused
  <2>1. OnDisk \in file[confName] /\ confName \in Savers
    BY DEF Readable, OnDisk, Missing, CleanInv, TypeOK, FileTypeOK
  <2> QED BY <2>1 DEF CleanInv, ValidInv
<1> QED BY <1>1, InitClean, NextClean, PTL DEF Spec

-----------------------------------------------------------------------------
(* Savers that hold the lock keep config.json readable: whatever happens   *)
(* to them on the way, a file that does not parse takes a factory reset or *)
(* an apply_config task.                                                   *)

\* Nobody has started to save without the lock.
OnlyLocked ==
    \A h \in Handlers : /\ req[h].kind = "reset" => pc[H(h)] = "idle"
                        /\ req[h].kind \in SpawnsApply => pc[T(h)] = "idle"

\* Where a handler is before it has opened the temporary file.
Before == {"idle", "command", "lock", "open"}

\* A saver that has not opened a file has created none, and a task never has.
Unopened ==
    \A h \in Handlers :
        /\ pc[H(h)] \in Before => tmpName # H(h) /\ confName # H(h)
        /\ tmpName # T(h) /\ confName # T(h)

\* The temporary file is not the configuration, and holds what its saver put
\* there: nothing after the open, the memory it has locked after the write.
OwnFile ==
    /\ tmpName # NoFile => tmpName # confName
    /\ \A h \in Handlers :
         /\ pc[H(h)] = "write" => tmpName # NoFile /\ fd[H(h)] = tmpName /\ file[tmpName] = {}
         /\ pc[H(h)] = "rename" => tmpName # NoFile /\ file[tmpName] = {mem}

LockedFiles == Readable /\ Unopened /\ OwnFile

FileInv == AppliedInv /\ (OnlyLocked => LockedFiles)

\* While nobody saves without the lock, every saver is a handler that holds it.
LEMMA OnlyHolderSaves ==
  ASSUME AppliedInv, OnlyLocked, NEW s \in Savers, pc[s] \in Saving
  PROVE  \E h \in Handlers : s = H(h) /\ writer = h /\ req[h].kind # "reset"
  BY SaversAre DEF AppliedInv, HeldInv, TaskInv, OnlyLocked, Saving

\* No step makes a saver idle again or changes a request.
LEMMA NeverIdleAgain ==
  ASSUME TypeOK, [Next]_vars
  PROVE  req' = req /\ \A s \in Savers : pc[s] # "idle" => pc'[s] # "idle"
<1> USE SaversAre DEF TypeOK
<1>1. ASSUME NEW h \in Handlers, Arrive(h)
      PROVE req' = req /\ \A s \in Savers : pc[s] # "idle" => pc'[s] # "idle"
  BY <1>1 DEF Arrive, Goto
<1>2. ASSUME NEW h \in Handlers, HandlerStep(h)
      PROVE req' = req /\ \A s \in Savers : pc[s] # "idle" => pc'[s] # "idle"
  <2>1. CASE CommandDone(h) \/ Refuse(h)
    BY <2>1 DEF CommandDone, Refuse, Goto
  <2>2. CASE Edit(h)
    BY <2>2 DEF Edit, Goto
  <2>3. CASE Install(h) \/ ClearCredential(h)
    BY <2>3 DEF Install, ClearCredential, Spawn, Goto
  <2> QED BY <1>2, <2>1, <2>2, <2>3 DEF HandlerStep
<1>3. ASSUME NEW h \in Handlers, TaskStep(h)
      PROVE req' = req /\ \A s \in Savers : pc[s] # "idle" => pc'[s] # "idle"
  BY <1>3 DEF TaskStep, Check, Apply, Goto
<1>4. ASSUME NEW s \in Savers, SaverStep(s) \/ SaveError(s)
      PROVE req' = req /\ \A r \in Savers : pc[r] # "idle" => pc'[r] # "idle"
  <2>1. CASE Open(s) \/ Write(s)
    BY <2>1 DEF Open, Write, Goto
  <2>2. CASE Rename(s)
    BY <2>2, SaverHandler DEF Rename, AfterSave, Spawn, Goto
  <2>3. CASE RenameMissing(s) \/ SaveError(s)
    BY <2>3 DEF RenameMissing, SaveError, AfterFailedSave, Goto
  <2> QED BY <1>4, <2>1, <2>2, <2>3 DEF SaverStep
<1>5. CASE Restart
  BY <1>5 DEF Restart, Settled
<1>6. CASE UNCHANGED vars
  BY <1>6 DEF vars, storeVars
<1> QED BY <1>1, <1>2, <1>3, <1>4, <1>5, <1>6 DEF Next, Rest

\* A step that leaves the files alone and takes no saver further than the open
\* keeps them in order.
LEMMA FilesKept ==
  ASSUME LockedFiles, UNCHANGED <<file, tmpName, confName>>,
         \A h \in Handlers : /\ pc'[H(h)] \in Before => pc[H(h)] \in Before
                             /\ pc'[H(h)] \in {"write", "rename"}
                                  => pc[H(h)] = pc'[H(h)] /\ fd'[H(h)] = fd[H(h)] /\ mem' = mem
  PROVE  LockedFiles'
<1>1. Readable'
  BY DEF LockedFiles, Readable, Missing, Stored
<1>2. Unopened'
  BY DEF LockedFiles, Unopened
<1>3. OwnFile'
  BY DEF LockedFiles, OwnFile
<1> QED BY <1>1, <1>2, <1>3 DEF LockedFiles

\* At the first boot there is no file.
LEMMA InitFiles == Init => FileInv
  BY InitApplied, SaversAre, StoreAssumption
  DEF FileInv, LockedFiles, Readable, Missing, Unopened, OwnFile, Init, FileInit, H, T

\* Opening: the temporary file is empty, and still not the configuration.
LEMMA OpenFiles ==
  ASSUME FileInv, OnlyLocked, NEW s \in Savers, Open(s)
  PROVE  LockedFiles'
<1>1. PICK h \in Handlers : s = H(h) /\ writer = h /\ req[h].kind # "reset"
  BY OnlyHolderSaves DEF FileInv, Open, Saving
<1>2. \A g \in Handlers \ {h} : pc[H(g)] \in Saving => req[g].kind = "reset"
  BY <1>1 DEF FileInv, AppliedInv, HeldInv
<1>3. \A g \in Handlers \ {h} : pc[H(g)] \notin Saving
  BY <1>2 DEF FileInv, OnlyLocked, Saving
<1>4. PICK i \in Savers \cup {NoFile} :
        /\ i = IF tmpName = NoFile THEN s ELSE tmpName
        /\ file' = [file EXCEPT ![i] = {}] /\ tmpName' = i
        /\ fd' = [fd EXCEPT ![s] = i] /\ UNCHANGED confName
  BY <1>1, SaversAre DEF Open, OpenTmp, FileInv, AppliedInv, TypeOK, FileTypeOK
<1>5. pc' = [pc EXCEPT ![s] = "write"] /\ pc[s] = "open"
  BY DEF Open, Goto
<1>6. i # NoFile /\ i # confName /\ i \in Savers
  BY <1>1, <1>4, <1>5, StoreAssumption
  DEF FileInv, LockedFiles, Unopened, OwnFile, Before
<1>7. Readable'
  BY <1>4, <1>6 DEF FileInv, LockedFiles, Readable, Missing, Stored, AppliedInv, TypeOK, FileTypeOK
<1>8. \A g \in Handlers : pc'[H(g)] = IF g = h THEN "write" ELSE pc[H(g)]
  BY <1>1, <1>5, SaversAre DEF FileInv, AppliedInv, TypeOK
<1>9. Unopened'
  <2>1. \A g \in Handlers : pc'[H(g)] \in Before => g # h /\ pc[H(g)] \in Before
    BY <1>8 DEF Before
  <2>2. \A g \in Handlers : H(g) # T(h) /\ (g # h => H(g) # H(h)) /\ T(g) # H(h)
    BY DEF H, T
  <2> QED BY <1>1, <1>4, <2>1, <2>2 DEF FileInv, LockedFiles, Unopened
<1>10. OwnFile'
  <2>1. \A g \in Handlers : pc'[H(g)] # "rename" /\ (pc'[H(g)] = "write" => g = h)
    BY <1>3, <1>8 DEF Saving
  <2>2. fd'[H(h)] = i /\ file'[i] = {}
    BY <1>1, <1>4, <1>6, SaversAre DEF FileInv, AppliedInv, TypeOK, FileTypeOK
  <2> QED BY <1>4, <1>6, <2>1, <2>2, StoreAssumption DEF OwnFile
<1> QED BY <1>7, <1>9, <1>10 DEF LockedFiles

\* Writing: the empty file becomes one whole document, and nobody else has it.
LEMMA WriteFiles ==
  ASSUME FileInv, OnlyLocked, NEW s \in Savers, Write(s)
  PROVE  LockedFiles'
<1>1. PICK h \in Handlers : s = H(h) /\ writer = h /\ req[h].kind # "reset"
  BY OnlyHolderSaves DEF FileInv, Write, Saving
<1>2. \A g \in Handlers \ {h} : pc[H(g)] \notin Saving
  BY <1>1 DEF FileInv, AppliedInv, HeldInv, OnlyLocked, Saving
<1>3. tmpName # NoFile /\ tmpName \in Savers /\ fd[s] = tmpName /\ file[tmpName] = {}
  BY <1>1 DEF Write, FileInv, LockedFiles, OwnFile, AppliedInv, TypeOK, FileTypeOK
<1>4. tmpName # confName
  BY <1>3 DEF FileInv, LockedFiles, OwnFile
<1>5. Data(s) = mem /\ mem \in Config
  BY <1>1 DEF Data, H, FileInv, AppliedInv, TypeOK
<1>6. file' = [file EXCEPT ![tmpName] = {mem}] /\ UNCHANGED <<tmpName, confName>>
  <2>1. PICK tail \in {{}, file[fd[s]]} : file' = [file EXCEPT ![fd[s]] = {Data(s)} \cup tail]
    BY DEF Write, WriteTmp
  <2>2. tail = {} /\ {Data(s)} \cup tail = {mem}
    BY <1>3, <1>5, <2>1
  <2> QED BY <1>3, <2>1, <2>2 DEF Write, WriteTmp
<1>7. \A g \in Handlers : pc'[H(g)] = IF g = h THEN "rename" ELSE pc[H(g)]
  BY <1>1, SaversAre DEF Write, Goto, FileInv, AppliedInv, TypeOK
<1>8. Readable'
  BY <1>4, <1>6 DEF FileInv, LockedFiles, Readable, Missing, Stored, AppliedInv, TypeOK, FileTypeOK
<1>9. Unopened'
  BY <1>6, <1>7 DEF FileInv, LockedFiles, Unopened, Before
<1>10. OwnFile'
  <2>1. file'[tmpName] = {mem}
    BY <1>3, <1>6 DEF FileInv, AppliedInv, TypeOK, FileTypeOK
  <2>2. \A g \in Handlers : pc'[H(g)] # "write"
    BY <1>2, <1>7 DEF Saving
  <2> QED BY <1>3, <1>4, <1>6, <2>1, <2>2 DEF OwnFile, Write
<1> QED BY <1>8, <1>9, <1>10 DEF LockedFiles

\* Renaming: config.json is now the document that was written.
LEMMA RenameFiles ==
  ASSUME FileInv, OnlyLocked, NEW s \in Savers, Rename(s)
  PROVE  LockedFiles'
<1>1. PICK h \in Handlers : s = H(h) /\ writer = h /\ req[h].kind # "reset"
  BY OnlyHolderSaves DEF FileInv, Rename, Saving
<1>2. \A g \in Handlers \ {h} : pc[H(g)] \notin Saving
  BY <1>1 DEF FileInv, AppliedInv, HeldInv, OnlyLocked, Saving
<1>3. tmpName # NoFile /\ file[tmpName] = {mem}
  BY <1>1 DEF Rename, FileInv, LockedFiles, OwnFile
<1>4. confName' = tmpName /\ tmpName' = NoFile /\ UNCHANGED <<file, fd>>
  BY DEF Rename, RenameTmp
<1>5. \A g \in Handlers : pc'[H(g)] = IF g = h THEN "ok" ELSE pc[H(g)]
  <2>1. s[2] # "task" /\ s[1] = h
    BY <1>1 DEF H
  <2>2. pc' = Spawn(h, [pc EXCEPT ![H(h)] = "ok"])
    BY <1>1, <2>1 DEF Rename, AfterSave
  <2> QED BY <2>2, SaversAre DEF Spawn, FileInv, AppliedInv, TypeOK
<1>6. Readable'
  BY <1>3, <1>4 DEF Readable, Missing, Stored
<1>7. Unopened'
  <2>1. \A g \in Handlers : pc'[H(g)] \in Before => pc[H(g)] \in Before
    BY <1>5 DEF Before
  <2>2. \A g \in Handlers : NoFile # H(g) /\ NoFile # T(g)
    BY SaversAre, StoreAssumption
  <2> QED BY <1>4, <2>1, <2>2 DEF FileInv, LockedFiles, Unopened
<1>8. OwnFile'
  BY <1>2, <1>4, <1>5 DEF OwnFile, Saving
<1> QED BY <1>6, <1>7, <1>8 DEF LockedFiles

\* Every step of a store in which nobody saves without the lock.
LEMMA NextFiles == FileInv /\ [Next]_vars => FileInv'
<1> SUFFICES ASSUME FileInv, [Next]_vars, OnlyLocked' PROVE LockedFiles'
  BY NextApplied DEF FileInv
<1>1. OnlyLocked /\ LockedFiles
  BY NeverIdleAgain, SaversAre DEF FileInv, AppliedInv, OnlyLocked
<1> USE SaversAre DEF FileInv, AppliedInv, TypeOK
<1>2. ASSUME NEW h \in Handlers, Arrive(h) PROVE LockedFiles'
  BY <1>1, <1>2, FilesKept DEF Arrive, Goto, fileVars, Before
<1>3. ASSUME NEW h \in Handlers, CommandDone(h) \/ Refuse(h) PROVE LockedFiles'
  BY <1>1, <1>3, FilesKept DEF CommandDone, Refuse, Goto, fileVars, Before
<1>4. ASSUME NEW h \in Handlers, Edit(h) \/ Install(h) PROVE LockedFiles'
  <2>1. \A g \in Handlers : pc[H(g)] \notin Saving
    BY <1>1, <1>4, OnlyHolderSaves, StoreAssumption DEF Edit, Install, Free
  <2>2. /\ UNCHANGED fileVars
        /\ \A g \in Handlers : g # h => pc'[H(g)] = pc[H(g)]
        /\ pc'[H(h)] \in {"rejected", "open", "credential"}
        /\ pc'[H(h)] = "open" => pc[H(h)] = "lock"
    BY <1>4 DEF Edit, Install, Goto
  <2> QED BY <1>1, <2>1, <2>2, FilesKept DEF fileVars, Before, Saving
<1>5. ASSUME NEW h \in Handlers, ClearCredential(h) PROVE LockedFiles'
  BY <1>1, <1>5, FilesKept DEF ClearCredential, Spawn, Goto, fileVars, Before
<1>6. ASSUME NEW h \in Handlers, TaskStep(h) PROVE LockedFiles'
  BY <1>1, <1>6, FilesKept DEF TaskStep, Check, Apply, Goto, fileVars, Before
<1>7. ASSUME NEW s \in Savers, SaveError(s) \/ RenameMissing(s) PROVE LockedFiles'
  <2>1. PICK h \in Handlers : s = H(h) /\ writer = h /\ req[h].kind # "reset"
    BY <1>1, <1>7, OnlyHolderSaves DEF SaveError, RenameMissing, Saving
  <2>2. /\ \A g \in Handlers : g # h => pc'[H(g)] = pc[H(g)]
        /\ pc'[H(h)] \in {"ok", "failed"}
        /\ UNCHANGED <<file, tmpName, confName, mem>>
        /\ \A g \in Handlers : g # h => fd'[H(g)] = fd[H(g)]
    BY <1>7, <2>1 DEF SaveError, RenameMissing, AfterFailedSave, Goto, fileVars, FileTypeOK
  <2> QED BY <1>1, <2>2, FilesKept DEF Before
<1>8. CASE Restart
  <2>1. /\ UNCHANGED <<file, tmpName, confName>>
        /\ \A s \in Savers : pc'[s] = IF pc[s] \in Settled THEN pc[s] ELSE "lost"
    BY <1>8 DEF Restart, CloseAll
  <2> QED BY <1>1, <2>1, FilesKept DEF Before, Settled
<1>9. CASE UNCHANGED vars
  BY <1>1, <1>9, FilesKept DEF vars, fileVars, storeVars
<1> QED
  BY <1>1, <1>2, <1>3, <1>4, <1>5, <1>6, <1>7, <1>8, <1>9, OpenFiles, WriteFiles, RenameFiles
  DEF Next, HandlerStep, SaverStep, Rest

\* config.json can only become unreadable after a factory reset has begun or an
\* apply_config task was spawned: the lock keeps all other savers apart.
THEOREM TornFilesNeedUnlocked == Spec => []TornNeedsUnlocked
<1>1. FileInv => TornNeedsUnlocked
  BY DEF FileInv, LockedFiles, OnlyLocked, TornNeedsUnlocked
<1> QED BY <1>1, InitFiles, NextFiles, PTL DEF Spec

-----------------------------------------------------------------------------
(* Requests whose handlers save under the lock and leave no apply_config   *)
(* task behind see ConfigRegister: a memory, and a saved copy that only    *)
(* ever becomes the memory as a whole.                                     *)

\* Every request but POST /api/config and POST /api/reset.
LockedOnly == \A r \in Requests : r.kind \notin {"config", "reset"}

\* With such requests nobody ever saves without the lock.
LEMMA LockedOnlyFiles ==
  ASSUME LockedOnly, FileInv
  PROVE  OnlyLocked /\ LockedFiles
  BY DEF LockedOnly, FileInv, AppliedInv, TypeOK, OnlyLocked, SpawnsApply

\* load() finds the one document of a file that has one.
LEMMA OneDocument == ASSUME NEW c PROVE (CHOOSE d \in {c} : TRUE) = c
  OBVIOUS

\* The saved copy is the content of config.json, or the defaults without one.
LEMMA ViewIs ==
  /\ Missing => SavedView = Default
  /\ \A c : ~Missing /\ file[confName] = {c} => SavedView = c
<1>1. Missing => SavedView = Default
  BY DEF SavedView, Readable, OnDisk
<1>2. ASSUME NEW c, ~Missing, file[confName] = {c} PROVE SavedView = c
  <2>1. Readable
    BY <1>2 DEF Readable, Stored, Missing
  <2>2. OnDisk = c
    BY <1>2, OneDocument DEF OnDisk
  <2> QED BY <2>1, <2>2 DEF SavedView
<1> QED BY <1>1, <1>2

\* The same of the next state.
LEMMA ViewIsNext ==
  /\ Missing' => SavedView' = Default
  /\ \A c : ~Missing' /\ file'[confName'] = {c} => SavedView' = c
<1>1. Missing' => SavedView' = Default
  BY DEF SavedView, Readable, OnDisk
<1>2. ASSUME NEW c, ~Missing', file'[confName'] = {c} PROVE SavedView' = c
  <2>1. Readable'
    BY <1>2 DEF Readable, Stored, Missing
  <2>2. OnDisk' = c
    BY <1>2, OneDocument DEF OnDisk
  <2> QED BY <2>1, <2>2 DEF SavedView
<1> QED BY <1>1, <1>2

\* A step that leaves config.json alone leaves the saved copy alone.
LEMMA ViewKept ==
  ASSUME Readable, UNCHANGED confName,
         confName # NoFile => file'[confName] = file[confName]
  PROVE  SavedView' = SavedView
<1>1. CASE confName = NoFile
  BY <1>1, ViewIs, ViewIsNext DEF Missing
<1>2. CASE confName # NoFile
  <2>1. PICK c : file[confName] = {c}
    BY <1>2 DEF Readable, Missing, Stored
  <2> QED BY <1>2, <2>1, ViewIs, ViewIsNext DEF Missing
<1> QED BY <1>1, <1>2

\* The first boot is the register's initial state.
LEMMA InitRefines == Init => Register!Init
  BY ViewIs DEF Init, FileInit, Missing, Register!Init

\* Every step is an update, a save, a reload or no step of the register.
LEMMA NextRefines ==
  ASSUME LockedOnly
  PROVE  FileInv /\ [Next]_vars => [Register!Next]_<<mem, SavedView>>
<1> SUFFICES ASSUME FileInv, [Next]_vars
             PROVE  Register!Next \/ UNCHANGED <<mem, SavedView>>
  OBVIOUS
<1>1. OnlyLocked /\ LockedFiles
  BY LockedOnlyFiles
<1>2. mem' \in Config
  BY NextTyped DEF FileInv, AppliedInv, TypeOK
<1>3. ASSUME UNCHANGED <<file, confName>> PROVE SavedView' = SavedView
  BY <1>1, <1>3, ViewKept DEF LockedFiles
<1>4. ASSUME NEW h \in Handlers, Arrive(h) \/ CommandDone(h) \/ Refuse(h)
      PROVE  UNCHANGED <<mem, SavedView>>
  BY <1>3, <1>4 DEF Arrive, CommandDone, Refuse, fileVars
<1>5. ASSUME NEW h \in Handlers, Edit(h) \/ Install(h) PROVE Register!Next
  BY <1>2, <1>3, <1>5 DEF Edit, Install, fileVars, Register!Next, Register!Update
<1>6. ASSUME NEW h \in Handlers, ClearCredential(h) \/ TaskStep(h)
      PROVE  UNCHANGED <<mem, SavedView>>
  BY <1>3, <1>6 DEF ClearCredential, TaskStep, Check, Apply, fileVars
<1>7. ASSUME NEW s \in Savers, RenameMissing(s) \/ SaveError(s)
      PROVE  UNCHANGED <<mem, SavedView>>
  BY <1>3, <1>7 DEF RenameMissing, SaveError, fileVars
<1>8. ASSUME NEW s \in Savers, Open(s) PROVE UNCHANGED <<mem, SavedView>>
  <2>1. PICK h \in Handlers : s = H(h)
    BY <1>1, <1>8, OnlyHolderSaves DEF FileInv, Open, Saving
  <2>2. s # confName /\ (tmpName # NoFile => tmpName # confName)
    BY <1>1, <1>8, <2>1 DEF Open, LockedFiles, Unopened, OwnFile, Before
  <2>3. UNCHANGED <<mem, confName>> /\ (confName # NoFile => file'[confName] = file[confName])
    BY <1>8, <2>2 DEF Open, OpenTmp, FileInv, AppliedInv, TypeOK, FileTypeOK
  <2> QED BY <1>1, <2>3, ViewKept DEF LockedFiles
<1>9. ASSUME NEW s \in Savers, Write(s) PROVE UNCHANGED <<mem, SavedView>>
  <2>1. PICK h \in Handlers : s = H(h)
    BY <1>1, <1>9, OnlyHolderSaves DEF FileInv, Write, Saving
  <2>2. fd[s] = tmpName /\ tmpName # confName
    BY <1>1, <1>9, <2>1 DEF Write, LockedFiles, OwnFile
  <2>3. UNCHANGED <<mem, confName>> /\ (confName # NoFile => file'[confName] = file[confName])
    BY <1>9, <2>2 DEF Write, WriteTmp, FileInv, AppliedInv, TypeOK, FileTypeOK
  <2> QED BY <1>1, <2>3, ViewKept DEF LockedFiles
<1>10. ASSUME NEW s \in Savers, Rename(s) PROVE Register!Next
  <2>1. PICK h \in Handlers : s = H(h)
    BY <1>1, <1>10, OnlyHolderSaves DEF FileInv, Rename, Saving
  <2>2. tmpName # NoFile /\ file[tmpName] = {mem}
    BY <1>1, <1>10, <2>1 DEF Rename, LockedFiles, OwnFile
  <2>3. SavedView' = mem /\ UNCHANGED mem
    BY <1>10, <2>2, ViewIsNext DEF Rename, RenameTmp, Missing
  <2> QED BY <2>3 DEF Register!Next, Register!Save
<1>11. ASSUME Restart PROVE Register!Next
  <2>1. SavedView' = SavedView
    BY <1>3, <1>11 DEF Restart, CloseAll
  <2>2. mem' = SavedView
    BY <1>1, <1>11 DEF Restart, SavedView, LockedFiles
  <2> QED BY <2>1, <2>2 DEF Register!Next, Register!Reload
<1>12. CASE UNCHANGED vars
  BY <1>3, <1>12 DEF vars, fileVars, storeVars
<1> QED
  BY <1>4, <1>5, <1>6, <1>7, <1>8, <1>9, <1>10, <1>11, <1>12
  DEF Next, HandlerStep, SaverStep, Rest

\* Without POST /api/config and POST /api/reset the store is the register it
\* promises to be, through failing saves and restarts.
THEOREM LockedStoreIsRegister ==
  ASSUME LockedOnly
  PROVE  Spec => ImplementsRegister
<1>1. FileInv /\ [Next]_vars => [Register!Next]_<<mem, SavedView>>
  BY NextRefines
<1> QED
  BY <1>1, InitRefines, InitFiles, NextFiles, PTL
  DEF Spec, ImplementsRegister, Register!Spec
=============================================================================
