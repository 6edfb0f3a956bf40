-------------------------- MODULE SerialStoreProofs -------------------------
(***************************************************************************)
(* The configuration of a box whose clients wait for their answers and for *)
(* the tasks these leave behind: what memory, disk and credential owe one  *)
(* another, through failing saves and restarts at every step of a save     *)
(* (src/web/api.rs, src/system/remount.rs).                                *)
(***************************************************************************)
EXTENDS ConfigStoreProofs

\* Clients wait: nothing in the code sees to it.
Serial == ~Overlap

Active(s) == pc[s] \notin Settled

-----------------------------------------------------------------------------
(* The inductive invariant *)

\* One handler or task is at work, a task starts once, after its handler, and
\* only a reset saves before it edits.
FlowInv ==
    /\ \A r, s \in Savers : Active(r) /\ Active(s) => r = s
    /\ \A h \in Handlers :
         /\ pc[H(h)] = "idle" \/ Active(H(h)) => pc[T(h)] = "idle"
         /\ pc[H(h)] \in {"command", "lock"} => req[h].kind # "reset"
         /\ pc[H(h)] \in {"install", "credential"} => req[h].kind = "reset"
         /\ pc[T(h)] \in {"check"} \cup Saving => req[h].kind \in SpawnsApply

\* Nobody has opened the file of a saver that has not saved yet.
Unsaved == {"idle", "command", "lock", "check", "open"}

\* config.json is one whole document, the temporary file is another file, and
\* holds what the one saver put there.
DiskInv ==
    /\ up /\ Readable
    /\ tmpName # NoFile => tmpName # confName
    /\ \A s \in Savers :
         /\ pc[s] \in Unsaved => tmpName # s /\ confName # s
         /\ pc[s] = "write" => tmpName # NoFile /\ fd[s] = tmpName /\ file[tmpName] = {}
         /\ pc[s] = "rename" => tmpName # NoFile /\ file[tmpName] = {Data(s)}

\* What is waiting to be saved or applied is the memory; a reset has the
\* defaults on disk before it has them in memory.
CopyInv ==
    \A h \in Handlers :
        /\ pc[T(h)] \in {"check"} \cup Saving => snap[h] = mem
        /\ pc[H(h)] = "install" => OnDisk = Default
        /\ pc[H(h)] = "credential" => mem = Default

CredInv == mem.web # NoPassword => cred = mem.web

\* A request was turned down or a save failed with the memory edited.
Spoiled == faults # 0 \/ \E s \in Savers : pc[s] \in {"rejected", "failed"}

\* Between an edit and its save memory and disk may differ.
Between ==
    \E h \in Handlers :
        \/ pc[H(h)] \in Saving /\ req[h].kind # "reset"
        \/ pc[H(h)] = "install"

SyncInv == Spoiled \/ Between \/ OnDisk = mem

\* h has stored its network and no other request about the uplink has begun.
Keeps(h) ==
    /\ req[h].kind = "connect" /\ req[h].persist /\ pc[H(h)] = "ok"
    /\ \A g \in Handlers \ {h} : Touches(req[g]) => pc[H(g)] = "idle"

UplinkInv ==
    \A h \in Handlers :
        /\ req[h].kind = "connect" /\ pc[H(h)] \in Saving => mem.sta = req[h].sta
        /\ Keeps(h) /\ UplinkStored(req[h].sta) => mem.sta = req[h].sta

SerialInv ==
    TypeOK /\ FlowInv /\ DiskInv /\ CopyInv /\ CredInv /\ SyncInv /\ UplinkInv
-----------------------------------------------------------------------------
(* What a request does to the password and to the uplink *)

\* The handlers about peers, keys and the VPN keep the rest of the configuration.
LEMMA EditsElsewhere ==
  ASSUME NEW r \in Request, NEW c \in Config, NEW new \in Edits(r, c),
         r.kind \in {"vpn", "genkeys", "add", "remove", "writable"}
  PROVE  new.web = c.web /\ new.sta = c.sta
<1> USE DEF Config
<1>1. CASE r.kind = "vpn"
  BY <1>1 DEF Edits
<1>2. CASE r.kind = "genkeys"
  <2>1. new \in GenkeysEdit(r, c) /\ r.scope \in {"client", "server", "other"}
    BY <1>2, GenkeysRequestTyped DEF Edits
  <2>2. CASE r.scope = "server"
    BY <2>1, <2>2 DEF GenkeysEdit
  <2>3. CASE r.scope = "client"
    BY <2>1, <2>3 DEF GenkeysEdit
  <2>4. CASE r.scope = "other"
    BY <2>1, <2>4 DEF GenkeysEdit
  <2> QED BY <2>1, <2>2, <2>3, <2>4
<1>3. CASE r.kind = "add"
  <2>1. PICK p : new = [c EXCEPT !.vpn.peers = @ \cup {p}]
    BY <1>3 DEF Edits, AddEdit
  <2> QED BY <2>1
<1>4. CASE r.kind = "remove"
  BY <1>4 DEF Edits, RemoveEdit
<1>5. CASE r.kind = "writable"
  BY <1>5 DEF Edits
<1> QED BY <1>1, <1>2, <1>3, <1>4, <1>5

\* Only a config request and a reset touch the password, and what a config
\* request leaves there is what the credential becomes with it.
LEMMA EditsPassword ==
  ASSUME NEW r \in Request, NEW c \in Config, NEW new \in Edits(r, c), r.kind # "reset",
         c.web # NoPassword => cred = c.web, new.web # NoPassword
  PROVE  CredAfter(r) = new.web
<1>1. CASE r.kind = "config"
  <2>1. /\ r.web \in Passwords \cup {NoPassword, Unset}
        /\ new = [c EXCEPT !.ap = Take(r.ap, @), !.sta = Take(r.sta, @), !.web = Take(r.web, @)]
    BY <1>1, ConfigRequestTyped DEF Edits, ConfigEdit
  <2>2. new.web = IF r.web = Unset THEN c.web ELSE r.web
    BY <2>1 DEF Config, Take
  <2> QED BY <1>1, <2>1, <2>2 DEF CredAfter
<1>2. CASE r.kind # "config"
  <2>1. CASE r.kind \in {"connect", "disconnect"}
    BY <1>2, <2>1 DEF Edits, Config, CredAfter
  <2>2. CASE r.kind \notin {"connect", "disconnect"}
    <3>1. new.web = c.web
      BY <1>2, <2>2, RequestKinds, EditsElsewhere
    <3> QED BY <1>2, <3>1 DEF CredAfter
  <2> QED BY <2>1, <2>2
<1> QED BY <1>1, <1>2

\* A request that is not about the uplink leaves it alone, and a request to
\* connect stores its network.
LEMMA EditsUplink ==
  ASSUME NEW r \in Request, NEW c \in Config, NEW new \in Edits(r, c)
  PROVE  /\ ~Touches(r) => new.sta = c.sta
         /\ r.kind = "connect" => new.sta = r.sta
<1>1. r.kind = "connect" => new.sta = r.sta
  BY DEF Edits, Config
<1>2. ASSUME r.kind = "config", ~Touches(r) PROVE new.sta = c.sta
  BY <1>2 DEF Edits, ConfigEdit, Take, Touches, Config
<1>3. ASSUME r.kind # "config", ~Touches(r) PROVE new.sta = c.sta
  BY <1>3, RequestKinds, EditsElsewhere DEF Touches
<1> QED BY <1>1, <1>2, <1>3

-----------------------------------------------------------------------------
(* The disk *)

\* A step that leaves config.json alone: the next boot reads the same.
LEMMA DiskStays ==
  ASSUME UNCHANGED confName, confName # NoFile => file'[confName] = file[confName]
  PROVE  /\ Readable => Readable'
         /\ OnDisk' = OnDisk
         /\ \A net : UplinkStored(net)' => UplinkStored(net)
         /\ \A net : UplinkStored(net) => UplinkStored(net)'
<1>1. CASE confName = NoFile
  BY <1>1 DEF Readable, Missing, OnDisk, UplinkStored
<1>2. CASE confName # NoFile
  <2>1. OnDisk' = OnDisk
    BY <1>2 DEF Missing, OnDisk
  <2> QED BY <1>2, <2>1 DEF Readable, Missing, Stored, UplinkStored
<1> QED BY <1>1, <1>2

\* A step after which config.json is one document: the next boot reads that.
LEMMA DiskBecomes ==
  \A c : confName' # NoFile /\ file'[confName'] = {c}
           => /\ Readable'
              /\ OnDisk' = c
              /\ \A net : UplinkStored(net)' => c.sta = net
              /\ \A net : c.sta = net => UplinkStored(net)'
<1> SUFFICES ASSUME NEW c, confName' # NoFile, file'[confName'] = {c}
             PROVE  /\ Readable'
                    /\ OnDisk' = c
                    /\ \A net : UplinkStored(net)' => c.sta = net
                    /\ \A net : c.sta = net => UplinkStored(net)'
  OBVIOUS
<1>1. OnDisk' = c
  <2>1. (CHOOSE d \in {c} : TRUE) = c
    OBVIOUS
  <2> QED BY <2>1 DEF OnDisk, Missing
<1> QED BY <1>1 DEF Readable, Missing, Stored, UplinkStored

\* A network found in a readable config.json is the one a boot starts with.
LEMMA StoredIsRead ==
  ASSUME Readable, NEW net, UplinkStored(net)
  PROVE  OnDisk.sta = net
<1>1. PICK c \in file[confName] : file[confName] = {c} /\ c.sta = net
  BY DEF UplinkStored, Stored
<1>2. OnDisk \in file[confName]
  BY <1>1 DEF OnDisk, UplinkStored
<1> QED BY <1>1, <1>2

-----------------------------------------------------------------------------
(* One at a time *)

\* While a handler or task is at work no other one is.
LEMMA Alone ==
  ASSUME FlowInv, NEW s \in Savers, Active(s)
  PROVE  \A r \in Savers \ {s} : pc[r] \in Settled
  BY DEF FlowInv, Active

\* The one at work takes a step of its own.
LEMMA MoveFlow ==
  ASSUME TypeOK, FlowInv, NEW s \in Savers, Active(s), NEW step \in Steps,
         Goto(s, step), UNCHANGED req, step # "idle",
         \A h \in Handlers :
            /\ s = H(h) /\ step \in {"command", "lock"} => req[h].kind # "reset"
            /\ s = H(h) /\ step \in {"install", "credential"} => req[h].kind = "reset"
            /\ s = T(h) /\ step \in {"check"} \cup Saving => req[h].kind \in SpawnsApply
  PROVE  FlowInv'
<1>1. \A r \in Savers : pc'[r] = IF r = s THEN step ELSE pc[r]
  BY DEF Goto, TypeOK
<1>2. \A q, r \in Savers : Active(q)' /\ Active(r)' => q = r
  BY <1>1, Alone DEF Active
<1>3. ASSUME NEW h \in Handlers, pc'[H(h)] = "idle" \/ Active(H(h))' PROVE pc'[T(h)] = "idle"
  <2>1. CASE s = H(h)
    BY <1>1, <2>1, SaversAre DEF FlowInv
  <2>2. CASE s = T(h)
    <3>1. pc[T(h)] # "idle" /\ pc'[H(h)] = pc[H(h)]
      BY <1>1, <2>2, SaversAre DEF Active, Settled
    <3> QED BY <1>3, <3>1, SaversAre DEF FlowInv, Active
  <2>3. CASE s # H(h) /\ s # T(h)
    BY <1>1, <1>3, <2>3, SaversAre DEF FlowInv, Active
  <2> QED BY <2>1, <2>2, <2>3
<1>4. ASSUME NEW h \in Handlers
      PROVE  /\ pc'[H(h)] \in {"command", "lock"} => req[h].kind # "reset"
             /\ pc'[H(h)] \in {"install", "credential"} => req[h].kind = "reset"
             /\ pc'[T(h)] \in {"check"} \cup Saving => req[h].kind \in SpawnsApply
  BY <1>1, SaversAre DEF FlowInv
<1> QED BY <1>2, <1>3, <1>4 DEF FlowInv

\* A handler answers and leaves its task behind, if it leaves one.
LEMMA SpawnFlow ==
  ASSUME TypeOK, FlowInv, NEW h \in Handlers, Active(H(h)),
         pc' = Spawn(h, [pc EXCEPT ![H(h)] = "ok"]), UNCHANGED req
  PROVE  /\ FlowInv'
         /\ pc'[H(h)] = "ok"
         /\ \A s \in Savers \ {H(h), T(h)} : pc'[s] = pc[s]
         /\ pc[T(h)] = "idle" /\ pc'[T(h)] \in {"idle", "check", "apply"}
<1>1. pc'[H(h)] = "ok" /\ \A s \in Savers \ {H(h), T(h)} : pc'[s] = pc[s]
  BY SaversAre DEF Spawn, TypeOK
<1>2. pc[T(h)] = "idle"
  BY DEF FlowInv
<1>3. /\ pc'[T(h)] \in {"idle", "check", "apply"}
      /\ pc'[T(h)] = "check" => req[h].kind \in SpawnsApply
  BY <1>2, SaversAre DEF Spawn, TypeOK
<1>4. \A r \in Savers : Active(r)' => r = T(h)
  BY <1>1, Alone, SaversAre DEF Active, Settled
<1>5. \A q, r \in Savers : Active(q)' /\ Active(r)' => q = r
  BY <1>4
<1>6. ASSUME NEW g \in Handlers, pc'[H(g)] = "idle" \/ Active(H(g))' PROVE pc'[T(g)] = "idle"
  <2>1. g # h /\ pc'[H(g)] = "idle"
    BY <1>1, <1>4, <1>6, SaversAre
  <2>2. pc[H(g)] = "idle" /\ pc'[T(g)] = pc[T(g)]
    BY <1>1, <2>1, SaversAre
  <2> QED BY <2>2 DEF FlowInv
<1>7. ASSUME NEW g \in Handlers
      PROVE  /\ pc'[H(g)] \in {"command", "lock"} => req[g].kind # "reset"
             /\ pc'[H(g)] \in {"install", "credential"} => req[g].kind = "reset"
             /\ pc'[T(g)] \in {"check"} \cup Saving => req[g].kind \in SpawnsApply
  BY <1>1, <1>3, SaversAre DEF FlowInv, Saving
<1> QED BY <1>1, <1>2, <1>3, <1>5, <1>6, <1>7 DEF FlowInv

\* A request arrives when nobody is at work.
LEMMA ArriveFlow ==
  ASSUME Serial, TypeOK, FlowInv, NEW h \in Handlers, Arrive(h)
  PROVE  /\ FlowInv'
         /\ \A s \in Savers : ~Active(s)
         /\ req[h].kind = "reset" => Goto(H(h), "open")
         /\ req[h].kind # "reset" => Goto(H(h), "command") \/ Goto(H(h), "lock")
<1>1. /\ pc[H(h)] = "idle" /\ pc[T(h)] = "idle"
      /\ \A s \in Savers : ~Active(s)
      /\ UNCHANGED req
  BY DEF Arrive, Serial, Active, FlowInv
<1>2. /\ req[h].kind = "reset" => Goto(H(h), "open")
      /\ req[h].kind # "reset" => Goto(H(h), "command") \/ Goto(H(h), "lock")
  BY DEF Arrive
<1>3. /\ \A s \in Savers \ {H(h)} : pc'[s] = pc[s]
      /\ pc'[H(h)] \in {"open", "command", "lock"}
      /\ req[h].kind = "reset" => pc'[H(h)] = "open"
      /\ req[h].kind # "reset" => pc'[H(h)] # "open"
  BY <1>2, SaversAre DEF Goto, TypeOK
<1>4. \A r \in Savers : Active(r)' => r = H(h)
  BY <1>1, <1>3 DEF Active
<1>5. ASSUME NEW g \in Handlers, pc'[H(g)] = "idle" \/ Active(H(g))' PROVE pc'[T(g)] = "idle"
  <2>1. CASE g = h
    BY <1>1, <1>3, <2>1, SaversAre
  <2>2. CASE g # h
    <3>1. pc'[H(g)] = pc[H(g)] /\ pc'[T(g)] = pc[T(g)] /\ pc'[H(g)] = "idle"
      BY <1>3, <1>4, <1>5, <2>2, SaversAre
    <3> QED BY <3>1 DEF FlowInv
  <2> QED BY <2>1, <2>2
<1>6. ASSUME NEW g \in Handlers
      PROVE  /\ pc'[H(g)] \in {"command", "lock"} => req[g].kind # "reset"
             /\ pc'[H(g)] \in {"install", "credential"} => req[g].kind = "reset"
             /\ pc'[T(g)] \in {"check"} \cup Saving => req[g].kind \in SpawnsApply
  BY <1>3, SaversAre DEF FlowInv
<1> QED BY <1>1, <1>2, <1>4, <1>5, <1>6 DEF FlowInv

\* A request that was turned down, or a save that failed, is not forgotten.
LEMMA SpoiledStays ==
  ASSUME SerialInv, [Next]_vars
  PROVE  Spoiled => Spoiled'
<1> USE SaversAre DEF SerialInv, TypeOK
<1> DEFINE Kept == \A s \in Savers : pc[s] \in {"rejected", "failed"} => pc'[s] = pc[s]
<1>1. ASSUME NEW h \in Handlers, Arrive(h) PROVE Kept /\ faults' = faults
  <2>1. pc[H(h)] = "idle" /\ \E step : Goto(H(h), step)
    BY <1>1 DEF Arrive
  <2> QED BY <1>1, <2>1 DEF Arrive, Goto
<1>2. ASSUME NEW h \in Handlers, CommandDone(h) \/ Refuse(h) \/ Edit(h) \/ Install(h)
      PROVE  Kept /\ faults' = faults
  <2>1. /\ pc[H(h)] \notin {"rejected", "failed"}
        /\ \E step : Goto(H(h), step)
    BY <1>2 DEF CommandDone, Refuse, Edit, Install
  <2> QED BY <1>2, <2>1 DEF CommandDone, Refuse, Edit, Install, Goto
<1>3. ASSUME NEW h \in Handlers, ClearCredential(h) PROVE Kept /\ faults' = faults
  <2>1. pc[H(h)] = "credential" /\ pc[T(h)] = "idle"
    BY <1>3 DEF ClearCredential, FlowInv, Active, Settled
  <2> QED BY <1>3, <2>1 DEF ClearCredential, Spawn
<1>4. ASSUME NEW h \in Handlers, TaskStep(h) PROVE Kept /\ faults' = faults
  BY <1>4 DEF TaskStep, Check, Apply, Goto
<1>5. ASSUME NEW s \in Savers, Open(s) \/ Write(s) PROVE Kept /\ faults' = faults
  BY <1>5 DEF Open, Write, Goto
<1>6. ASSUME NEW s \in Savers, Rename(s) PROVE Kept /\ faults' = faults
  <2>1. pc[s] = "rename" /\ faults' = faults
    BY <1>6 DEF Rename
  <2>2. CASE s[2] = "task" \/ req[s[1]].kind = "reset"
    BY <1>6, <2>1, <2>2 DEF Rename, AfterSave, Goto
  <2>3. CASE ~(s[2] = "task" \/ req[s[1]].kind = "reset")
    <3>1. PICK h \in Handlers : s = H(h) /\ s[1] = h
      BY <2>3 DEF H, T
    <3>2. pc[T(h)] = "idle" /\ pc' = Spawn(h, [pc EXCEPT ![H(h)] = "ok"])
      BY <1>6, <2>1, <2>3, <3>1 DEF Rename, AfterSave, FlowInv, Active, Settled
    <3> QED BY <2>1, <3>1, <3>2 DEF Spawn
  <2> QED BY <2>2, <2>3
<1>7. ASSUME NEW s \in Savers, RenameMissing(s) PROVE Kept /\ faults' = faults
  BY <1>7 DEF RenameMissing, AfterFailedSave, Goto
<1>8. ASSUME NEW s \in Savers, SaveError(s) PROVE Kept /\ faults' = faults + 1
  BY <1>8 DEF SaveError, AfterFailedSave, Goto
<1>9. ASSUME Restart PROVE Kept /\ faults' = faults
  BY <1>9 DEF Restart, Settled
<1>10. CASE UNCHANGED vars
  BY <1>10 DEF vars, storeVars, Spoiled
<1>11. CASE Kept /\ faults' \in {faults, faults + 1}
  <2>1. faults \in Nat
    BY StoreAssumption
  <2>2. faults # 0 => faults' # 0
    BY <1>11, <2>1
  <2> QED BY <1>11, <2>2 DEF Spoiled
<1> HIDE DEF Kept
<1> QED
  BY <1>1, <1>2, <1>3, <1>4, <1>5, <1>6, <1>7, <1>8, <1>9, <1>10, <1>11
  DEF Next, HandlerStep, SaverStep, Rest

-----------------------------------------------------------------------------
(* Steps that leave memory, credential, snapshots and files alone *)

\* The files stay in order when no saver gets further with its save.
LEMMA DiskKept ==
  ASSUME DiskInv, UNCHANGED <<file, tmpName, confName>>, up',
         \A s \in Savers : /\ pc'[s] \in Unsaved => pc[s] \in Unsaved
                           /\ pc'[s] \in {"write", "rename"}
                                => pc[s] = pc'[s] /\ fd'[s] = fd[s] /\ Data(s)' = Data(s)
  PROVE  DiskInv'
<1>1. Readable'
  BY DiskStays DEF DiskInv
<1>2. tmpName' # NoFile => tmpName' # confName'
  BY DEF DiskInv
<1>3. ASSUME NEW s \in Savers
      PROVE  /\ pc'[s] \in Unsaved => tmpName' # s /\ confName' # s
             /\ pc'[s] = "write" => tmpName' # NoFile /\ fd'[s] = tmpName' /\ file'[tmpName'] = {}
             /\ pc'[s] = "rename" => tmpName' # NoFile /\ file'[tmpName'] = {Data(s)'}
  BY DEF DiskInv
<1> QED BY <1>1, <1>2, <1>3 DEF DiskInv

\* Memory and disk stay in step when neither changes.
LEMMA SyncKept ==
  ASSUME SyncInv, ~Between, UNCHANGED <<mem, file, confName>>, Spoiled => Spoiled'
  PROVE  SyncInv'
  BY DiskStays DEF SyncInv

\* A step of one saver that is at work, or a request that arrives.
LEMMA QuietKept ==
  ASSUME SerialInv, NEW s \in Savers, NEW step \in Steps, Goto(s, step),
         step \notin {"write", "rename", "install", "credential"},
         UNCHANGED <<file, tmpName, confName, up, mem, cred, req, snap>>,
         \A r \in Savers \ {s} : fd'[r] = fd[r],
         step \in Unsaved => pc[s] \in Unsaved,
         \A h \in Handlers :
            /\ s = T(h) /\ step \in {"check", "open"} => snap[h] = mem
            /\ s = H(h) /\ step = "open" => req[h].kind = "reset"
            /\ s = H(h) /\ step = "ok" /\ req[h].kind = "connect" /\ req[h].persist
                 => mem.sta = req[h].sta
            /\ s = H(h) => step # "idle"
  PROVE  DiskInv' /\ CopyInv' /\ CredInv' /\ UplinkInv'
<1>1. \A r \in Savers : pc'[r] = IF r = s THEN step ELSE pc[r]
  BY DEF Goto, SerialInv, TypeOK
<1>2. DiskInv'
  <2>1. \A r \in Savers : Data(r)' = Data(r)
    BY DEF Data
  <2>2. up'
    BY DEF SerialInv, DiskInv
  <2> QED BY <1>1, <2>1, <2>2, DiskKept DEF SerialInv
<1>3. CopyInv'
  <2>1. OnDisk' = OnDisk
    BY DiskStays
  <2> QED BY <1>1, <2>1, SaversAre DEF SerialInv, CopyInv, Saving
<1>4. CredInv'
  BY DEF SerialInv, CredInv
<1>5. UplinkInv'
  <2>1. \A net : UplinkStored(net)' => UplinkStored(net)
    BY DiskStays
  <2>2. ASSUME NEW h \in Handlers, req[h].kind = "connect", pc'[H(h)] \in Saving
        PROVE  mem.sta = req[h].sta
    BY <1>1, <2>2, SaversAre DEF SerialInv, UplinkInv, Saving
  <2>3. ASSUME NEW h \in Handlers, Keeps(h)', UplinkStored(req[h].sta)'
        PROVE  mem.sta = req[h].sta
    <3>1. req[h].kind = "connect" /\ req[h].persist /\ pc'[H(h)] = "ok"
      BY <2>3 DEF Keeps
    <3>2. CASE s = H(h)
      BY <1>1, <3>1, <3>2
    <3>3. CASE s # H(h)
      <4>1. pc[H(h)] = "ok"
        BY <1>1, <3>1, <3>3, SaversAre
      <4>2. \A g \in Handlers : pc'[H(g)] = "idle" => pc[H(g)] = "idle"
        BY <1>1, SaversAre
      <4>3. Keeps(h)
        BY <2>3, <3>1, <4>1, <4>2 DEF Keeps
      <4> QED BY <2>1, <2>3, <4>3 DEF SerialInv, UplinkInv
    <3> QED BY <3>2, <3>3
  <2> QED BY <2>2, <2>3 DEF UplinkInv
<1> QED BY <1>2, <1>3, <1>4, <1>5

\* A request arrives.
LEMMA ArriveSerial ==
  ASSUME Serial, SerialInv, [Next]_vars, NEW h \in Handlers, Arrive(h)
  PROVE  SerialInv'
<1>1. /\ FlowInv'
      /\ \A s \in Savers : ~Active(s)
      /\ req[h].kind = "reset" => Goto(H(h), "open")
      /\ req[h].kind # "reset" => Goto(H(h), "command") \/ Goto(H(h), "lock")
  BY ArriveFlow DEF SerialInv
<1>2. PICK step \in {"open", "command", "lock"} :
        Goto(H(h), step) /\ (step = "open" => req[h].kind = "reset")
  BY <1>1
<1>3. /\ UNCHANGED <<file, tmpName, confName, fd, up, mem, cred, req, snap, faults>>
      /\ pc[H(h)] = "idle"
  BY DEF Arrive, fileVars
<1>4. DiskInv' /\ CopyInv' /\ CredInv' /\ UplinkInv'
  BY <1>2, <1>3, SaversAre, QuietKept DEF Steps, Saving, Unsaved
<1>5. SyncInv'
  <2>1. ~Between
    BY <1>1, SaversAre DEF Between, Active, Settled, Saving
  <2> QED BY <1>3, <2>1, SyncKept, SpoiledStays DEF SerialInv
<1> QED BY <1>1, <1>4, <1>5, NextTyped DEF SerialInv

\* The WiFi command of connect or disconnect is over.
LEMMA CommandDoneSerial ==
  ASSUME SerialInv, [Next]_vars, NEW h \in Handlers, CommandDone(h)
  PROVE  SerialInv'
<1>1. /\ pc[H(h)] = "command" /\ Active(H(h)) /\ req[h].kind # "reset"
      /\ UNCHANGED <<file, tmpName, confName, fd, up, mem, cred, req, snap, faults>>
  BY DEF CommandDone, fileVars, Active, Settled, SerialInv, FlowInv
<1>2. PICK step \in {"lock", "ok", "rejected"} :
        Goto(H(h), step) /\ (step = "ok" => ~req[h].persist)
  BY DEF CommandDone
<1>3. FlowInv'
  BY <1>1, <1>2, SaversAre, MoveFlow DEF SerialInv, Steps, Settled, Saving
<1>4. DiskInv' /\ CopyInv' /\ CredInv' /\ UplinkInv'
  BY <1>1, <1>2, SaversAre, QuietKept DEF Steps, Settled, Saving, Unsaved
<1>5. SyncInv'
  <2>1. ~Between
    BY <1>1, SaversAre, Alone DEF Between, SerialInv, Saving, Settled
  <2> QED BY <1>1, <2>1, SyncKept, SpoiledStays DEF SerialInv
<1> QED BY <1>3, <1>4, <1>5, NextTyped DEF SerialInv

\* A handler refuses before it edits.
LEMMA RefuseSerial ==
  ASSUME SerialInv, [Next]_vars, NEW h \in Handlers, Refuse(h)
  PROVE  SerialInv'
<1>1. /\ pc[H(h)] = "lock" /\ Active(H(h)) /\ Goto(H(h), "rejected")
      /\ UNCHANGED <<file, tmpName, confName, fd, up, mem, cred, req, snap, faults>>
  BY DEF Refuse, fileVars, Active, Settled
<1>2. FlowInv'
  BY <1>1, SaversAre, MoveFlow DEF SerialInv, Steps, Settled, Saving
<1>3. DiskInv' /\ CopyInv' /\ CredInv' /\ UplinkInv'
  BY <1>1, SaversAre, QuietKept DEF Steps, Settled, Saving, Unsaved
<1>4. SyncInv'
  <2>1. ~Between
    BY <1>1, SaversAre, Alone DEF Between, SerialInv, Saving, Settled
  <2> QED BY <1>1, <2>1, SyncKept, SpoiledStays DEF SerialInv
<1> QED BY <1>2, <1>3, <1>4, NextTyped DEF SerialInv

\* apply_config validates its snapshot.
LEMMA CheckSerial ==
  ASSUME SerialInv, [Next]_vars, NEW h \in Handlers, Check(h)
  PROVE  SerialInv'
<1>1. /\ pc[T(h)] = "check" /\ Active(T(h))
      /\ req[h].kind \in SpawnsApply /\ snap[h] = mem
      /\ UNCHANGED <<file, tmpName, confName, fd, up, mem, cred, req, snap, faults>>
  BY DEF Check, fileVars, Active, Settled, SerialInv, FlowInv, CopyInv
<1>2. PICK step \in {"open", "failed"} : Goto(T(h), step)
  BY DEF Check
<1>3. FlowInv'
  BY <1>1, <1>2, SaversAre, MoveFlow DEF SerialInv, Steps, Settled, Saving
<1>4. DiskInv' /\ CopyInv' /\ CredInv' /\ UplinkInv'
  BY <1>1, <1>2, SaversAre, QuietKept DEF Steps, Settled, Saving, Unsaved
<1>5. SyncInv'
  <2>1. ~Between
    BY <1>1, SaversAre, Alone DEF Between, SerialInv, Saving, Settled
  <2> QED BY <1>1, <2>1, SyncKept, SpoiledStays DEF SerialInv
<1> QED BY <1>3, <1>4, <1>5, NextTyped DEF SerialInv

\* The rest of a task.
LEMMA ApplySerial ==
  ASSUME SerialInv, [Next]_vars, NEW h \in Handlers, Apply(h)
  PROVE  SerialInv'
<1>1. /\ pc[T(h)] = "apply" /\ Active(T(h))
      /\ UNCHANGED <<file, tmpName, confName, fd, up, mem, cred, req, snap, faults>>
  BY DEF Apply, fileVars, Active, Settled
<1>2. PICK step \in {"ok", "failed"} : Goto(T(h), step)
  BY DEF Apply
<1>3. FlowInv'
  BY <1>1, <1>2, SaversAre, MoveFlow DEF SerialInv, Steps, Settled, Saving
<1>4. DiskInv' /\ CopyInv' /\ CredInv' /\ UplinkInv'
  BY <1>1, <1>2, SaversAre, QuietKept DEF Steps, Settled, Saving, Unsaved
<1>5. SyncInv'
  <2>1. ~Between
    BY <1>1, SaversAre, Alone DEF Between, SerialInv, Saving, Settled
  <2> QED BY <1>1, <2>1, SyncKept, SpoiledStays DEF SerialInv
<1> QED BY <1>3, <1>4, <1>5, NextTyped DEF SerialInv

\* The open or the write fails; a connect that answers success all the same has
\* its network in memory.
LEMMA SaveErrorSerial ==
  ASSUME SerialInv, [Next]_vars, NEW s \in Savers, SaveError(s)
  PROVE  SerialInv'
<1>1. /\ pc[s] \in {"open", "write"} /\ Active(s)
      /\ UNCHANGED <<file, tmpName, confName, up, mem, cred, req, snap>>
      /\ faults' = faults + 1
      /\ \A r \in Savers \ {s} : fd'[r] = fd[r]
  BY DEF SaveError, AfterFailedSave, Active, Settled, SerialInv, TypeOK, FileTypeOK
<1>2. PICK step \in {"ok", "failed"} : Goto(s, step)
  BY DEF SaveError, AfterFailedSave
<1>3. FlowInv'
  BY <1>1, <1>2, SaversAre, MoveFlow DEF SerialInv, Steps, Settled, Saving
<1>4. \A h \in Handlers : s = H(h) /\ req[h].kind = "connect" => mem.sta = req[h].sta
  BY <1>1 DEF SerialInv, UplinkInv, Saving
<1>5. DiskInv' /\ CopyInv' /\ CredInv' /\ UplinkInv'
  BY <1>1, <1>2, <1>4, SaversAre, QuietKept DEF Steps, Settled, Saving, Unsaved
<1>6. SyncInv'
  BY <1>1, StoreAssumption DEF SyncInv, Spoiled, SerialInv, TypeOK
<1> QED BY <1>3, <1>5, <1>6, NextTyped DEF SerialInv

-----------------------------------------------------------------------------
(* Steps that change the memory *)

\* The memory is edited: refused by validation, or waiting for its save.
LEMMA EditSerial ==
  ASSUME SerialInv, [Next]_vars, NEW h \in Handlers, Edit(h)
  PROVE  SerialInv'
<1>1. /\ pc[H(h)] = "lock" /\ Active(H(h)) /\ req[h].kind # "reset"
      /\ UNCHANGED <<file, tmpName, confName, fd, up, req, snap>>
      /\ cred' = CredAfter(req[h])
  BY DEF Edit, fileVars, Active, Settled, SerialInv, FlowInv
<1>2. mem' \in Edits(req[h], mem) /\ req[h] \in Request /\ mem \in Config
  BY StoreAssumption DEF Edit, SerialInv, TypeOK
<1>3. PICK step \in {"rejected", "open"} : Goto(H(h), step)
  BY DEF Edit
<1>4. \A r \in Savers : pc'[r] = IF r = H(h) THEN step ELSE pc[r]
  BY <1>3, SaversAre DEF Goto, SerialInv, TypeOK
<1>5. \A r \in Savers \ {H(h)} : pc'[r] \in Settled
  BY <1>1, <1>4, Alone, SaversAre DEF SerialInv
<1>6. FlowInv'
  BY <1>1, <1>3, SaversAre, MoveFlow DEF SerialInv, Steps, Settled, Saving
<1>7. DiskInv'
  <2>1. \A r \in Savers : /\ pc'[r] \in Unsaved => pc[r] \in Unsaved
                          /\ pc'[r] \notin {"write", "rename"}
    BY <1>1, <1>4, <1>5 DEF Unsaved, Settled
  <2>2. up'
    BY <1>1 DEF SerialInv, DiskInv
  <2> QED BY <1>1, <2>1, <2>2, DiskKept DEF SerialInv
<1>8. CopyInv'
  BY <1>3, <1>4, <1>5, SaversAre DEF CopyInv, Settled, Saving
<1>9. CredInv'
  BY <1>1, <1>2, EditsPassword DEF CredInv, SerialInv
<1>10. SyncInv'
  <2>1. pc'[H(h)] = step
    BY <1>4, SaversAre
  <2>2. CASE step = "rejected"
    BY <2>1, <2>2, SaversAre DEF SyncInv, Spoiled
  <2>3. CASE step = "open"
    BY <1>1, <2>1, <2>3 DEF SyncInv, Between, Saving
  <2> QED BY <2>2, <2>3
<1>11. UplinkInv'
  <2>1. ASSUME NEW g \in Handlers, req[g].kind = "connect", pc'[H(g)] \in Saving
        PROVE  mem'.sta = req[g].sta
    <3>1. g = h
      BY <1>5, <2>1, SaversAre DEF Settled, Saving
    <3> QED BY <1>2, <2>1, <3>1, EditsUplink
  <2>2. ASSUME NEW g \in Handlers, Keeps(g)', UplinkStored(req[g].sta)'
        PROVE  mem'.sta = req[g].sta
    <3>1. /\ req[g].kind = "connect" /\ req[g].persist /\ pc'[H(g)] = "ok"
          /\ \A i \in Handlers \ {g} : Touches(req[i]) => pc'[H(i)] = "idle"
      BY <1>1, <2>2 DEF Keeps
    <3>2. pc'[H(h)] = step /\ g # h
      BY <1>4, <3>1, SaversAre
    <3>3. ~Touches(req[h])
      BY <3>1, <3>2
    <3>4. \A i \in Handlers : pc'[H(i)] = "idle" => pc[H(i)] = "idle"
      BY <1>4, SaversAre
    <3>5. pc[H(g)] = "ok"
      BY <1>4, <3>1, <3>2, SaversAre
    <3>6. Keeps(g)
      BY <3>1, <3>4, <3>5 DEF Keeps
    <3>7. UplinkStored(req[g].sta)
      BY <1>1, <2>2, DiskStays
    <3>8. mem.sta = req[g].sta
      BY <3>6, <3>7 DEF SerialInv, UplinkInv
    <3> QED BY <1>2, <3>3, <3>8, EditsUplink
  <2> QED BY <1>1, <2>1, <2>2 DEF UplinkInv
<1> QED BY <1>6, <1>7, <1>8, <1>9, <1>10, <1>11, NextTyped DEF SerialInv

\* A reset takes the defaults it has saved into memory.
LEMMA InstallSerial ==
  ASSUME SerialInv, [Next]_vars, NEW h \in Handlers, Install(h)
  PROVE  SerialInv'
<1>1. /\ pc[H(h)] = "install" /\ Active(H(h)) /\ req[h].kind = "reset"
      /\ UNCHANGED <<file, tmpName, confName, fd, up, cred, req, snap>>
      /\ mem' = Default /\ OnDisk = Default
      /\ Goto(H(h), "credential")
  BY DEF Install, fileVars, Active, Settled, SerialInv, FlowInv, CopyInv
<1>2. \A r \in Savers : pc'[r] = IF r = H(h) THEN "credential" ELSE pc[r]
  BY <1>1, SaversAre DEF Goto, SerialInv, TypeOK
<1>3. \A r \in Savers \ {H(h)} : pc'[r] \in Settled
  BY <1>1, <1>2, Alone, SaversAre DEF SerialInv
<1>4. FlowInv'
  BY <1>1, SaversAre, MoveFlow DEF SerialInv, Steps, Settled, Saving
<1>5. DiskInv'
  <2>1. \A r \in Savers : /\ pc'[r] \in Unsaved => pc[r] \in Unsaved
                          /\ pc'[r] \notin {"write", "rename"}
    BY <1>1, <1>2, <1>3 DEF Unsaved, Settled
  <2>2. up'
    BY <1>1 DEF SerialInv, DiskInv
  <2> QED BY <1>1, <2>1, <2>2, DiskKept DEF SerialInv
<1>6. CopyInv'
  BY <1>1, <1>2, <1>3, SaversAre DEF CopyInv, Settled, Saving
<1>7. CredInv'
  BY <1>1 DEF CredInv, Default
<1>8. SyncInv'
  BY <1>1, DiskStays DEF SyncInv
<1>9. UplinkInv'
  <2>1. \A g \in Handlers : pc'[H(g)] \notin Saving
    BY <1>2, <1>3, SaversAre DEF Settled, Saving
  <2>2. \A g \in Handlers : ~Keeps(g)'
    <3>1. pc'[H(h)] = "credential" /\ Touches(req'[h])
      BY <1>1, <1>2, SaversAre DEF Touches
    <3> QED BY <3>1 DEF Keeps
  <2> QED BY <2>1, <2>2 DEF UplinkInv
<1> QED BY <1>4, <1>5, <1>6, <1>7, <1>8, <1>9, NextTyped DEF SerialInv

\* A reset clears the credential and leaves its task the defaults.
LEMMA ClearCredentialSerial ==
  ASSUME SerialInv, [Next]_vars, NEW h \in Handlers, ClearCredential(h)
  PROVE  SerialInv'
<1>1. /\ pc[H(h)] = "credential" /\ Active(H(h)) /\ req[h].kind = "reset" /\ mem = Default
      /\ UNCHANGED <<file, tmpName, confName, fd, up, mem, req, faults>>
      /\ pc' = Spawn(h, [pc EXCEPT ![H(h)] = "ok"])
      /\ snap' = [snap EXCEPT ![h] = Default]
  BY DEF ClearCredential, fileVars, Active, Settled, SerialInv, FlowInv, CopyInv
<1>2. /\ FlowInv'
      /\ pc'[H(h)] = "ok"
      /\ \A s \in Savers \ {H(h), T(h)} : pc'[s] = pc[s]
      /\ pc[T(h)] = "idle" /\ pc'[T(h)] \in {"idle", "check", "apply"}
  BY <1>1, SpawnFlow DEF SerialInv
<1>3. \A s \in Savers \ {H(h), T(h)} : pc'[s] \in Settled
  BY <1>1, <1>2, Alone, SaversAre DEF SerialInv
<1>4. DiskInv'
  <2>1. \A r \in Savers : /\ pc'[r] \in Unsaved => pc[r] \in Unsaved
                          /\ pc'[r] \notin {"write", "rename"}
    BY <1>1, <1>2, <1>3 DEF Unsaved, Settled
  <2>2. up'
    BY <1>1 DEF SerialInv, DiskInv
  <2> QED BY <1>1, <2>1, <2>2, DiskKept DEF SerialInv
<1>5. CopyInv'
  <2>1. snap'[h] = mem'
    BY <1>1 DEF SerialInv, TypeOK
  <2> QED BY <1>2, <1>3, <2>1, SaversAre DEF CopyInv, Settled, Saving
<1>6. CredInv'
  BY <1>1 DEF CredInv, Default
<1>7. SyncInv'
  <2>1. ~Between
    BY <1>1, SaversAre, Alone DEF Between, SerialInv, Saving, Settled
  <2> QED BY <1>1, <2>1, SyncKept, SpoiledStays DEF SerialInv
<1>8. UplinkInv'
  <2>1. \A g \in Handlers : pc'[H(g)] \notin Saving
    BY <1>2, <1>3, SaversAre DEF Settled, Saving
  <2>2. \A g \in Handlers : ~Keeps(g)'
    <3>1. pc'[H(h)] = "ok" /\ Touches(req'[h]) /\ req'[h].kind = "reset"
      BY <1>1, <1>2 DEF Touches
    <3> QED BY <3>1 DEF Keeps
  <2> QED BY <2>1, <2>2 DEF UplinkInv
<1> QED BY <1>2, <1>4, <1>5, <1>6, <1>7, <1>8, NextTyped DEF SerialInv

-----------------------------------------------------------------------------
(* The steps of a save *)

\* A step within a save, which leaves config.json alone.
LEMMA WithinSave ==
  ASSUME SerialInv, [Next]_vars, NEW s \in Savers, pc[s] \in Saving, NEW step \in Saving,
         Goto(s, step), UNCHANGED <<confName, mem, cred, req, snap, faults>>,
         confName # NoFile => file'[confName] = file[confName]
  PROVE  FlowInv' /\ CopyInv' /\ CredInv' /\ SyncInv' /\ UplinkInv'
<1>1. Active(s)
  BY DEF Active, Settled, Saving
<1>2. \A r \in Savers : pc'[r] = IF r = s THEN step ELSE pc[r]
  BY DEF Goto, SerialInv, TypeOK
<1>3. /\ OnDisk' = OnDisk
      /\ \A net : UplinkStored(net)' => UplinkStored(net)
  BY DiskStays
<1>4. FlowInv'
  <2>1. \A h \in Handlers : s = T(h) => req[h].kind \in SpawnsApply
    BY DEF SerialInv, FlowInv
  <2> QED BY <1>1, <2>1, MoveFlow DEF SerialInv, Steps, Saving
<1>5. CopyInv'
  BY <1>2, <1>3, SaversAre DEF SerialInv, CopyInv, Saving
<1>6. CredInv'
  BY DEF SerialInv, CredInv
<1>7. SyncInv'
  <2>1. Between => Between'
    BY <1>2, SaversAre DEF Between, Saving
  <2> QED BY <1>3, <2>1, SpoiledStays DEF SyncInv, SerialInv
<1>8. UplinkInv'
  <2>1. \A h \in Handlers : pc'[H(h)] \in Saving => pc[H(h)] \in Saving
    BY <1>2, SaversAre
  <2>2. \A h \in Handlers : /\ pc'[H(h)] = "ok" => pc[H(h)] = "ok"
                            /\ pc'[H(h)] = "idle" => pc[H(h)] = "idle"
    BY <1>2, SaversAre DEF Saving
  <2>3. \A h \in Handlers : Keeps(h)' => Keeps(h)
    BY <2>2 DEF Keeps
  <2> QED BY <1>3, <2>1, <2>3 DEF SerialInv, UplinkInv
<1> QED BY <1>4, <1>5, <1>6, <1>7, <1>8

\* The temporary file is opened and emptied.
LEMMA OpenSerial ==
  ASSUME SerialInv, [Next]_vars, NEW s \in Savers, Open(s)
  PROVE  SerialInv'
<1>1. /\ pc[s] = "open" /\ Active(s) /\ Goto(s, "write")
      /\ UNCHANGED <<confName, up, mem, cred, req, snap, faults>>
  BY DEF Open, OpenTmp, Active, Settled
<1>2. PICK i \in Savers :
        /\ i = IF tmpName = NoFile THEN s ELSE tmpName
        /\ file' = [file EXCEPT ![i] = {}] /\ tmpName' = i
        /\ fd' = [fd EXCEPT ![s] = i]
  BY DEF Open, OpenTmp, SerialInv, TypeOK, FileTypeOK
<1>3. i # confName /\ i # NoFile
  BY <1>1, <1>2, StoreAssumption DEF SerialInv, DiskInv, Unsaved
<1>4. confName # NoFile => file'[confName] = file[confName]
  BY <1>2, <1>3 DEF SerialInv, TypeOK, FileTypeOK
<1>5. \A r \in Savers : pc'[r] = IF r = s THEN "write" ELSE pc[r]
  BY <1>1 DEF Goto, SerialInv, TypeOK
<1>6. \A r \in Savers \ {s} : pc[r] \in Settled
  BY <1>1, Alone DEF SerialInv
<1>7. DiskInv'
  <2>1. up' /\ Readable'
    BY <1>1, <1>4, DiskStays DEF SerialInv, DiskInv
  <2>2. fd'[s] = i /\ file'[i] = {}
    BY <1>2 DEF SerialInv, TypeOK, FileTypeOK
  <2>3. ASSUME NEW r \in Savers, pc'[r] \in Unsaved PROVE tmpName' # r /\ confName' # r
    <3>1. r # s /\ pc[r] \in Unsaved
      BY <1>5, <2>3 DEF Unsaved
    <3> QED BY <1>1, <1>2, <3>1 DEF SerialInv, DiskInv
  <2>4. \A r \in Savers : pc'[r] # "rename" /\ (pc'[r] = "write" => r = s)
    BY <1>5, <1>6 DEF Settled
  <2> QED BY <1>1, <1>2, <1>3, <2>1, <2>2, <2>3, <2>4 DEF DiskInv
<1>8. FlowInv' /\ CopyInv' /\ CredInv' /\ SyncInv' /\ UplinkInv'
  BY <1>1, <1>4, WithinSave DEF Saving
<1> QED BY <1>7, <1>8, NextTyped DEF SerialInv

\* The document is written into the empty temporary file.
LEMMA WriteSerial ==
  ASSUME SerialInv, [Next]_vars, NEW s \in Savers, Write(s)
  PROVE  SerialInv'
<1>1. /\ pc[s] = "write" /\ Active(s) /\ Goto(s, "rename")
      /\ UNCHANGED <<tmpName, confName, up, mem, cred, req, snap, faults>>
  BY DEF Write, WriteTmp, Active, Settled
<1>2. /\ tmpName \in Savers /\ tmpName # NoFile /\ tmpName # confName
      /\ fd[s] = tmpName /\ file[tmpName] = {}
  BY <1>1 DEF SerialInv, DiskInv, TypeOK, FileTypeOK
<1>3. file' = [file EXCEPT ![tmpName] = {Data(s)}]
  <2>1. PICK tail \in {{}, file[fd[s]]} : file' = [file EXCEPT ![fd[s]] = {Data(s)} \cup tail]
    BY DEF Write, WriteTmp
  <2>2. tail = {} /\ {Data(s)} \cup tail = {Data(s)}
    BY <1>2, <2>1
  <2> QED BY <1>2, <2>1, <2>2
<1>4. confName # NoFile => file'[confName] = file[confName]
  BY <1>2, <1>3 DEF SerialInv, TypeOK, FileTypeOK
<1>5. \A r \in Savers : pc'[r] = IF r = s THEN "rename" ELSE pc[r]
  BY <1>1 DEF Goto, SerialInv, TypeOK
<1>6. \A r \in Savers \ {s} : pc[r] \in Settled
  BY <1>1, Alone DEF SerialInv
<1>7. DiskInv'
  <2>1. up' /\ Readable'
    BY <1>1, <1>4, DiskStays DEF SerialInv, DiskInv
  <2>2. file'[tmpName] = {Data(s)'}
    <3>1. Data(s)' = Data(s)
      BY <1>1 DEF Data
    <3> QED BY <1>2, <1>3, <3>1 DEF SerialInv, TypeOK, FileTypeOK
  <2>3. ASSUME NEW r \in Savers, pc'[r] \in Unsaved PROVE tmpName' # r /\ confName' # r
    <3>1. pc[r] \in Unsaved
      BY <1>5, <2>3 DEF Unsaved
    <3> QED BY <1>1, <3>1 DEF SerialInv, DiskInv
  <2>4. \A r \in Savers : pc'[r] # "write" /\ (pc'[r] = "rename" => r = s)
    BY <1>5, <1>6 DEF Settled
  <2> QED BY <1>1, <1>2, <2>1, <2>2, <2>3, <2>4 DEF DiskInv
<1>8. FlowInv' /\ CopyInv' /\ CredInv' /\ SyncInv' /\ UplinkInv'
  BY <1>1, <1>4, WithinSave DEF Saving
<1> QED BY <1>7, <1>8, NextTyped DEF SerialInv

\* What reaches config.json is the memory, or the defaults of a reset.
LEMMA RenamedIs ==
  ASSUME SerialInv, NEW s \in Savers, Rename(s)
  PROVE  /\ Readable' /\ OnDisk' = Data(s)
         /\ \A net : UplinkStored(net)' => Data(s).sta = net
         /\ \A net : Data(s).sta = net => UplinkStored(net)'
         /\ \/ Data(s) = mem
            \/ \E h \in Handlers : s = H(h) /\ req[h].kind = "reset" /\ Data(s) = Default
<1>1. tmpName # NoFile /\ file[tmpName] = {Data(s)} /\ confName' = tmpName /\ UNCHANGED file
  BY DEF Rename, RenameTmp, SerialInv, DiskInv
<1>2. \/ Data(s) = mem
      \/ \E h \in Handlers : s = H(h) /\ req[h].kind = "reset" /\ Data(s) = Default
  <2>1. PICK h \in Handlers : s = H(h) \/ s = T(h)
    BY SaversAre
  <2>2. CASE s = H(h)
    BY <2>2 DEF Data, H
  <2>3. CASE s = T(h)
    BY <2>3 DEF Data, T, Rename, Saving, SerialInv, CopyInv
  <2> QED BY <2>1, <2>2, <2>3
<1> QED BY <1>1, <1>2, DiskBecomes

\* config.json changes names and the saver goes on.
LEMMA RenameFlow ==
  ASSUME SerialInv, NEW s \in Savers, Rename(s)
  PROVE  /\ FlowInv'
         /\ \E h \in Handlers :
              \/ /\ s = T(h) /\ Goto(s, "apply") /\ UNCHANGED snap
              \/ /\ s = H(h) /\ req[h].kind = "reset" /\ Goto(s, "install") /\ UNCHANGED snap
              \/ /\ s = H(h) /\ req[h].kind # "reset"
                 /\ pc'[s] = "ok"
                 /\ \A r \in Savers \ {s, T(h)} : pc'[r] = pc[r]
                 /\ pc[T(h)] = "idle" /\ pc'[T(h)] \in {"idle", "check", "apply"}
                 /\ snap' = [snap EXCEPT ![h] = mem]
<1>1. pc[s] = "rename" /\ Active(s) /\ UNCHANGED req
  BY DEF Rename, Active, Settled
<1>2. PICK h \in Handlers : (s = H(h) \/ s = T(h)) /\ s[1] = h /\ (s = T(h) <=> s[2] = "task")
  BY StoreAssumption DEF H, T
<1>3. CASE s = T(h)
  <2>1. Goto(s, "apply") /\ UNCHANGED snap
    BY <1>2, <1>3 DEF Rename, AfterSave
  <2> QED BY <1>1, <1>3, <2>1, SaversAre, MoveFlow DEF SerialInv, Steps, Saving
<1>4. CASE s = H(h) /\ req[h].kind = "reset"
  <2>1. Goto(s, "install") /\ UNCHANGED snap
    BY <1>2, <1>4, SaversAre DEF Rename, AfterSave
  <2> QED BY <1>1, <1>4, <2>1, SaversAre, MoveFlow DEF SerialInv, Steps, Saving
<1>5. CASE s = H(h) /\ req[h].kind # "reset"
  <2>1. /\ pc' = Spawn(h, [pc EXCEPT ![H(h)] = "ok"])
        /\ snap' = [snap EXCEPT ![h] = mem]
    BY <1>2, <1>5, SaversAre DEF Rename, AfterSave
  <2> QED BY <1>1, <1>5, <2>1, SpawnFlow DEF SerialInv
<1> QED BY <1>2, <1>3, <1>4, <1>5

\* config.json becomes what was saved.
LEMMA RenameSerial ==
  ASSUME SerialInv, [Next]_vars, NEW s \in Savers, Rename(s)
  PROVE  SerialInv'
<1>1. /\ pc[s] = "rename" /\ Active(s)
      /\ confName' = tmpName /\ tmpName' = NoFile
      /\ UNCHANGED <<file, up, mem, cred, req, faults>>
  BY DEF Rename, RenameTmp, Active, Settled
<1>2. PICK h \in Handlers :
        \/ /\ s = T(h) /\ Goto(s, "apply") /\ UNCHANGED snap
        \/ /\ s = H(h) /\ req[h].kind = "reset" /\ Goto(s, "install") /\ UNCHANGED snap
        \/ /\ s = H(h) /\ req[h].kind # "reset"
           /\ pc'[s] = "ok"
           /\ \A r \in Savers \ {s, T(h)} : pc'[r] = pc[r]
           /\ pc[T(h)] = "idle" /\ pc'[T(h)] \in {"idle", "check", "apply"}
           /\ snap' = [snap EXCEPT ![h] = mem]
  BY RenameFlow
<1>3. /\ pc'[s] \in {"apply", "install", "ok"}
      /\ \A r \in Savers \ {s, T(h)} : pc'[r] = pc[r]
      /\ s = T(h) \/ pc'[T(h)] = pc[T(h)] \/ (pc[T(h)] = "idle" /\ pc'[T(h)] \in {"check", "apply"})
  BY <1>2, SaversAre DEF Goto, SerialInv, TypeOK
<1>4. \A r \in Savers \ {s} : pc[r] \in Settled
  BY <1>1, Alone DEF SerialInv
<1>5. /\ Readable' /\ OnDisk' = Data(s)
      /\ \A net : UplinkStored(net)' => Data(s).sta = net
      /\ \/ Data(s) = mem
         \/ s = H(h) /\ req[h].kind = "reset" /\ Data(s) = Default
  <2>1. \A g \in Handlers : s = H(g) => s = H(h) /\ g = h
    BY <1>2, SaversAre
  <2> QED BY <2>1, RenamedIs
<1>6. DiskInv'
  <2>2. \A r \in Savers : /\ pc'[r] \in Unsaved => pc[r] \in Unsaved
                          /\ pc'[r] \notin {"write", "rename"}
    BY <1>3, <1>4 DEF Unsaved, Settled
  <2>3. up' /\ \A r \in Savers : r # NoFile
    BY <1>1, StoreAssumption DEF SerialInv, DiskInv
  <2> QED BY <1>1, <1>5, <2>2, <2>3 DEF SerialInv, DiskInv
<1>7. CopyInv'
  <2>1. ASSUME NEW g \in Handlers, pc'[T(g)] \in {"check"} \cup Saving PROVE snap'[g] = mem
    <3>1. g = h
      BY <1>3, <1>4, <2>1, SaversAre DEF Settled, Saving
    <3>2. s = H(h) /\ req[h].kind # "reset"
      BY <1>2, <1>3, <1>4, <2>1, <3>1, SaversAre DEF Goto, Settled, Saving, SerialInv, TypeOK
    <3> QED BY <1>2, <3>1, <3>2, SaversAre DEF SerialInv, TypeOK
  <2>2. ASSUME NEW g \in Handlers, pc'[H(g)] \in {"install", "credential"}
        PROVE  OnDisk' = Default /\ pc'[H(g)] = "install"
    <3>1. s = H(g) /\ g = h
      BY <1>2, <1>3, <1>4, <2>2, SaversAre DEF Settled
    <3>2. req[h].kind = "reset"
      BY <1>2, <2>2, <3>1, SaversAre
    <3>3. Data(s) = Default
      BY <3>1, <3>2 DEF Data, H
    <3> QED BY <1>3, <1>5, <2>2, <3>1, <3>3
  <2> QED BY <1>1, <2>1, <2>2 DEF CopyInv
<1>8. CredInv'
  BY <1>1 DEF SerialInv, CredInv
<1>9. SyncInv'
  <2>1. CASE Data(s) = mem
    BY <1>1, <1>5, <2>1 DEF SyncInv
  <2>2. CASE s = H(h) /\ req[h].kind = "reset"
    <3>1. pc'[H(h)] = "install"
      BY <1>2, <2>2, SaversAre DEF Goto, SerialInv, TypeOK
    <3> QED BY <3>1 DEF SyncInv, Between
  <2> QED BY <1>5, <2>1, <2>2
<1>10. UplinkInv'
  <2>1. \A g \in Handlers : pc'[H(g)] \notin Saving
    BY <1>3, <1>4, SaversAre DEF Settled, Saving
  <2>2. ASSUME NEW g \in Handlers, Keeps(g)', UplinkStored(req[g].sta)'
        PROVE  mem.sta = req[g].sta
    <3>1. Data(s).sta = req[g].sta
      BY <1>1, <1>5, <2>2
    <3>2. ~(s = H(h) /\ req[h].kind = "reset")
      <4>1. SUFFICES ASSUME s = H(h), req[h].kind = "reset" PROVE FALSE
        OBVIOUS
      <4>2. pc'[H(h)] = "install" /\ Touches(req'[h])
        BY <1>1, <1>2, <4>1, SaversAre DEF Goto, SerialInv, TypeOK, Touches
      <4> QED BY <2>2, <4>2 DEF Keeps
    <3> QED BY <1>5, <3>1, <3>2
  <2> QED BY <1>1, <2>1, <2>2 DEF UplinkInv
<1> QED BY <1>6, <1>7, <1>8, <1>9, <1>10, RenameFlow, NextTyped DEF SerialInv

\* Nobody renames the temporary file under another saver.
LEMMA RenameNotMissing ==
  ASSUME SerialInv, NEW s \in Savers
  PROVE  ~RenameMissing(s)
  BY DEF RenameMissing, SerialInv, DiskInv

\* The daemon dies and starts from the disk.
LEMMA RestartSerial ==
  ASSUME SerialInv, [Next]_vars, Restart
  PROVE  SerialInv'
<1>1. /\ Readable /\ UNCHANGED <<file, tmpName, confName, req, snap, faults>>
      /\ mem' = OnDisk /\ cred' = OnDisk.web /\ up'
      /\ \A s \in Savers : pc'[s] = IF pc[s] \in Settled THEN pc[s] ELSE "lost"
  BY DEF Restart, CloseAll, SerialInv, DiskInv
<1>2. \A s \in Savers : /\ ~Active(s)' /\ pc'[s] \in Settled
                        /\ pc'[s] = "idle" <=> pc[s] = "idle"
                        /\ pc'[s] = "ok" => pc[s] = "ok"
  BY <1>1 DEF Active, Settled
<1>3. FlowInv'
  <2>1. ASSUME NEW h \in Handlers, pc'[H(h)] = "idle" \/ Active(H(h))' PROVE pc'[T(h)] = "idle"
    <3>1. pc[H(h)] = "idle" /\ pc[T(h)] = "idle"
      BY <1>2, <2>1, SaversAre DEF SerialInv, FlowInv
    <3> QED BY <1>2, <3>1, SaversAre
  <2> QED BY <1>2, <2>1, SaversAre DEF FlowInv, Settled, Saving
<1>4. DiskInv'
  <2>1. \A r \in Savers : /\ pc'[r] \in Unsaved => pc[r] \in Unsaved
                          /\ pc'[r] \notin {"write", "rename"}
    BY <1>2 DEF Unsaved, Settled
  <2> QED BY <1>1, <2>1, DiskKept DEF SerialInv
<1>5. CopyInv'
  BY <1>2, SaversAre DEF CopyInv, Settled, Saving
<1>6. OnDisk' = OnDisk /\ \A net : UplinkStored(net)' => UplinkStored(net)
  BY <1>1, DiskStays
<1>7. CredInv' /\ SyncInv'
  BY <1>1, <1>6 DEF CredInv, SyncInv
<1>8. UplinkInv'
  <2>1. \A h \in Handlers : pc'[H(h)] \notin Saving
    BY <1>2, SaversAre DEF Settled, Saving
  <2>2. \A net : UplinkStored(net)' => mem'.sta = net
    BY <1>1, <1>6, StoredIsRead
  <2> QED BY <1>1, <2>1, <2>2 DEF UplinkInv
<1> QED BY <1>3, <1>4, <1>5, <1>7, <1>8, NextTyped DEF SerialInv

-----------------------------------------------------------------------------
(* What a client who waits can rely on *)

\* The first boot: defaults everywhere, no file, nobody at work.
LEMMA InitSerial == Init => SerialInv
<1> SUFFICES ASSUME Init PROVE SerialInv
  OBVIOUS
<1> USE SaversAre DEF Init, FileInit
<1>1. TypeOK
  BY InitTyped
<1>2. FlowInv
  BY DEF FlowInv, Active, Settled, Saving
<1>3. DiskInv
  BY StoreAssumption DEF DiskInv, Readable, Missing
<1>4. CopyInv /\ CredInv
  BY DEF CopyInv, CredInv, Saving, Default
<1>5. SyncInv
  BY DEF SyncInv, OnDisk, Missing
<1>6. UplinkInv
  BY DEF UplinkInv, UplinkStored, Missing, Saving
<1> QED BY <1>1, <1>2, <1>3, <1>4, <1>5, <1>6 DEF SerialInv

\* Every step of a box whose clients wait.
LEMMA NextSerial == Serial /\ SerialInv /\ [Next]_vars => SerialInv'
<1> SUFFICES ASSUME Serial, SerialInv, [Next]_vars PROVE SerialInv'
  OBVIOUS
<1>1. CASE UNCHANGED vars
  <2>1. /\ UNCHANGED <<up, mem, cred, req, pc, snap, faults, file, tmpName, confName, fd>>
        /\ TypeOK'
    BY <1>1, NextTyped DEF vars, storeVars, fileVars, SerialInv
  <2> QED
    BY <2>1 DEF SerialInv, FlowInv, Active, DiskInv, Readable, Missing, Stored, Data, CopyInv,
                OnDisk, CredInv, SyncInv, Spoiled, Between, UplinkInv, Keeps, UplinkStored
<1> QED
  BY <1>1, ArriveSerial, CommandDoneSerial, RefuseSerial, EditSerial, InstallSerial,
     ClearCredentialSerial, CheckSerial, ApplySerial, OpenSerial, WriteSerial, RenameSerial,
     RenameNotMissing, SaveErrorSerial, RestartSerial
  DEF Next, HandlerStep, TaskStep, SaverStep, Rest

\* The daemon is killed at whatever step of a save, and starts: config.json is
\* written aside and renamed (remount.rs 45-46).  It takes clients that wait:
\* with two savers at work the file can be torn.
THEOREM WaitingBoots ==
  ASSUME Serial
  PROVE  Spec => []AlwaysBootable
<1>1. SerialInv => AlwaysBootable
  BY DEF SerialInv, DiskInv, AlwaysBootable
<1> QED BY <1>1, InitSerial, NextSerial, PTL DEF Spec

\* With nothing left to do and nothing turned down or failed, the disk holds
\* what the memory holds (api.rs 350-357, 488-497, apply.rs).
THEOREM WaitingInStep ==
  ASSUME Serial
  PROVE  Spec => []DiskMatchesMemory
<1>1. SerialInv => DiskMatchesMemory
  BY SaversAre
  DEF SerialInv, SyncInv, Spoiled, Between, DiskMatchesMemory, Quiet, Settled, Saving
<1> QED BY <1>1, InitSerial, NextSerial, PTL DEF Spec

\* The password the login page checks is the configured one, whenever there is
\* one (api.rs 331-338, 498-499, web/mod.rs 44-46).
THEOREM WaitingCredential ==
  ASSUME Serial
  PROVE  Spec => []CredentialAgrees
<1>1. SerialInv => CredentialAgrees
  BY DEF SerialInv, CredInv, CredentialAgrees
<1> QED BY <1>1, InitSerial, NextSerial, PTL DEF Spec

\* No step takes a stored network off the disk before another request about the
\* uplink has begun.
LEMMA UplinkStep ==
  ASSUME SerialInv, [Next]_vars, NEW h \in Handlers, Keeps(h), UplinkStored(req[h].sta)
  PROVE  UplinkStored(req[h].sta)'
<1>1. req' = req
  BY NeverIdleAgain DEF SerialInv
<1>2. ASSUME UNCHANGED <<file, confName>> PROVE UplinkStored(req[h].sta)'
  BY <1>1, <1>2, DiskStays
<1>3. ASSUME NEW s \in Savers, Open(s) PROVE UplinkStored(req[h].sta)'
  <2>1. s # confName /\ tmpName # confName
    BY <1>3 DEF Open, SerialInv, DiskInv, Unsaved, UplinkStored, Missing
  <2>2. UNCHANGED confName /\ (confName # NoFile => file'[confName] = file[confName])
    BY <1>3, <2>1 DEF Open, OpenTmp, SerialInv, TypeOK, FileTypeOK
  <2> QED BY <1>1, <2>2, DiskStays
<1>4. ASSUME NEW s \in Savers, Write(s) PROVE UplinkStored(req[h].sta)'
  <2>1. fd[s] = tmpName /\ tmpName # confName
    BY <1>4 DEF Write, SerialInv, DiskInv
  <2>2. UNCHANGED confName /\ (confName # NoFile => file'[confName] = file[confName])
    BY <1>4, <2>1 DEF Write, WriteTmp, SerialInv, TypeOK, FileTypeOK
  <2> QED BY <1>1, <2>2, DiskStays
<1>5. ASSUME NEW s \in Savers, Rename(s) PROVE UplinkStored(req[h].sta)'
  <2>1. \A g \in Handlers : ~(s = H(g) /\ req[g].kind = "reset")
    BY <1>5 DEF Rename, Keeps, Touches
  <2>2. Data(s) = mem
    BY <1>5, <2>1, RenamedIs
  <2>3. mem.sta = req[h].sta
    BY DEF SerialInv, UplinkInv
  <2> QED BY <1>1, <1>5, <2>2, <2>3, RenamedIs
<1>6. ASSUME NEW g \in Handlers, Arrive(g) \/ HandlerStep(g) \/ TaskStep(g)
      PROVE  UNCHANGED <<file, confName>>
  BY <1>6 DEF Arrive, HandlerStep, CommandDone, Refuse, Edit, Install, ClearCredential,
              TaskStep, Check, Apply, fileVars
<1>7. ASSUME NEW s \in Savers, RenameMissing(s) \/ SaveError(s)
      PROVE  UNCHANGED <<file, confName>>
  BY <1>7 DEF RenameMissing, SaveError, fileVars
<1>8. Restart => UNCHANGED <<file, confName>>
  BY DEF Restart, CloseAll
<1>9. UNCHANGED vars => UNCHANGED <<file, confName>>
  BY DEF vars, fileVars
<1> QED
  BY <1>2, <1>3, <1>4, <1>5, <1>6, <1>7, <1>8, <1>9 DEF Next, SaverStep, Rest

\* README.md 26: a network that was joined and saved is still the one a boot
\* joins after any number of other requests, failing saves and restarts, until a
\* request about the uplink begins.
THEOREM WaitingKeepsUplink ==
  ASSUME Serial
  PROVE  Spec => UplinkPersists
<1>1. SerialInv /\ [Next]_vars =>
        [\A h \in Handlers :
           /\ req[h].kind = "connect" /\ req[h].persist /\ pc[H(h)] = "ok"
           /\ \A g \in Handlers \ {h} : Touches(req[g]) => pc[H(g)] = "idle"
           /\ UplinkStored(req[h].sta)
           => UplinkStored(req[h].sta)']_vars
  BY UplinkStep DEF Keeps
<1> QED BY <1>1, InitSerial, NextSerial, PTL DEF Spec, UplinkPersists
=============================================================================
