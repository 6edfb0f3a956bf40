---------------------------- MODULE ConfigStore -----------------------------
(***************************************************************************)
(* The configuration as the web API keeps it (src/web/api.rs): one copy in *)
(* memory behind a tokio RwLock, one on disk, the login credential beside  *)
(* them, and the background tasks a handler leaves behind.                 *)
(*                                                                         *)
(* A request is a process of its own: axum runs handlers on a              *)
(* multi-threaded runtime.  Handlers that edit the configuration hold the  *)
(* write lock from the edit to the end of the save, so each of them edits  *)
(* and validates in one step and saves in three.  api_reset and the        *)
(* apply_config task call save_config without the lock.  Requests are past *)
(* is_authed, which takes and releases the read lock before anything else. *)
(***************************************************************************)
EXTENDS ConfigFile, Naturals

CONSTANTS
    Handlers,     \* ids of the requests of a run
    Requests,     \* the bodies they may carry
    NoOne,        \* nobody holds the write lock
    Overlap,      \* FALSE: a client waits until the daemon is idle
    MaxFaults,    \* bound on failing writes of the temporary file
    MaxRestarts   \* bound on restarts of the daemon

H(h) == <<h, "handler">>
T(h) == <<h, "task">>

ASSUME StoreAssumption ==
    /\ Savers = Handlers \X {"handler", "task"}
    /\ Requests \subseteq Request
    /\ NoFile \notin Savers
    /\ NoOne \notin Handlers
    /\ Overlap \in BOOLEAN
    /\ MaxFaults \in Nat
    /\ MaxRestarts \in Nat

VARIABLES
    up,        \* FALSE: load() failed, main exited, and so will every restart
    mem,       \* AppState.config
    cred,      \* auth::WEB_PASSWORD
    writer,    \* handler holding the write lock, or NoOne
    readers,   \* handlers holding the read lock across a blocking command
    req,       \* req[h]: the request handler h serves
    pc,        \* pc[s]: where the handler or task is
    snap,      \* snap[h]: the clone moved into h's background task
    live,      \* the sections last applied to the system
    faults, restarts

storeVars == <<up, mem, cred, writer, readers, req, pc, snap, live, faults, restarts>>
vars == <<fileVars, storeVars>>

Saving  == {"open", "write", "rename"}
Settled == {"idle", "ok", "rejected", "failed", "lost"}
Steps   == Settled \cup Saving
             \cup {"command", "lock", "install", "credential", "check", "apply"}

TypeOK ==
    /\ FileTypeOK
    /\ up \in BOOLEAN
    /\ mem \in Config
    /\ cred \in Passwords \cup {NoPassword}
    /\ writer \in Handlers \cup {NoOne}
    /\ readers \subseteq Handlers
    /\ req \in [Handlers -> Requests]
    /\ pc \in [Savers -> Steps]
    /\ snap \in [Handlers -> Config]
    /\ live \in [ap : ApForms, vpn : VpnConfig]
    /\ faults \in 0..MaxFaults
    /\ restarts \in 0..MaxRestarts

\* First boot: no config.json, so load() answers the defaults.
Init ==
    /\ FileInit
    /\ up = TRUE
    /\ mem = Default
    /\ cred = NoPassword
    /\ writer = NoOne
    /\ readers = {}
    /\ req \in [Handlers -> Requests]
    /\ pc = [s \in Savers |-> "idle"]
    /\ snap = [h \in Handlers |-> Default]
    /\ live = [ap |-> DefaultAp, vpn |-> DefaultVpn]
    /\ faults = 0
    /\ restarts = 0

-----------------------------------------------------------------------------
Goto(s, step) == pc' = [pc EXCEPT ![s] = step]

\* Who saves without the lock.
Unlocked(s) == s[2] = "task" \/ req[s[1]].kind = "reset"

\* What a saver serialises: the memory it has locked, or a value of its own.
Data(s) ==
    IF s[2] = "task" THEN snap[s[1]]
    ELSE IF req[s[1]].kind = "reset" THEN Default ELSE mem

Free == writer = NoOne /\ readers = {}

\* A request arrives.  connect and disconnect take the read lock and run the
\* WiFi command under it; reset saves at once; the others queue for the lock.
Arrive(h) ==
    /\ pc[H(h)] = "idle"
    /\ Overlap \/ \A s \in Savers : pc[s] \in Settled
    /\ CASE req[h].kind \in {"connect", "disconnect"} ->
              writer = NoOne /\ readers' = readers \cup {h} /\ Goto(H(h), "command")
         [] req[h].kind = "reset" -> Goto(H(h), "open") /\ UNCHANGED readers
         [] OTHER -> Goto(H(h), "lock") /\ UNCHANGED readers
    /\ UNCHANGED <<fileVars, up, mem, cred, writer, req, snap, live, faults, restarts>>

\* Faulty variant: the read guard lives on while the write lock is asked for.
CommandDoneGuarded(h) ==
    /\ pc[H(h)] = "command"
    /\ \/ req[h].persist /\ Goto(H(h), "lock") /\ UNCHANGED readers
       \/ Goto(H(h), "rejected") /\ readers' = readers \ {h}
    /\ UNCHANGED <<fileVars, up, mem, cred, writer, req, snap, live, faults, restarts>>

\* api_connect / api_wifi_disconnect: the read guard is dropped before the
\* write lock is asked for, and only when the result is to be remembered.
CommandDone(h) ==
    /\ pc[H(h)] = "command"
    /\ readers' = readers \ {h}
    /\ \/ Goto(H(h), IF req[h].persist THEN "lock" ELSE "ok")
       \/ Goto(H(h), "rejected")
    /\ UNCHANGED <<fileVars, up, mem, cred, writer, req, snap, live, faults, restarts>>

-----------------------------------------------------------------------------
\* The write lock is granted and the handler refuses before editing.
Refuse(h) ==
    /\ pc[H(h)] = "lock" /\ Free
    /\ Edits(req[h], mem) = {}
    /\ Goto(H(h), "rejected")
    /\ UNCHANGED <<fileVars, up, mem, cred, writer, readers, req, snap, live, faults, restarts>>

\* Faulty variant: the password is stored and not activated.
CredForgotten(r) == cred

\* A config request that carries a web password sets the credential as it
\* edits; an empty one only clears sessions.
CredAfter(r) ==
    IF r.kind = "config" /\ r.web \notin {Unset, NoPassword} THEN r.web ELSE cred

\* Faulty variant: the guard is dropped before the save.
EditReleased(h) ==
    /\ pc[H(h)] = "lock" /\ Free
    /\ \E new \in Edits(req[h], mem) :
         /\ mem' = new
         /\ Goto(H(h), IF req[h].kind \in Validated /\ ~Valid(new) THEN "rejected" ELSE "open")
    /\ cred' = CredAfter(req[h])
    /\ UNCHANGED <<fileVars, up, writer, readers, req, snap, live, faults, restarts>>

\* The write lock is granted and the memory edited; a handler that validates
\* and finds errors returns, leaving the edit in memory.
Edit(h) ==
    /\ pc[H(h)] = "lock" /\ Free
    /\ \E new \in Edits(req[h], mem) :
         /\ mem' = new
         /\ IF req[h].kind \in Validated /\ ~Valid(new)
            THEN Goto(H(h), "rejected") /\ UNCHANGED writer
            ELSE Goto(H(h), "open") /\ writer' = h
    /\ cred' = CredAfter(req[h])
    /\ UNCHANGED <<fileVars, up, readers, req, snap, live, faults, restarts>>

-----------------------------------------------------------------------------
Open(s) ==
    /\ pc[s] = "open"
    /\ OpenTmp(s)
    /\ Goto(s, "write")
    /\ UNCHANGED <<up, mem, cred, writer, readers, req, snap, live, faults, restarts>>

Write(s) ==
    /\ pc[s] = "write"
    /\ WriteTmp(s, Data(s))
    /\ Goto(s, "rename")
    /\ UNCHANGED <<up, mem, cred, writer, readers, req, snap, live, faults, restarts>>

\* Tasks of a handler start with its snapshot: apply_config validates first,
\* the VPN task goes straight to vpn::apply.
Spawn(h, p) ==
    CASE req[h].kind \in SpawnsApply -> [p EXCEPT ![T(h)] = "check"]
      [] req[h].kind \in SpawnsVpn   -> [p EXCEPT ![T(h)] = "apply"]
      [] OTHER                       -> p

\* What follows a successful save: a locked handler clones the memory for its
\* task, drops the guard and answers; reset goes on to the memory, the
\* apply_config task to the system.
AfterSave(s) ==
    LET h == s[1]
    IN  IF s[2] = "task"
        THEN Goto(s, "apply") /\ UNCHANGED <<writer, snap>>
        ELSE IF req[h].kind = "reset"
        THEN Goto(s, "install") /\ UNCHANGED <<writer, snap>>
        ELSE /\ writer' = NoOne
             /\ pc' = Spawn(h, [pc EXCEPT ![s] = "ok"])
             /\ snap' = [snap EXCEPT ![h] = mem]

\* What follows a failed one: 500 and no task, except that connect and
\* disconnect ignore the error and answer success.  Memory keeps the edit.
AfterFailedSave(s) ==
    /\ IF s[2] = "handler" /\ req[s[1]].kind \in {"connect", "disconnect"}
       THEN Goto(s, "ok") ELSE Goto(s, "failed")
    /\ writer' = IF Unlocked(s) THEN writer ELSE NoOne
    /\ UNCHANGED snap

Rename(s) ==
    /\ pc[s] = "rename"
    /\ RenameTmp
    /\ AfterSave(s)
    /\ UNCHANGED <<up, mem, cred, readers, req, live, faults, restarts>>

\* Another saver has already renamed the shared temporary file: ENOENT.
RenameMissing(s) ==
    /\ pc[s] = "rename"
    /\ tmpName = NoFile
    /\ AfterFailedSave(s)
    /\ UNCHANGED <<fileVars, up, mem, cred, readers, req, live, faults, restarts>>

\* The open or the write fails (disk full, read-only mount).
SaveError(s) ==
    /\ pc[s] \in {"open", "write"}
    /\ faults < MaxFaults
    /\ faults' = faults + 1
    /\ fd' = [fd EXCEPT ![s] = NoFile]
    /\ AfterFailedSave(s)
    /\ UNCHANGED <<file, tmpName, confName, up, mem, cred, readers, req, live, restarts>>

-----------------------------------------------------------------------------
\* Faulty variant: a reset leaves the memory alone.
InstallNothing(h) ==
    /\ pc[H(h)] = "install" /\ Free
    /\ Goto(H(h), "credential")
    /\ UNCHANGED <<fileVars, up, mem, cred, writer, readers, req, snap, live, faults, restarts>>

\* api_reset after its save: the memory becomes the defaults under the lock,
\* which is dropped, and then the credential is cleared and the task spawned.
Install(h) ==
    /\ pc[H(h)] = "install" /\ Free
    /\ mem' = Default
    /\ Goto(H(h), "credential")
    /\ UNCHANGED <<fileVars, up, cred, writer, readers, req, snap, live, faults, restarts>>

ClearCredential(h) ==
    /\ pc[H(h)] = "credential"
    /\ cred' = NoPassword
    /\ pc' = Spawn(h, [pc EXCEPT ![H(h)] = "ok"])
    /\ snap' = [snap EXCEPT ![h] = Default]
    /\ UNCHANGED <<fileVars, up, mem, writer, readers, req, live, faults, restarts>>

\* apply_config validates its snapshot before it saves it again.
Check(h) ==
    /\ pc[T(h)] = "check"
    /\ Goto(T(h), IF Valid(snap[h]) THEN "open" ELSE "failed")
    /\ UNCHANGED <<fileVars, up, mem, cred, writer, readers, req, snap, live, faults, restarts>>

\* The rest of apply_config (access point, DHCP, firewall), or all of
\* vpn::apply, seen from here as one step that works or fails.
Apply(h) ==
    /\ pc[T(h)] = "apply"
    /\ \/ /\ Goto(T(h), "ok")
          /\ live' = IF req[h].kind \in SpawnsApply
                     THEN [live EXCEPT !.ap = snap[h].ap]
                     ELSE [live EXCEPT !.vpn = snap[h].vpn]
       \/ Goto(T(h), "failed") /\ UNCHANGED live
    /\ UNCHANGED <<fileVars, up, mem, cred, writer, readers, req, snap, faults, restarts>>

-----------------------------------------------------------------------------
\* The process dies (reboot, panic = abort, systemd) and is started again:
\* everything in flight is lost and main loads what is on disk, unvalidated.
\* When that does not parse main exits, and Restart=always repeats it.
Restart ==
    /\ up
    /\ restarts < MaxRestarts
    /\ restarts' = restarts + 1
    /\ CloseAll
    /\ writer' = NoOne
    /\ readers' = {}
    /\ pc' = [s \in Savers |-> IF pc[s] \in Settled THEN pc[s] ELSE "lost"]
    /\ up' = Readable
    /\ IF Readable
       THEN /\ mem' = OnDisk
            /\ cred' = OnDisk.web
            /\ live' = [ap |-> OnDisk.ap, vpn |-> OnDisk.vpn]
       ELSE UNCHANGED <<mem, cred, live>>
    /\ UNCHANGED <<req, snap, faults>>

HandlerStep(h) ==
    \/ CommandDone(h)
    \/ Refuse(h)
    \/ Edit(h)
    \/ Install(h)
    \/ ClearCredential(h)

SaverStep(s) ==
    \/ Open(s)
    \/ Write(s)
    \/ Rename(s)
    \/ RenameMissing(s)

TaskStep(h) == Check(h) \/ Apply(h)

\* Every request of the run was served, or the daemon cannot start.
Rest ==
    /\ \/ ~up
       \/ \A h \in Handlers : /\ pc[H(h)] \in Settled \ {"idle"}
                              /\ pc[T(h)] \in Settled
    /\ UNCHANGED vars

Next ==
    \/ /\ up
       /\ \/ \E h \in Handlers : Arrive(h) \/ HandlerStep(h) \/ TaskStep(h)
          \/ \E s \in Savers : SaverStep(s) \/ SaveError(s)
    \/ Restart
    \/ Rest

Spec == Init /\ [][Next]_vars

\* The runtime polls every ready future and the lock queue is first come,
\* first served; clients may never send a request.
Fairness ==
    /\ \A h \in Handlers : WF_vars(up /\ HandlerStep(h)) /\ WF_vars(up /\ TaskStep(h))
    /\ \A s \in Savers : WF_vars(up /\ SaverStep(s))

FairSpec == Spec /\ Fairness
-----------------------------------------------------------------------------
(* Properties *)

Quiet == \A s \in Savers : pc[s] \in Settled

\* A snapshot handed to apply_config has passed the validation of the handler
\* that cloned it, so the task never drops a change the client was told is
\* saved: clone and validation happen under one lock (api.rs 340, 355).
AppliedIsValid ==
    \A h \in Handlers : pc[T(h)] \in {"check"} \cup Saving => Valid(snap[h])

\* However locked savers interleave, fail or are cut short, config.json stays
\* readable: the lock keeps the shared temporary file to one of them.  A file
\* that does not parse takes an unlocked saver, that is an apply_config task
\* or a factory reset.
TornNeedsUnlocked ==
    ~Readable => \E h \in Handlers :
        \/ req[h].kind = "reset" /\ pc[H(h)] # "idle"
        \/ req[h].kind \in SpawnsApply /\ pc[T(h)] # "idle"

\* Every request is answered and every background task ends: no handler waits
\* for a lock it holds itself (api_connect drops its read guard before it
\* asks for the write lock, api.rs 247) or that is never released on an error
\* path.
EveryoneSettles ==
    \A s \in Savers : pc[s] \notin Settled ~> pc[s] \in Settled

\* The daemon can start from what is on disk at every moment, so at whatever
\* step of a save it is killed (remount.rs 45-46: write aside, then rename).
AlwaysBootable == up /\ Readable

\* Between requests the disk holds what the memory holds, unless a request
\* was turned down or a save failed after the memory had been edited.
DiskMatchesMemory ==
    Quiet /\ (\A s \in Savers : pc[s] \notin {"rejected", "failed"}) /\ faults = 0
        => OnDisk = mem

\* The password login checks is the one in the configuration, whenever there
\* is one: after edits that were saved, refused or lost, after a reset and
\* after a restart (api.rs 331-338, 498-499, web/mod.rs 44-46).
CredentialAgrees == Quiet /\ mem.web # NoPassword => cred = mem.web

\* With locked savers only, memory and disk are the abstract register.
SavedView == IF Readable THEN OnDisk ELSE NoFile

Register == INSTANCE ConfigRegister
                WITH Values <- Config, Initial <- Default,
                     memory <- mem, saved <- SavedView

ImplementsRegister == Register!Spec

-----------------------------------------------------------------------------
(* What the documentation says, as far as the code does it *)

\* docs/VPN_TECHNICAL.md 236 "validate -> save": a configuration that
\* validation refuses is saved only after a request was refused, whose edit is
\* not undone (api.rs 318-345, 539-546, 675-681), whichever handlers that do
\* not validate come between.
InvalidNeedsRefusal ==
    ~Missing /\ Readable /\ ~Valid(OnDisk)
        => \E h \in Handlers : pc[H(h)] = "rejected"

Touches(r) ==
    \/ r.kind \in {"connect", "disconnect", "reset"}
    \/ r.kind = "config" /\ r.sta # Unset

UplinkStored(net) == ~Missing /\ \E c \in file[confName] : Stored(c) /\ c.sta = net

\* README.md 26: a network that was connected to and saved is the one the next
\* boot connects to.  Once the request has been answered and is on disk, only
\* a later request about the uplink takes it off the disk again.
UplinkPersists ==
    [][\A h \in Handlers :
        /\ req[h].kind = "connect" /\ req[h].persist /\ pc[H(h)] = "ok"
        /\ \A g \in Handlers \ {h} : Touches(req[g]) => pc[H(g)] = "idle"
        /\ UplinkStored(req[h].sta)
        => UplinkStored(req[h].sta)']_vars
=============================================================================
