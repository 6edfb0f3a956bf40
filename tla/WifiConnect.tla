----------------------------- MODULE WifiConnect ----------------------------
(***************************************************************************)
(* Joining and leaving networks on the wpa_supplicant backend              *)
(* (src/wifi/connect.rs), by requests of the web page and by main at boot. *)
(*                                                                         *)
(* connect reads wpa_supplicant.conf, replaces the entry of its network,   *)
(* writes the file back with fs::write (a truncation and a write), has     *)
(* wpa_supplicant read it again, and looks up to fifteen times, a second   *)
(* apart, whether the radio is connected to anything.  If it never is, it  *)
(* terminates wpa_supplicant, which nothing in the code starts again.  The *)
(* results of wpa_cli are ignored: a command that does not get through is  *)
(* passed over.                                                            *)
(*                                                                         *)
(* Requests hold only the read lock of the configuration, so any number of *)
(* them run together.  main waits eight seconds for its own connect and    *)
(* then serves, while that connect goes on looking; eight seconds are      *)
(* taken to be enough for it to have written the file.                     *)
(***************************************************************************)
EXTENDS Naturals, FiniteSets

CONSTANTS
    Handlers,    \* requests of a run
    Boot,        \* the connect of main, 8 seconds of which it waits for
    Requests,    \* what the page may ask
    Saved,       \* requests main may make: the sta_ssid of the configuration
    Ssids,
    Header,      \* the lines of the file that are not a network
    Airs,        \* sets of networks that may be in reach
    None,
    Polls,       \* looks at the link before the timeout, 15 in the code
    MaxMoves,    \* bound on changes of the networks in reach
    MaxFaults,   \* bound on file accesses and wpa_cli commands that fail
    MaxRestarts  \* bound on restarts of the daemon or the box

All == Handlers \cup {Boot}

Passwords == {"good", "bad"}
Entry     == [ssid : Ssids, pw : Passwords]

\* A password wpa_passphrase refuses is "short"; open networks have that one.
Request ==
    [op : {"connect"}, ssid : Ssids, pw : Passwords \cup {"short"}]
      \cup [op : {"forget"}, ssid : Ssids] \cup [op : {"disconnect"}]

ASSUME WifiAssumption ==
    /\ Boot \notin Handlers
    /\ Requests \subseteq Request
    /\ Saved \subseteq [op : {"connect"}, ssid : Ssids, pw : Passwords]
    /\ Airs \subseteq SUBSET Ssids
    /\ Header \notin Entry /\ None \notin Entry \cup {Header}
    /\ Polls \in Nat \ {0}
    /\ MaxMoves \in Nat /\ MaxFaults \in Nat /\ MaxRestarts \in Nat

VARIABLES
    file,     \* entries of wpa_supplicant.conf
    seen,     \* seen[h]: what request h has read of it and not written back
    req, pc,
    looks,    \* looks[h]: how often h found no link
    serving,  \* main has gone on to the web server
    running,  \* wpa_supplicant runs
    loaded,   \* the entries it has read
    paused,   \* it was told to stay disconnected
    link,     \* the entry the radio is associated with, or None
    air,      \* networks in reach
    harmed,   \* two edits overlapped, or one failed or was killed midway
    behind,   \* the file was changed and the supplicant was not told
    moves, faults, restarts

fileVars == <<file, seen, harmed>>
wpaVars  == <<running, loaded, paused, link>>
bounds   == <<moves, faults, restarts>>
vars == <<fileVars, req, pc, looks, serving, wpaVars, air, behind, bounds>>

Editing == {"truncate", "write"}
Ended   == {"ok", "error", "lost"}
Steps   == {"idle", "read", "reconfigure", "poll", "terminate", "disconnect"}
             \cup Editing \cup Ended

TypeOK ==
    /\ file \subseteq Entry \cup {Header}
    /\ seen \in [All -> SUBSET (Entry \cup {Header})]
    /\ req \in [All -> Requests \cup Saved]
    /\ pc \in [All -> Steps]
    /\ looks \in [All -> 0..Polls]
    /\ serving \in BOOLEAN /\ running \in BOOLEAN /\ paused \in BOOLEAN
    /\ loaded \subseteq Entry \cup {Header}
    /\ link \in loaded \cup {None}
    /\ link # Header
    /\ air \subseteq Ssids
    /\ harmed \in BOOLEAN /\ behind \in BOOLEAN
    /\ moves \in 0..MaxMoves /\ faults \in 0..MaxFaults
    /\ restarts \in 0..MaxRestarts

\* A box that has just booted: the system started wpa_supplicant with a file
\* that knows some network or none, and main begins its connect.
Init ==
    /\ \E n \in Entry : file \in {{Header}, {Header, n}}
    /\ seen = [h \in All |-> {}]
    /\ req \in [All -> Requests \cup Saved]
    /\ req[Boot] \in Saved /\ \A h \in Handlers : req[h] \in Requests
    /\ pc = [h \in All |-> IF h = Boot THEN "read" ELSE "idle"]
    /\ looks = [h \in All |-> 0]
    /\ serving = FALSE
    /\ running = TRUE /\ loaded = file /\ paused = FALSE /\ link = None
    /\ air \in Airs
    /\ harmed = FALSE /\ behind = FALSE
    /\ moves = 0 /\ faults = 0 /\ restarts = 0

-----------------------------------------------------------------------------
(* Requests *)

Goto(h, step) == pc' = [pc EXCEPT ![h] = step]

Arrive(h) ==
    /\ pc[h] = "idle" /\ serving
    /\ Goto(h, CASE req[h].op = "disconnect" -> "disconnect"
                 [] req[h].op = "connect" /\ req[h].pw = "short" -> "error"
                 [] OTHER -> "read")
    /\ UNCHANGED <<fileVars, req, looks, serving, wpaVars, air, behind, bounds>>

\* The file is read; one that cannot be read counts as empty.
Read(h) ==
    /\ pc[h] = "read"
    /\ Goto(h, "truncate")
    /\ \/ seen' = [seen EXCEPT ![h] = file] /\ UNCHANGED faults
          /\ harmed' = (harmed \/ \E g \in All : pc[g] \in Editing)
       \/ /\ faults < MaxFaults /\ faults' = faults + 1
          /\ seen' = [seen EXCEPT ![h] = {}]
          /\ harmed' = TRUE
    /\ UNCHANGED <<file, req, looks, serving, wpaVars, air, behind, moves, restarts>>

\* Faulty variant: the old entry stays in front of the new one.
EditedAppends(r, entries) ==
    IF r.op = "connect" THEN entries \cup {[ssid |-> r.ssid, pw |-> r.pw]}
    ELSE {n \in entries : n = Header \/ n.ssid # r.ssid}

\* The entries of the network are cut out; connect appends its own.
Edited(r, entries) ==
    LET others == {n \in entries : n = Header \/ n.ssid # r.ssid}
    IN  IF r.op = "connect" THEN others \cup {[ssid |-> r.ssid, pw |-> r.pw]} ELSE others

Truncate(h) ==
    /\ pc[h] = "truncate"
    /\ file' = {}
    /\ Goto(h, "write")
    /\ UNCHANGED <<seen, harmed, req, looks, serving, wpaVars, air, behind, bounds>>

\* Bytes another request wrote since the truncation are overwritten from the
\* start; the tail of a longer document stays.
Write(h) ==
    /\ pc[h] = "write"
    /\ \E tail \in SUBSET file : file' = Edited(req[h], seen[h]) \cup tail
    /\ seen' = [seen EXCEPT ![h] = {}]
    /\ Goto(h, "reconfigure")
    /\ UNCHANGED <<harmed, req, looks, serving, wpaVars, air, behind, bounds>>

\* safe_write fails: at the open nothing has changed, later the file is cut.
WriteFails(h) ==
    /\ pc[h] \in Editing
    /\ faults < MaxFaults /\ faults' = faults + 1
    /\ Goto(h, "error")
    /\ IF pc[h] = "write" THEN harmed' = TRUE /\ behind' = TRUE ELSE UNCHANGED <<harmed, behind>>
    /\ seen' = [seen EXCEPT ![h] = {}]
    /\ UNCHANGED <<file, req, looks, serving, wpaVars, air, moves, restarts>>

\* A wpa_cli command that the supplicant does not get.
WpaCliFails == running /\ faults < MaxFaults /\ faults' = faults + 1

\* Faulty variant: forgetting a network is not passed on.
ReconfigureConnect(h) ==
    /\ pc[h] = "reconfigure"
    /\ Goto(h, IF req[h].op = "connect" THEN "poll" ELSE "ok")
    /\ IF running /\ req[h].op = "connect"
       THEN /\ loaded' = file /\ paused' = FALSE
            /\ link' \in {None} \cup ({link} \cap file)
            /\ behind' = FALSE
       ELSE UNCHANGED <<loaded, paused, link, behind>>
    /\ UNCHANGED <<fileVars, req, looks, serving, running, air, bounds>>

\* wpa_cli reconfigure: the supplicant reads the file as it is now, and keeps
\* or drops its association.  One that does not run hears nothing.
Reconfigure(h) ==
    /\ pc[h] = "reconfigure"
    /\ Goto(h, IF req[h].op = "connect" THEN "poll" ELSE "ok")
    /\ \/ /\ running /\ UNCHANGED faults
          /\ loaded' = file /\ paused' = FALSE
          /\ link' \in {None} \cup ({link} \cap file)
          /\ behind' = FALSE
       \/ WpaCliFails /\ behind' = TRUE /\ UNCHANGED <<loaded, paused, link>>
       \/ ~running /\ UNCHANGED <<faults, behind, loaded, paused, link>>
    /\ UNCHANGED <<fileVars, req, looks, serving, running, air, moves, restarts>>

\* Faulty variant: one look more than the timeout allows.
PollOnceMore(h) ==
    /\ pc[h] = "poll"
    /\ IF link # None
       THEN Goto(h, "ok") /\ UNCHANGED looks
       ELSE /\ looks' = [looks EXCEPT ![h] = @ + 1]
            /\ Goto(h, IF looks[h] = Polls THEN "terminate" ELSE "poll")
    /\ UNCHANGED <<fileVars, req, serving, wpaVars, air, behind, bounds>>

\* One look at `iw link': any association is a success, whosever it is.
Poll(h) ==
    /\ pc[h] = "poll"
    /\ IF link # None
       THEN Goto(h, "ok") /\ UNCHANGED looks
       ELSE /\ looks' = [looks EXCEPT ![h] = @ + 1]
            /\ Goto(h, IF looks[h] + 1 = Polls THEN "terminate" ELSE "poll")
    /\ UNCHANGED <<fileVars, req, serving, wpaVars, air, behind, bounds>>

\* The timeout, whatever has happened since the last look.
Terminate(h) ==
    /\ pc[h] = "terminate"
    /\ \/ running' = FALSE /\ link' = None /\ UNCHANGED faults
       \/ WpaCliFails /\ UNCHANGED <<running, link>>
    /\ Goto(h, "error")
    /\ UNCHANGED <<fileVars, req, looks, serving, loaded, paused, air, behind,
                   moves, restarts>>

\* disconnect without a name: wpa_cli disconnect.
Disconnect(h) ==
    /\ pc[h] = "disconnect"
    /\ \/ running /\ paused' = TRUE /\ link' = None /\ UNCHANGED faults
       \/ WpaCliFails /\ UNCHANGED <<paused, link>>
       \/ ~running /\ UNCHANGED <<faults, paused, link>>
    /\ Goto(h, "ok")
    /\ UNCHANGED <<fileVars, req, looks, serving, running, loaded, air, behind,
                   moves, restarts>>

\* main's wait is over: its connect has ended or eight seconds have passed.
Serve ==
    /\ ~serving /\ pc[Boot] \notin {"read", "reconfigure"} \cup Editing
    /\ serving' = TRUE
    /\ UNCHANGED <<fileVars, req, pc, looks, wpaVars, air, behind, bounds>>

-----------------------------------------------------------------------------
(* wpa_supplicant, the air, and restarts *)

Associate ==
    /\ running /\ ~paused /\ link = None
    /\ \E n \in loaded \ {Header} : n.ssid \in air /\ n.pw = "good" /\ link' = n
    /\ UNCHANGED <<fileVars, req, pc, looks, serving, running, loaded, paused, air,
                   behind, bounds>>

Move ==
    /\ moves < MaxMoves /\ moves' = moves + 1
    /\ \E reach \in Airs \ {air} :
         air' = reach /\ link' = IF link # None /\ link.ssid \in reach THEN link ELSE None
    /\ UNCHANGED <<fileVars, req, pc, looks, serving, running, loaded, paused, behind,
                   faults, restarts>>

\* The daemon dies and is started again, the supplicant left as it is, or the
\* box reboots and starts it with the file it finds.
Restart ==
    /\ restarts < MaxRestarts /\ restarts' = restarts + 1
    /\ pc' = [h \in All |-> IF h = Boot THEN "read"
                            ELSE IF pc[h] \in {"idle"} \cup Ended THEN pc[h] ELSE "lost"]
    /\ \E r \in Saved : req' = [req EXCEPT ![Boot] = r]
    /\ looks' = [looks EXCEPT ![Boot] = 0]
    /\ serving' = FALSE
    /\ harmed' = (harmed \/ \E h \in All : pc[h] = "write")
    /\ \/ /\ behind' = (behind \/ \E h \in All : pc[h] \in {"write", "reconfigure"})
          /\ UNCHANGED wpaVars
       \/ /\ running' = TRUE /\ loaded' = file /\ paused' = FALSE /\ link' = None
          /\ behind' = FALSE
    /\ seen' = [h \in All |-> {}]
    /\ UNCHANGED <<file, air, moves, faults>>

Step(h) ==
    \/ Read(h) \/ Truncate(h) \/ Write(h) \/ Reconfigure(h)
    \/ Poll(h) \/ Terminate(h) \/ Disconnect(h)

Next ==
    \/ \E h \in Handlers : Arrive(h)
    \/ \E h \in All : Step(h) \/ WriteFails(h)
    \/ Serve \/ Associate \/ Move \/ Restart

Spec == Init /\ [][Next]_vars

-----------------------------------------------------------------------------
(* Properties *)

\* While a request writes, the list is the one it read.
Listed ==
    IF \E h \in All : pc[h] = "write" THEN seen[CHOOSE h \in All : pc[h] = "write"] ELSE file

Networks == INSTANCE NetworkList WITH nets <- Listed

\* Requests that overlap in their long wait, with the connect of the boot or
\* with one another, edit the list of known networks one entry at a time and
\* leave the others and the rest of the file alone; what it takes to lose one
\* is two edits at once, a file that cannot be read or written, or a kill
\* between truncation and write (connect.rs 54-67, 133-140).
EditsOneNetwork == Networks!Spec

\* The supplicant works from the file as it is: when no request is between its
\* write and its reconfigure, what it has loaded is what is stored, so a
\* network that was forgotten is not joined again, however the requests
\* overlap.  It takes more than an overlap to come apart: a write that was cut
\* short, a daemon that died before its reconfigure, or a reconfigure that
\* failed, which the page calls a success all the same (connect.rs 69-71,
\* 142-144); the next reconfigure or a reboot repairs it.
SupplicantInStep ==
    /\ running /\ ~behind
    /\ \A h \in All : pc[h] \notin {"write", "reconfigure"}
    => loaded = file
=============================================================================
