-------------------------- MODULE WifiConnectProofs -------------------------
(***************************************************************************)
(* Proofs about src/wifi/connect.rs: the types, the supplicant that works  *)
(* from the file as it is, and the refinement of NetworkList, for every    *)
(* number of requests and networks.                                        *)
(***************************************************************************)
EXTENDS WifiConnect, TLAPS

\* Steps at which a request has not looked at the link yet.
Unlooked == {"idle", "read", "reconfigure"} \cup Editing

\* Only connects and forgets reach the file, with a password that was
\* accepted, and a request that still looks has looks left.
PcInv ==
    /\ req[Boot] \in Saved
    /\ \A h \in All :
        /\ pc[h] \in {"read"} \cup Editing =>
             /\ req[h].op \in {"connect", "forget"} /\ req[h].ssid \in Ssids
             /\ req[h].op = "connect" => req[h].pw \in Passwords
        /\ pc[h] \in Unlooked => looks[h] = 0
        /\ pc[h] = "poll" => looks[h] < Polls

\* Until harm is done one request edits at a time: it has read the file as it
\* is, and finds it empty when it writes.
EditInv ==
    ~harmed =>
      /\ \A g, h \in All : pc[g] \in Editing /\ pc[h] \in Editing => g = h
      /\ \A h \in All : pc[h] = "truncate" => seen[h] = file
      /\ \A h \in All : pc[h] = "write" => file = {}

WifiInv == TypeOK /\ PcInv /\ SupplicantInStep /\ EditInv

-----------------------------------------------------------------------------
(* The initial states *)

\* What a request record is made of.
LEMMA RequestShape ==
  /\ \A r \in Requests \cup Saved :
       /\ r.op \in {"connect", "forget", "disconnect"}
       /\ r.op # "disconnect" => r.ssid \in Ssids
       /\ r.op = "connect" => r.pw \in Passwords \cup {"short"}
  /\ \A r \in Saved : r.op = "connect" /\ r.pw \in Passwords
<1>1. ASSUME NEW r \in Saved
      PROVE  r.op = "connect" /\ r.pw \in Passwords /\ r.ssid \in Ssids
  BY WifiAssumption
<1>2. ASSUME NEW r \in Requests
      PROVE  /\ r.op \in {"connect", "forget", "disconnect"}
             /\ r.op # "disconnect" => r.ssid \in Ssids
             /\ r.op = "connect" => r.pw \in Passwords \cup {"short"}
  BY WifiAssumption DEF Request
<1> QED BY <1>1, <1>2

\* An edit of a list of entries is one.
LEMMA EditedTyped ==
  ASSUME NEW r \in Requests \cup Saved, NEW entries \in SUBSET (Entry \cup {Header}),
         r.op \in {"connect", "forget"}, r.op = "connect" => r.pw \in Passwords
  PROVE  Edited(r, entries) \in SUBSET (Entry \cup {Header})
<1>1. r.ssid \in Ssids
  BY RequestShape
<1>2. r.op = "connect" => [ssid |-> r.ssid, pw |-> r.pw] \in Entry
  BY <1>1 DEF Entry
<1> QED BY <1>2 DEF Edited

LEMMA BootIsOne == Boot \in All /\ Boot \notin Handlers /\ Handlers \subseteq All
  BY WifiAssumption DEF All

\* A box that has just booted is in the invariant.
LEMMA InitInv == Init => WifiInv
<1> SUFFICES ASSUME Init PROVE WifiInv
  OBVIOUS
<1>1. file \subseteq Entry \cup {Header}
  BY DEF Init
<1>2. \A h \in All : pc[h] \in {"idle", "read"} /\ looks[h] = 0
  BY DEF Init
<1>3. TypeOK
  <2>1. pc \in [All -> Steps]
    BY DEF Init, Steps, Editing, Ended
  <2>2. looks \in [All -> 0..Polls] /\ seen \in [All -> SUBSET (Entry \cup {Header})]
    BY WifiAssumption DEF Init
  <2>3. air \subseteq Ssids
    BY WifiAssumption DEF Init
  <2>4. link \in loaded \cup {None} /\ link # Header
    BY WifiAssumption DEF Init
  <2>5. moves \in 0..MaxMoves /\ faults \in 0..MaxFaults /\ restarts \in 0..MaxRestarts
    BY WifiAssumption DEF Init
  <2>6. /\ loaded \subseteq Entry \cup {Header}
        /\ serving \in BOOLEAN /\ running \in BOOLEAN /\ paused \in BOOLEAN
        /\ harmed \in BOOLEAN /\ behind \in BOOLEAN
    BY <1>1 DEF Init
  <2>7. req \in [All -> Requests \cup Saved]
    BY DEF Init
  <2> QED BY <1>1, <2>1, <2>2, <2>3, <2>4, <2>5, <2>6, <2>7 DEF TypeOK
<1>4. PcInv
  <2>1. \A h \in All : pc[h] = "read" => h = Boot
    BY DEF Init
  <2>2. \A h \in All : pc[h] \notin Editing
    BY <1>2 DEF Editing
  <2>3. req[Boot] \in Saved
    BY DEF Init
  <2>4. req[Boot].op = "connect" /\ req[Boot].ssid \in Ssids /\ req[Boot].pw \in Passwords
    BY <2>3, RequestShape
  <2> QED BY <1>2, <2>1, <2>2, <2>3, <2>4 DEF PcInv
<1>5. SupplicantInStep
  BY DEF Init, SupplicantInStep
<1>6. EditInv
  BY <1>2 DEF EditInv, Editing
<1> QED BY <1>3, <1>4, <1>5, <1>6 DEF WifiInv

-----------------------------------------------------------------------------
(* The steps *)

\* A command that does not get through counts against the bound.
LEMMA WpaCliTyped == ASSUME TypeOK, WpaCliFails PROVE faults' \in 0..MaxFaults
  BY WifiAssumption DEF WpaCliFails, TypeOK

\* Every step keeps the types.
LEMMA NextTyped ==
  ASSUME TypeOK, PcInv, [Next]_vars
  PROVE  TypeOK'
<1> USE DEF fileVars, wpaVars, bounds
<1>1. ASSUME NEW h \in Handlers, Arrive(h) PROVE TypeOK'
  <2>1. pc' \in [All -> Steps]
    BY <1>1, BootIsOne DEF Arrive, Goto, TypeOK, Steps, Editing, Ended
  <2> QED BY <1>1, <2>1 DEF Arrive, TypeOK
<1>2. ASSUME NEW h \in All, Read(h) PROVE TypeOK'
  <2>1. pc' \in [All -> Steps]
    BY <1>2 DEF Read, Goto, TypeOK, Steps, Editing
  <2>2. seen' \in [All -> SUBSET (Entry \cup {Header})]
    BY <1>2 DEF Read, TypeOK
  <2>3. faults' \in 0..MaxFaults
    BY <1>2, WifiAssumption DEF Read, TypeOK
  <2>4. harmed' \in BOOLEAN
    BY <1>2 DEF Read, TypeOK
  <2> QED BY <1>2, <2>1, <2>2, <2>3, <2>4 DEF Read, TypeOK
<1>3. ASSUME NEW h \in All, Truncate(h) PROVE TypeOK'
  <2>1. pc' \in [All -> Steps]
    BY <1>3 DEF Truncate, Goto, TypeOK, Steps, Editing
  <2> QED BY <1>3, <2>1 DEF Truncate, TypeOK
<1>4. ASSUME NEW h \in All, Write(h) PROVE TypeOK'
  <2>1. pc' \in [All -> Steps]
    BY <1>4 DEF Write, Goto, TypeOK, Steps, Editing
  <2>2. Edited(req[h], seen[h]) \in SUBSET (Entry \cup {Header})
    BY <1>4, EditedTyped DEF Write, TypeOK, PcInv, Editing
  <2>3. file' \subseteq Entry \cup {Header}
    BY <1>4, <2>2 DEF Write, TypeOK
  <2>4. seen' \in [All -> SUBSET (Entry \cup {Header})]
    BY <1>4 DEF Write, TypeOK
  <2> QED BY <1>4, <2>1, <2>3, <2>4 DEF Write, TypeOK
<1>5. ASSUME NEW h \in All, WriteFails(h) PROVE TypeOK'
  <2>1. pc' \in [All -> Steps]
    BY <1>5 DEF WriteFails, Goto, TypeOK, Steps, Ended
  <2>2. seen' \in [All -> SUBSET (Entry \cup {Header})]
    BY <1>5 DEF WriteFails, TypeOK
  <2>3. faults' \in 0..MaxFaults
    BY <1>5, WifiAssumption DEF WriteFails, TypeOK
  <2>4. harmed' \in BOOLEAN /\ behind' \in BOOLEAN
    BY <1>5 DEF WriteFails, TypeOK
  <2> QED BY <1>5, <2>1, <2>2, <2>3, <2>4 DEF WriteFails, TypeOK
<1>6. ASSUME NEW h \in All, Reconfigure(h) PROVE TypeOK'
  <2>1. pc' \in [All -> Steps]
    BY <1>6 DEF Reconfigure, Goto, TypeOK, Steps, Ended
  <2>2. loaded' \subseteq Entry \cup {Header} /\ paused' \in BOOLEAN /\ behind' \in BOOLEAN
    BY <1>6 DEF Reconfigure, TypeOK
  <2>3. link' \in loaded' \cup {None} /\ link' # Header
    BY <1>6, WifiAssumption DEF Reconfigure, TypeOK
  <2>4. faults' \in 0..MaxFaults
    BY <1>6, WpaCliTyped DEF Reconfigure, TypeOK
  <2> QED BY <1>6, <2>1, <2>2, <2>3, <2>4 DEF Reconfigure, TypeOK
<1>7. ASSUME NEW h \in All, Poll(h) PROVE TypeOK'
  <2>1. pc' \in [All -> Steps]
    BY <1>7 DEF Poll, Goto, TypeOK, Steps, Ended
  <2>2. looks' \in [All -> 0..Polls]
    BY <1>7, WifiAssumption DEF Poll, TypeOK, PcInv
  <2> QED BY <1>7, <2>1, <2>2 DEF Poll, TypeOK
<1>8. ASSUME NEW h \in All, Terminate(h) \/ Disconnect(h) PROVE TypeOK'
  <2>1. pc' \in [All -> Steps]
    BY <1>8 DEF Terminate, Disconnect, Goto, TypeOK, Steps, Ended
  <2>2. link' \in loaded' \cup {None} /\ link' # Header
    BY <1>8, WifiAssumption DEF Terminate, Disconnect, TypeOK
  <2>3. faults' \in 0..MaxFaults
    BY <1>8, WpaCliTyped DEF Terminate, Disconnect, TypeOK
  <2>4. running' \in BOOLEAN /\ paused' \in BOOLEAN
    BY <1>8 DEF Terminate, Disconnect, TypeOK
  <2> QED BY <1>8, <2>1, <2>2, <2>3, <2>4 DEF Terminate, Disconnect, TypeOK
<1>9. ASSUME Serve \/ Associate \/ Move PROVE TypeOK'
  <2>1. link' \in loaded' \cup {None} /\ link' # Header
    BY <1>9, WifiAssumption DEF Serve, Associate, Move, TypeOK
  <2>2. moves' \in 0..MaxMoves
    BY <1>9, WifiAssumption DEF Serve, Associate, Move, TypeOK
  <2>3. air' \subseteq Ssids
    BY <1>9, WifiAssumption DEF Serve, Associate, Move, TypeOK
  <2> QED BY <1>9, <2>1, <2>2, <2>3 DEF Serve, Associate, Move, TypeOK
<1>10. ASSUME Restart PROVE TypeOK'
  <2>1. pc' \in [All -> Steps]
    BY <1>10 DEF Restart, TypeOK, Steps, Ended
  <2>2. req' \in [All -> Requests \cup Saved]
    BY <1>10 DEF Restart, TypeOK
  <2>3. looks' \in [All -> 0..Polls]
    <3>1. 0 \in 0..Polls
      BY WifiAssumption
    <3> QED BY <1>10, <3>1 DEF Restart, TypeOK
  <2>4. seen' \in [All -> SUBSET (Entry \cup {Header})]
    BY <1>10 DEF Restart
  <2>5. restarts' \in 0..MaxRestarts
    BY <1>10, WifiAssumption DEF Restart, TypeOK
  <2>6. /\ loaded' \subseteq Entry \cup {Header}
        /\ link' \in loaded' \cup {None} /\ link' # Header
        /\ running' \in BOOLEAN /\ paused' \in BOOLEAN
    BY <1>10, WifiAssumption DEF Restart, TypeOK
  <2>7. harmed' \in BOOLEAN /\ behind' \in BOOLEAN /\ serving' \in BOOLEAN
    BY <1>10 DEF Restart, TypeOK
  <2> QED BY <1>10, <2>1, <2>2, <2>3, <2>4, <2>5, <2>6, <2>7 DEF Restart, TypeOK
<1>11. CASE UNCHANGED vars
  BY <1>11 DEF vars, TypeOK
<1> QED
  BY <1>1, <1>2, <1>3, <1>4, <1>5, <1>6, <1>7, <1>8, <1>9, <1>10, <1>11 DEF Next, Step

\* Every step keeps what is known of a request by where it stands.
LEMMA NextPc ==
  ASSUME TypeOK, PcInv, [Next]_vars
  PROVE  PcInv'
<1> USE DEF fileVars, wpaVars, bounds, Goto, Editing, Unlooked
<1>1. ASSUME NEW h \in Handlers, Arrive(h) PROVE PcInv'
  <2>1. req[h] \in Requests \cup Saved /\ h # Boot /\ h \in All
    BY BootIsOne DEF TypeOK
  <2>2. pc'[h] \in {"read"} => /\ req[h].op \in {"connect", "forget"} /\ req[h].ssid \in Ssids
                               /\ req[h].op = "connect" => req[h].pw \in Passwords
    BY <1>1, <2>1, RequestShape DEF Arrive, TypeOK
  <2>3. pc'[h] \in {"read", "disconnect", "error"}
    BY <1>1, <2>1 DEF Arrive, TypeOK
  <2>4. \A g \in All : g # h => pc'[g] = pc[g]
    BY <1>1 DEF Arrive, TypeOK
  <2> QED BY <1>1, <2>1, <2>2, <2>3, <2>4 DEF Arrive, PcInv
<1>2. ASSUME NEW h \in All, Read(h) \/ Truncate(h) \/ Write(h) \/ WriteFails(h) PROVE PcInv'
  BY <1>2 DEF Read, Truncate, Write, WriteFails, PcInv, TypeOK
<1>3. ASSUME NEW h \in All, Reconfigure(h) PROVE PcInv'
  BY <1>3, WifiAssumption DEF Reconfigure, PcInv, TypeOK
<1>4. ASSUME NEW h \in All, Poll(h) PROVE PcInv'
  BY <1>4, WifiAssumption DEF Poll, PcInv, TypeOK
<1>5. ASSUME NEW h \in All, Terminate(h) \/ Disconnect(h) PROVE PcInv'
  BY <1>5 DEF Terminate, Disconnect, PcInv, TypeOK
<1>6. ASSUME Serve \/ Associate \/ Move PROVE PcInv'
  BY <1>6 DEF Serve, Associate, Move, PcInv
<1>7. ASSUME Restart PROVE PcInv'
  <2>1. req'[Boot] \in Saved
    BY <1>7, BootIsOne DEF Restart, TypeOK
  <2>2. /\ req'[Boot].op = "connect" /\ req'[Boot].ssid \in Ssids
        /\ req'[Boot].pw \in Passwords
    BY <2>1, RequestShape
  <2>3. pc'[Boot] = "read" /\ looks'[Boot] = 0
    BY <1>7, BootIsOne DEF Restart, TypeOK
  <2>4. \A h \in All : h # Boot =>
          /\ pc'[h] \in {"idle", "lost"} \cup Ended /\ looks'[h] = looks[h]
          /\ pc'[h] = "idle" => pc[h] = "idle"
    BY <1>7 DEF Restart, TypeOK, Ended
  <2> QED BY <2>1, <2>2, <2>3, <2>4 DEF PcInv, Ended
<1>8. CASE UNCHANGED vars
  BY <1>8 DEF vars, PcInv
<1> QED BY <1>1, <1>2, <1>3, <1>4, <1>5, <1>6, <1>7, <1>8 DEF Next, Step

\* Every step keeps the supplicant in step with the file: who changes the
\* file stands at its reconfigure afterwards, or has left the daemon behind.
LEMMA NextInStep ==
  ASSUME TypeOK, SupplicantInStep, [Next]_vars
  PROVE  SupplicantInStep'
<1> USE DEF fileVars, wpaVars, bounds, Goto
<1>1. ASSUME NEW h \in Handlers, Arrive(h) PROVE SupplicantInStep'
  BY <1>1, BootIsOne DEF Arrive, SupplicantInStep, TypeOK
<1>2. ASSUME NEW h \in All, Read(h) \/ Poll(h) \/ Disconnect(h) PROVE SupplicantInStep'
  BY <1>2 DEF Read, Poll, Disconnect, SupplicantInStep, TypeOK
<1>3. ASSUME NEW h \in All, Truncate(h) \/ Write(h) PROVE SupplicantInStep'
  <2>1. pc'[h] \in {"write", "reconfigure"}
    BY <1>3 DEF Truncate, Write, TypeOK
  <2> QED BY <2>1 DEF SupplicantInStep
<1>4. ASSUME NEW h \in All, WriteFails(h) PROVE SupplicantInStep'
  BY <1>4 DEF WriteFails, Editing, SupplicantInStep, TypeOK
<1>5. ASSUME NEW h \in All, Reconfigure(h) PROVE SupplicantInStep'
  BY <1>5 DEF Reconfigure, SupplicantInStep
<1>6. ASSUME NEW h \in All, Terminate(h) PROVE SupplicantInStep'
  BY <1>6 DEF Terminate, SupplicantInStep, TypeOK
<1>7. ASSUME Serve \/ Associate \/ Move PROVE SupplicantInStep'
  BY <1>7 DEF Serve, Associate, Move, SupplicantInStep
<1>8. ASSUME Restart PROVE SupplicantInStep'
  BY <1>8 DEF Restart, SupplicantInStep
<1>9. CASE UNCHANGED vars
  BY <1>9 DEF vars, SupplicantInStep
<1> QED BY <1>1, <1>2, <1>3, <1>4, <1>5, <1>6, <1>7, <1>8, <1>9 DEF Next, Step

\* Harm is not undone.
LEMMA HarmStays == ASSUME [Next]_vars, harmed PROVE harmed'
<1> USE DEF fileVars, wpaVars, bounds
<1>1. ASSUME NEW h \in Handlers, Arrive(h) PROVE harmed'
  BY <1>1 DEF Arrive
<1>2. ASSUME NEW h \in All, Step(h) \/ WriteFails(h) PROVE harmed'
  BY <1>2 DEF Step, Read, Truncate, Write, WriteFails, Reconfigure, Poll, Terminate, Disconnect
<1>3. ASSUME Serve \/ Associate \/ Move \/ Restart PROVE harmed'
  BY <1>3 DEF Serve, Associate, Move, Restart
<1>4. CASE UNCHANGED vars
  BY <1>4 DEF vars
<1> QED BY <1>1, <1>2, <1>3, <1>4 DEF Next

\* Every step that does no harm leaves one editor.
LEMMA NextEdit ==
  ASSUME TypeOK, EditInv, [Next]_vars
  PROVE  EditInv'
<1> SUFFICES ASSUME ~harmed' PROVE EditInv'
  BY DEF EditInv
<1> USE DEF fileVars, wpaVars, bounds, Goto, Editing
<1>0. /\ ~harmed
      /\ \A g, h \in All : pc[g] \in Editing /\ pc[h] \in Editing => g = h
      /\ \A h \in All : pc[h] = "truncate" => seen[h] = file
      /\ \A h \in All : pc[h] = "write" => file = {}
  BY HarmStays DEF EditInv
<1>1. ASSUME NEW h \in Handlers, Arrive(h) PROVE EditInv'
  <2>1. \A g \in All : pc'[g] \in Editing => pc'[g] = pc[g]
    BY <1>1, BootIsOne DEF Arrive, TypeOK
  <2> QED BY <1>0, <1>1, <2>1 DEF Arrive, EditInv
<1>2. ASSUME NEW h \in All, Read(h) PROVE EditInv'
  <2>1. \A g \in All : pc[g] \notin Editing
    BY <1>2 DEF Read
  <2>2. \A g \in All : pc'[g] \in Editing => g = h
    BY <1>2, <2>1 DEF Read, TypeOK
  <2>3. pc'[h] = "truncate" /\ seen'[h] = file /\ file' = file
    BY <1>2 DEF Read, TypeOK
  <2> QED BY <2>2, <2>3 DEF EditInv
<1>3. ASSUME NEW h \in All, Truncate(h) PROVE EditInv'
  <2>1. \A g \in All : pc'[g] \in Editing => g = h
    BY <1>0, <1>3 DEF Truncate, TypeOK
  <2>2. pc'[h] = "write" /\ file' = {}
    BY <1>3 DEF Truncate, TypeOK
  <2> QED BY <2>1, <2>2 DEF EditInv
<1>4. ASSUME NEW h \in All, Write(h) \/ WriteFails(h) PROVE EditInv'
  <2>1. \A g \in All : pc'[g] \notin Editing
    BY <1>0, <1>4 DEF Write, WriteFails, TypeOK
  <2> QED BY <2>1 DEF EditInv
<1>5. ASSUME NEW h \in All, Reconfigure(h) \/ Poll(h) \/ Terminate(h) \/ Disconnect(h)
      PROVE  EditInv'
  <2>1. \A g \in All : pc'[g] \in Editing => pc'[g] = pc[g]
    BY <1>5 DEF Reconfigure, Poll, Terminate, Disconnect, TypeOK
  <2>2. UNCHANGED <<file, seen>>
    BY <1>5 DEF Reconfigure, Poll, Terminate, Disconnect
  <2> QED BY <1>0, <2>1, <2>2 DEF EditInv
<1>6. ASSUME Serve \/ Associate \/ Move PROVE EditInv'
  BY <1>0, <1>6 DEF Serve, Associate, Move, EditInv
<1>7. ASSUME Restart PROVE EditInv'
  <2>1. \A g \in All : pc'[g] \notin Editing
    BY <1>7 DEF Restart, Ended
  <2> QED BY <2>1 DEF EditInv
<1>8. CASE UNCHANGED vars
  BY <1>0, <1>8 DEF vars, EditInv
<1> QED BY <1>1, <1>2, <1>3, <1>4, <1>5, <1>6, <1>7, <1>8 DEF Next, Step

LEMMA NextInv == WifiInv /\ [Next]_vars => WifiInv'
  BY NextTyped, NextPc, NextInStep, NextEdit DEF WifiInv

\* Every reachable state of every number of requests is in the invariant.
LEMMA Invariance == Spec => []WifiInv
  BY InitInv, NextInv, PTL DEF Spec

\* The types of connect.rs's state, the looks bounded by the timeout and the
\* association always one the supplicant has loaded.
THEOREM WifiTyped == Spec => []TypeOK
  BY Invariance, PTL DEF WifiInv

\* When no request stands between its write and its reconfigure, a running
\* supplicant works from the file as it is and does not join a forgotten
\* network again, however requests overlap, until a write is cut short, the
\* daemon dies before a reconfigure, or a reconfigure fails unnoticed
\* (connect.rs 69-71, 142-144).
THEOREM SupplicantFollowsFile == Spec => []SupplicantInStep
  BY Invariance, PTL DEF WifiInv

-----------------------------------------------------------------------------
(* The refinement *)

Writers == {h \in All : pc[h] = "write"}

\* With one writer the list is what it read, with none it is the file.
LEMMA ListedIs ==
  /\ Writers = {} => Listed = file
  /\ \A h \in All : Writers = {h} => Listed = seen[h]
<1>1. Writers = {} => Listed = file
  BY DEF Writers, Listed
<1>2. ASSUME NEW h \in All, Writers = {h} PROVE Listed = seen[h]
  <2>1. \A g \in All : pc[g] = "write" <=> g = h
    BY <1>2 DEF Writers
  <2>2. (CHOOSE g \in All : pc[g] = "write") = h
    BY <2>1
  <2> QED BY <2>1, <2>2 DEF Listed
<1> QED BY <1>1, <1>2

\* The same of the next state.
LEMMA ListedIsNext ==
  /\ Writers' = {} => Listed' = file'
  /\ \A h \in All : Writers' = {h} => Listed' = seen'[h]
<1>1. Writers' = {} => Listed' = file'
  BY DEF Writers, Listed
<1>2. ASSUME NEW h \in All, Writers' = {h} PROVE Listed' = seen'[h]
  <2>1. \A g \in All : pc'[g] = "write" <=> g = h
    BY <1>2 DEF Writers
  <2>2. (CHOOSE g \in All : pc'[g] = "write") = h
    BY <2>1
  <2> QED BY <2>1, <2>2 DEF Listed
<1> QED BY <1>1, <1>2

\* A step that leaves the file, what was read of it and the writers alone
\* leaves the list alone.
LEMMA ListedKept ==
  ASSUME EditInv, ~harmed, UNCHANGED <<file, seen>>, Writers' = Writers
  PROVE  Listed' = Listed
<1>1. CASE Writers = {}
  BY <1>1, ListedIs, ListedIsNext
<1>2. CASE Writers # {}
  <2>1. PICK h \in All : Writers = {h}
    BY <1>2 DEF EditInv, Editing, Writers
  <2> QED BY <2>1, ListedIs, ListedIsNext
<1> QED BY <1>1, <1>2

\* The file of a box that has booted is a list of networks.
LEMMA InitRefines == Init => Networks!Init
<1> SUFFICES ASSUME Init PROVE Networks!Init
  OBVIOUS
<1>1. Writers = {}
  BY DEF Init, Writers
<1>2. Listed = file
  BY <1>1, ListedIs
<1>3. file \subseteq Entry \cup {Header}
  BY DEF Init
<1> QED BY <1>2, <1>3 DEF Init, Networks!Init, Networks!Entry, Entry

\* Every step learns one network, forgets one, leaves the list alone, or is
\* harm.
LEMMA NextRefines ==
  ASSUME TypeOK, PcInv, EditInv, EditInv', [Next]_vars
  PROVE  [Networks!Next]_<<Listed, harmed>>
<1>0. CASE harmed'
  BY <1>0 DEF Networks!Next, Networks!Harm
<1> SUFFICES ASSUME ~harmed' PROVE [Networks!Next]_<<Listed, harmed>>
  BY <1>0
<1>1. /\ ~harmed
      /\ \A g, h \in All : pc[g] \in Editing /\ pc[h] \in Editing => g = h
  BY HarmStays DEF EditInv
<1>2. harmed = FALSE /\ harmed' = FALSE
  BY <1>1, NextTyped DEF TypeOK
<1> USE DEF fileVars, wpaVars, bounds, Goto, Editing
<1>3. ASSUME UNCHANGED <<file, seen>>,
             \A h \in All : pc'[h] = "write" <=> pc[h] = "write"
      PROVE  UNCHANGED <<Listed, harmed>>
  <2>1. Writers' = Writers
    BY <1>3 DEF Writers
  <2> QED BY <1>1, <1>2, <1>3, <2>1, ListedKept
<1>4. ASSUME NEW h \in Handlers, Arrive(h) PROVE UNCHANGED <<Listed, harmed>>
  <2>1. \A g \in All : pc'[g] = "write" <=> pc[g] = "write"
    BY <1>4, BootIsOne DEF Arrive, TypeOK
  <2> QED BY <1>3, <1>4, <2>1 DEF Arrive
<1>5. ASSUME NEW h \in All, Read(h) PROVE UNCHANGED <<Listed, harmed>>
  <2>1. \A g \in All : pc[g] \notin Editing
    BY <1>5 DEF Read
  <2>2. Writers = {} /\ Writers' = {}
    BY <1>5, <2>1 DEF Read, TypeOK, Writers
  <2>3. file' = file
    BY <1>5 DEF Read
  <2> QED BY <1>2, <2>2, <2>3, ListedIs, ListedIsNext
<1>6. ASSUME NEW h \in All, Truncate(h) PROVE UNCHANGED <<Listed, harmed>>
  <2>1. Writers = {} /\ Writers' = {h}
    BY <1>1, <1>6 DEF Truncate, TypeOK, Writers
  <2>2. seen[h] = file /\ seen' = seen
    BY <1>1, <1>6 DEF Truncate, EditInv
  <2> QED BY <1>2, <2>1, <2>2, ListedIs, ListedIsNext
<1>7. ASSUME NEW h \in All, Write(h) PROVE Networks!Next
  <2>1. Writers = {h} /\ Writers' = {}
    BY <1>1, <1>7 DEF Write, TypeOK, Writers
  <2>2. Listed = seen[h] /\ Listed' = file'
    BY <2>1, ListedIs, ListedIsNext
  <2>3. file = {}
    BY <1>1, <1>7 DEF Write, EditInv
  <2>4. Listed' = Edited(req[h], Listed)
    BY <1>7, <2>2, <2>3 DEF Write
  <2>5. /\ req[h].op \in {"connect", "forget"} /\ req[h].ssid \in Ssids
        /\ req[h].op = "connect" => req[h].pw \in Passwords
    BY <1>7 DEF Write, PcInv
  <2>6. CASE req[h].op = "connect"
    <3>1. Networks!Learn(req[h].ssid, req[h].pw)
      BY <1>2, <2>4, <2>6 DEF Edited, Networks!Learn, Networks!Others
    <3> QED BY <1>1, <2>5, <2>6, <3>1 DEF Networks!Next
  <2>7. CASE req[h].op # "connect"
    <3>1. Networks!Forget(req[h].ssid)
      BY <1>2, <2>4, <2>7 DEF Edited, Networks!Forget, Networks!Others
    <3> QED BY <1>1, <2>5, <3>1 DEF Networks!Next
  <2> QED BY <2>6, <2>7
<1>8. ASSUME NEW h \in All, WriteFails(h) PROVE UNCHANGED <<Listed, harmed>>
  <2>1. pc[h] = "truncate"
    BY <1>2, <1>8 DEF WriteFails
  <2>2. Writers = {} /\ Writers' = {}
    BY <1>1, <1>8, <2>1 DEF WriteFails, TypeOK, Writers
  <2>3. file' = file
    BY <1>8 DEF WriteFails
  <2> QED BY <1>2, <2>2, <2>3, ListedIs, ListedIsNext
<1>9. ASSUME NEW h \in All, Reconfigure(h) \/ Poll(h) \/ Terminate(h) \/ Disconnect(h)
      PROVE  UNCHANGED <<Listed, harmed>>
  <2>1. \A g \in All : pc'[g] = "write" <=> pc[g] = "write"
    BY <1>9 DEF Reconfigure, Poll, Terminate, Disconnect, TypeOK
  <2>2. UNCHANGED <<file, seen>>
    BY <1>9 DEF Reconfigure, Poll, Terminate, Disconnect
  <2> QED BY <1>3, <2>1, <2>2
<1>10. ASSUME Serve \/ Associate \/ Move PROVE UNCHANGED <<Listed, harmed>>
  BY <1>3, <1>10 DEF Serve, Associate, Move
<1>11. ASSUME Restart PROVE UNCHANGED <<Listed, harmed>>
  <2>1. \A h \in All : pc[h] # "write"
    BY <1>2, <1>11 DEF Restart
  <2>2. Writers = {} /\ Writers' = {}
    BY <1>11, <2>1 DEF Restart, Ended, Writers
  <2>3. file' = file
    BY <1>11 DEF Restart
  <2> QED BY <1>2, <2>2, <2>3, ListedIs, ListedIsNext
<1>12. CASE UNCHANGED vars
  BY <1>3, <1>12 DEF vars
<1> QED
  BY <1>4, <1>5, <1>6, <1>7, <1>8, <1>9, <1>10, <1>11, <1>12 DEF Next, Step

\* Requests that overlap in their long wait edit the list of known networks
\* one entry at a time and leave the others and the rest of the file alone,
\* until two edits overlap or one fails or is killed midway (connect.rs 54-67,
\* 133-140).
THEOREM NetworksKept == Spec => EditsOneNetwork
<1>1. WifiInv /\ WifiInv' /\ [Next]_vars => [Networks!Next]_<<Listed, harmed>>
  BY NextRefines DEF WifiInv
<1> QED BY <1>1, InitRefines, Invariance, PTL DEF Spec, EditsOneNetwork, Networks!Spec
=============================================================================
