--------------------------- MODULE WgPairingProofs ---------------------------
(***************************************************************************)
(* Theorems about WgPairing, for any number of pages, devices, addresses   *)
(* and keys (src/vpn/mod.rs, src/web/api.rs, templates/vpn.html).          *)
(***************************************************************************)
EXTENDS WgPairing, SequenceTheorems, TLAPS

-----------------------------------------------------------------------------
(* The inductive invariant *)

\* Every peer of a section has a key of its own, of those that were made.
OwnKeys(peers) ==
    \A q \in peers : q.key \in 1..keys /\ \A r \in peers : r.key = q.key => r = q

KeyInv ==
    /\ removed \subseteq 1..keys
    /\ OwnKeys(home.peers)
    /\ \A p \in Pages : OwnKeys(page[p].peers)

\* A page nothing was changed behind lists only peers the home box has; a peer
\* of its own that was refused it does not list.
PageInv == \A p \in Pages : current[p] => page[p].peers \subseteq home.peers

\* Neither section nor server has a device that was removed.
OutInv ==
    /\ \A q \in home.peers : q.key \notin removed
    /\ server # None => \A q \in server.peers : q.key \notin removed

WgInv == TypeOK /\ KeyInv /\ PageInv /\ OutInv

-----------------------------------------------------------------------------
(* What the operations make of a section *)

\* readFields gives a section, with the peers and the public key of the copy it
\* started from.
LEMMA FieldsTyped ==
  ASSUME NEW v \in Section, NEW m \in {"off", "travel", "home"}, NEW w \in Fields(v, m)
  PROVE  /\ w \in Section /\ w.peers = v.peers
         /\ w.pub = v.pub /\ w.priv \in {0, v.priv}
<1> DEFINE typed == [v EXCEPT !.mode = m]
<1>1. typed \in Section /\ typed.peers = v.peers /\ typed.pub = v.pub /\ typed.priv = v.priv
  BY DEF Section
<1>2. CASE m = "off"
  <2>1. w = typed
    BY <1>2 DEF Fields
  <2> QED BY <1>1, <2>1
<1>3. CASE m = "travel"
  <2>1. PICK e \in BOOLEAN : w = [typed EXCEPT !.priv = 0, !.endpoint = e]
    BY <1>3 DEF Fields
  <2>2. 0 \in Key
    BY PairingAssumption DEF Key
  <2> HIDE DEF typed
  <2> QED BY <1>1, <2>1, <2>2 DEF Section
<1>4. CASE m = "home"
  <2>1. PICK e \in BOOLEAN : w = [typed EXCEPT !.client = FALSE, !.psk = FALSE, !.all = FALSE,
                                               !.endpoint = e]
    BY <1>4 DEF Fields
  <2> HIDE DEF typed
  <2> QED BY <1>1, <2>1 DEF Section
<1> QED BY <1>2, <1>3, <1>4

\* The server of a section is a server, with the peers of the section.
LEMMA ServeTyped ==
  ASSUME NEW v \in Section
  PROVE  /\ Serve(v) \in [key : Key, peers : SUBSET Peer] \cup {None}
         /\ Serve(v) # None => Serve(v).peers = v.peers
  BY DEF Serve, Section

\* A new pair of keys is one of those there may be.
LEMMA KeyTyped ==
  ASSUME TypeOK, keys < MaxKeys, keys' = keys + 1
  PROVE  keys' \in Key /\ keys' \notin 1..keys /\ keys' \in 1..keys' /\ 1..keys \subseteq 1..keys'
  BY PairingAssumption DEF TypeOK, Key

\* All keys made are keys.
LEMMA MadeTyped ==
  ASSUME TypeOK
  PROVE  1..keys \subseteq Key /\ keys \in Nat
<1>1. keys \in 0..MaxKeys /\ MaxKeys \in Nat
  BY PairingAssumption DEF TypeOK, Key
<1>2. keys \in Nat /\ \A k \in 1..keys : k \in 0..MaxKeys
  BY <1>1
<1> QED BY <1>2 DEF Key

\* The default section, or that of a box that travelled.
LEMMA InitWg == Init => WgInv
<1> SUFFICES ASSUME Init PROVE WgInv
  OBVIOUS
<1>1. home \in Section /\ home.peers = {} /\ 0 \in Key
  <2>1. 0 \in Key
    BY PairingAssumption DEF Key
  <2>2. CASE home \in [mode : {"off"}, endpoint : {FALSE}, client : {FALSE}, psk : {FALSE},
                       all : {TRUE}, priv : {0}, pub : {0}, peers : {{}}]
    BY <2>1, <2>2 DEF Section
  <2>3. CASE home \in [mode : {"travel"}, endpoint : {TRUE}, client : {TRUE}, psk : BOOLEAN,
                       all : {TRUE}, priv : {0}, pub : {0}, peers : {{}}]
    BY <2>1, <2>3 DEF Section
  <2> QED BY <2>1, <2>2, <2>3 DEF Init
<1>2. TypeOK
  BY <1>1 DEF Init, TypeOK
<1>3. KeyInv /\ PageInv /\ OutInv
  BY <1>1 DEF Init, KeyInv, OwnKeys, PageInv, OutInv
<1> QED BY <1>2, <1>3 DEF WgInv

-----------------------------------------------------------------------------
(* The operations *)

\* A page takes a new copy.
LEMMA LoadKeeps ==
  ASSUME WgInv, NEW p \in Pages, Load(p)
  PROVE  WgInv'
<1> USE DEF WgInv
<1>1. TypeOK'
  BY DEF Load, TypeOK
<1>2. \A q \in Pages : /\ page'[q] = IF q = p THEN home ELSE page[q]
                       /\ current'[q] = IF q = p THEN TRUE ELSE current[q]
  BY DEF Load, TypeOK
<1>3. KeyInv'
  BY <1>2 DEF Load, KeyInv, OwnKeys
<1>4. PageInv' /\ OutInv'
  BY <1>2 DEF Load, PageInv, OutInv
<1> QED BY <1>1, <1>3, <1>4

\* A page's copy replaces the section: with a current copy nobody who was
\* removed comes back, and with an older one all removals are off.
LEMMA SaveKeeps ==
  ASSUME WgInv, NEW p \in Pages, Save(p)
  PROVE  WgInv'
<1> USE DEF WgInv
<1>1. PICK m \in {"off", "travel", "home"} : \E v \in Fields(page[p], m) :
         /\ home' = v /\ Shows(p, v)
         /\ IF Valid(v) THEN Apply(v) ELSE UNCHANGED <<server, forced>>
  BY DEF Save
<1>2. PICK v \in Fields(page[p], m) :
         /\ home' = v /\ Shows(p, v)
         /\ IF Valid(v) THEN Apply(v) ELSE UNCHANGED <<server, forced>>
  BY <1>1
<1>3. v \in Section /\ v.peers = page[p].peers
  BY FieldsTyped DEF TypeOK
<1>4. /\ server' \in [key : Key, peers : SUBSET Peer] \cup {None}
      /\ server' = server \/ (server' # None => server'.peers = v.peers)
      /\ forced' \in BOOLEAN
  <2>1. CASE Valid(v)
    BY <1>2, <1>3, <2>1, ServeTyped DEF Apply
  <2>2. CASE ~Valid(v)
    BY <1>2, <2>2 DEF TypeOK
  <2> QED BY <2>1, <2>2
<1>5. /\ page' = [q \in Pages |-> IF q = p THEN v ELSE page[q]]
      /\ current' = [q \in Pages |-> q = p /\ current[p]]
      /\ keys' = keys
  BY <1>2 DEF Save, Shows, Outdate
<1>6. \/ current[p] /\ UNCHANGED <<void, removed>>
      \/ void' = 1..keys /\ removed' = {}
  BY DEF Save
<1>7. TypeOK'
  <2>1. void' \subseteq Key /\ removed' \subseteq Key
    BY <1>6, MadeTyped DEF TypeOK
  <2>2. page' \in [Pages -> Section] /\ current' \in [Pages -> BOOLEAN]
    BY <1>3, <1>5 DEF TypeOK
  <2> QED BY <1>2, <1>3, <1>4, <1>5, <2>1, <2>2 DEF TypeOK
<1>8. KeyInv'
  BY <1>2, <1>3, <1>5, <1>6 DEF KeyInv, OwnKeys
<1>9. PageInv'
  BY <1>2, <1>5 DEF PageInv
<1>10. OutInv'
  <2>1. CASE current[p] /\ UNCHANGED <<void, removed>>
    <3>1. \A q \in v.peers : q.key \notin removed
      BY <1>3, <2>1 DEF PageInv, OutInv
    <3> QED BY <1>2, <1>4, <2>1, <3>1 DEF OutInv
  <2>2. CASE removed' = {}
    BY <2>2 DEF OutInv
  <2> QED BY <1>6, <2>1, <2>2
<1> QED BY <1>7, <1>8, <1>9, <1>10

\* A new server key leaves every peer where it is.
LEMMA GenServerKeyKeeps ==
  ASSUME WgInv, NEW p \in Callers, GenServerKey(p)
  PROVE  WgInv'
<1> USE DEF WgInv
<1>1. /\ keys < MaxKeys /\ keys' = keys + 1
      /\ home' = [home EXCEPT !.priv = keys', !.pub = keys']
      /\ UNCHANGED <<server, forced, removed>>
      /\ void' = void \cup 1..keys
      /\ current' = [q \in Pages |-> q = p /\ current[p]]
  BY DEF GenServerKey, Outdate
<1>2. keys' \in Key /\ 1..keys \subseteq 1..keys'
  BY <1>1, KeyTyped
<1>3. home' \in Section /\ home'.peers = home.peers
  BY <1>1, <1>2 DEF TypeOK, Section
<1>4. /\ page' \in [Pages -> Section]
      /\ \A q \in Pages : page'[q].peers = page[q].peers
  <2>1. CASE p = Script
    BY <2>1 DEF GenServerKey, TypeOK
  <2>2. CASE p # Script
    <3>1. PICK v \in Fields(page[p], "home") : Shows(p, [v EXCEPT !.priv = keys', !.pub = keys'])
      BY <2>2 DEF GenServerKey
    <3>2. v \in Section /\ v.peers = page[p].peers
      BY <2>2, FieldsTyped DEF TypeOK, Callers
    <3>3. /\ [v EXCEPT !.priv = keys', !.pub = keys'] \in Section
          /\ [v EXCEPT !.priv = keys', !.pub = keys'].peers = page[p].peers
      BY <1>2, <3>2 DEF Section
    <3> QED BY <3>1, <3>3 DEF Shows, TypeOK
  <2> QED BY <2>1, <2>2
<1>5. TypeOK'
  <2>1. void' \subseteq Key /\ current' \in [Pages -> BOOLEAN]
    <3>1. \A q \in Pages : (q = p /\ current[p]) \in BOOLEAN
      OBVIOUS
    <3> QED BY <1>1, <3>1, MadeTyped DEF TypeOK
  <2> QED BY <1>1, <1>2, <1>3, <1>4, <2>1 DEF TypeOK
<1>6. KeyInv'
  <2>1. removed' \subseteq 1..keys'
    BY <1>1, <1>2 DEF KeyInv
  <2>2. OwnKeys(home.peers)' /\ \A q \in Pages : OwnKeys(page[q].peers)'
    BY <1>2, <1>3, <1>4 DEF KeyInv, OwnKeys
  <2> QED BY <1>3, <2>1, <2>2 DEF KeyInv
<1>7. PageInv'
  BY <1>1, <1>3, <1>4 DEF PageInv
<1>8. OutInv'
  BY <1>1, <1>3 DEF OutInv
<1> QED BY <1>5, <1>6, <1>7, <1>8

\* A device with a key nobody had before is added.
LEMMA NewPeerTyped ==
  ASSUME WgInv, keys < MaxKeys, keys' = keys + 1, NEW n \in Names, NEW ip \in Hosts,
         NEW new, new = [name |-> n, key |-> keys + 1, ip |-> ip],
         NEW v, v = [home EXCEPT !.peers = @ \cup {new}]
  PROVE  /\ v \in Section /\ v.peers = home.peers \cup {new}
         /\ \A q \in v.peers : q.key \notin removed
         /\ OwnKeys(v.peers)'
<1>1. keys' \in Key /\ keys' \notin 1..keys /\ keys' \in 1..keys' /\ 1..keys \subseteq 1..keys'
  BY KeyTyped DEF WgInv
<1>2. new \in Peer /\ new.key = keys'
  BY <1>1 DEF Peer
<1>3. v \in Section /\ v.peers = home.peers \cup {new}
  BY <1>2 DEF WgInv, TypeOK, Section
<1>4. \A q \in home.peers : q.key \in 1..keys /\ \A r \in home.peers : r.key = q.key => r = q
  BY DEF WgInv, KeyInv, OwnKeys
<1>5. \A q \in v.peers : q.key \in 1..keys' /\ \A r \in v.peers : r.key = q.key => r = q
  BY <1>1, <1>2, <1>3, <1>4
<1>6. \A q \in v.peers : q.key \notin removed
  BY <1>1, <1>2, <1>3 DEF WgInv, OutInv, KeyInv
<1> QED BY <1>3, <1>5, <1>6 DEF OwnKeys

\* A travel device is added, or refused and left in memory.
LEMMA AddPeerKeeps ==
  ASSUME WgInv, NEW p \in Callers, NEW n \in Names, AddPeer(p, n)
  PROVE  WgInv'
<1> USE DEF WgInv
<1>1. /\ keys < MaxKeys /\ keys' = keys + 1
      /\ UNCHANGED <<void, removed>>
  BY DEF AddPeer
<1>2. PICK ip \in NextIp(home) :
         LET v == [home EXCEPT !.peers = @ \cup {[name |-> n, key |-> keys', ip |-> ip]}]
         IN  /\ home' = v
             /\ IF Valid(v)
                THEN /\ Apply(v)
                     /\ given' = given \cup {ClientConf(home, keys', ip)}
                     /\ Shows(p, v)
                     /\ current' = [q \in Pages |-> q = p]
                ELSE Outdate(p) /\ UNCHANGED <<server, forced, given, page>>
  BY DEF AddPeer
<1> DEFINE new == [name |-> n, key |-> keys + 1, ip |-> ip]
<1>3. /\ home' = [home EXCEPT !.peers = @ \cup {new}]
      /\ \/ Apply(home') /\ Shows(p, home') /\ current' = [q \in Pages |-> q = p]
         \/ Outdate(p) /\ UNCHANGED <<server, forced, page>>
  BY <1>1, <1>2
<1>4. ip \in Hosts
  BY DEF NextIp
<1>5. /\ home' \in Section /\ home'.peers = home.peers \cup {new}
      /\ \A q \in home'.peers : q.key \notin removed
      /\ \A q \in home'.peers : q.key \in 1..keys' /\ \A r \in home'.peers : r.key = q.key => r = q
  <2>1. \A v : v = [home EXCEPT !.peers = @ \cup {new}] =>
          /\ v \in Section /\ v.peers = home.peers \cup {new}
          /\ \A q \in v.peers : q.key \notin removed
          /\ OwnKeys(v.peers)'
    BY <1>1, <1>4, NewPeerTyped
  <2> HIDE DEF new
  <2>2. \A v : v = [home EXCEPT !.peers = @ \cup {new}] =>
          \A q \in v.peers : q.key \in 1..keys' /\ \A r \in v.peers : r.key = q.key => r = q
    BY <2>1 DEF OwnKeys
  <2> QED BY <1>3, <2>1, <2>2
<1> HIDE DEF new
<1>6. keys' \in Key /\ 1..keys \subseteq 1..keys' /\ keys \in Nat
  BY <1>1, KeyTyped, MadeTyped
<1>7. CASE Apply(home') /\ Shows(p, home') /\ current' = [q \in Pages |-> q = p]
  <2>1. /\ server' \in [key : Key, peers : SUBSET Peer] \cup {None}
        /\ server' # None => server'.peers = home'.peers
        /\ forced' \in BOOLEAN
    BY <1>5, <1>7, ServeTyped DEF Apply
  <2>2. \A q \in Pages : /\ page'[q] = IF q = p THEN home' ELSE page[q]
                         /\ current'[q] = (q = p)
    BY <1>7 DEF Shows
  <2>3. TypeOK'
    <3>1. page' \in [Pages -> Section] /\ current' \in [Pages -> BOOLEAN]
      BY <1>5, <1>7 DEF Shows, TypeOK
    <3> QED BY <1>1, <1>5, <1>6, <2>1, <3>1 DEF TypeOK
  <2>4. KeyInv'
    <3>1. \A q \in Pages : \A i \in page[q].peers :
             i.key \in 1..keys' /\ \A r \in page[q].peers : r.key = i.key => r = i
      BY <1>6 DEF KeyInv, OwnKeys
    <3> QED BY <1>1, <1>5, <1>6, <2>2, <3>1 DEF KeyInv, OwnKeys
  <2>5. PageInv' /\ OutInv'
    BY <1>1, <1>5, <2>1, <2>2 DEF PageInv, OutInv
  <2> QED BY <2>3, <2>4, <2>5
<1>8. CASE Outdate(p) /\ UNCHANGED <<server, forced, page>>
  <2>1. current' \in [Pages -> BOOLEAN] /\ \A q \in Pages : current'[q] => current[q]
    BY <1>8 DEF Outdate, TypeOK
  <2>2. TypeOK'
    BY <1>1, <1>5, <1>6, <1>8, <2>1 DEF TypeOK
  <2>3. KeyInv'
    <3>1. \A q \in Pages : \A i \in page[q].peers :
             i.key \in 1..keys' /\ \A r \in page[q].peers : r.key = i.key => r = i
      BY <1>6 DEF KeyInv, OwnKeys
    <3> QED BY <1>1, <1>5, <1>6, <1>8, <3>1 DEF KeyInv, OwnKeys
  <2>4. PageInv' /\ OutInv'
    BY <1>1, <1>5, <1>8, <2>1 DEF PageInv, OutInv
  <2> QED BY <2>2, <2>3, <2>4
<1> QED BY <1>3, <1>7, <1>8

\* A device is removed, from the section and from the server.
LEMMA RemovePeerKeeps ==
  ASSUME WgInv, NEW p \in Callers, NEW n \in Names, RemovePeer(p, n)
  PROVE  WgInv'
<1> USE DEF WgInv
<1>1. /\ home' = [home EXCEPT !.peers = {q \in @ : q.name # n}]
      /\ void' = void \cup KeysOf(n) /\ removed' = removed \cup KeysOf(n)
      /\ server' = Serve(home') /\ forced' = ~Valid(home')
      /\ page' = [q \in Pages |-> IF q = p THEN home' ELSE page[q]]
      /\ current' = [q \in Pages |-> q = p]
      /\ keys' = keys
  BY DEF RemovePeer, Apply, Shows
<1>2. home' \in Section /\ home'.peers = {q \in home.peers : q.name # n}
  BY <1>1 DEF TypeOK, Section
<1>3. KeysOf(n) \subseteq 1..keys /\ 1..keys \subseteq Key
  BY MadeTyped DEF KeysOf, KeyInv, OwnKeys
<1>4. /\ server' \in [key : Key, peers : SUBSET Peer] \cup {None}
      /\ server' # None => server'.peers = home'.peers
  BY <1>1, <1>2, ServeTyped
<1>5. \A q \in home'.peers : q.key \notin removed'
  BY <1>1, <1>2 DEF KeysOf, KeyInv, OwnKeys, OutInv
<1>6. TypeOK'
  <2>1. page' \in [Pages -> Section] /\ current' \in [Pages -> BOOLEAN] /\ forced' \in BOOLEAN
    BY <1>1, <1>2 DEF TypeOK
  <2>2. void' \subseteq Key /\ removed' \subseteq Key
    BY <1>1, <1>3 DEF TypeOK
  <2> QED BY <1>1, <1>2, <1>4, <2>1, <2>2 DEF TypeOK
<1>7. KeyInv'
  BY <1>1, <1>2, <1>3 DEF KeyInv, OwnKeys
<1>8. PageInv' /\ OutInv'
  BY <1>1, <1>4, <1>5 DEF PageInv, OutInv
<1> QED BY <1>6, <1>7, <1>8

\* A device that brings its key is added, and no page knows of it.
LEMMA AddPastedKeeps ==
  ASSUME WgInv, NEW n \in Names, NEW ip \in Hosts, AddPasted(n, ip)
  PROVE  WgInv'
<1> USE DEF WgInv
<1> DEFINE new == [name |-> n, key |-> keys + 1, ip |-> ip]
<1>1. /\ keys < MaxKeys /\ keys' = keys + 1
      /\ home' = [home EXCEPT !.peers = @ \cup {new}]
      /\ \/ Apply(home')
         \/ UNCHANGED <<server, forced>>
      /\ current' = [q \in Pages |-> FALSE]
      /\ UNCHANGED <<page, void, removed>>
  BY DEF AddPasted
<1>2. /\ home' \in Section /\ home'.peers = home.peers \cup {new}
      /\ \A q \in home'.peers : q.key \notin removed
      /\ \A q \in home'.peers : q.key \in 1..keys' /\ \A r \in home'.peers : r.key = q.key => r = q
  <2>1. \A v : v = [home EXCEPT !.peers = @ \cup {new}] =>
          /\ v \in Section /\ v.peers = home.peers \cup {new}
          /\ \A q \in v.peers : q.key \notin removed
          /\ OwnKeys(v.peers)'
    BY <1>1, NewPeerTyped
  <2> HIDE DEF new
  <2>2. \A v : v = [home EXCEPT !.peers = @ \cup {new}] =>
          \A q \in v.peers : q.key \in 1..keys' /\ \A r \in v.peers : r.key = q.key => r = q
    BY <2>1 DEF OwnKeys
  <2> QED BY <1>1, <2>1, <2>2
<1> HIDE DEF new
<1>3. keys' \in Key /\ 1..keys \subseteq 1..keys'
  BY <1>1, KeyTyped
<1>4. /\ server' \in [key : Key, peers : SUBSET Peer] \cup {None}
      /\ server' = server \/ (server' # None => server'.peers = home'.peers)
      /\ forced' \in BOOLEAN
  <2>1. CASE Apply(home')
    BY <1>2, <2>1, ServeTyped DEF Apply
  <2>2. CASE UNCHANGED <<server, forced>>
    BY <2>2 DEF TypeOK
  <2> QED BY <1>1, <2>1, <2>2
<1>5. TypeOK'
  BY <1>1, <1>2, <1>3, <1>4 DEF TypeOK
<1>6. KeyInv'
  <2>1. \A q \in Pages : \A i \in page[q].peers :
           i.key \in 1..keys' /\ \A r \in page[q].peers : r.key = i.key => r = i
    BY <1>3 DEF KeyInv, OwnKeys
  <2> QED BY <1>1, <1>2, <1>3, <2>1 DEF KeyInv, OwnKeys
<1>7. PageInv' /\ OutInv'
  BY <1>1, <1>2, <1>4 DEF PageInv, OutInv
<1> QED BY <1>5, <1>6, <1>7

LEMMA NextWg == WgInv /\ [Next]_vars => WgInv'
<1> SUFFICES ASSUME WgInv, [Next]_vars PROVE WgInv'
  OBVIOUS
<1>1. CASE \E p \in Pages : Load(p)
  BY <1>1, LoadKeeps
<1>2. CASE \E p \in Pages : Save(p)
  BY <1>2, SaveKeeps
<1>3. CASE \E p \in Callers : GenServerKey(p)
  BY <1>3, GenServerKeyKeeps
<1>4. CASE \E p \in Callers, n \in Names : AddPeer(p, n)
  BY <1>4, AddPeerKeeps
<1>5. CASE \E p \in Callers, n \in Names : RemovePeer(p, n)
  BY <1>5, RemovePeerKeeps
<1>6. CASE \E n \in Names, ip \in Hosts : AddPasted(n, ip)
  BY <1>6, AddPastedKeeps
<1>7. CASE UNCHANGED vars
  BY <1>7 DEF vars, WgInv, TypeOK, KeyInv, OwnKeys, PageInv, OutInv
<1> QED BY <1>1, <1>2, <1>3, <1>4, <1>5, <1>6, <1>7 DEF Next

-----------------------------------------------------------------------------
(* The texts: what import_conf reads from what peer_client_conf writes *)

\* What the home box told a device: the part of a section it writes down.
Told == [pub : Key \ {0}, psk : BOOLEAN, all : BOOLEAN, endpoint : {TRUE}]

\* The steps of reading, for a text of any length.
LEMMA ReadSteps ==
  ASSUME NEW text, NEW r,
         r = [i \in 0..Len(text) |-> IF i = 0 THEN NothingRead ELSE ReadLine(r[i - 1], text[i])]
  PROVE  \E h : /\ h = [i \in 0..Len(text) |->
                          IF i = 0 THEN NothingRead ELSE ReadLine(h[i - 1], text[i])]
                /\ ReadText(text) = h[Len(text)]
  BY DEF ReadText

\* g is what import_conf has read after each line of a text of seven or eight.
ReadsAs(text, g) ==
    /\ Len(text) = 7 \/ Len(text) = 8
    /\ g[1] = ReadLine(NothingRead, text[1]) /\ g[2] = ReadLine(g[1], text[2])
    /\ g[3] = ReadLine(g[2], text[3]) /\ g[4] = ReadLine(g[3], text[4])
    /\ g[5] = ReadLine(g[4], text[5]) /\ g[6] = ReadLine(g[5], text[6])
    /\ g[7] = ReadLine(g[6], text[7])
    /\ Len(text) = 8 => g[8] = ReadLine(g[7], text[8])

LEMMA ReadLines ==
  ASSUME NEW text, NEW g, ReadsAs(text, g)
  PROVE  ReadText(text) = g[Len(text)]
<1> USE DEF ReadsAs
<1> DEFINE f == [i \in 0..Len(text) |-> IF i = 0 THEN NothingRead ELSE g[i]]
<1>1. Len(text) \in Nat /\ (Len(text) = 7 \/ Len(text) = 8)
  OBVIOUS
<1>2. f = [i \in 0..Len(text) |-> IF i = 0 THEN NothingRead ELSE ReadLine(f[i - 1], text[i])]
  <2>1. ASSUME NEW i \in 0..Len(text), i # 0
        PROVE  g[i] = ReadLine(f[i - 1], text[i])
    <3>1. \A n \in Nat : (n = 7 \/ n = 8) =>
            \A j \in 0..n : j # 0 => /\ j \in {1, 2, 3, 4, 5, 6, 7, 8} /\ (j = 8 => n = 8)
                                    /\ j - 1 \in 0..n
      OBVIOUS
    <3>2. i \in {1, 2, 3, 4, 5, 6, 7, 8} /\ (i = 8 => Len(text) = 8) /\ i - 1 \in 0..Len(text)
      <4> HIDE DEF f
      <4> QED BY <1>1, <2>1, <3>1
    <3>3. f[i - 1] = IF i - 1 = 0 THEN NothingRead ELSE g[i - 1]
      BY <3>2
    <3> HIDE DEF f
    <3>4. CASE i = 1
      BY <3>2, <3>3, <3>4
    <3>5. CASE i = 2
      BY <3>2, <3>3, <3>5
    <3>6. CASE i = 3
      BY <3>2, <3>3, <3>6
    <3>7. CASE i = 4
      BY <3>2, <3>3, <3>7
    <3>8. CASE i = 5
      BY <3>2, <3>3, <3>8
    <3>9. CASE i = 6
      BY <3>2, <3>3, <3>9
    <3>10. CASE i = 7
      BY <3>2, <3>3, <3>10
    <3>11. CASE i = 8
      BY <3>2, <3>3, <3>11
    <3> QED BY <3>2, <3>4, <3>5, <3>6, <3>7, <3>8, <3>9, <3>10, <3>11
  <2>2. \A i \in 0..Len(text) :
          (IF i = 0 THEN NothingRead ELSE g[i])
              = IF i = 0 THEN NothingRead ELSE ReadLine(f[i - 1], text[i])
    <3> HIDE DEF f
    <3> QED BY <2>1
  <2>3. \A h : (\A i \in 0..Len(text) :
                   (IF i = 0 THEN NothingRead ELSE g[i])
                       = IF i = 0 THEN NothingRead ELSE ReadLine(h[i - 1], text[i])) =>
               f = [i \in 0..Len(text) |-> IF i = 0 THEN NothingRead ELSE ReadLine(h[i - 1], text[i])]
    OBVIOUS
  <2> HIDE DEF f
  <2> QED BY <2>2, <2>3
<1> HIDE DEF f
<1>3. PICK h : /\ h = [i \in 0..Len(text) |->
                          IF i = 0 THEN NothingRead ELSE ReadLine(h[i - 1], text[i])]
               /\ ReadText(text) = h[Len(text)]
  BY <1>2, ReadSteps
<1>4. h[0] = NothingRead /\ \A i \in 1..Len(text) : h[i] = ReadLine(h[i - 1], text[i])
  <2>1. 0 \in 0..Len(text) /\ \A i \in 1..Len(text) : i \in 0..Len(text) /\ i # 0
    BY <1>1
  <2> QED BY <1>3, <2>1
<1>5. /\ h[1] = ReadLine(h[0], text[1]) /\ h[2] = ReadLine(h[1], text[2])
      /\ h[3] = ReadLine(h[2], text[3]) /\ h[4] = ReadLine(h[3], text[4])
      /\ h[5] = ReadLine(h[4], text[5]) /\ h[6] = ReadLine(h[5], text[6])
      /\ h[7] = ReadLine(h[6], text[7]) /\ (Len(text) = 8 => h[8] = ReadLine(h[7], text[8]))
  BY <1>1, <1>4, SMTT(30)
<1>6. /\ h[1] = g[1] /\ h[2] = g[2] /\ h[3] = g[3] /\ h[4] = g[4]
      /\ h[5] = g[5] /\ h[6] = g[6] /\ h[7] = g[7]
  BY <1>4, <1>5
<1>7. Len(text) = 8 => h[8] = g[8]
  BY <1>5, <1>6
<1> QED BY <1>1, <1>3, <1>6, <1>7

\* A text of five lines, perhaps another one, and two more.
LEMMA JoinedLines ==
  ASSUME NEW a, NEW b, NEW c, NEW d, NEW e, NEW f, NEW g, NEW h
  PROVE  /\ <<a, b, c, d, e>> \o <<f>> \o <<g, h>> = <<a, b, c, d, e, f, g, h>>
         /\ <<a, b, c, d, e>> \o <<>> \o <<g, h>> = <<a, b, c, d, e, g, h>>
<1> DEFINE s == <<a, b, c, d, e>>  u == <<g, h>>  s1 == <<a, b, c, d, e, f>>
<1>0. PICK L : a \in L /\ b \in L /\ c \in L /\ d \in L /\ e \in L /\ f \in L /\ g \in L /\ h \in L
  <2>1. \E L : L = {a, b, c, d, e, f, g, h}
    OBVIOUS
  <2> QED BY <2>1
<1>1. s \in Seq(L) /\ u \in Seq(L) /\ s1 \in Seq(L) /\ <<f>> \in Seq(L)
      /\ <<a, b, c, d, e, f, g, h>> \in Seq(L) /\ <<a, b, c, d, e, g, h>> \in Seq(L)
  BY <1>0
<1>2. s \o <<f>> = s1
  <2>1. s \o <<f>> \in Seq(L) /\ Len(s \o <<f>>) = 6 /\ \A i \in 1..6 : (s \o <<f>>)[i] = s1[i]
    BY <1>1
  <2> HIDE DEF s
  <2>2. Len(s1) = 6
    OBVIOUS
  <2> HIDE DEF s1
  <2> QED BY <1>1, <2>1, <2>2, SeqEqual
<1>3. s1 \o u = <<a, b, c, d, e, f, g, h>>
  <2>1. s1 \o u \in Seq(L) /\ Len(s1 \o u) = 8
        /\ \A i \in 1..8 : (s1 \o u)[i] = <<a, b, c, d, e, f, g, h>>[i]
    BY <1>1
  <2> HIDE DEF s1, u
  <2>2. Len(<<a, b, c, d, e, f, g, h>>) = 8
    OBVIOUS
  <2> QED BY <1>1, <2>1, <2>2, SeqEqual, ZenonT(60)
<1>4. s \o <<>> = s
  BY <1>1, ConcatEmptySeq
<1>5. s \o u = <<a, b, c, d, e, g, h>>
  <2>1. s \o u \in Seq(L) /\ Len(s \o u) = 7
        /\ \A i \in 1..7 : (s \o u)[i] = <<a, b, c, d, e, g, h>>[i]
    BY <1>1
  <2> HIDE DEF s, u
  <2>2. Len(<<a, b, c, d, e, g, h>>) = 7
    OBVIOUS
  <2> QED BY <1>1, <2>1, <2>2, SeqEqual, ZenonT(60)
<1> QED BY <1>2, <1>3, <1>4, <1>5

\* The lines of a client configuration, with a preshared key and without.
LEMMA ConfLines ==
  ASSUME NEW v, NEW k, NEW ip, v.psk \in BOOLEAN
  PROVE  LET a == Heading("interface")         b == Field("privatekey", <<k>>)
             c == Field("address", <<ip>>)     d == Heading("peer")
             e == Field("publickey", <<v.pub>>) f == Field("presharedkey", <<>>)
             g == Field("endpoint", <<v.endpoint>>)
             h == Field("allowedips", <<IF v.all THEN "everything" ELSE "subnet">>)
         IN  /\ v.psk => ClientConf(v, k, ip) = <<a, b, c, d, e, f, g, h>>
             /\ ~v.psk => ClientConf(v, k, ip) = <<a, b, c, d, e, g, h>>
<1> DEFINE a == Heading("interface")         b == Field("privatekey", <<k>>)
           c == Field("address", <<ip>>)     d == Heading("peer")
           e == Field("publickey", <<v.pub>>) f == Field("presharedkey", <<>>)
           g == Field("endpoint", <<v.endpoint>>)
           h == Field("allowedips", <<IF v.all THEN "everything" ELSE "subnet">>)
<1>1. ClientConf(v, k, ip) = <<a, b, c, d, e>> \o (IF v.psk THEN <<f>> ELSE <<>>) \o <<g, h>>
  BY DEF ClientConf
<1> HIDE DEF a, b, c, d, e, f, g, h
<1>2. /\ <<a, b, c, d, e>> \o <<f>> \o <<g, h>> = <<a, b, c, d, e, f, g, h>>
      /\ <<a, b, c, d, e>> \o <<>> \o <<g, h>> = <<a, b, c, d, e, g, h>>
  BY JoinedLines
<1>3. /\ v.psk => ClientConf(v, k, ip) = <<a, b, c, d, e, f, g, h>>
      /\ ~v.psk => ClientConf(v, k, ip) = <<a, b, c, d, e, g, h>>
  BY <1>1, <1>2
<1> QED BY <1>3 DEF a, b, c, d, e, f, g, h

\* What import_conf reads from a configuration peer_client_conf wrote is what
\* that one was written from.
LEMMA ImportReads ==
  ASSUME NEW v \in Told, NEW k \in Nat \ {0}, NEW ip \in Nat \ {0}
  PROVE  Import(ClientConf(v, k, ip)) =
             {[key |-> k, ip |-> ip, server |-> v.pub, psk |-> v.psk, all |-> v.all]}
<1> DEFINE text == ClientConf(v, k, ip)
           Read(sec, key, addr, srv, psk, end, all) ==
               [section |-> sec, key |-> key, ip |-> addr, server |-> srv, psk |-> psk,
                endpoint |-> end, all |-> all]
           r1 == Read("interface", 0, 0, 0, FALSE, FALSE, TRUE)
           r2 == Read("interface", k, 0, 0, FALSE, FALSE, TRUE)
           r3 == Read("interface", k, ip, 0, FALSE, FALSE, TRUE)
           r4 == Read("peer", k, ip, 0, FALSE, FALSE, TRUE)
           r5 == Read("peer", k, ip, v.pub, FALSE, FALSE, TRUE)
           r6 == Read("peer", k, ip, v.pub, TRUE, FALSE, TRUE)
           r7(psk) == Read("peer", k, ip, v.pub, psk, TRUE, TRUE)
           r8(psk) == Read("peer", k, ip, v.pub, psk, TRUE, v.all)
<1>1. v.psk \in BOOLEAN /\ v.all \in BOOLEAN /\ v.endpoint = TRUE /\ v.pub # 0
  BY DEF Told
<1>2. /\ ReadLine(NothingRead, Heading("interface")) = r1
      /\ ReadLine(r1, Field("privatekey", <<k>>)) = r2
      /\ ReadLine(r2, Field("address", <<ip>>)) = r3
      /\ ReadLine(r3, Heading("peer")) = r4
      /\ ReadLine(r4, Field("publickey", <<v.pub>>)) = r5
  BY DEF ReadLine, NothingRead, Heading, Field
<1>3. ReadLine(r5, Field("presharedkey", <<>>)) = r6
  BY DEF ReadLine, Field
<1>4. /\ ReadLine(r5, Field("endpoint", <<v.endpoint>>)) = r7(FALSE)
      /\ ReadLine(r6, Field("endpoint", <<v.endpoint>>)) = r7(TRUE)
  BY <1>1 DEF ReadLine, Field
<1>5. ASSUME NEW psk \in BOOLEAN
      PROVE  ReadLine(r7(psk), Field("allowedips", <<IF v.all THEN "everything" ELSE "subnet">>))
                 = r8(psk)
  <2> DEFINE line == Field("allowedips", <<IF v.all THEN "everything" ELSE "subnet">>)
  <2>1. DOMAIN line.vals = {1} /\ (line.vals[1] = "everything") = v.all
    BY <1>1 DEF Field
  <2>2. ReadLine(r7(psk), line) =
          [r7(psk) EXCEPT !.all = \E i \in DOMAIN line.vals : line.vals[i] = "everything"]
    BY DEF ReadLine, Field
  <2>3. (\E i \in DOMAIN line.vals : line.vals[i] = "everything") = v.all
    <3> HIDE DEF line
    <3> QED BY <1>1, <2>1
  <2>4. [r7(psk) EXCEPT !.all = v.all] = r8(psk)
    <3>1. \A e, x, y : [Read("peer", k, ip, v.pub, psk, e, x) EXCEPT !.all = y]
                          = Read("peer", k, ip, v.pub, psk, e, y)
      OBVIOUS
    <3> HIDE DEF Read
    <3> QED BY <3>1
  <2> HIDE DEF line, r7, r8
  <2> QED BY <2>2, <2>3, <2>4 DEF line
<1> HIDE DEF r1, r2, r3, r4, r5, r6, r7, r8
<1>6. ReadText(text) = r8(v.psk)
  <2> DEFINE a == Heading("interface")         b == Field("privatekey", <<k>>)
             c == Field("address", <<ip>>)     d == Heading("peer")
             e == Field("publickey", <<v.pub>>) f == Field("presharedkey", <<>>)
             g == Field("endpoint", <<v.endpoint>>)
             h == Field("allowedips", <<IF v.all THEN "everything" ELSE "subnet">>)
  <2>1. /\ v.psk => text = <<a, b, c, d, e, f, g, h>>
        /\ ~v.psk => text = <<a, b, c, d, e, g, h>>
    BY <1>1, ConfLines
  <2>2. /\ ReadLine(NothingRead, a) = r1 /\ ReadLine(r1, b) = r2 /\ ReadLine(r2, c) = r3
        /\ ReadLine(r3, d) = r4 /\ ReadLine(r4, e) = r5 /\ ReadLine(r5, f) = r6
        /\ ReadLine(r5, g) = r7(FALSE) /\ ReadLine(r6, g) = r7(TRUE)
        /\ ReadLine(r7(FALSE), h) = r8(FALSE) /\ ReadLine(r7(TRUE), h) = r8(TRUE)
    BY <1>2, <1>3, <1>4, <1>5
  <2> HIDE DEF a, b, c, d, e, f, g, h, text
  <2>3. CASE v.psk = TRUE
    <3>1. /\ Len(text) = 8
          /\ text[1] = a /\ text[2] = b /\ text[3] = c /\ text[4] = d
          /\ text[5] = e /\ text[6] = f /\ text[7] = g /\ text[8] = h
      BY <2>1, <2>3
    <3> DEFINE read == <<r1, r2, r3, r4, r5, r6, r7(TRUE), r8(TRUE)>>
    <3>2. /\ read[1] = ReadLine(NothingRead, text[1])
          /\ read[2] = ReadLine(read[1], text[2]) /\ read[3] = ReadLine(read[2], text[3])
          /\ read[4] = ReadLine(read[3], text[4]) /\ read[5] = ReadLine(read[4], text[5])
          /\ read[6] = ReadLine(read[5], text[6]) /\ read[7] = ReadLine(read[6], text[7])
          /\ read[8] = ReadLine(read[7], text[8]) /\ read[8] = r8(TRUE)
      BY <2>2, <3>1
    <3> HIDE DEF read
    <3>3. ReadText(text) = read[Len(text)]
      <4>1. ReadsAs(text, read)
        BY <3>1, <3>2 DEF ReadsAs
      <4> QED BY <4>1, ReadLines
    <3> QED BY <2>3, <3>1, <3>2, <3>3
  <2>4. CASE v.psk = FALSE
    <3>1. /\ Len(text) = 7
          /\ text[1] = a /\ text[2] = b /\ text[3] = c /\ text[4] = d
          /\ text[5] = e /\ text[6] = g /\ text[7] = h
      BY <2>1, <2>4
    <3> DEFINE read == <<r1, r2, r3, r4, r5, r7(FALSE), r8(FALSE)>>
    <3>2. /\ read[1] = ReadLine(NothingRead, text[1])
          /\ read[2] = ReadLine(read[1], text[2]) /\ read[3] = ReadLine(read[2], text[3])
          /\ read[4] = ReadLine(read[3], text[4]) /\ read[5] = ReadLine(read[4], text[5])
          /\ read[6] = ReadLine(read[5], text[6]) /\ read[7] = ReadLine(read[6], text[7])
          /\ read[7] = r8(FALSE)
      BY <2>2, <3>1
    <3> HIDE DEF read
    <3>3. ReadText(text) = read[Len(text)]
      <4>1. ReadsAs(text, read)
        BY <3>1, <3>2 DEF ReadsAs
      <4> QED BY <4>1, ReadLines
    <3> QED BY <2>4, <3>1, <3>2, <3>3
  <2> QED BY <1>1, <2>3, <2>4
<1> HIDE DEF text
<1>7. LET r == ReadText(text)
      IN  /\ r.key = k /\ r.ip = ip /\ r.server = v.pub /\ r.psk = v.psk
          /\ r.endpoint = TRUE /\ r.all = v.all
  BY <1>6 DEF r8
<1> HIDE DEF Read
<1>8. Import(text) =
        {[key |-> k, ip |-> ip, server |-> v.pub, psk |-> v.psk, all |-> v.all]}
  BY <1>1, <1>7 DEF Import
<1> QED BY <1>8 DEF text

-----------------------------------------------------------------------------
(* Theorems *)

LEMMA AlwaysWg == Spec => []WgInv
  BY InitWg, NextWg, PTL DEF Spec

\* The section, its copies in the pages and the server stay sections and a
\* server, with keys that were made (vpn/mod.rs 53-96, api.rs 539-718).
THEOREM WgTyped == Spec => []TypeOK
<1>1. WgInv => TypeOK
  BY DEF WgInv
<1> QED BY <1>1, AlwaysWg, PTL

\* A device that was removed stays out of the server, however many pages hold
\* older copies, until one of those is saved (api.rs 539, 699-718).
THEOREM RemovedStaysOut == Spec => []RemovedIsOut
<1>1. WgInv => RemovedIsOut
  BY DEF WgInv, OutInv, RemovedIsOut
<1> QED BY <1>1, AlwaysWg, PTL

-----------------------------------------------------------------------------
(* What a configuration the home box showed is good for *)

Has(peers, k, ip) == \E q \in peers : q.key = k /\ q.ip = ip

\* A server with public key pub accepts key k, and routes ip to no other.
Serves(srv, pub, k, ip) ==
    /\ srv.key = pub /\ Has(srv.peers, k, ip)
    /\ \A q \in srv.peers : q.ip = ip => q.key = k

\* The device with key k and address ip that knows the box as pub is let in:
\* by the section, by the pages that are up to date, and by a server that was
\* brought up from a section validate() accepts.
LetIn(pub, k, ip) ==
    /\ home.pub = pub /\ Has(home.peers, k, ip)
    /\ \A p \in Pages : current[p] => Has(page[p].peers, k, ip)
    /\ server # None /\ ~forced => Serves(server, pub, k, ip)

\* A text the home box showed for a device is one that ClientConf writes, and
\* unless it was given up the device is let in.
Shown(text) ==
    \E v \in Told, k \in 1..keys, ip \in Hosts :
        text = ClientConf(v, k, ip) /\ (k \notin void => LetIn(v.pub, k, ip))

\* Private and public key of the server are one pair, and a page that is up to
\* date shows the public key of the section.
PubInv ==
    /\ home.priv \in {0, home.pub}
    /\ \A p \in Pages : /\ page[p].priv \in {0, page[p].pub}
                        /\ current[p] => page[p].pub = home.pub

ShownInv == \A text \in given : Shown(text)

PairInv == WgInv /\ PubInv /\ ShownInv

\* A step that leaves let in all who have not given up.
Keeps ==
    \A pub \in Key, k \in 1..keys, ip \in Hosts :
        k \notin void' /\ (k \notin void => LetIn(pub, k, ip)) => LetIn(pub, k, ip)'

LEMMA ShownKept ==
  ASSUME Keeps, 1..keys \subseteq 1..keys', NEW text, Shown(text)
  PROVE  Shown(text)'
<1>1. PICK v \in Told, k \in 1..keys, ip \in Hosts :
         text = ClientConf(v, k, ip) /\ (k \notin void => LetIn(v.pub, k, ip))
  BY DEF Shown
<1>2. k \notin void' => LetIn(v.pub, k, ip)'
  BY <1>1 DEF Keeps, Told
<1> QED BY <1>1, <1>2 DEF Shown

\* A server brought up from a section it accepts serves the section's devices.
LEMMA ServesPeers ==
  ASSUME NEW v \in Section, Valid(v), v.priv \in {0, v.pub}, Serve(v) # None,
         NEW k, NEW ip, Has(v.peers, k, ip)
  PROVE  Serves(Serve(v), v.pub, k, ip)
<1>1. v.mode = "home" /\ v.priv # 0 /\ Serve(v) = [key |-> v.priv, peers |-> v.peers]
  BY DEF Serve
<1>2. \A p, q \in v.peers : p.ip = q.ip => p = q
  BY <1>1 DEF Valid
<1>3. Serve(v).key = v.pub /\ Serve(v).peers = v.peers
  BY <1>1
<1> QED BY <1>2, <1>3 DEF Serves, Has

\* Once a section was applied and all pages that are up to date show it, the
\* devices it has are let in.
LEMMA AppliedLetsIn ==
  ASSUME home' \in Section, home'.priv \in {0, home'.pub}, Apply(home'),
         \A p \in Pages : current'[p] => page'[p].peers = home'.peers,
         NEW pub, pub = home'.pub, NEW k, NEW ip, Has(home'.peers, k, ip)
  PROVE  LetIn(pub, k, ip)'
<1>1. server' = Serve(home') /\ forced' = ~Valid(home')
  BY DEF Apply
<1>2. server' # None /\ ~forced' => Serves(server', home'.pub, k, ip)
  BY <1>1, ServesPeers
<1>3. \A p \in Pages : current'[p] => Has(page'[p].peers, k, ip)
  OBVIOUS
<1> QED BY <1>2, <1>3 DEF LetIn

LEMMA InitPair == Init => PairInv
<1> SUFFICES ASSUME Init PROVE PairInv
  OBVIOUS
<1>1. home.priv = 0 /\ home.pub = 0
  <2>1. CASE home \in [mode : {"off"}, endpoint : {FALSE}, client : {FALSE}, psk : {FALSE},
                       all : {TRUE}, priv : {0}, pub : {0}, peers : {{}}]
    BY <2>1
  <2>2. CASE home \in [mode : {"travel"}, endpoint : {TRUE}, client : {TRUE}, psk : BOOLEAN,
                       all : {TRUE}, priv : {0}, pub : {0}, peers : {{}}]
    BY <2>2
  <2> QED BY <2>1, <2>2 DEF Init
<1>2. PubInv /\ ShownInv
  BY <1>1 DEF Init, PubInv, ShownInv
<1> QED BY <1>2, InitWg DEF PairInv

\* A page that takes a copy has the keys and devices of the section.
LEMMA LoadPairs ==
  ASSUME PairInv, NEW p \in Pages, Load(p)
  PROVE  PubInv' /\ Keeps
<1>1. \A q \in Pages : /\ page'[q] = IF q = p THEN home ELSE page[q]
                       /\ current'[q] = IF q = p THEN TRUE ELSE current[q]
  BY DEF Load, PairInv, WgInv, TypeOK
<1>2. UNCHANGED <<home, server, forced, void>>
  BY DEF Load
<1>3. PubInv'
  BY <1>1, <1>2 DEF PairInv, PubInv
<1>4. Keeps
  BY <1>1, <1>2 DEF Keeps, LetIn, Has
<1> QED BY <1>3, <1>4

\* Save & Apply from a page that is up to date keeps the public key and the
\* devices, and a server it starts has both; from any other page it gives up
\* every device.
LEMMA SavePairs ==
  ASSUME PairInv, NEW p \in Pages, Save(p)
  PROVE  PubInv' /\ Keeps
<1>1. PICK m \in {"off", "travel", "home"} : \E v \in Fields(page[p], m) :
         /\ home' = v /\ Shows(p, v)
         /\ IF Valid(v) THEN Apply(v) ELSE UNCHANGED <<server, forced>>
  BY DEF Save
<1>2. PICK v \in Fields(page[p], m) :
         /\ home' = v /\ Shows(p, v)
         /\ IF Valid(v) THEN Apply(v) ELSE UNCHANGED <<server, forced>>
  BY <1>1
<1>3. /\ v \in Section /\ v.peers = page[p].peers
      /\ v.pub = page[p].pub /\ v.priv \in {0, page[p].priv}
  BY FieldsTyped DEF PairInv, WgInv, TypeOK
<1>4. /\ page' = [q \in Pages |-> IF q = p THEN v ELSE page[q]]
      /\ current' = [q \in Pages |-> q = p /\ current[p]]
  BY <1>2 DEF Save, Shows, Outdate
<1>5. PubInv'
  BY <1>2, <1>3, <1>4 DEF PairInv, PubInv
<1>6. Keeps
  <2>1. CASE current[p]
    <3> SUFFICES ASSUME NEW pub \in Key, NEW k \in 1..keys, NEW ip \in Hosts,
                        LetIn(pub, k, ip)
                 PROVE  LetIn(pub, k, ip)'
      <4>1. void' = void
        BY <2>1 DEF Save
      <4> QED BY <4>1 DEF Keeps
    <3>1. home'.pub = pub /\ Has(home'.peers, k, ip) /\ home'.priv \in {0, home'.pub}
      BY <1>2, <1>3, <2>1 DEF LetIn, PairInv, PubInv
    <3>2. \A q \in Pages : current'[q] => page'[q].peers = home'.peers
      BY <1>2, <1>4
    <3>3. CASE Valid(v)
      BY <1>2, <1>3, <3>1, <3>2, <3>3, AppliedLetsIn
    <3>4. CASE ~Valid(v)
      BY <1>2, <3>1, <3>2, <3>4 DEF LetIn
    <3> QED BY <3>3, <3>4
  <2>2. CASE ~current[p]
    <3>1. void' = 1..keys
      BY <2>2 DEF Save
    <3> QED BY <3>1 DEF Keeps
  <2> QED BY <2>1, <2>2
<1> QED BY <1>5, <1>6

\* A new server key gives up every device there is.
LEMMA GenServerKeyPairs ==
  ASSUME PairInv, NEW p \in Callers, GenServerKey(p)
  PROVE  PubInv' /\ Keeps
<1>1. /\ home' = [home EXCEPT !.priv = keys', !.pub = keys']
      /\ void' = void \cup 1..keys
      /\ current' = [q \in Pages |-> q = p /\ current[p]]
  BY DEF GenServerKey, Outdate
<1>2. home'.priv = keys' /\ home'.pub = keys'
  BY <1>1 DEF PairInv, WgInv, TypeOK, Section
<1>3. \A q \in Pages : IF q = p THEN page'[q].priv = keys' /\ page'[q].pub = keys'
                                ELSE page'[q] = page[q]
  <2>1. CASE p = Script
    BY <2>1, PairingAssumption DEF GenServerKey
  <2>2. CASE p # Script
    <3>1. PICK v \in Fields(page[p], "home") : Shows(p, [v EXCEPT !.priv = keys', !.pub = keys'])
      BY <2>2 DEF GenServerKey
    <3>2. v \in Section
      BY <2>2, FieldsTyped DEF PairInv, WgInv, TypeOK, Callers
    <3>3. /\ [v EXCEPT !.priv = keys', !.pub = keys'].priv = keys'
          /\ [v EXCEPT !.priv = keys', !.pub = keys'].pub = keys'
      BY <3>2 DEF Section
    <3> QED BY <3>1, <3>3 DEF Shows
  <2> QED BY <2>1, <2>2
<1>4. PubInv'
  BY <1>1, <1>2, <1>3 DEF PairInv, PubInv
<1>5. Keeps
  BY <1>1 DEF Keeps
<1> QED BY <1>4, <1>5

\* A device that is added joins the others, and is told how it is let in.
LEMMA AddPeerPairs ==
  ASSUME PairInv, WgInv', NEW p \in Callers, NEW n \in Names, AddPeer(p, n)
  PROVE  PubInv' /\ Keeps /\ \A text \in given' \ given : Shown(text)'
<1>1. keys' = keys + 1 /\ UNCHANGED void /\ CanShow(home)
  BY DEF AddPeer
<1>2. PICK ip \in NextIp(home) :
         LET v == [home EXCEPT !.peers = @ \cup {[name |-> n, key |-> keys', ip |-> ip]}]
         IN  /\ home' = v
             /\ IF Valid(v)
                THEN /\ Apply(v)
                     /\ given' = given \cup {ClientConf(home, keys', ip)}
                     /\ Shows(p, v)
                     /\ current' = [q \in Pages |-> q = p]
                ELSE Outdate(p) /\ UNCHANGED <<server, forced, given, page>>
  BY DEF AddPeer
<1> DEFINE new == [name |-> n, key |-> keys', ip |-> ip]
<1>3. /\ home' = [home EXCEPT !.peers = @ \cup {new}]
      /\ \/ /\ Apply(home') /\ Shows(p, home') /\ current' = [q \in Pages |-> q = p]
            /\ given' = given \cup {ClientConf(home, keys', ip)}
         \/ Outdate(p) /\ UNCHANGED <<server, forced, given, page>>
  BY <1>2
<1>4. /\ home'.peers = home.peers \cup {new} /\ home'.pub = home.pub /\ home'.priv = home.priv
      /\ new.key = keys' /\ new.ip = ip /\ home \in Section
  BY <1>3 DEF PairInv, WgInv, TypeOK, Section
<1>5. home' \in Section
  BY DEF WgInv, TypeOK
<1>6. home'.priv \in {0, home'.pub} /\ (home.pub # 0 /\ home.endpoint = TRUE)
  BY <1>1, <1>4 DEF PairInv, PubInv, CanShow, Section
<1> HIDE DEF new
<1>7. CASE /\ Apply(home') /\ Shows(p, home') /\ current' = [q \in Pages |-> q = p]
           /\ given' = given \cup {ClientConf(home, keys', ip)}
  <2>1. \A q \in Pages : /\ page'[q] = IF q = p THEN home' ELSE page[q]
                         /\ current'[q] = (q = p)
    BY <1>7 DEF Shows
  <2>2. PubInv'
    BY <1>4, <1>6, <2>1 DEF PairInv, PubInv
  <2>3. \A pub, k, addr : pub = home'.pub /\ Has(home'.peers, k, addr) => LetIn(pub, k, addr)'
    BY <1>5, <1>6, <1>7, <2>1, AppliedLetsIn
  <2>4. Keeps
    BY <1>1, <1>4, <2>3 DEF Keeps, LetIn, Has
  <2>5. ASSUME NEW text, text = ClientConf(home, keys', ip)
        PROVE  Shown(text)'
    <3>1. PICK t \in Told : /\ t.pub = home.pub /\ t.psk = home.psk /\ t.all = home.all
                           /\ t.endpoint = home.endpoint
      <4> DEFINE told == [pub |-> home.pub, psk |-> home.psk, all |-> home.all, endpoint |-> TRUE]
      <4>1. told \in Told /\ told.pub = home.pub /\ told.psk = home.psk /\ told.all = home.all
            /\ told.endpoint = home.endpoint
        BY <1>4, <1>6 DEF Told, Section
      <4> HIDE DEF told
      <4> QED BY <4>1
    <3>2. PICK k \in 1..keys' : k = keys'
      BY <1>1, MadeTyped DEF PairInv, WgInv
    <3>3. text = ClientConf(t, k, ip) /\ ip \in Hosts
      BY <2>5, <3>1, <3>2 DEF ClientConf, NextIp
    <3>4. LetIn(t.pub, k, ip)'
      <4>1. Has(home'.peers, k, ip)
        BY <1>4, <3>2 DEF Has
      <4> QED BY <1>4, <2>3, <3>1, <4>1
    <3> QED BY <3>2, <3>3, <3>4 DEF Shown
  <2> QED BY <1>7, <2>2, <2>4, <2>5
<1>8. CASE Outdate(p) /\ UNCHANGED <<server, forced, given, page>>
  <2>1. \A q \in Pages : current'[q] => current[q]
    BY <1>8 DEF Outdate
  <2>2. PubInv'
    BY <1>4, <1>6, <1>8, <2>1 DEF PairInv, PubInv
  <2>3. Keeps
    BY <1>1, <1>4, <1>8, <2>1 DEF Keeps, LetIn, Has
  <2> QED BY <1>8, <2>2, <2>3
<1> QED BY <1>3, <1>7, <1>8

LEMMA AddPastedPairs ==
  ASSUME PairInv, WgInv', NEW n \in Names, NEW ip \in Hosts, AddPasted(n, ip)
  PROVE  PubInv' /\ Keeps
<1> DEFINE new == [name |-> n, key |-> keys', ip |-> ip]
<1>1. /\ home' = [home EXCEPT !.peers = @ \cup {new}]
      /\ (Apply(home') \/ UNCHANGED <<server, forced>>)
      /\ current' = [q \in Pages |-> FALSE]
      /\ UNCHANGED <<page, void>>
  BY DEF AddPasted
<1>2. /\ home'.peers = home.peers \cup {new} /\ home'.pub = home.pub /\ home'.priv = home.priv
      /\ home' \in Section
  BY <1>1 DEF PairInv, WgInv, TypeOK, Section
<1> HIDE DEF new
<1>3. PubInv'
  BY <1>1, <1>2 DEF PairInv, PubInv
<1>4. Keeps
  <2>1. CASE Apply(home')
    <3>1. \A pub, k, addr : pub = home'.pub /\ Has(home'.peers, k, addr) => LetIn(pub, k, addr)'
      BY <1>1, <1>2, <1>3, <2>1, AppliedLetsIn DEF PubInv
    <3> QED BY <1>1, <1>2, <3>1 DEF Keeps, LetIn, Has
  <2>2. CASE UNCHANGED <<server, forced>>
    BY <1>1, <1>2, <2>2 DEF Keeps, LetIn, Has
  <2> QED BY <1>1, <2>1, <2>2
<1> QED BY <1>3, <1>4

\* The devices of other names stay.
LEMMA RemovePeerPairs ==
  ASSUME PairInv, NEW p \in Callers, NEW n \in Names, RemovePeer(p, n)
  PROVE  PubInv' /\ Keeps
<1>1. /\ home' = [home EXCEPT !.peers = {q \in @ : q.name # n}]
      /\ void' = void \cup KeysOf(n)
      /\ Apply(home')
      /\ page' = [q \in Pages |-> IF q = p THEN home' ELSE page[q]]
      /\ current' = [q \in Pages |-> q = p]
  BY DEF RemovePeer, Shows
<1>2. /\ home'.peers = {q \in home.peers : q.name # n} /\ home'.pub = home.pub
      /\ home'.priv = home.priv /\ home' \in Section
  BY <1>1 DEF PairInv, WgInv, TypeOK, Section
<1>3. PubInv'
  BY <1>1, <1>2 DEF PairInv, PubInv
<1>4. \A pub, k, ip : pub = home'.pub /\ Has(home'.peers, k, ip) => LetIn(pub, k, ip)'
  BY <1>1, <1>2, <1>3, AppliedLetsIn DEF PubInv
<1>5. \A k, ip : k \notin void' /\ Has(home.peers, k, ip) => Has(home'.peers, k, ip)
  BY <1>1, <1>2 DEF KeysOf, Has
<1>6. Keeps
  BY <1>1, <1>2, <1>4, <1>5 DEF Keeps, LetIn
<1> QED BY <1>3, <1>6

LEMMA NextPair == PairInv /\ [Next]_vars => PairInv'
<1> SUFFICES ASSUME PairInv, [Next]_vars PROVE PairInv'
  OBVIOUS
<1>1. WgInv'
  BY NextWg DEF PairInv
<1>2. 1..keys \subseteq 1..keys'
  <2>1. keys' = keys \/ keys' = keys + 1
    BY DEF Next, vars, Load, Save, GenServerKey, AddPeer, AddPasted, RemovePeer
  <2>2. keys \in Nat
    BY MadeTyped DEF PairInv, WgInv
  <2> QED BY <2>1, <2>2
<1>3. SUFFICES PubInv' /\ Keeps /\ \A text \in given' \ given : Shown(text)'
  BY <1>1, <1>2, ShownKept DEF PairInv, ShownInv
<1>4. CASE \E p \in Pages : Load(p)
  BY <1>4, LoadPairs DEF Load
<1>5. CASE \E p \in Pages : Save(p)
  BY <1>5, SavePairs DEF Save
<1>6. CASE \E p \in Callers : GenServerKey(p)
  BY <1>6, GenServerKeyPairs DEF GenServerKey
<1>7. CASE \E p \in Callers, n \in Names : AddPeer(p, n)
  BY <1>1, <1>7, AddPeerPairs
<1>8. CASE \E p \in Callers, n \in Names : RemovePeer(p, n)
  BY <1>8, RemovePeerPairs DEF RemovePeer
<1>9. CASE \E n \in Names, ip \in Hosts : AddPasted(n, ip)
  BY <1>1, <1>9, AddPastedPairs DEF AddPasted
<1>10. CASE UNCHANGED vars
  <2>1. PubInv' /\ given' = given
    BY <1>10 DEF vars, PairInv, PubInv
  <2>2. Keeps
    BY <1>10 DEF vars, Keeps, LetIn, Has, Serves
  <2> QED BY <2>1, <2>2
<1> QED BY <1>4, <1>5, <1>6, <1>7, <1>8, <1>9, <1>10 DEF Next

LEMMA AlwaysPair == Spec => []PairInv
  BY InitPair, NextPair, PTL DEF Spec

\* Whatever the home box showed can be imported by a travel box, because it
\* shows nothing without a public key and an endpoint (vpn/mod.rs 619-740).
THEOREM ShownIsImported == Spec => []GivenParses
<1>1. PairInv => GivenParses
  <2> SUFFICES ASSUME PairInv, NEW text \in given PROVE Import(text) # {}
    BY DEF GivenParses
  <2>1. PICK v \in Told, k \in 1..keys, ip \in Hosts : text = ClientConf(v, k, ip)
    BY DEF PairInv, ShownInv, Shown
  <2>2. k \in Nat \ {0} /\ ip \in Nat \ {0}
    BY MadeTyped, PairingAssumption DEF PairInv, WgInv
  <2>3. Import(text) = {[key |-> k, ip |-> ip, server |-> v.pub, psk |-> v.psk, all |-> v.all]}
    BY <2>1, <2>2, ImportReads
  <2>4. \A c : {c} # {}
    OBVIOUS
  <2> QED BY <2>3, <2>4
<1> QED BY <1>1, AlwaysPair, PTL

\* A travel box with a configuration that the home box showed, and that was
\* not given up, pairs with it whenever the server runs, whatever other devices,
\* modes and pages did meanwhile (vpn/mod.rs 574-740, api.rs 539, 581-718).
THEOREM ShownPairs == Spec => []GivenPairs
<1>1. PairInv => GivenPairs
  <2> SUFFICES ASSUME PairInv, server # None /\ ~forced,
                      NEW text \in given, NEW c \in Import(text), c.key \notin void /\ ~c.psk
               PROVE  Paired(c)
    BY DEF GivenPairs
  <2>1. PICK v \in Told, k \in 1..keys, ip \in Hosts :
           text = ClientConf(v, k, ip) /\ (k \notin void => LetIn(v.pub, k, ip))
    BY DEF PairInv, ShownInv, Shown
  <2>2. k \in Nat \ {0} /\ ip \in Nat \ {0}
    BY MadeTyped, PairingAssumption DEF PairInv, WgInv
  <2>3. c = [key |-> k, ip |-> ip, server |-> v.pub, psk |-> v.psk, all |-> v.all]
    BY <2>1, <2>2, ImportReads
  <2>4. c.key = k /\ c.ip = ip /\ c.server = v.pub
    BY <2>3
  <2>5. Serves(server, v.pub, k, ip)
    BY <2>1, <2>4 DEF LetIn
  <2> QED BY <2>4, <2>5 DEF Paired, Serves, Has
<1> QED BY <1>1, AlwaysPair, PTL
=============================================================================
