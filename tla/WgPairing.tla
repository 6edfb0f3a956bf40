----------------------------- MODULE WgPairing ------------------------------
(***************************************************************************)
(* Pairing a travel box with a home box over WireGuard: the keys, peers    *)
(* and configuration files of src/vpn/mod.rs, the handlers of              *)
(* src/web/api.rs that use them, and the VPN page of the home box          *)
(* (templates/vpn.html), which holds a copy of the whole VPN section from  *)
(* when it was loaded, and saves that copy whole.                          *)
(*                                                                         *)
(* Handlers save and apply here without failing and one after the other;   *)
(* ConfigStore and VpnApply have the rest.  A key pair is a number, 0 is   *)
(* the empty string.                                                       *)
(***************************************************************************)
EXTENDS Naturals, FiniteSets, Sequences

CONSTANTS
    Pages,    \* VPN pages of the home box that are open
    Script,   \* a caller of the API that keeps no copy
    Names,    \* names of travel devices
    Hosts,    \* last bytes next_tunnel_ip tries, 2..254 in the code
    MaxKeys,  \* bound on key pairs made
    None

ASSUME PairingAssumption == Script \notin Pages /\ Hosts \subseteq Nat \ {0} /\ MaxKeys \in Nat

VARIABLES
    home,     \* VPN section of the home box, in memory
    page,     \* page[p]: the copy page p has of it
    current,  \* current[p]: nothing was changed elsewhere since p took its copy
    server,   \* the server wg0 of the home box, or None
    forced,   \* it was brought up from a section validate() refuses
    given,    \* client configurations the home box has shown
    void,     \* keys of devices whose configuration the user has given up
    removed,  \* keys of devices that were removed
    keys      \* key pairs made

vars == <<home, page, current, server, forced, given, void, removed, keys>>

Key  == 0..MaxKeys
Peer == [name : Names, key : Key, ip : Hosts]

Section ==
    [mode : {"off", "travel", "home"},  \* backend and role
     endpoint : BOOLEAN,
     client : BOOLEAN,                  \* wg_private_key and wg_peer_public_key
     psk : BOOLEAN, all : BOOLEAN,      \* wg_preshared_key, wg_route_all
     priv : Key, pub : Key,             \* wg_server_{private,public}_key
     peers : SUBSET Peer]

TypeOK ==
    /\ home \in Section /\ page \in [Pages -> Section]
    /\ current \in [Pages -> BOOLEAN]
    /\ server \in [key : Key, peers : SUBSET Peer] \cup {None}
    /\ forced \in BOOLEAN
    /\ void \subseteq Key /\ removed \subseteq Key /\ keys \in Key

\* The default section, or that of a box that travelled before.
Init ==
    /\ home \in [mode : {"off"}, endpoint : {FALSE}, client : {FALSE}, psk : {FALSE},
                 all : {TRUE}, priv : {0}, pub : {0}, peers : {{}}]
                \cup [mode : {"travel"}, endpoint : {TRUE}, client : {TRUE}, psk : BOOLEAN,
                      all : {TRUE}, priv : {0}, pub : {0}, peers : {{}}]
    /\ page = [p \in Pages |-> home]
    /\ current = [p \in Pages |-> TRUE]
    /\ server = None /\ forced = FALSE
    /\ given = {} /\ void = {} /\ removed = {} /\ keys = 0

-----------------------------------------------------------------------------
(* Sections, and the files made from them *)

\* Faulty variant: two peers may have one address.
ValidNoDuplicates(v) ==
    CASE v.mode = "off"    -> TRUE
      [] v.mode = "travel" -> v.client /\ v.endpoint
      [] v.mode = "home"   -> v.priv # 0 /\ v.endpoint

\* The WireGuard part of VpnConfig::validate.
Valid(v) ==
    CASE v.mode = "off"    -> TRUE
      [] v.mode = "travel" -> v.client /\ v.endpoint
      [] v.mode = "home"   -> /\ v.priv # 0 /\ v.endpoint
                              /\ \A p, q \in v.peers : p.ip = q.ip => p = q

\* wg_server_apply of the home box: a server without a private key does not
\* come up, and for the other modes the interface is taken down.
Serve(v) ==
    IF v.mode = "home" /\ v.priv # 0 THEN [key |-> v.priv, peers |-> v.peers] ELSE None

\* next_tunnel_ip: the first address no peer has, if there is one.
NextIp(v) ==
    LET free == Hosts \ {p.ip : p \in v.peers}
    IN  {h \in free : \A g \in free : h <= g}

Heading(section) == [section |-> section, key |-> "", vals |-> <<>>]
Field(key, vals) == [section |-> "", key |-> key, vals |-> vals]

\* Faulty variant: the endpoint is not looked at.
CanShowKeyOnly(v) == v.pub # 0

\* peer_client_conf refuses without a public key or endpoint to tell a device.
CanShow(v) == v.pub # 0 /\ v.endpoint

\* peer_client_conf, for private key k and address ip.
ClientConf(v, k, ip) ==
    <<Heading("interface"), Field("privatekey", <<k>>), Field("address", <<ip>>),
      Heading("peer"), Field("publickey", <<v.pub>>)>>
    \o (IF v.psk THEN <<Field("presharedkey", <<>>)>> ELSE <<>>)
    \o <<Field("endpoint", <<v.endpoint>>),
         Field("allowedips", <<IF v.all THEN "everything" ELSE "subnet">>)>>

\* What a line does to what import_conf has read so far.  Of several addresses
\* in a line the first counts; an IPv6 address is 0 and is passed over.
ReadLine(r, line) ==
    IF line.section # "" THEN [r EXCEPT !.section = line.section]
    ELSE CASE r.section = "interface" /\ line.key = "privatekey" -> [r EXCEPT !.key = line.vals[1]]
           [] r.section = "interface" /\ line.key = "address" ->
                IF r.ip # 0 THEN r ELSE [r EXCEPT !.ip = line.vals[1]]
           [] r.section = "peer" /\ line.key = "publickey" -> [r EXCEPT !.server = line.vals[1]]
           [] r.section = "peer" /\ line.key = "presharedkey" -> [r EXCEPT !.psk = TRUE]
           [] r.section = "peer" /\ line.key = "endpoint" -> [r EXCEPT !.endpoint = line.vals[1]]
           [] r.section = "peer" /\ line.key = "allowedips" ->
                [r EXCEPT !.all = \E i \in DOMAIN line.vals : line.vals[i] = "everything"]
           [] OTHER -> r

NothingRead == [section |-> "", key |-> 0, ip |-> 0, server |-> 0, psk |-> FALSE,
                endpoint |-> FALSE, all |-> TRUE]

\* What import_conf has read at the end of the text.
ReadText(text) ==
    LET read[i \in 0..Len(text)] ==
            IF i = 0 THEN NothingRead ELSE ReadLine(read[i - 1], text[i])
    IN  read[Len(text)]

\* import_conf: the sections it reads, none when a required field is missing.
Import(text) ==
    LET r == ReadText(text)
    IN  IF r.key = 0 \/ r.ip = 0 \/ r.server = 0 \/ ~r.endpoint THEN {}
        ELSE {[key |-> r.key, ip |-> r.ip, server |-> r.server, psk |-> r.psk, all |-> r.all]}

-----------------------------------------------------------------------------
(* The page and the handlers of the home box *)

\* readFields of the page in mode m: what its form has no field for is read as
\* empty, and what it has a field for is as the user left it.
Fields(v, m) ==
    LET typed == [v EXCEPT !.mode = m]
    IN  CASE m = "off"    -> {typed}
          [] m = "travel" -> {[typed EXCEPT !.priv = 0, !.endpoint = e] : e \in BOOLEAN}
          [] m = "home"   -> {[typed EXCEPT !.client = FALSE, !.psk = FALSE, !.all = FALSE,
                                            !.endpoint = e] : e \in BOOLEAN}

Load(p) ==
    /\ page' = [page EXCEPT ![p] = home]
    /\ current' = [current EXCEPT ![p] = TRUE]
    /\ UNCHANGED <<home, server, forced, given, void, removed, keys>>

Callers == Pages \cup {Script}

Shows(p, v) == page' = [q \in Pages |-> IF q = p THEN v ELSE page[q]]

\* Only the page that made a change knows of it.
Outdate(p) == current' = [q \in Pages |-> q = p /\ current[p]]

Apply(v) == server' = Serve(v) /\ forced' = ~Valid(v)

\* Save & Apply: the copy replaces the section, whatever was changed since.
Save(p) ==
    /\ \E m \in {"off", "travel", "home"} : \E v \in Fields(page[p], m) :
         /\ home' = v /\ Shows(p, v)
         /\ IF Valid(v) THEN Apply(v) ELSE UNCHANGED <<server, forced>>
    /\ Outdate(p)
    /\ IF current[p] THEN UNCHANGED <<void, removed>> ELSE void' = 1..keys /\ removed' = {}
    /\ UNCHANGED <<given, keys>>

\* Generate server key, a button of the home form: saved and shown, not applied.
GenServerKey(p) ==
    /\ keys < MaxKeys /\ keys' = keys + 1
    /\ home' = [home EXCEPT !.priv = keys', !.pub = keys']
    /\ IF p = Script THEN UNCHANGED page
       ELSE \E v \in Fields(page[p], "home") : Shows(p, [v EXCEPT !.priv = keys', !.pub = keys'])
    /\ Outdate(p)
    /\ void' = void \cup 1..keys
    /\ UNCHANGED <<server, forced, given, removed>>

\* Add a travel device: refused for a taken name, with no address left, or
\* without a public key or endpoint to tell the device.  The new peer stays in
\* memory when validation then refuses it.
AddPeer(p, n) ==
    /\ keys < MaxKeys /\ keys' = keys + 1
    /\ \A q \in home.peers : q.name # n
    /\ CanShow(home)
    /\ \E ip \in NextIp(home) :
         LET v == [home EXCEPT !.peers = @ \cup {[name |-> n, key |-> keys', ip |-> ip]}]
         IN  /\ home' = v
             /\ IF Valid(v)
                THEN /\ Apply(v)
                     /\ given' = given \cup {ClientConf(home, keys', ip)}
                     /\ Shows(p, v)
                     /\ current' = [q \in Pages |-> q = p]
                ELSE Outdate(p) /\ UNCHANGED <<server, forced, given, page>>
    /\ UNCHANGED <<void, removed>>

\* A device that brings its own key and address, through the API.
AddPasted(n, ip) ==
    /\ keys < MaxKeys /\ keys' = keys + 1
    /\ \A q \in home.peers : q.name # n
    /\ home' = [home EXCEPT !.peers = @ \cup {[name |-> n, key |-> keys', ip |-> ip]}]
    /\ IF Valid(home') THEN Apply(home') ELSE UNCHANGED <<server, forced>>
    /\ current' = [q \in Pages |-> FALSE]
    /\ UNCHANGED <<page, given, void, removed>>

KeysOf(n) == {q.key : q \in {r \in home.peers : r.name = n}}

\* Faulty variant: the peer goes from the file and stays on the interface.
RemoveKeepsServer(p, n) ==
    /\ \E q \in home.peers : q.name = n
    /\ home' = [home EXCEPT !.peers = {q \in @ : q.name # n}]
    /\ void' = void \cup KeysOf(n) /\ removed' = removed \cup KeysOf(n)
    /\ Shows(p, home')
    /\ current' = [q \in Pages |-> q = p]
    /\ UNCHANGED <<server, forced, given, keys>>

\* Remove a device: saved and applied unvalidated.
RemovePeer(p, n) ==
    /\ \E q \in home.peers : q.name = n
    /\ home' = [home EXCEPT !.peers = {q \in @ : q.name # n}]
    /\ void' = void \cup KeysOf(n) /\ removed' = removed \cup KeysOf(n)
    /\ Apply(home')
    /\ Shows(p, home')
    /\ current' = [q \in Pages |-> q = p]
    /\ UNCHANGED <<given, keys>>

Next ==
    \/ \E p \in Pages : Load(p) \/ Save(p)
    \/ \E p \in Callers :
         \/ GenServerKey(p)
         \/ \E n \in Names : AddPeer(p, n) \/ RemovePeer(p, n)
    \/ \E n \in Names, ip \in Hosts : AddPasted(n, ip)

Spec == Init /\ [][Next]_vars

-----------------------------------------------------------------------------
(* Properties *)

\* A travel box with section c, as import_conf read it and wg_client_conf
\* writes it, and the server accept each other, and the address of the travel
\* box is routed back to it.  wg_server_conf knows no preshared key.
Paired(c) ==
    /\ c.server = server.key /\ ~c.psk
    /\ \E p \in server.peers : p.key = c.key /\ p.ip = c.ip
    /\ \A p \in server.peers : p.ip = c.ip => p.key = c.key

\* A travel box that imports what the home box showed it pairs with it whenever
\* the server runs, through every later change of the home box: other devices,
\* other modes and back, saves from a page that is up to date.  What ends a
\* pairing is removing the device, a new server key, a save from a page with an
\* older copy, a removal that applies a peer validation had refused, or a
\* preshared key (vpn/mod.rs 574-755, api.rs 539, 581-718).
GivenPairs ==
    server # None /\ ~forced =>
        \A text \in given : \A c \in Import(text) : c.key \notin void /\ ~c.psk => Paired(c)

\* What the home box shows can be imported.
GivenParses == \A text \in given : Import(text) # {}

\* A device that was removed is not let in again by anything but a save from a
\* page that still lists it (api.rs 539, 699-718).
RemovedIsOut == server # None => \A p \in server.peers : p.key \notin removed

-----------------------------------------------------------------------------
(* What the documentation says and the code does not do *)

\* docs/VPN_GUIDE.md 261: "Search 'what is my IP' while connected to the travel
\* box - it should be your home address".
TrafficGoesHome == \A text \in given : \A c \in Import(text) : c.all
=============================================================================
