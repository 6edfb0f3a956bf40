------------------------------ MODULE Settings ------------------------------
(***************************************************************************)
(* The daemon's configuration (src/config.rs) and what each request of the *)
(* web API (src/web/api.rs) does to it.  This module has no state: it says *)
(* which configurations exist, which of them Config::validate accepts, and *)
(* which edit each handler makes to the copy it holds under the lock.      *)
(*                                                                         *)
(* The 19 fields of Config are grouped into the sections the handlers      *)
(* write as a unit:                                                        *)
(*    ap   access point, DHCP, hostname and power fields                   *)
(*    sta  the saved uplink (sta_ssid, sta_password)                       *)
(*    web  web_password                                                    *)
(*    ro   rootfs_readonly                                                 *)
(*    vpn  the nested VpnConfig                                            *)
(***************************************************************************)

CONSTANTS
    ApForms,     \* values the access-point section can take
    GoodAp,      \* those of them validate() accepts
    DefaultAp,   \* the section of Config::default()
    Uplinks,     \* networks a client may ask to join
    NoUplink,    \* empty sta_ssid
    Passwords,   \* non-empty web passwords
    NoPassword,  \* the empty web password
    Keys,        \* WireGuard key pairs, named by their public half
    NoKey,       \* an empty key field
    PeerNames,
    PeerIps,     \* well-formed tunnel addresses
    BadIp,       \* an unparsable address, or a peer whose key is missing
    AnyIp,       \* an "add" request that leaves key and address to the box
    Unset        \* a field absent from a request body

ASSUME ApAssumption == DefaultAp \in GoodAp /\ GoodAp \subseteq ApForms
ASSUME KeyAssumption == NoKey \notin Keys

-----------------------------------------------------------------------------
(* VpnConfig.  `mode' merges backend and role; `filled' says that every    *)
(* other field the mode needs (endpoint, tunnel address, listen port, auth *)
(* key, exit node) is present and well-formed.                             *)
Modes == {"none", "tailscale", "travel", "home"}

Peer == [name : PeerNames, ip : PeerIps \cup {BadIp}]

VpnConfig ==
    [mode      : Modes,
     filled    : BOOLEAN,
     ownKey    : Keys \cup {NoKey},   \* wg_private_key
     peerKey   : Keys \cup {NoKey},   \* wg_peer_public_key
     serverKey : Keys \cup {NoKey},   \* wg_server_{private,public}_key
     peers     : SUBSET Peer]         \* wg_peers, order left out

Config ==
    [ap  : ApForms,
     sta : Uplinks \cup {NoUplink},
     web : Passwords \cup {NoPassword},
     ro  : BOOLEAN,
     vpn : VpnConfig]

DefaultVpn ==
    [mode |-> "none", filled |-> FALSE, ownKey |-> NoKey, peerKey |-> NoKey,
     serverKey |-> NoKey, peers |-> {}]

Default ==
    [ap |-> DefaultAp, sta |-> NoUplink, web |-> NoPassword, ro |-> FALSE,
     vpn |-> DefaultVpn]

-----------------------------------------------------------------------------
(* VpnConfig::validate and Config::validate. *)
PeersValid(peers) ==
    \A p \in peers : /\ p.ip # BadIp
                     /\ \A q \in peers : q.ip = p.ip => q = p

VpnValid(v) ==
    CASE v.mode = "none"      -> TRUE
      [] v.mode = "tailscale" -> v.filled
      [] v.mode = "travel"    -> v.filled /\ v.ownKey # NoKey /\ v.peerKey # NoKey
      [] v.mode = "home"      -> v.filled /\ v.serverKey # NoKey /\ PeersValid(v.peers)

Valid(c) == c.ap \in GoodAp /\ VpnValid(c.vpn)

-----------------------------------------------------------------------------
(* Request bodies, one kind per state-changing route.                      *)
Request ==
    [kind : {"config"}, ap  : ApForms \cup {Unset},
                        sta : Uplinks \cup {NoUplink, Unset},
                        web : Passwords \cup {NoPassword, Unset}]
    \cup [kind : {"vpn"}, vpn : VpnConfig]
    \cup [kind : {"genkeys"}, scope : {"client", "server", "other"}, key : Keys]
    \cup [kind : {"add"}, name : PeerNames, ip : PeerIps \cup {BadIp, AnyIp}]
    \cup [kind : {"remove"}, name : PeerNames]
    \cup [kind : {"writable"}]
    \cup [kind : {"connect"}, sta : Uplinks, persist : BOOLEAN]
    \cup [kind : {"disconnect"}, persist : BOOLEAN]
    \cup [kind : {"reset"}]

\* Faulty variant: api_config_post forgets to validate.
ValidatedButConfig == {"vpn", "add"}

\* The three handlers that validate what they edited before saving it.
Validated == {"config", "vpn", "add"}

\* The handlers that start a background task once the save has succeeded.
SpawnsApply == {"config", "reset"}
SpawnsVpn   == {"vpn", "add", "remove"}

\* Faulty variant: an absent field overwrites the old one.
TakeAlways(field, old) == field

Take(field, old) == IF field = Unset THEN old ELSE field

\* api_config_post: every field present in the body replaces the old one.
ConfigEdit(r, c) ==
    {[c EXCEPT !.ap = Take(r.ap, @), !.sta = Take(r.sta, @), !.web = Take(r.web, @)]}

\* api_vpn_genkeys: "client" stores the new pair's public half as the peer's.
GenkeysEdit(r, c) ==
    CASE r.scope = "server" -> {[c EXCEPT !.vpn.serverKey = r.key]}
      [] r.scope = "client" -> {[c EXCEPT !.vpn.ownKey = r.key, !.vpn.peerKey = r.key]}
      [] r.scope = "other"  -> {}

\* vpn::gen_peer: a free address, and the server key and endpoint the client
\* configuration quotes; no address left, or one of those missing, is refused.
GenPeer(name, v) ==
    IF v.serverKey = NoKey \/ ~v.filled THEN {}
    ELSE {[name |-> name, ip |-> i] : i \in PeerIps \ {p.ip : p \in v.peers}}

\* api_vpn_peers, "add": a taken name is refused before anything is edited.
AddEdit(r, c) ==
    IF \E p \in c.vpn.peers : p.name = r.name THEN {}
    ELSE LET new == IF r.ip = AnyIp THEN GenPeer(r.name, c.vpn)
                                    ELSE {[name |-> r.name, ip |-> r.ip]}
         IN  {[c EXCEPT !.vpn.peers = @ \cup {p}] : p \in new}

\* api_vpn_peers, "remove": every peer of that name, or 404 when there is none.
RemoveEdit(r, c) ==
    IF \E p \in c.vpn.peers : p.name = r.name
    THEN {[c EXCEPT !.vpn.peers = {p \in @ : p.name # r.name}]}
    ELSE {}

\* The configurations a handler may leave in memory before it validates or
\* saves; none when it refuses the request without touching the memory.
Edits(r, c) ==
    CASE r.kind = "config"     -> ConfigEdit(r, c)
      [] r.kind = "vpn"        -> {[c EXCEPT !.vpn = r.vpn]}
      [] r.kind = "genkeys"    -> GenkeysEdit(r, c)
      [] r.kind = "add"        -> AddEdit(r, c)
      [] r.kind = "remove"     -> RemoveEdit(r, c)
      [] r.kind = "writable"   -> {[c EXCEPT !.ro = FALSE]}
      [] r.kind = "connect"    -> {[c EXCEPT !.sta = r.sta]}
      [] r.kind = "disconnect" -> {[c EXCEPT !.sta = NoUplink]}
      [] r.kind = "reset"      -> {Default}
=============================================================================
