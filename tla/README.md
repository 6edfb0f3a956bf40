# A TLA+ model of rust-travel-router

`travel-net` is one Rust daemon (`src/main.rs`) on a small Linux box with one
radio. It joins a WiFi network as a client (the *uplink*), offers an access
point on the same radio, hands out addresses with dnsmasq, rewrites the nft
ruleset, brings up WireGuard or Tailscale, and serves a web UI through which all
of it is configured. Almost all its effects are external commands: `nft`, `iw`,
`hostapd`, `wg-quick`, `tailscale`, `wpa_cli`.

What makes it hard to test is not any single command but their interleaving.
Handlers run on a multi-threaded tokio runtime, most saves leave a background
task behind, the access point has a monitor of its own, and the daemon may be
killed at any point and restarted by systemd (`Restart=always`).

Paths below are relative to the repository (`src/` is its Rust source).

## 1. Inventory

| Component | Source | State | Operations | Talks to |
|---|---|---|---|---|
| Configuration values | `src/config.rs` | none (a value) | defaults, `validate`, serde | everything |
| Configuration file | `src/system/remount.rs`, `src/config.rs` | `config.json`, one shared `config.json.tmp` | `save_config`, `load` | handlers, `apply_config`, boot |
| Configuration store | `src/web/api.rs`, `src/web/mod.rs` | `RwLock<Config>`, `WEB_PASSWORD` | one handler per route | file, background tasks |
| Background application | `src/ap/apply.rs`, `api.rs` | a clone of the configuration per task | `apply_config`, `vpn::apply` | access point, DHCP, firewall, VPN |
| VPN | `src/vpn/mod.rs` | nft table `travel-vpn`, its kill-switch chain, `wg0.conf`, `wg0`, tailscaled, `LAST_VPN_ERROR` | `apply`, `nft_assert`, `reassert_rules`, `sync_kill_switch`, `status`, keys, peers, import, install | firewall, web |
| Firewall | `src/firewall/mod.rs` | the main ruleset (begins with `flush ruleset`) | `apply_ruleset`, `detect_uplink` | VPN, client blocking |
| Access point | `src/ap/*.rs` | hostapd, its file, the virtual interface | `start_ap`, `start_hostapd`, `stop_ap`, `restart_ap_on_channel`, channel monitor | radio, DHCP |
| DHCP | `src/dhcp/mod.rs` | dnsmasq and its file | start, stop, generate | access point |
| Web sessions | `src/web/auth.rs` | one session map per worker thread, `WEB_PASSWORD` | login, check, clear | every handler |
| WiFi client | `src/wifi/*.rs` | `wpa_supplicant.conf`, wpa_supplicant | connect, disconnect, scan, status | web, monitor (through the radio) |
| Client list | `src/system/clients.rs` | nft table `travel-net-block`, leases | block, unblock, list | firewall (flushes it) |
| VPN page | `templates/vpn.html` | a copy of the VPN section per open page | load, save, keys, add, remove, import | web |
| Boot | `src/main.rs` | none | load, AP, DHCP, firewall, monitor, VPN, web | all |

Interactions that carry the risk:

* **calls under a lock** - edits, validation and the save of most handlers run
  under the write lock; `connect` and `disconnect` hold the read lock over a
  WiFi command first;
* **calls without it** - `api_reset` saves the defaults before it asks for the
  lock, `apply_config` saves its clone again;
* **shared names** - one temporary file, one nft table, one `wg0.conf`, one
  hostapd file, one interface name, all used by tasks nobody orders;
* **re-assertion** - `apply_ruleset` wipes what the VPN set up and puts it back;
* **a second owner** - the channel monitor restarts hostapd and dnsmasq from the
  configuration of the boot.

### What has to be right

* Store: the file can be loaded at every moment; memory, disk and credential
  agree when nothing is in flight; a task only gets a validated configuration;
  nobody waits for ever.
* VPN: no rule or tunnel outlives the settings that asked for it; a travel box
  does not leak before its tunnel is up; errors are shown.
* Access point: it comes back, on the channel the radio is bound to, with DHCP.
* Sessions: the login accepts the configured password and no other; a session
  is open where its login was answered, for as long as it should be.
* WiFi client: the list of known networks is edited one entry at a time, and
  wpa_supplicant works from it.
* Client blocking: what the page shows as blocked is dropped.
* Pairing: what the home box hands to a travel box can be imported and
  works with the server that runs.

## 2. Modules

| Module | Models |
|---|---|
| `Settings` | the values of `Config`, which of them `validate` accepts, the edit each handler makes |
| `ConfigFile` | `save_config` and `load` over files and names |
| `ConfigStore` | the handlers, the lock, the credential, background tasks, failures, restarts; extends the two above |
| `ConfigRegister` | what the store promises: a memory and a saved copy replaced as a whole |
| `ConfigStoreProofs` | theorems about `ConfigStore` for requests that overlap |
| `SerialStoreProofs` | theorems about `ConfigStore` for requests that wait for one another |
| `VpnApply` | `vpn::apply` and `apply_ruleset` as programs of commands of concurrent tasks |
| `VpnApplyProofs` | theorems about `VpnApply` |
| `ApMonitor` | boot, `apply_config` and the monitor starting and stopping hostapd and dnsmasq |
| `ApMonitorProofs` | theorems about `ApMonitor` |
| `WifiConnect` | joining, forgetting and leaving networks over one unlocked `wpa_supplicant.conf`, and the connect at boot |
| `NetworkList` | what that file promises: one entry edited at a time |
| `WifiConnectProofs` | theorems about `WifiConnect`, and that it implements `NetworkList` |
| `WebAuth` | login, sessions of the worker threads, password change, reset, expiry |
| `WebAuthProofs` | theorems about `WebAuth` |
| `ClientBlock` | the block table: its build, elements, flushes, failures, restarts |
| `ClientBlockProofs` | theorems about `ClientBlock` |
| `WgPairing` | keys, peers and configuration files of a home box, the VPN page's copies, and the import on a travel box |
| `WgPairingProofs` | theorems about `WgPairing` |
| `MCConfigStore`, `MCVpnApply`, `MCApMonitor`, `MCWifiConnect`, `MCWebAuth`, `MCClientBlock`, `MCWgPairing` | instances for TLC |

Operators headed *Faulty variant* are not part of any specification: each is a
plausible slip in the operator after it, and shows which property notices.

### Settings and ConfigFile

The 19 fields of `Config` are grouped into the sections a handler writes as a
unit. `ap` stands for the access-point, DHCP, host name and power fields, with
`GoodAp` the values `Config::validate` accepts. `vpn` keeps what the code
branches on: the mode (backend and role), whether the other fields that mode
requires are filled in, the keys, and the peers with their addresses.
`Edits(r, c)` is the set of configurations request `r` may leave in memory; it
is a set because `gen_peer` may pick any free address here where the code takes
the lowest, and empty when the handler refuses before it edits.

`save_config` is `fs::write` to `config.json.tmp` and a rename. The model keeps
files and names apart, because they differ when two savers share the temporary
name: the second truncates the file the first is writing, or writes into the
file the first has already renamed. A file is the set of configurations whose
bytes are in it: `{}` is empty, `{c}` a document, two a document over the tail
of a longer one. Only `{c}` parses. Files are numbered by the saver that
created them, so a saver saves once: every request id is used once.

### ConfigStore

| Action | Code |
|---|---|
| `Arrive` | a request past `is_authed`: asks for the lock, or runs its WiFi command under the read lock, or (reset) saves at once |
| `CommandDone` | the command ended; the read guard is dropped before the write lock is asked for |
| `Refuse`, `Edit` | the write lock is granted; the handler refuses, or edits and, in `api_config_post`, `api_vpn_post` and `add`, validates. A refused edit stays in memory |
| `Open`, `Write`, `Rename`, `RenameMissing`, `SaveError` | `save_config`; the rename fails when another saver has taken the file |
| `AfterSave`, `AfterFailedSave` | clone, drop the guard, spawn; or 500 (ignored by connect and disconnect) |
| `Install`, `ClearCredential` | the rest of `api_reset` |
| `Check`, `Apply` | `apply_config` before and after its own save; `vpn::apply` |
| `Restart` | the process dies, and main loads the file or exits |

`Edit` is one step from grant to validation because nothing in between awaits
and the lock excludes everyone else. The lock is granted in any order: a
superset of tokio's queue. `is_authed` takes and drops the read lock first and
is left out.

### VpnApply

A program is the list of commands a task has left. `VpnProgram` and
`FirewallProgram` are `vpn::apply` and `apply_ruleset`; `probe` is the look at
the tunnel in `sync_kill_switch`, which decides how the program ends. A request
is a VPN save (`SubmitVpn`), a configuration change (`SubmitFirewall`) or a
factory reset (`SubmitReset`), which saves a VPN turned off and runs the ruleset
task only. Any command may fail. The removals (`NftDelete`, `WgDown`, `TsDown`)
are bound to `_` in the code: a failing one is passed over, what it should have
removed stays, and `kept` remembers that until the next attempt. The others end
the task: `outcome` is then "error", or "warned" for `apply_ruleset`, which logs
a failed re-assertion and returns Ok. Only `apply_vpn_in_background` and
`tailscale_up` record an error for the page, so a failing `vpn::apply` of the
boot shows only what `tailscale_up` kept. A failing status command reads as a
tunnel that is down. Tunnels come up and drop on their own (`Handshake`,
`TailscaleChanges`). `Restart` restarts the daemon with the kernel as it was, or
after a reboot of the box.

### ApMonitor

The wpa_supplicant backend. A starter (`main`, `apply_config`) works through
its candidate channels; the monitor works through one. `iface` says whether the
virtual interface is new or was used by a hostapd before, since the code
recreates it before each attempt for that reason; the result of its `iw del` is
ignored, and an interface that is still there is used again (`ReuseInterface`). `orphan` is a hostapd whose
interface was deleted: `pgrep` finds it, so the monitor believes the access
point runs.

### WifiConnect and NetworkList

`connect_wpa_cli` and `disconnect_wpa` in steps: `Read`, `Truncate` and `Write`
(`safe_write` is `fs::write`), `Reconfigure`, then up to `Polls` looks at the
link and `Terminate`. The results of `wpa_cli` are ignored: a reconfigure,
terminate or disconnect may fail although the supplicant runs, and the request
goes on; `behind` is set when it missed a reconfigure. Requests hold only the read lock of the configuration, so
they run together, and together with the connect of `main`, whose wait is
bounded while the connect goes on. A file is a set of entries and its header; a
write over bytes another request left keeps some of them. `Associate` and `Move`
are wpa_supplicant and the world. `harmed` is set by what the code has no
protection from: two edits at the same moment, a read or write that fails, a
kill between truncation and write. `NetworkList` promises nothing after that,
and one entry at a time before it. The refinement shows the list a writer has
read while it writes.

### WebAuth

Every worker thread has a session map of its own. A request is let in on the
worker that polls it first and may go on on another after waiting for the lock,
so `Post` and `Edit` name two workers. `Install` and `Clear` are the two halves
of `api_reset`. `logins` and `ended` are history: what was answered, and what a
reset, a removed password or a restart has ended on the worker it ran on.
`validate_session` and `create_session` prune the maps (`Looked`, `Created`).
Logout changes nothing on the server and has no action. There is no limit on
attempts in the code.

### ClientBlock

`ensure_block_table` is a check and four `Add` steps whose results are ignored;
an nft command fails when what it refers to is missing, or for reasons of its
own (`Fail`). `Flush` is `apply_ruleset` (under NetworkManager it is never
called: `managed`). `cut` marks a build that a failing command or a kill cut
short; nothing but the next flush repairs that.

### WgPairing

The home box has one VPN section; each open page has a copy from when it was
loaded, and `Save` posts the copy whole. `Fields` is `readFields`: a field that
the form of the chosen role does not show is read as empty. `ClientConf` makes
the file a home box shows for a device, as a sequence of lines, and `ReadText`
reads it line by line as `import_conf` does. `Serve` is the server interface an apply brings up.
`Paired` compares both ends. Key pairs are numbers. `Script` is a caller of the
API without a page. History: `given` files, `void` keys (device removed, new
server key, save from an outdated page), `removed` keys.

## 3. Runs

| Run | Question | Bounds |
|---|---|---|
| `StoreOverlap` | tasks get validated clones; a torn file needs an unlocked saver; an invalid file needs a refused request; everyone is answered | 2 requests of 14 kinds and outcomes, any overlap, 1 failing write, 1 restart |
| `StoreLocked` | savers under the lock implement `ConfigRegister` | 3 requests of the 10 locked ones, any overlap, 1 failing write, 1 restart |
| `StoreSerial` | the file always parses; disk = memory; credential = configured password; a remembered network stays | 3 requests of all 14, each sent when the daemon is idle, 1 failing write, 1 restart |
| `VpnSerial` | tunnels, rules, kill switch and shown error follow the settings last applied | 3 applies, ruleset re-applies or factory resets, 6 configurations, 1 restart or reboot; every command may fail, removals unnoticed |
| `ApRecovers` | access point and DHCP come back, in step with the uplink | boot, 1 configuration change and the monitor; uplink moves once, hostapd dies once, one `iw` or `hostapd` fails; channels 0 or 11 configured, 1 or 6 on the uplink |
| `BlockTable` | shown as blocked means dropped; a build goes on; an answered block takes effect | 3 requests over 2 addresses, 1 flush, 1 failing command, 1 restart, both backends |
| `WifiList` | the file implements `NetworkList`; the supplicant has loaded it | boot and 2 requests of 6 kinds, 2 networks, 1 look, 1 change in reach, 1 failing read, write or `wpa_cli`, 1 restart |
| `AuthSessions` | own password only; sessions are logins | 2 workers, 2 requests in progress, 2 passwords, 2 logins, a TTL of 2 in 3 ticks, 1 restart |
| `WgPairs` | what was given pairs, can be imported, and a removed device stays out | 1 page and a script, 2 devices, 2 addresses, 4 key pairs |
| `VpnTunnelDrop`, `ApFiveGhz`, `WgSplitTunnel` | statements of the documentation, see *Divergences* | 1 or 2 requests |

Why these bounds: a saver takes three steps and meets at most one other on the
shared file, so two overlapping requests with their tasks (four savers) already
show every pairing; the third request of the other store runs is there to
observe what two left behind. One failing write and one restart, at any step,
give every single-failure case; a second restart starts again from a file state
the first can leave. Three applies are a first, a switch and one that observes.
One death, one move and one failing command in `ApRecovers` occur at any
moment, also during each other's recovery. In `BlockTable` two requests race
over one build and the third meets what they left, on the other side of a flush.
In `WifiList` the boot's connect is a third editor. One look instead of fifteen
leaves the timeout free to come before or after any step of the others; only
its count is smaller. Two addresses for two devices let `WgPairs` run out of
addresses, and four keys are a server key and three devices, or a server
replaced once. Two ticks to live in three let a session end while a younger one
lives.

The `StoreSerial` and `VpnSerial` runs have `Overlap = FALSE`: a client that
waits until everything it started is over. That is how the web page is used,
and not what the code enforces; with overlap several of these properties do not
hold, which the divergences below show where a document says otherwise. In
these runs the interleavings are those of handler, task, faults and restart.

### Fairness

`FairSpec` of the store: a handler that can go on does, the tokio runtime polls
every ready future, and the lock queue is first come, first served. No fairness
is assumed of clients (`Arrive`), failures or restarts. The lock itself needs
no strong fairness here: a run has finitely many requests. `FairSpec` of the
access point: each starter and the monitor's loop keep running; nothing is
assumed of the uplink, of users, or of which command fails. `FairSpec` of
`ClientBlock`: a handler that runs goes on to its next command, because each is
a call that returns.

### Divergences between documents and code

Three runs each check one statement of the documentation and find it violated;
they are listed with quotations in `PROJECT.json`:

1. `VpnTunnelDrop`: nothing re-asserts the kill switch when a tunnel drops.
2. `ApFiveGhz`: with the uplink on 5 GHz the monitor takes the access point down
   and cannot bring it back.
3. `WgSplitTunnel`: the home form of the VPN page saves `wg_route_all` as false,
   so the configuration it gives to a travel box routes only the tunnel's
   subnet home, where `docs/VPN_GUIDE.md` expects all traffic.

Others were read from the code and no run is spent on them; each is the
counterpart of an exception in a property that holds:

* A refused edit stays in memory, and the next handler that does not validate
  saves it (`web/api.rs` 340, against "validate -> save" in
  `docs/VPN_TECHNICAL.md` 236). `InvalidNeedsRefusal` says that it takes a
  refusal.
* `apply_config` saves its older clone over a network connected to in the
  meantime (`ap/apply.rs` 18, against README 26). `UplinkPersists` is checked
  for requests one at a time.
* A factory reset leaves the tunnel running (`web/api.rs` 501, against
  `docs/VPN_TECHNICAL.md` 107). The kill switch goes with the ruleset flush, which
  `KillSwitchOnlyForTravel` covers; `TunnelIsWanted` and `NoneRestoresRouting`
  speak of what `vpn::apply` was last given.
* A reset saves the defaults before it waits for the lock: a handler in between
  saves the old configuration over them (`web/api.rs` 490-495).
* `api_connect` answers success although its save failed (`web/api.rs` 252): the
  network is in memory only.
* An older apply still on its way may set the kill switch after the VPN was
  turned off (`web/api.rs` 508-520, against `docs/VPN_GUIDE.md` 281).
* The monitor restarts the access point with the settings of the boot
  (`ap/mod.rs` 77-84).
* A connect that times out terminates wpa_supplicant for good, so a network that
  comes into reach later is not joined (`wifi/connect.rs` 86-88, against the
  comment at `main.rs` 43-44).
* Sessions belong to a worker thread: a login on one does not let in on another,
  and a removed password ends the sessions of the worker that removes it only.

## 4. Proofs

Every theorem is for any sets of requests, configurations, tasks, pages,
networks and keys and any bounds that satisfy the named assumptions on the
constants. Those say no more than the code does: that the default access-point
section is one that `validate` accepts (`ApAssumption` of `Settings`), that the
empty string is no key (`KeyAssumption`), that a header line is no network
(`WifiAssumption`), that `next_tunnel_ip` hands out no address 0
(`PairingAssumption`), and that bounds are numbers.

Every module's `TypeOK` is proved: `TypeCorrect`, `VpnTyped`, `ApTyped`,
`WifiTyped`, `BlockTypeCorrect`, `AuthTypeCorrect`, `WgTyped`. They carry the
lemmas the rest stands on: what each handler's edit makes of a configuration
(`EditsTyped`), that every program of commands is one however much of it is
left, that a candidate list holds channels (`PushTyped`).

### The store under any overlap (`ConfigStoreProofs`)

* `AppliedConfigsAreValid`: the clone an `apply_config` task holds has passed
  validation. `AppliedIsValid` is not inductive: a rename spawns a task with a
  clone of the memory, and nothing in it says that the memory is still the one
  validated when the save began. `HeldInv`: a handler in its save that is not a
  reset holds the write lock, and if it validates, the memory is valid, because
  whoever changes the memory must be granted the lock. `TaskInv`: a task in its
  checks or its save was spawned by `api_config_post` or `api_reset`, and its
  clone is valid. The three together (`AppliedInv`) are inductive.
* `InvalidFilesNeedRefusal`: an invalid file takes a request that was refused.
  The file alone is not inductive, because a save writes the memory, or a clone
  of it made earlier. `ValidInv`: memory, every clone and every file hold valid
  configurations. While no request was refused each step keeps that: the
  handlers that do not validate turn valid configurations into valid ones
  (`EditsKeepValid`, which needs `KeyAssumption`: `genkeys` must not store an
  empty key), and those that do validate either keep it or are refused; a
  refusal is never taken back (`RefusalStays`).
* `TornFilesNeedUnlocked`: as long as nobody saves without the lock
  (`OnlyLocked`), `HeldInv` leaves one saver at a time, and `LockedFiles` follows
  it through the save: a saver that has not opened a file has created none, so
  the temporary file is never `config.json`; it is empty after the open and holds
  the locked memory after the write; `config.json` parses. A step cannot make
  `OnlyLocked` true again (`NeverIdleAgain`), so the implication is inductive.
* `LockedStoreIsRegister`: if no request is `POST /api/config` or `POST
  /api/reset`, the store implements `ConfigRegister`. Under the same invariant
  `Edit` is an update, `Rename` a save, `Restart` a reload, and every other step
  leaves memory and saved copy as they are.

### The store for requests that wait (`SerialStoreProofs`)

`WaitingBoots`, `WaitingInStep`, `WaitingCredential` and `WaitingKeepsUplink`
are the four properties of the run `StoreSerial`, under its hypothesis
`Overlap = FALSE`. With overlap they are false, see *Divergences*, so the
hypothesis is part of what they say. One inductive invariant, `SerialInv`,
serves all four: at most one handler or task is at work, and a task after its
handler (`FlowInv`); the temporary file is not `config.json` and holds what that
one put there (`DiskInv`); what waits to be saved or applied is the memory, and
a reset has the defaults on disk before it has them in memory (`CopyInv`); the
credential follows the memory (`CredInv`); memory and disk differ only between
an edit and its save, or after a refusal or a failed save (`SyncInv`); and the
network a `connect` stored is still the memory's, so that what `apply_config`
saves again keeps it (`UplinkInv`).

### VPN (`VpnApplyProofs`)

`VpnTyped` holds for any overlap. The five others (`RoutingRestored`,
`DropOnlyForTravel`, `TunnelFollowsSettings`, `DropUntilHandshake`,
`PageShowsError`) assume `Overlap = FALSE`; with overlapping tasks TLC finds
each of the five violated. All five allow every command to fail, and each names
what a failure can leave: the first three what a removal could not remove and
nobody was told (`kept`), the fourth any failure that was reported or logged.
The properties speak of quiet states; what is inductive is the state in the
middle of a program. `VpnStage` and `FirewallStage` say, for each command list a
task may have left, what its earlier commands have made of table, rule and
tunnel: `TableGone`, `Down` and `TsGone` are what a removal achieves, unless it
failed. `TaskInv` adds that one task runs, or the two of the boot in their order,
and works from the settings last saved, so that a step meets the stage it
expects; a ruleset task that runs later puts back what it flushed. The last
`vpn::apply` was given those settings too, or a factory reset has come since.
`DropInv` is the weakest point: a rule of former settings is there until the new
task takes its first step (`Fresh`), or stays with a table that could not be
deleted. A rule is always one of an existing table, so that whoever takes the
table takes the rule.

### Access point (`ApMonitorProofs`)

`MaskTakesFailure`: when no spawn is in progress, an orphaned hostapd that makes
a dead access point look alive takes a failed command, a dead hostapd, or a
channel that `hw_mode=g` refuses. The last of the three was found by the proof:
on 2.4 GHz alone, where the run `ApRecovers` is, TLC does not need it, but with
the uplink on 5 GHz the monitor deletes the interface under a running hostapd,
fails to start its own at that channel and leaves the old process behind
(`restart_ap_on_channel`, `ap/mod.rs` 134-146). The invariant: until `main` is
through nobody else touches the access point (`BootInv`); a starter about to
recreate has a channel left (`CandInv`); every hostapd that was started, or is
about to be, has been given a file (`ConfInv`); whoever took the interface of a
running hostapd has a fresh one and has not failed yet (`MaskInv`).

### WiFi (`WifiConnectProofs`)

`SupplicantFollowsFile`: what wpa_supplicant has loaded is the file, whenever
nobody is between its write and its reconfigure, until a cut-short write, a
daemon that died before its reconfigure or a `wpa_cli` that failed has left it
`behind`; the invariant ties each of these to that flag. `NetworksKept`: `WifiConnect`
implements `NetworkList`, by step simulation: a completed write is `NetworkList`'s
edit of one entry, the truncation before it and all other steps change nothing
in the view. The invariant (`WifiInv`) says that until harm is done at most one
request is between its read and the end of its write, has read the file as it
is, and finds it empty when it writes.

### Pairing (`WgPairingProofs`)

* `ImportReads`: `import_conf` reads from any configuration `peer_client_conf`
  writes exactly what it was written from. The text has seven lines, or eight
  with a preshared key; the recursive function over its lines is unfolded line
  by line, which needs no induction.
* `RemovedStaysOut`: a removed device stays out. `WgInv`: every peer has a key
  of its own that was made, so that an added device never revives a removed key;
  an up-to-date page lists only peers the section has, so that saving it brings
  nobody back.
* `ShownIsImported` and `ShownPairs`: what the home box showed is imported, and
  pairs until it is given up. Every text shown is one for some public key,
  device key and address (`Shown`), and unless given up these are let in
  (`LetIn`): the section has that public key and device, each up-to-date page has
  the device and the public key (`PubInv`), and so has the server unless it was
  forced up. Each step `Keeps` that; `AppliedLetsIn` shows why an apply does:
  `Valid` excludes a second device with the same address.

### Client blocking and sessions

* `BuildsGoOn` and `WhatIsShownIsDropped` (`ClientBlockProofs`). `BlockedIsDropped`
  speaks of quiet states only and is not inductive; `BuildGoesOn` is the missing
  half: while the table lacks its rule, some request stands at a command whose
  operands exist and that leads to the rule. Every step either keeps that
  request, moves it on, or completes the table; a flush removes the obligation
  together with the table, and a failure or kill of a builder sets `cut`. In a
  quiet state there is no such request, so the rule is there.
* `OwnPasswordLogsIn` (`WebAuthProofs`): the credential may differ from the
  configured password only when that is empty, between the two steps of a reset,
  or after a password was set there (`raced`).
* `SessionsMatchLogins` (`WebAuthProofs`): `SessionsAreLogins` compares valid
  sessions with logins and says nothing of maps that hold more than one entry
  for a token or entries of others. The inductive invariant adds that tokens are
  issued once, that every session in a map is a login on that worker that was
  not ended, and that every login still fresh and not ended is in its map; then
  pruning by age can remove nothing that is valid.

### Only model-checked

Everything under fairness: `EveryoneSettles`, `ApInSync`, `DhcpUp`,
`AnsweredBlockTakesEffect`. Liveness and `ENABLED` are outside what the prover
can do here. Every safety property of a passing run is stated by a theorem. The
three runs that expect a violation refute what a document says; nothing is
proved there. No module that is proved about uses a RECURSIVE operator;
`Candidates` and `ReadText` are written without a fold, which the provers cannot
unfold.

## 5. What is left out

* **Power loss**: files are what a restarted process sees; unsynced pages are
  not lost. `config.json.bak` is written and never read.
* **More than one save per saver**, see above.
* **Field-level validation** of the access-point section, channel tables,
  netmasks, the arithmetic of lease times; texts of generated files other than
  the WireGuard client's; parsing of command output; package installation.
* **dnsmasq failing** in `ApRecovers`: nothing retries a dnsmasq that the
  monitor failed to start, so `DhcpUp` does not hold then. It is a hazard of its
  own in `PROJECT.json`.
* **NetworkManager** (`ap/networkmanager.rs`, `connect_nmcli`): commands over
  state that is outside the daemon.
* **WgPairing**: Tailscale fields, DNS, keepalive and ports; subnets other than
  10.0.0.0/24; keys pasted twice; failing saves and restarts, which `ConfigStore`
  has.
* **WifiConnect**: a box without a saved network, where `main` connects to
  nothing; scanning and status; the text of the file. The pattern that cuts an
  entry out (`wifi/connect.rs` 57, 135) stops at the first closing brace, so a
  password with a brace, which `wpa_passphrase` writes in a comment of the entry,
  leaves the end of the old entry in the file.
* **Pages** other than the VPN page have no state.

## 6. Plan

Done: all modules of section 2, and a theorem for every safety property that a
passing run checks.

Next, most important first:

1. Proofs about what makes the overlapping cases safe, where something does:
   which of the four serial store properties survive when only `api_config_post`
   is sent alone, and which of the five of `VpnApply` when ruleset tasks overlap
   but `vpn::apply` does not.
2. The safety half of the liveness properties: that no request of `ConfigStore`
   waits for a lock it holds, and that the monitor is never left without a next
   step.
3. Pure modules: `ConfigChecks` (fields, netmask to prefix, lease time in 32
   bits) and `ChannelPlan` (frequency to channel, least congested), each against
   a reference definition over bounded inputs.
4. `Boot`: a composition of store, access point and VPN over the order of
   `main`.
