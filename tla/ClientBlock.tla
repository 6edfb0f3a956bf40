----------------------------- MODULE ClientBlock ----------------------------
(***************************************************************************)
(* Blocking a client of the access point (src/system/clients.rs): the nft  *)
(* table travel-net-block with its set of addresses and the rule that      *)
(* drops them, under concurrent requests of the clients page, commands     *)
(* that fail, a daemon that is killed, and firewall::apply_ruleset, whose  *)
(* flush ruleset removes every table of the box.                           *)
(*                                                                         *)
(* The page shows an address as blocked when it is in the set; it is       *)
(* dropped only when the rule is there too.  ensure_block_table builds     *)
(* table, set, chain and rule by four commands whose results it ignores,   *)
(* and builds nothing when a table is already there, finished or not.      *)
(***************************************************************************)
EXTENDS Naturals

CONSTANTS
    Handlers,    \* requests of a run
    Ips,         \* addresses of clients
    Requests,    \* what they may ask: to block or to unblock an address
    MaxFlushes,  \* bound on ruleset re-applies
    MaxFaults,   \* bound on nft commands that fail for reasons of their own
    MaxRestarts  \* bound on restarts of the daemon

ASSUME BlockAssumption ==
    /\ Requests \subseteq [op : {"block", "unblock"}, ip : Ips]
    /\ MaxFlushes \in Nat /\ MaxFaults \in Nat /\ MaxRestarts \in Nat

VARIABLES
    parts,    \* what exists of the block table
    blocked,  \* elements of its set
    managed,  \* the NetworkManager backend: apply_ruleset is never called
    req,      \* req[h]: what request h asks
    pc,       \* pc[h]: the command request h runs next, or how it ended
    cut,      \* a build was cut short by a failure or a kill since the last flush
    flushes, faults, restarts

bounds == <<flushes, faults, restarts>>
vars   == <<parts, blocked, managed, req, pc, cut, bounds>>

Part  == {"table", "set", "chain", "rule"}
Ended == {"ok", "error", "lost"}

TypeOK ==
    /\ parts \subseteq Part
    /\ blocked \subseteq Ips
    /\ managed \in BOOLEAN
    /\ req \in [Handlers -> Requests]
    /\ pc \in [Handlers -> {"idle", "check", "element", "delete"} \cup Part \cup Ended]
    /\ cut \in BOOLEAN
    /\ flushes \in 0..MaxFlushes
    /\ faults \in 0..MaxFaults
    /\ restarts \in 0..MaxRestarts

Init ==
    /\ parts = {} /\ blocked = {}
    /\ managed \in BOOLEAN
    /\ req \in [Handlers -> Requests]
    /\ pc = [h \in Handlers |-> "idle"]
    /\ cut = FALSE
    /\ flushes = 0 /\ faults = 0 /\ restarts = 0

-----------------------------------------------------------------------------
Goto(h, step) == pc' = [pc EXCEPT ![h] = step]

\* What an nft command of ensure_block_table refers to.
Needs(p) ==
    CASE p = "table" -> {}
      [] p = "rule"  -> {"chain", "set"}
      [] OTHER       -> {"table"}

\* Faulty variant: the rule is left out of the build.
FollowsNoRule(p) ==
    CASE p = "table" -> "set" [] p = "set" -> "chain" [] OTHER -> "element"

\* Faulty variant: the rule is added before the set it refers to.
FollowsRuleFirst(p) ==
    CASE p = "table" -> "chain"
      [] p = "chain" -> "rule"
      [] p = "rule"  -> "set"
      [] p = "set"   -> "element"

\* The order of ensure_block_table, and then the element.
Follows(p) ==
    CASE p = "table" -> "set"
      [] p = "set"   -> "chain"
      [] p = "chain" -> "rule"
      [] p = "rule"  -> "element"

\* A request past is_authed: block_client looks for the table first,
\* unblock_client does not.
Arrive(h) ==
    /\ pc[h] = "idle"
    /\ Goto(h, IF req[h].op = "block" THEN "check" ELSE "delete")
    /\ UNCHANGED <<parts, blocked, managed, req, cut, bounds>>

\* nft list table: any table will do, however much of it there is.
Check(h) ==
    /\ pc[h] = "check"
    /\ Goto(h, IF "table" \in parts THEN "element" ELSE "table")
    /\ UNCHANGED <<parts, blocked, managed, req, cut, bounds>>

\* One command of ensure_block_table.  Adding what exists changes nothing (a
\* second rule drops the same packets); adding to what does not fails.  The
\* build goes on in either case.
Add(h) ==
    /\ pc[h] \in Part
    /\ parts' = IF Needs(pc[h]) \subseteq parts THEN parts \cup {pc[h]} ELSE parts
    /\ Goto(h, Follows(pc[h]))
    /\ UNCHANGED <<blocked, managed, req, cut, bounds>>

\* block_client adds the element and reports what nft says.
AddElement(h) ==
    /\ pc[h] = "element"
    /\ IF "set" \in parts
       THEN blocked' = blocked \cup {req[h].ip} /\ Goto(h, "ok")
       ELSE UNCHANGED blocked /\ Goto(h, "error")
    /\ UNCHANGED <<parts, managed, req, cut, bounds>>

\* unblock_client: nft refuses to delete an element that is not there.
Delete(h) ==
    /\ pc[h] = "delete"
    /\ IF req[h].ip \in blocked
       THEN blocked' = blocked \ {req[h].ip} /\ Goto(h, "ok")
       ELSE UNCHANGED blocked /\ Goto(h, "error")
    /\ UNCHANGED <<parts, managed, req, cut, bounds>>

\* The command of a request fails: a table that cannot be listed counts as
\* missing, a part is left out, an element is reported.
Fail(h) ==
    /\ pc[h] \in {"check", "element", "delete"} \cup Part
    /\ faults < MaxFaults
    /\ faults' = faults + 1
    /\ Goto(h, CASE pc[h] = "check" -> "table"
                 [] pc[h] \in Part  -> Follows(pc[h])
                 [] OTHER           -> "error")
    /\ cut' = (cut \/ pc[h] \in Part)
    /\ UNCHANGED <<parts, blocked, managed, req, flushes, restarts>>

\* Faulty variant: the tables are emptied and not removed.
FlushedKeepsTable == parts' = parts \cap {"table"} /\ blocked' = {} /\ cut' = FALSE

\* apply_ruleset loads a file that begins with flush ruleset, in one
\* transaction; the block table is not in the file.
Flushed == parts' = {} /\ blocked' = {} /\ cut' = FALSE

Flush ==
    /\ ~managed
    /\ flushes < MaxFlushes
    /\ flushes' = flushes + 1
    /\ Flushed
    /\ UNCHANGED <<managed, req, pc, faults, restarts>>

\* The daemon is killed with requests in flight; the kernel keeps the table.
\* Without NetworkManager, main applies the ruleset before it serves again,
\* and goes on when that fails.
Restart ==
    /\ restarts < MaxRestarts
    /\ restarts' = restarts + 1
    /\ pc' = [h \in Handlers |-> IF pc[h] \in {"idle"} \cup Ended THEN pc[h] ELSE "lost"]
    /\ \/ ~managed /\ Flushed /\ UNCHANGED faults
       \/ /\ \/ managed /\ UNCHANGED faults
             \/ ~managed /\ faults < MaxFaults /\ faults' = faults + 1
          /\ cut' = (cut \/ \E h \in Handlers : pc[h] \in Part)
          /\ UNCHANGED <<parts, blocked>>
    /\ UNCHANGED <<managed, req, flushes>>

Step(h) == Check(h) \/ Add(h) \/ AddElement(h) \/ Delete(h)

Next ==
    \/ \E h \in Handlers : Arrive(h) \/ Step(h) \/ Fail(h)
    \/ Flush
    \/ Restart

Spec == Init /\ [][Next]_vars

\* A handler that runs goes on to its next command.  Nothing is assumed of
\* clients, failures, flushes or restarts.
FairSpec == Spec /\ \A h \in Handlers : WF_vars(Step(h))

-----------------------------------------------------------------------------
(* Properties *)

Quiet == \A h \in Handlers : pc[h] \in {"idle"} \cup Ended

\* What get_blocked_ips lists, and so what the page shows.
Shown(ip) == ip \in blocked

\* What the forward hook drops.
Dropped(ip) == ip \in blocked /\ "rule" \in parts

\* Once the requests in flight are answered, every address the page shows as
\* blocked is dropped, whatever other requests and ruleset flushes ran in
\* between - unless a build was cut short, for which the code has no repair
\* but the next flush (clients.rs 96-115).
BlockedIsDropped == Quiet /\ ~cut => \A ip \in Ips : Shown(ip) => Dropped(ip)

\* A block that was answered with success takes effect: the address is
\* dropped in the end even when the answer came while another request was
\* still building the table, unless it is unblocked or flushed, or the build
\* is cut short.
AnsweredBlockTakesEffect ==
    \A h \in Handlers :
        (/\ pc[h] = "ok" /\ req[h].op = "block"
         /\ Shown(req[h].ip) /\ ~cut)
        ~> (Dropped(req[h].ip) \/ ~Shown(req[h].ip) \/ cut)

\* What the build owes: while a table lacks its rule, some request is at a
\* command that it can still carry out and that leads to the rule.
Builder(h) ==
    \/ pc[h] = "set"
    \/ pc[h] = "chain" /\ "set" \in parts
    \/ pc[h] = "rule" /\ {"set", "chain"} \subseteq parts

BuildGoesOn ==
    /\ blocked # {} => "set" \in parts
    /\ "set" \in parts => "table" \in parts
    /\ ~cut /\ "table" \in parts /\ "rule" \notin parts => \E h \in Handlers : Builder(h)
=============================================================================
