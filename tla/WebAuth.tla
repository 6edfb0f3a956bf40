------------------------------ MODULE WebAuth -------------------------------
(***************************************************************************)
(* Logins and sessions of the web server (src/web/auth.rs, mod.rs, and the *)
(* handlers of api.rs that use them).                                      *)
(*                                                                         *)
(* The password is kept twice: in the configuration, behind its lock, and  *)
(* in a static that only api_login compares with.  Sessions are kept in a  *)
(* map of each worker thread; a handler runs on whichever worker polls it, *)
(* and may go on on another one after it has waited for the lock.          *)
(***************************************************************************)
EXTENDS Integers

CONSTANTS
    Workers,    \* threads of the tokio runtime, one for each core
    Handlers,   \* requests in progress that wait for the lock
    Passwords,  \* passwords a user types
    Empty,      \* the empty string: no password
    TTL,        \* SESSION_TTL, 30 minutes in the code
    MaxTime,    \* bound on the time that passes
    MaxLogins,  \* bound on logins
    MaxRestarts \* bound on restarts

ASSUME AuthAssumption ==
    /\ Empty \notin Passwords
    /\ TTL \in Nat /\ MaxTime \in Nat /\ MaxLogins \in Nat /\ MaxRestarts \in Nat

VARIABLES
    password,    \* web_password of the configuration in memory
    credential,  \* WEB_PASSWORD
    sessions,    \* sessions[w]: SESSIONS of worker w, tokens with their Instant
    pc,          \* pc[h]: where the request in slot h is
    edit,        \* edit[h]: the password it sets
    now, restarts,
    issued,      \* tokens made so far, all different
    logins,      \* every login answered: its token, time and worker
    ended,       \* tokens ended by a reset, by a removed password or a restart
    raced        \* a reset was between its two steps when a password was set

vars == <<password, credential, sessions, pc, edit, now, restarts, issued, logins, ended, raced>>

Typed   == Passwords \cup {Empty}
Token   == 1..MaxLogins
Session == [token : Token, at : 0..MaxTime]
Login   == [token : Token, at : 0..MaxTime, worker : Workers]

TypeOK ==
    /\ password \in Typed /\ credential \in Typed
    /\ sessions \in [Workers -> SUBSET Session]
    /\ pc \in [Handlers -> {"idle", "edit", "install", "clear"}]
    /\ edit \in [Handlers -> Typed]
    /\ now \in 0..MaxTime /\ restarts \in 0..MaxRestarts /\ issued \in 0..MaxLogins
    /\ logins \subseteq Login
    /\ ended \subseteq Token
    /\ raced \in BOOLEAN

\* build_router: a password of the file is made the credential.
Init ==
    /\ password \in Typed /\ credential = password
    /\ sessions = [w \in Workers |-> {}]
    /\ pc = [h \in Handlers |-> "idle"]
    /\ edit = [h \in Handlers |-> Empty]
    /\ now = 0 /\ restarts = 0 /\ issued = 0
    /\ logins = {} /\ ended = {} /\ raced = FALSE

-----------------------------------------------------------------------------
(* Sessions *)

Fresh(s) == now - s.at < TTL

\* validate_session, on worker w.
Valid(w, t) == \E s \in sessions[w] : s.token = t /\ Fresh(s)

\* is_authed and check_auth.
LetIn(w, t) == password = Empty \/ Valid(w, t)

\* validate_session drops the session it was asked about when that is over;
\* without a password it is not asked.
Looked(w, t) ==
    IF password = Empty THEN sessions
    ELSE [sessions EXCEPT ![w] = {s \in @ : s.token = t => Fresh(s)}]

\* Faulty variant: a new session keeps those that are over.
CreatedKeepsOld(w, t) ==
    [sessions EXCEPT ![w] = {s \in @ : ~Fresh(s)} \cup {[token |-> t, at |-> now]}]

\* create_session: the map of the worker forgets what is over.
Created(w, t) ==
    [sessions EXCEPT ![w] = {s \in @ \cup {[token |-> t, at |-> now]} : Fresh(s)}]

\* clear_all_sessions: the map of the worker.
Cleared(w) == [sessions EXCEPT ![w] = {}]
EndedOn(w) == ended \cup {s.token : s \in sessions[w]}

-----------------------------------------------------------------------------
(* Requests *)

\* The comparison of api_login, which holds the read lock throughout.
Accepts(p) == password = Empty \/ credential = p

LogIn(w, p) ==
    /\ issued < MaxLogins /\ issued' = issued + 1
    /\ Accepts(p)
    /\ logins' = logins \cup {[token |-> issued', at |-> now, worker |-> w]}
    /\ sessions' = Created(w, issued')
    /\ UNCHANGED <<password, credential, pc, edit, now, restarts, ended, raced>>

\* A page, or a request that reads: let in or sent to the login.
Visit(w, t) ==
    /\ sessions' = Looked(w, t)
    /\ UNCHANGED <<password, credential, pc, edit, now, restarts, issued, logins, ended, raced>>

\* A change of the password or a reset is let in, and goes for the lock.
Post(h, w, t, p) ==
    /\ pc[h] = "idle" /\ LetIn(w, t)
    /\ sessions' = Looked(w, t)
    /\ pc' = [pc EXCEPT ![h] = "edit"] /\ edit' = [edit EXCEPT ![h] = p]
    /\ UNCHANGED <<password, credential, now, restarts, issued, logins, ended, raced>>

Reset(h, w, t) ==
    /\ pc[h] = "idle" /\ LetIn(w, t)
    /\ sessions' = Looked(w, t)
    /\ pc' = [pc EXCEPT ![h] = "install"]
    /\ UNCHANGED <<password, credential, edit, now, restarts, issued, logins, ended, raced>>

\* Faulty variant: the credential is set by the first password only.
EditForgets(h, w) ==
    /\ pc[h] = "edit"
    /\ pc' = [pc EXCEPT ![h] = "idle"]
    /\ password' = edit[h]
    /\ raced' = (\E g \in Handlers : pc[g] = "clear")
    /\ IF edit[h] = Empty
       THEN sessions' = Cleared(w) /\ ended' = EndedOn(w) /\ UNCHANGED credential
       ELSE /\ credential' = IF credential = Empty THEN edit[h] ELSE credential
            /\ UNCHANGED <<sessions, ended>>
    /\ UNCHANGED <<edit, now, restarts, issued, logins>>

\* The edit of api_config_post, under the write lock, on the worker it goes on
\* on.  A refused or unsaved edit is not undone.
Edit(h, w) ==
    /\ pc[h] = "edit"
    /\ pc' = [pc EXCEPT ![h] = "idle"]
    /\ password' = edit[h]
    /\ raced' = (\E g \in Handlers : pc[g] = "clear")
    /\ IF edit[h] = Empty
       THEN sessions' = Cleared(w) /\ ended' = EndedOn(w) /\ UNCHANGED credential
       ELSE credential' = edit[h] /\ UNCHANGED <<sessions, ended>>
    /\ UNCHANGED <<edit, now, restarts, issued, logins>>

\* api_reset: the defaults have no password; the lock is released before the
\* sessions and the credential go.  A failed save ends it before.
Install(h) ==
    /\ pc[h] = "install"
    /\ \/ password' = Empty /\ pc' = [pc EXCEPT ![h] = "clear"]
       \/ pc' = [pc EXCEPT ![h] = "idle"] /\ UNCHANGED password
    /\ UNCHANGED <<credential, sessions, edit, now, restarts, issued, logins, ended, raced>>

Clear(h, w) ==
    /\ pc[h] = "clear"
    /\ pc' = [pc EXCEPT ![h] = "idle"]
    /\ credential' = Empty
    /\ sessions' = Cleared(w) /\ ended' = EndedOn(w)
    /\ UNCHANGED <<password, edit, now, restarts, issued, logins, raced>>

Tick ==
    /\ now < MaxTime /\ now' = now + 1
    /\ UNCHANGED <<password, credential, sessions, pc, edit, restarts, issued, logins, ended, raced>>

\* The daemon is started again with whatever password its file holds.
Restart ==
    /\ restarts < MaxRestarts /\ restarts' = restarts + 1
    /\ password' \in Typed /\ credential' = password'
    /\ sessions' = [w \in Workers |-> {}]
    /\ pc' = [h \in Handlers |-> "idle"]
    /\ edit' = [h \in Handlers |-> Empty]
    /\ ended' = ended \cup {s.token : s \in logins}
    /\ raced' = FALSE
    /\ UNCHANGED <<now, issued, logins>>

Next ==
    \/ \E w \in Workers :
         \/ \E p \in Typed : LogIn(w, p)
         \/ \E t \in Token : Visit(w, t)
         \/ \E h \in Handlers :
              \/ \E t \in Token : Reset(h, w, t) \/ \E p \in Typed : Post(h, w, t, p)
              \/ Edit(h, w) \/ Clear(h, w)
    \/ \E h \in Handlers : Install(h)
    \/ Tick \/ Restart

Spec == Init /\ [][Next]_vars

-----------------------------------------------------------------------------
(* Properties *)

\* While a password is set, the page accepts the configured password and no
\* other, through every order of password changes, refused changes, resets and
\* restarts; only a password set between the two steps of a reset can be lost
\* (api.rs 331-338, 396, 494-499; mod.rs 44-46).
OwnPasswordOnly ==
    ~raced /\ password # Empty => \A p \in Typed : Accepts(p) <=> p = password

\* A token opens the box on a worker exactly when a login on that worker issued
\* it less than thirty minutes ago and neither a reset nor the removal of the
\* password on that worker nor a restart has ended it: maps that are pruned by
\* other logins and other visits lose no session and revive none
\* (auth.rs 30-56, 64-68).
SessionsAreLogins ==
    \A w \in Workers, t \in Token :
        Valid(w, t) <=> \E s \in logins : /\ s.token = t /\ s.worker = w
                                          /\ Fresh(s) /\ t \notin ended
=============================================================================
