---------------------------- MODULE WebAuthProofs ---------------------------
(***************************************************************************)
(* Type correctness of WebAuth, that the credential follows the password,  *)
(* and that the sessions of the workers are the logins that are not over,  *)
(* for any number of workers, requests, logins and restarts.               *)
(*                                                                         *)
(* OwnPasswordOnly is not inductive: a reset that has installed the        *)
(* defaults and not yet cleared the credential is about to part the two.   *)
(* Follows adds what raced has to record of it.  SessionsAreLogins speaks  *)
(* of tokens; Matched says the same of the entries of the maps, and needs  *)
(* Unique, that no two logins have the same token.                         *)
(***************************************************************************)
EXTENDS WebAuth, TLAPS

Resetting == \E h \in Handlers : pc[h] = "clear"

Follows ==
    /\ ~raced /\ password # Empty => credential = password
    /\ ~raced /\ Resetting => password = Empty

Unique ==
    /\ \A l \in logins : l.token <= issued
    /\ \A t \in ended : t <= issued
    /\ \A l, k \in logins : l.token = k.token => l = k

Known ==
    \A w \in Workers : \A s \in sessions[w] :
        /\ s.token \notin ended
        /\ [token |-> s.token, at |-> s.at, worker |-> w] \in logins

Kept ==
    \A l \in logins : Fresh(l) /\ l.token \notin ended
        => [token |-> l.token, at |-> l.at] \in sessions[l.worker]

Matched == Unique /\ Known /\ Kept

-----------------------------------------------------------------------------
(* Types *)

LEMMA LookedTyped ==
  ASSUME TypeOK, NEW w \in Workers, NEW t \in Token
  PROVE  Looked(w, t) \in [Workers -> SUBSET Session]
BY DEF TypeOK, Looked

LEMMA CreatedTyped ==
  ASSUME TypeOK, NEW w \in Workers, NEW t \in Token
  PROVE  Created(w, t) \in [Workers -> SUBSET Session]
<1>1. [token |-> t, at |-> now] \in Session
  BY DEF TypeOK, Session
<1> QED BY <1>1 DEF TypeOK, Created

LEMMA ClearedTyped ==
  ASSUME TypeOK, NEW w \in Workers
  PROVE  /\ Cleared(w) \in [Workers -> SUBSET Session]
         /\ EndedOn(w) \subseteq Token
<1>1. Cleared(w) \in [Workers -> SUBSET Session]
  BY DEF TypeOK, Cleared
<1>2. EndedOn(w) \subseteq Token
  BY DEF TypeOK, EndedOn, Session
<1> QED BY <1>1, <1>2

LEMMA TypeStep == TypeOK /\ [Next]_vars => TypeOK'
<1> SUFFICES ASSUME TypeOK, [Next]_vars PROVE TypeOK'
  OBVIOUS
<1>1. ASSUME NEW w \in Workers, NEW p \in Typed, LogIn(w, p) PROVE TypeOK'
  <2>1. issued' \in 0..MaxLogins /\ issued' \in Token
    BY <1>1, AuthAssumption DEF LogIn, TypeOK, Token
  <2>2. sessions' \in [Workers -> SUBSET Session]
    BY <1>1, <2>1, CreatedTyped DEF LogIn
  <2>3. logins' \subseteq Login
    BY <1>1, <2>1 DEF LogIn, TypeOK, Login
  <2> QED BY <1>1, <2>1, <2>2, <2>3 DEF LogIn, TypeOK
<1>2. ASSUME NEW w \in Workers, NEW t \in Token, Visit(w, t) PROVE TypeOK'
  BY <1>2, LookedTyped DEF Visit, TypeOK
<1>3. ASSUME NEW w \in Workers, NEW h \in Handlers, NEW t \in Token, NEW p \in Typed,
             Post(h, w, t, p)
      PROVE  TypeOK'
  BY <1>3, LookedTyped DEF Post, TypeOK
<1>4. ASSUME NEW w \in Workers, NEW h \in Handlers, NEW t \in Token, Reset(h, w, t)
      PROVE  TypeOK'
  BY <1>4, LookedTyped DEF Reset, TypeOK
<1>5. ASSUME NEW w \in Workers, NEW h \in Handlers, Edit(h, w) PROVE TypeOK'
  <2>1. password' \in Typed /\ credential' \in Typed
    BY <1>5 DEF Edit, TypeOK
  <2>2. sessions' \in [Workers -> SUBSET Session] /\ ended' \subseteq Token
    BY <1>5, ClearedTyped DEF Edit, TypeOK
  <2>3. raced' \in BOOLEAN
    <3>1. (\E g \in Handlers : pc[g] = "clear") \in BOOLEAN
      OBVIOUS
    <3> QED BY <1>5, <3>1, Zenon DEF Edit
  <2>4. pc' \in [Handlers -> {"idle", "edit", "install", "clear"}]
    BY <1>5 DEF Edit, TypeOK
  <2> QED BY <1>5, <2>1, <2>2, <2>3, <2>4 DEF Edit, TypeOK
<1>6. ASSUME NEW w \in Workers, NEW h \in Handlers, Clear(h, w) PROVE TypeOK'
  BY <1>6, ClearedTyped DEF Clear, TypeOK, Typed
<1>7. ASSUME NEW h \in Handlers, Install(h) PROVE TypeOK'
  BY <1>7 DEF Install, TypeOK, Typed
<1>8. CASE Tick
  BY <1>8, AuthAssumption DEF Tick, TypeOK
<1>9. CASE Restart
  <2>1. sessions' \in [Workers -> SUBSET Session]
    BY <1>9 DEF Restart
  <2>2. ended' \subseteq Token
    BY <1>9 DEF Restart, TypeOK, Login
  <2>3. restarts' \in 0..MaxRestarts
    BY <1>9, AuthAssumption DEF Restart, TypeOK
  <2>4. raced' \in BOOLEAN
    BY <1>9 DEF Restart
  <2>5. /\ pc' \in [Handlers -> {"idle", "edit", "install", "clear"}]
        /\ edit' \in [Handlers -> Typed]
    BY <1>9 DEF Restart, Typed
  <2> QED BY <1>9, <2>1, <2>2, <2>3, <2>4, <2>5 DEF Restart, TypeOK
<1>10. CASE UNCHANGED vars
  BY <1>10 DEF vars, TypeOK
<1> QED BY <1>1, <1>2, <1>3, <1>4, <1>5, <1>6, <1>7, <1>8, <1>9, <1>10 DEF Next

LEMMA TypeInit == Init => TypeOK
<1> SUFFICES ASSUME Init PROVE TypeOK
  OBVIOUS
<1>1. raced \in BOOLEAN /\ ended \subseteq Token /\ logins \subseteq Login
  <2>1. FALSE \in BOOLEAN /\ {} \subseteq Token /\ {} \subseteq Login
    OBVIOUS
  <2> QED BY <2>1, Zenon DEF Init
<1>2. 0 \in 0..MaxTime /\ 0 \in 0..MaxRestarts /\ 0 \in 0..MaxLogins
  BY AuthAssumption
<1>3. sessions \in [Workers -> SUBSET Session]
  BY DEF Init
<1> QED BY <1>1, <1>2, <1>3 DEF Init, TypeOK, Typed

\* Every variable keeps its type, however many workers, requests and logins.
THEOREM AuthTypeCorrect == Spec => []TypeOK
BY TypeInit, TypeStep, PTL DEF Spec

-----------------------------------------------------------------------------
(* The credential *)

LEMMA FollowsStep == TypeOK /\ Follows /\ [Next]_vars => Follows'
<1> SUFFICES ASSUME TypeOK, Follows, [Next]_vars PROVE Follows'
  OBVIOUS
<1> USE DEF Follows, Resetting
<1>1. ASSUME NEW w \in Workers, NEW p \in Typed, LogIn(w, p) PROVE Follows'
  BY <1>1 DEF LogIn
<1>2. ASSUME NEW w \in Workers, NEW t \in Token, Visit(w, t) PROVE Follows'
  BY <1>2 DEF Visit
<1>3. ASSUME NEW w \in Workers, NEW h \in Handlers, NEW t \in Token, NEW p \in Typed,
             Post(h, w, t, p)
      PROVE  Follows'
  BY <1>3 DEF Post, TypeOK
<1>4. ASSUME NEW w \in Workers, NEW h \in Handlers, NEW t \in Token, Reset(h, w, t)
      PROVE  Follows'
  BY <1>4 DEF Reset, TypeOK
<1>5. ASSUME NEW w \in Workers, NEW h \in Handlers, Edit(h, w) PROVE Follows'
  <2>1. raced' <=> Resetting
    BY <1>5, Zenon DEF Edit
  <2>2. Resetting' => Resetting
    BY <1>5 DEF Edit, TypeOK
  <2>3. password' # Empty => credential' = password'
    BY <1>5 DEF Edit
  <2> QED BY <2>1, <2>2, <2>3
<1>6. ASSUME NEW w \in Workers, NEW h \in Handlers, Clear(h, w) PROVE Follows'
  BY <1>6 DEF Clear, TypeOK
<1>7. ASSUME NEW h \in Handlers, Install(h) PROVE Follows'
  <2>1. CASE password' = Empty
    BY <1>7, <2>1 DEF Install
  <2>2. CASE pc' = [pc EXCEPT ![h] = "idle"] /\ password' = password
    BY <1>7, <2>2 DEF Install, TypeOK
  <2> QED BY <1>7, <2>1, <2>2 DEF Install
<1>8. CASE Tick
  BY <1>8 DEF Tick
<1>9. CASE Restart
  BY <1>9 DEF Restart
<1>10. CASE UNCHANGED vars
  BY <1>10 DEF vars
<1> QED BY <1>1, <1>2, <1>3, <1>4, <1>5, <1>6, <1>7, <1>8, <1>9, <1>10 DEF Next

\* While a password is set the page accepts it and no other, unless it was set
\* between the two steps of a reset.
THEOREM OwnPasswordLogsIn == Spec => []OwnPasswordOnly
<1>1. Init => Follows
  BY DEF Init, Follows, Resetting
<1>2. Follows => OwnPasswordOnly
  BY DEF Follows, OwnPasswordOnly, Accepts
<1> QED BY <1>1, <1>2, FollowsStep, AuthTypeCorrect, PTL DEF Spec

-----------------------------------------------------------------------------
(* The sessions *)

LEMMA PruneKeepsMatched ==
  ASSUME TypeOK, Matched, NEW w \in Workers, NEW t \in Token,
         sessions' = Looked(w, t), UNCHANGED <<now, issued, logins, ended>>
  PROVE  Matched'
<1>1. \A v \in Workers : sessions'[v] \subseteq sessions[v]
  BY DEF Looked, TypeOK
<1>2. \A v \in Workers : \A s \in sessions[v] : Fresh(s) => s \in sessions'[v]
  BY DEF Looked, TypeOK
<1>3. Unique'
  BY DEF Matched, Unique
<1>4. Known'
  BY <1>1 DEF Matched, Known
<1>5. Kept'
  <2> SUFFICES ASSUME NEW l \in logins, Fresh(l), l.token \notin ended
      PROVE  [token |-> l.token, at |-> l.at] \in sessions'[l.worker]
    BY DEF Kept, Fresh
  <2>1. l.worker \in Workers /\ Fresh([token |-> l.token, at |-> l.at])
    BY DEF TypeOK, Login, Fresh
  <2> QED BY <1>2, <2>1 DEF Matched, Kept
<1> QED BY <1>3, <1>4, <1>5 DEF Matched

\* Clearing the map of a worker ends the sessions of that worker, and of no
\* other, since tokens are never shared.
LEMMA ClearKeepsMatched ==
  ASSUME TypeOK, Matched, NEW w \in Workers,
         sessions' = Cleared(w), ended' = EndedOn(w), UNCHANGED <<now, issued, logins>>
  PROVE  Matched'
<1>1. sessions'[w] = {} /\ \A v \in Workers \ {w} : sessions'[v] = sessions[v]
  BY DEF Cleared, TypeOK
<1>2. Unique'
  <2>1. \A s \in sessions[w] : s.token <= issued
    BY DEF Matched, Unique, Known
  <2> QED BY <2>1 DEF Matched, Unique, EndedOn
<1>3. Known'
  <2> SUFFICES ASSUME NEW v \in Workers, NEW s \in sessions'[v]
      PROVE  /\ s.token \notin ended'
             /\ [token |-> s.token, at |-> s.at, worker |-> v] \in logins
    BY DEF Known
  <2>1. v # w /\ s \in sessions[v]
    BY <1>1
  <2>2. [token |-> s.token, at |-> s.at, worker |-> v] \in logins /\ s.token \notin ended
    BY <2>1 DEF Matched, Known
  <2>3. ASSUME NEW z \in sessions[w] PROVE z.token # s.token
    <3>1. [token |-> z.token, at |-> z.at, worker |-> w] \in logins
      BY DEF Matched, Known
    <3> QED BY <3>1, <2>1, <2>2 DEF Matched, Unique
  <2> QED BY <2>2, <2>3 DEF EndedOn
<1>4. Kept'
  <2> SUFFICES ASSUME NEW l \in logins, Fresh(l), l.token \notin ended'
      PROVE  [token |-> l.token, at |-> l.at] \in sessions'[l.worker]
    BY DEF Kept, Fresh
  <2>1. [token |-> l.token, at |-> l.at] \in sessions[l.worker] /\ l.worker \in Workers
    BY DEF Matched, Kept, EndedOn, TypeOK, Login
  <2>2. l.worker # w
    BY <2>1 DEF EndedOn
  <2> QED BY <1>1, <2>1, <2>2
<1> QED BY <1>2, <1>3, <1>4 DEF Matched

LEMMA LogInKeepsMatched ==
  ASSUME TypeOK, Matched, NEW w \in Workers, NEW p \in Typed, LogIn(w, p)
  PROVE  Matched'
<1> DEFINE new   == [token |-> issued + 1, at |-> now, worker |-> w]
           entry == [token |-> issued + 1, at |-> now]
<1>1. /\ issued \in Nat /\ issued' = issued + 1
      /\ logins' = logins \cup {new} /\ ended' = ended /\ now' = now
  BY AuthAssumption DEF LogIn, TypeOK
<1>2. /\ sessions'[w] = {s \in sessions[w] \cup {entry} : Fresh(s)}
      /\ \A v \in Workers \ {w} : sessions'[v] = sessions[v]
  BY DEF LogIn, Created, TypeOK
<1>3. /\ \A l \in logins : l.token \in Nat /\ l.token < issued + 1
      /\ \A t \in ended : t \in Nat /\ t < issued + 1
  BY <1>1 DEF Matched, Unique, TypeOK, Login, Token
<1>4. Unique'
  <2>1. \A l \in logins' : l.token <= issued'
    BY <1>1, <1>3
  <2>2. \A t \in ended' : t <= issued'
    BY <1>1, <1>3
  <2>3. \A l, k \in logins' : l.token = k.token => l = k
    BY <1>1, <1>3 DEF Matched, Unique
  <2> QED BY <2>1, <2>2, <2>3 DEF Unique
<1>5. Known'
  <2> SUFFICES ASSUME NEW v \in Workers, NEW s \in sessions'[v]
      PROVE  /\ s.token \notin ended
             /\ [token |-> s.token, at |-> s.at, worker |-> v] \in logins'
    BY <1>1 DEF Known
  <2>1. CASE s \in sessions[v]
    BY <2>1, <1>1 DEF Matched, Known
  <2>2. CASE v = w /\ s = entry
    BY <2>2, <1>1, <1>3
  <2> QED BY <1>2, <2>1, <2>2
<1>6. Kept'
  <2> SUFFICES ASSUME NEW l \in logins', Fresh(l), l.token \notin ended
      PROVE  [token |-> l.token, at |-> l.at] \in sessions'[l.worker]
    BY <1>1 DEF Kept, Fresh
  <2>1. CASE l \in logins
    <3>1. /\ [token |-> l.token, at |-> l.at] \in sessions[l.worker]
          /\ l.worker \in Workers
      BY <2>1 DEF Matched, Kept, TypeOK, Login
    <3>2. Fresh([token |-> l.token, at |-> l.at])
      BY DEF Fresh
    <3> QED BY <1>2, <3>1, <3>2
  <2>2. CASE l = new
    <3>1. Fresh(entry)
      BY <2>2 DEF Fresh
    <3> QED BY <1>2, <2>2, <3>1
  <2> QED BY <1>1, <2>1, <2>2
<1> QED BY <1>4, <1>5, <1>6 DEF Matched

LEMMA OthersKeepMatched ==
  ASSUME TypeOK, Matched, UNCHANGED <<sessions, now, issued, logins, ended>>
  PROVE  Matched'
BY DEF Matched, Unique, Known, Kept, Fresh

LEMMA MatchedStep == TypeOK /\ Matched /\ [Next]_vars => Matched'
<1> SUFFICES ASSUME TypeOK, Matched, [Next]_vars PROVE Matched'
  OBVIOUS
<1>1. ASSUME NEW w \in Workers, NEW p \in Typed, LogIn(w, p) PROVE Matched'
  BY <1>1, LogInKeepsMatched
<1>2. ASSUME NEW w \in Workers, NEW t \in Token, Visit(w, t) PROVE Matched'
  BY <1>2, PruneKeepsMatched DEF Visit
<1>3. ASSUME NEW w \in Workers, NEW h \in Handlers, NEW t \in Token, NEW p \in Typed,
             Post(h, w, t, p)
      PROVE  Matched'
  BY <1>3, PruneKeepsMatched DEF Post
<1>4. ASSUME NEW w \in Workers, NEW h \in Handlers, NEW t \in Token, Reset(h, w, t)
      PROVE  Matched'
  BY <1>4, PruneKeepsMatched DEF Reset
<1>5. ASSUME NEW w \in Workers, NEW h \in Handlers, Edit(h, w) PROVE Matched'
  <2>1. CASE edit[h] = Empty
    BY <1>5, <2>1, ClearKeepsMatched DEF Edit
  <2>2. CASE edit[h] # Empty
    BY <1>5, <2>2, OthersKeepMatched DEF Edit
  <2> QED BY <2>1, <2>2
<1>6. ASSUME NEW w \in Workers, NEW h \in Handlers, Clear(h, w) PROVE Matched'
  BY <1>6, ClearKeepsMatched DEF Clear
<1>7. ASSUME NEW h \in Handlers, Install(h) PROVE Matched'
  BY <1>7, OthersKeepMatched DEF Install
<1>8. CASE Tick
  <2>1. ASSUME NEW s, s.at \in 0..MaxTime, Fresh(s)' PROVE Fresh(s)
    BY <1>8, <2>1, AuthAssumption DEF Tick, TypeOK, Fresh
  <2>2. \A l \in logins : l.at \in 0..MaxTime
    BY DEF TypeOK, Login
  <2> QED BY <1>8, <2>1, <2>2 DEF Tick, Matched, Unique, Known, Kept
<1>9. CASE Restart
  <2>1. ended' = ended \cup {l.token : l \in logins} /\ UNCHANGED <<issued, logins>>
    BY <1>9 DEF Restart
  <2>2. Unique'
    BY <2>1 DEF Matched, Unique
  <2>3. Known'
    BY <1>9 DEF Restart, Known
  <2>4. Kept'
    BY <2>1 DEF Kept
  <2> QED BY <2>2, <2>3, <2>4 DEF Matched
<1>10. CASE UNCHANGED vars
  BY <1>10, OthersKeepMatched DEF vars
<1> QED BY <1>1, <1>2, <1>3, <1>4, <1>5, <1>6, <1>7, <1>8, <1>9, <1>10 DEF Next

LEMMA MatchedIsSessions == TypeOK /\ Matched => SessionsAreLogins
<1> SUFFICES ASSUME TypeOK, Matched, NEW w \in Workers, NEW t \in Token
    PROVE  Valid(w, t) <=> \E l \in logins : /\ l.token = t /\ l.worker = w
                                             /\ Fresh(l) /\ t \notin ended
  BY DEF SessionsAreLogins
<1>1. ASSUME NEW s \in sessions[w], s.token = t, Fresh(s)
      PROVE  \E l \in logins : l.token = t /\ l.worker = w /\ Fresh(l) /\ t \notin ended
  <2> DEFINE l == [token |-> s.token, at |-> s.at, worker |-> w]
  <2>1. l \in logins /\ s.token \notin ended
    BY DEF Matched, Known
  <2>2. l.token = t /\ l.worker = w /\ Fresh(l)
    BY <1>1 DEF Fresh
  <2> QED BY <2>1, <2>2, <1>1
<1>2. ASSUME NEW l \in logins, l.token = t, l.worker = w, Fresh(l), t \notin ended
      PROVE  \E s \in sessions[w] : s.token = t /\ Fresh(s)
  <2> DEFINE s == [token |-> l.token, at |-> l.at]
  <2>1. s \in sessions[w]
    BY <1>2 DEF Matched, Kept
  <2>2. s.token = t /\ Fresh(s)
    BY <1>2 DEF Fresh
  <2> QED BY <2>1, <2>2
<1> QED BY <1>1, <1>2 DEF Valid

\* A token opens the box on a worker exactly when a login on that worker issued
\* it less than thirty minutes ago and nothing has ended it.
THEOREM SessionsMatchLogins == Spec => []SessionsAreLogins
<1>1. Init => Matched
  BY AuthAssumption DEF Init, Matched, Unique, Known, Kept
<1> QED BY <1>1, MatchedStep, MatchedIsSessions, AuthTypeCorrect, PTL DEF Spec
=============================================================================
