-------------------------- MODULE ClientBlockProofs -------------------------
(***************************************************************************)
(* Theorems about ClientBlock, for any numbers of requests, addresses,     *)
(* ruleset flushes, failing commands and restarts.                         *)
(*                                                                         *)
(* BlockedIsDropped speaks of moments without a request in flight, so it   *)
(* is not inductive.  BuildGoesOn is: it names the request that still owes *)
(* the table its rule, and no step of another request, and no flush, takes *)
(* that request's next command away without taking the table as well.      *)
(***************************************************************************)
EXTENDS ClientBlock, TLAPS

\* The variables keep their types whatever requests, flushes and failures do.
THEOREM BlockTypeCorrect == Spec => []TypeOK
<1>1. Init => TypeOK
  <2> SUFFICES ASSUME Init PROVE TypeOK
    OBVIOUS
  <2>1. parts \subseteq Part /\ blocked \subseteq Ips
    BY DEF Init
  <2>2. managed \in BOOLEAN /\ cut \in BOOLEAN
    BY DEF Init
  <2>3. flushes \in 0..MaxFlushes /\ faults \in 0..MaxFaults /\ restarts \in 0..MaxRestarts
    BY BlockAssumption DEF Init
  <2> QED
    BY <2>1, <2>2, <2>3 DEF Init, TypeOK
<1>2. TypeOK /\ [Next]_vars => TypeOK'
  <2> SUFFICES ASSUME TypeOK, [Next]_vars PROVE TypeOK'
    OBVIOUS
  <2> USE BlockAssumption
  <2>1. ASSUME NEW h \in Handlers, Arrive(h) PROVE TypeOK'
    BY <2>1 DEF Arrive, Goto, TypeOK, Part, Ended, bounds
  <2>2. ASSUME NEW h \in Handlers, Check(h) PROVE TypeOK'
    BY <2>2 DEF Check, Goto, TypeOK, Part, Ended, bounds
  <2>3. ASSUME NEW h \in Handlers, Add(h) PROVE TypeOK'
    BY <2>3 DEF Add, Follows, Goto, TypeOK, Part, Ended, bounds
  <2>4. ASSUME NEW h \in Handlers, AddElement(h) PROVE TypeOK'
    BY <2>4 DEF AddElement, Goto, TypeOK, Part, Ended, bounds
  <2>5. ASSUME NEW h \in Handlers, Delete(h) PROVE TypeOK'
    BY <2>5 DEF Delete, Goto, TypeOK, Part, Ended, bounds
  <2>6. ASSUME NEW h \in Handlers, Fail(h) PROVE TypeOK'
    BY <2>6 DEF Fail, Follows, Goto, TypeOK, Part, Ended
  <2>0. Flushed => parts' \subseteq Part /\ blocked' \subseteq Ips /\ cut' \in BOOLEAN
    <3>1. FALSE \in BOOLEAN
      OBVIOUS
    <3>2. {} \subseteq Part /\ {} \subseteq Ips
      OBVIOUS
    <3> QED
      BY <3>1, <3>2, Zenon DEF Flushed
  <2>7. CASE Flush
    BY <2>7, <2>0 DEF Flush, TypeOK
  <2>8. CASE Restart
    <3>1. parts' \subseteq Part /\ blocked' \subseteq Ips /\ cut' \in BOOLEAN
      BY <2>8, <2>0 DEF Restart, TypeOK
    <3>2. pc' \in [Handlers -> {"idle", "check", "element", "delete"} \cup Part \cup Ended]
      BY <2>8 DEF Restart, TypeOK, Ended
    <3> QED
      BY <2>8, <3>1, <3>2 DEF Restart, TypeOK
  <2>9. CASE UNCHANGED vars
    BY <2>9 DEF vars, bounds, TypeOK
  <2> QED
    BY <2>1, <2>2, <2>3, <2>4, <2>5, <2>6, <2>7, <2>8, <2>9 DEF Next, Step
<1> QED
  BY <1>1, <1>2, PTL DEF Spec

\* One command of a build keeps a builder: the one that ran is at the next
\* command of the same build, and any other has lost nothing.
LEMMA AddKeepsBuilder ==
    ASSUME TypeOK, BuildGoesOn, NEW h \in Handlers, Add(h)
    PROVE  BuildGoesOn'
<1> DEFINE p == pc[h]
<1>1. /\ parts \subseteq parts' /\ p \in Part /\ pc' = [pc EXCEPT ![h] = Follows(p)]
      /\ blocked' = blocked /\ cut' = cut
  BY DEF Add, Goto
<1>2. blocked' # {} => "set" \in parts'
  BY <1>1 DEF BuildGoesOn
<1>3. "set" \in parts' => "table" \in parts'
  BY DEF BuildGoesOn, Add, Needs, Part
<1>4. ASSUME ~cut', "table" \in parts', "rule" \notin parts'
      PROVE  \E g \in Handlers : Builder(g)'
  <2>1. CASE p = "table"
    BY <1>1, <2>1 DEF Builder, Follows, TypeOK
  <2>2. CASE p # "table"
    <3>1. "table" \in parts /\ "rule" \notin parts /\ ~cut
      BY <1>1, <1>4, <2>2 DEF Add
    <3>2. PICK g \in Handlers : Builder(g)
      BY <3>1 DEF BuildGoesOn
    <3>3. CASE g # h
      BY <1>1, <3>2, <3>3 DEF Builder, TypeOK
    <3>4. CASE g = h
      <4>1. parts' = parts \cup {p}
        BY <3>1, <3>2, <3>4 DEF Builder, Add, Needs, Part
      <4>2. p # "rule"
        BY <4>1, <1>4
      <4> QED
        BY <1>1, <3>2, <3>4, <4>1, <4>2, <3>1 DEF Builder, Follows, TypeOK
    <3> QED
      BY <3>3, <3>4
  <2> QED
    BY <2>1, <2>2
<1> QED
  BY <1>2, <1>3, <1>4 DEF BuildGoesOn

\* A step that leaves the table and every builder alone keeps the promise.
LEMMA OthersKeepBuilder ==
    ASSUME BuildGoesOn, TypeOK, NEW h \in Handlers, NEW step,
           pc' = [pc EXCEPT ![h] = step], pc[h] \notin Part,
           parts' = parts, cut' = cut, blocked' # {} => "set" \in parts
    PROVE  BuildGoesOn'
<1>1. ASSUME NEW g \in Handlers, Builder(g) PROVE Builder(g)'
  BY <1>1 DEF Builder, Part, TypeOK
<1> QED
  BY <1>1 DEF BuildGoesOn

\* While the table lacks its rule and no build was cut short, some request
\* still has the commands that add it before it.
THEOREM BuildsGoOn == Spec => []BuildGoesOn
<1>1. Init => BuildGoesOn
  BY DEF Init, BuildGoesOn
<1>2. TypeOK /\ BuildGoesOn /\ [Next]_vars => BuildGoesOn'
  <2> SUFFICES ASSUME TypeOK, BuildGoesOn, [Next]_vars PROVE BuildGoesOn'
    OBVIOUS
  <2>1. ASSUME NEW h \in Handlers, Arrive(h) PROVE BuildGoesOn'
    BY <2>1, OthersKeepBuilder DEF Arrive, Goto, Part, BuildGoesOn
  <2>2. ASSUME NEW h \in Handlers, Check(h) PROVE BuildGoesOn'
    BY <2>2, OthersKeepBuilder DEF Check, Goto, Part, BuildGoesOn
  <2>3. ASSUME NEW h \in Handlers, Add(h) PROVE BuildGoesOn'
    BY <2>3, AddKeepsBuilder
  <2>4. ASSUME NEW h \in Handlers, AddElement(h) PROVE BuildGoesOn'
    <3>1. blocked' # {} => "set" \in parts
      BY <2>4 DEF AddElement, BuildGoesOn
    <3> QED
      BY <2>4, <3>1, OthersKeepBuilder DEF AddElement, Goto, Part
  <2>5. ASSUME NEW h \in Handlers, Delete(h) PROVE BuildGoesOn'
    <3>1. blocked' # {} => "set" \in parts
      BY <2>5 DEF Delete, BuildGoesOn
    <3> QED
      BY <2>5, <3>1, OthersKeepBuilder DEF Delete, Goto, Part
  <2>6. ASSUME NEW h \in Handlers, Fail(h) PROVE BuildGoesOn'
    <3>1. CASE pc[h] \in Part
      BY <2>6, <3>1 DEF Fail, BuildGoesOn
    <3>2. CASE pc[h] \notin Part
      <4>1. PICK step : pc' = [pc EXCEPT ![h] = step]
        BY <2>6 DEF Fail, Goto
      <4>2. cut' = cut /\ parts' = parts /\ blocked' = blocked
        BY <2>6, <3>2 DEF Fail, TypeOK
      <4> QED
        BY <3>2, <4>1, <4>2, OthersKeepBuilder DEF BuildGoesOn
    <3> QED
      BY <3>1, <3>2
  <2>7. CASE Flush
    BY <2>7 DEF Flush, Flushed, BuildGoesOn
  <2>8. CASE Restart
    <3>1. CASE Flushed
      BY <3>1 DEF Flushed, BuildGoesOn
    <3>2. CASE ~Flushed
      <4>1. /\ parts' = parts /\ blocked' = blocked
            /\ cut' = (cut \/ \E h \in Handlers : pc[h] \in Part)
        BY <2>8, <3>2 DEF Restart
      <4>2. ~cut' => \A h \in Handlers : ~Builder(h)
        BY <4>1 DEF Builder, Part
      <4> QED
        BY <4>1, <4>2 DEF BuildGoesOn
    <3> QED
      BY <3>1, <3>2
  <2>9. CASE UNCHANGED vars
    BY <2>9 DEF vars, bounds, BuildGoesOn, Builder
  <2> QED
    BY <2>1, <2>2, <2>3, <2>4, <2>5, <2>6, <2>7, <2>8, <2>9 DEF Next, Step
<1> QED
  BY <1>1, <1>2, BlockTypeCorrect, PTL DEF Spec

\* What the page shows as blocked is dropped, once the requests in flight are
\* answered and unless a build was cut short since the last flush.
THEOREM WhatIsShownIsDropped == Spec => []BlockedIsDropped
<1>1. TypeOK /\ BuildGoesOn => BlockedIsDropped
  <2> SUFFICES ASSUME TypeOK, BuildGoesOn, Quiet, ~cut,
                      NEW ip \in Ips, Shown(ip)
               PROVE  Dropped(ip)
    BY DEF BlockedIsDropped
  <2>1. "set" \in parts /\ "table" \in parts
    BY DEF BuildGoesOn, Shown
  <2>2. \A h \in Handlers : ~Builder(h)
    BY DEF Quiet, Builder, Ended
  <2> QED
    BY <2>1, <2>2 DEF BuildGoesOn, Dropped, Shown
<1> QED
  BY <1>1, BuildsGoOn, BlockTypeCorrect, PTL
=============================================================================
