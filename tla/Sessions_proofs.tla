--------------------------- MODULE Sessions_proofs --------------------------
(***************************************************************************)
(* Proofs about Sessions, for any number of requests, keys and users, any  *)
(* week and any bound on the clock.                                        *)
(***************************************************************************)
EXTENDS Sessions, TLAPS

LEMMA BlankType == Blank \in Token /\ Blank.lastSeen = 0 /\ 0 \in Times
BY TimeAssumption DEF Blank, Token, Times

LEMMA InitType == Init => TypeOK
BY BlankType, TimeAssumption DEF Init, TypeOK, Labels, Times

(* What a handler does to its own variables keeps their types.             *)
LEMMA ReturnType ==
  ASSUME TypeOK, NEW h \in Handlers, NEW a \in Answers, Return(h, a)
  PROVE  /\ reply' \in [Handlers -> Answers \cup {None}]
         /\ pc' \in [Handlers -> Labels]
         /\ key' \in [Handlers -> Keys \cup {None}]
         /\ need' \in [Handlers -> Permissions \cup {None}]
         /\ held' \in [Handlers -> Token]
         /\ \A g \in Handlers : held'[g].lastSeen <= clock
<1>1. Blank \in Token /\ Blank.lastSeen <= clock
  BY BlankType, TimeAssumption DEF TypeOK, Times
<1> QED  BY <1>1 DEF TypeOK, Return, Labels

LEMMA GotoWithType ==
  ASSUME TypeOK, NEW h \in Handlers, NEW l \in Labels,
         NEW token \in Token, token.lastSeen <= clock, GotoWith(h, l, token)
  PROVE  /\ reply' = reply
         /\ pc' \in [Handlers -> Labels]
         /\ key' \in [Handlers -> Keys \cup {None}]
         /\ need' \in [Handlers -> Permissions \cup {None}]
         /\ held' \in [Handlers -> Token]
         /\ \A g \in Handlers : held'[g].lastSeen <= clock
BY DEF TypeOK, GotoWith, Goto

LEMMA StepType ==
  ASSUME TypeOK, NEW h \in Handlers, Step(h)
  PROVE  TypeOK'
<1> USE DEF TypeOK
<1>t. /\ \A u \in Users : [userID |-> u, lastSeen |-> clock, persistent |-> FALSE] \in Token
      /\ \A t \in Token : [t EXCEPT !.lastSeen = clock] \in Token
      /\ clock <= clock
  BY TimeAssumption DEF Token, Times
<1>a. {"refused", "expired", "unauthorized", "ok", "lost"} \cup Keys \subseteq Answers
  BY DEF Answers
<1>1. CASE Login(h)
  BY <1>1, <1>t DEF Login, Labels
<1>2. CASE Refuse(h)
  BY <1>2, <1>a, ReturnType DEF Refuse
<1>3. CASE Take(h)
  BY <1>3 DEF Take
<1>4. ASSUME NEW k \in Keys \cup {None}, Request(h, k) PROVE TypeOK'
  BY <1>4 DEF Request, Labels
<1>5. CASE CreateToken(h)
  <2>1. PICK k \in Keys \ issued :
          /\ issued' = issued \cup {k} /\ tokens' = [tokens EXCEPT ![k] = held[h]]
          /\ Return(h, k)
    BY <1>5 DEF CreateToken
  <2>2. k \in Answers /\ clock' = clock  BY <1>5, <1>a DEF CreateToken
  <2> QED  BY <2>1, <2>2, ReturnType
<1>6. CASE ReadToken(h)
  <2>1. CASE key[h] \in issued
    <3>1. GotoWith(h, "checkToken", tokens[key[h]])  BY <1>6, <2>1 DEF ReadToken
    <3>2. tokens[key[h]] \in Token /\ tokens[key[h]].lastSeen <= clock  BY <2>1
    <3> QED  BY <1>6, <3>1, <3>2, GotoWithType DEF ReadToken, Labels
  <2>2. CASE key[h] \notin issued
    BY <1>6, <1>a, <2>2, ReturnType DEF ReadToken
  <2> QED  BY <2>1, <2>2
<1>7. CASE CheckToken(h)
  <2>1. CASE Return(h, "expired") \/ Return(h, "unauthorized")
    BY <1>7, <1>a, <2>1, ReturnType DEF CheckToken
  <2>2. CASE Goto(h, "stamp") /\ UNCHANGED held
    BY <1>7, <2>2 DEF CheckToken, Goto, Labels
  <2> QED  BY <1>7, <2>1, <2>2 DEF CheckToken
<1>8. CASE Stamp(h)
  <2>1. [held[h] EXCEPT !.lastSeen = clock].lastSeen = clock  BY DEF Token
  <2> QED  BY <1>8, <1>t, <2>1, GotoWithType DEF Stamp, Labels
<1>9. CASE SaveToken(h)
  <2>1. /\ tokens' \in [Keys -> Token]
        /\ \A k \in Keys : tokens'[k].lastSeen <= clock
    BY <1>9 DEF SaveToken
  <2>2. CASE Return(h, "ok")  BY <1>9, <1>a, <2>1, <2>2, ReturnType DEF SaveToken
  <2>3. CASE Return(h, "lost")  BY <1>9, <1>a, <2>1, <2>3, ReturnType DEF SaveToken
  <2> QED  BY <1>9, <2>2, <2>3 DEF SaveToken
<1> QED
  BY <1>1, <1>2, <1>3, <1>4, <1>5, <1>6, <1>7, <1>8, <1>9 DEF Step, Arrive, Serve

LEMMA NextType == TypeOK /\ [Next]_vars => TypeOK'
<1> SUFFICES ASSUME TypeOK, [Next]_vars PROVE TypeOK'  OBVIOUS
<1>1. CASE UNCHANGED vars  BY <1>1 DEF vars, requestVars, TypeOK
<1>2. ASSUME NEW h \in Handlers, Step(h) PROVE TypeOK'  BY <1>2, StepType
<1>3. CASE Restart
  <2>1. Blank \in Token /\ Blank.lastSeen <= clock
    BY BlankType, TimeAssumption DEF TypeOK, Times
  <2>2. reply' \in [Handlers -> Answers \cup {None}]
    BY <1>3 DEF Restart, TypeOK, Answers
  <2> QED  BY <1>3, <2>1, <2>2 DEF Restart, TypeOK, Labels
<1>4. CASE Tick
  <2>1. clock \in Times /\ clock' \in Times /\ clock <= clock'
    BY <1>4, TimeAssumption DEF Tick, TypeOK, Times
  <2>2. /\ \A k \in Keys : tokens[k].lastSeen \in Times
        /\ \A h \in Handlers : held[h].lastSeen \in Times
    BY DEF TypeOK, Token
  <2>3. \A t \in Times : t <= clock => t <= clock'
    BY <2>1, TimeAssumption DEF Times
  <2> QED  BY <1>4, <2>1, <2>2, <2>3 DEF Tick, TypeOK, requestVars
<1> QED  BY <1>1, <1>2, <1>3, <1>4 DEF Next

(* Types hold, and no session was seen in the future (api.go 97, 436).     *)
THEOREM TypeCorrect == Spec => []TypeOK
BY InitType, NextType, PTL DEF Spec

-----------------------------------------------------------------------------

(* A session that no request may refresh, and whose row and clock do not   *)
(* change in its favour, stays dead.                                       *)
LEMMA ExpiredStays ==
  ASSUME TypeOK, TypeOK', NEW k \in Keys, Dead(k),
         k \in issued', tokens'[k] = tokens[k], clock <= clock'
  PROVE  k \in issued' /\ Expired(tokens[k])'
<1>1. tokens[k].lastSeen \in Times /\ clock \in Times /\ clock' \in Times
  BY DEF TypeOK, Token
<1> QED  BY <1>1, TimeAssumption DEF Dead, Expired, Times

(* A step of a request leaves a dead session dead: it does not write its   *)
(* row, and the only way to the label from which it could goes through the *)
(* expiry test, with the dead row.                                         *)
LEMMA StepDead ==
  ASSUME TypeOK, TypeOK', NEW k \in Keys, Dead(k), NEW h \in Handlers, Step(h)
  PROVE  Dead(k)'
<1>c. clock' = clock /\ clock \in Times
  BY DEF Step, Arrive, Serve, Login, Refuse, Take, Request, CreateToken, ReadToken,
     CheckToken, Stamp, SaveToken, TypeOK
<1>1. k \in issued' /\ tokens'[k] = tokens[k]
  <2>1. CASE CreateToken(h)
    BY <2>1 DEF CreateToken, Dead, TypeOK
  <2>2. CASE SaveToken(h)
    <3>1. key[h] # k  BY <2>2 DEF SaveToken, Dead, MayRefresh
    <3> QED  BY <2>2, <3>1 DEF SaveToken, Dead, TypeOK
  <2> QED
    BY <2>1, <2>2 DEF Step, Arrive, Serve, Login, Refuse, Take, Request, ReadToken,
       CheckToken, Stamp, Dead
<1>2. Expired(tokens[k])'
  BY <1>1, <1>c, ExpiredStays, TimeAssumption DEF Times
<1>3. ASSUME NEW g \in Handlers, g # h PROVE ~MayRefresh(g, k)'
  <2>1. pc'[g] = pc[g] /\ key'[g] = key[g] /\ held'[g] = held[g]
    BY <1>3 DEF Step, Arrive, Serve, Login, Refuse, Take, Request, CreateToken, ReadToken,
       CheckToken, Stamp, SaveToken, Goto, GotoWith, Return, TypeOK
  <2> QED  BY <1>c, <2>1 DEF Dead, MayRefresh, Expired
<1>4. ~MayRefresh(h, k)'
  <2>1. CASE Login(h) \/ Take(h) \/ \E l \in Keys \cup {None} : Request(h, l)
    BY <2>1 DEF Login, Take, Request, MayRefresh, TypeOK
  <2>2. CASE Refuse(h) \/ CreateToken(h) \/ SaveToken(h)
    BY <2>2 DEF Refuse, CreateToken, SaveToken, Return, MayRefresh, TypeOK
  <2>3. CASE ReadToken(h)
    <3>1. CASE Return(h, "expired")  BY <3>1 DEF Return, MayRefresh, TypeOK
    <3>2. CASE GotoWith(h, "checkToken", tokens[key[h]])
      <4>1. key'[h] = key[h] /\ pc'[h] = "checkToken" /\ held'[h] = tokens[key[h]]
        BY <3>2 DEF GotoWith, Goto, TypeOK
      <4> QED  BY <1>c, <4>1 DEF Dead, MayRefresh, Expired
    <3> QED  BY <2>3, <3>1, <3>2 DEF ReadToken
  <2>4. CASE CheckToken(h)
    <3>1. CASE Return(h, "expired") \/ Return(h, "unauthorized")
      BY <3>1 DEF Return, MayRefresh, TypeOK
    <3>2. CASE ~Expired(held[h]) /\ Goto(h, "stamp")
      <4>1. key'[h] = key[h] /\ pc[h] = "checkToken"
        BY <2>4, <3>2 DEF CheckToken, Goto
      <4> QED  BY <3>2, <4>1 DEF Dead, MayRefresh
    <3> QED  BY <2>4, <3>1, <3>2 DEF CheckToken
  <2>5. CASE Stamp(h)
    BY <2>5 DEF Stamp, GotoWith, Goto, Dead, MayRefresh
  <2> QED  BY <2>1, <2>2, <2>3, <2>4, <2>5 DEF Step, Arrive, Serve
<1> QED  BY <1>1, <1>2, <1>3, <1>4 DEF Dead

LEMMA NextDead ==
  ASSUME TypeOK, TypeOK', NEW k \in Keys, Dead(k), [Next]_vars
  PROVE  Dead(k)'
<1>1. CASE UNCHANGED vars
  BY <1>1 DEF vars, requestVars, Dead, Expired, MayRefresh
<1>2. ASSUME NEW h \in Handlers, Step(h) PROVE Dead(k)'
  BY <1>2, StepDead
<1>3. CASE Restart
  BY <1>3 DEF Restart, Dead, Expired, MayRefresh
<1>4. CASE Tick
  <2>1. clock \in Times /\ clock' = clock + 1 /\ clock <= clock'
    BY <1>4, TimeAssumption DEF Tick, TypeOK, Times
  <2>2. Expired(tokens[k])'
    BY <1>4, <2>1, ExpiredStays DEF Tick, Dead
  <2>3. ASSUME NEW h \in Handlers PROVE ~MayRefresh(h, k)'
    <3>1. pc' = pc /\ key' = key /\ held' = held  BY <1>4 DEF Tick, requestVars
    <3>2. held[h].lastSeen \in Times  BY DEF TypeOK, Token
    <3>3. Expired(held[h]) => Expired(held[h])'
      BY <2>1, <3>1, <3>2, TimeAssumption DEF Expired, Times
    <3> QED  BY <3>1, <3>3 DEF Dead, MayRefresh
  <2> QED  BY <1>4, <2>2, <2>3 DEF Tick, Dead
<1> QED  BY <1>1, <1>2, <1>3, <1>4 DEF Next

(* An expired session that no request under way may still refresh never    *)
(* comes back to life (api.go 407-409, 435-438).                           *)
THEOREM DeadForGood == Spec => DeadStaysDead
<1>1. TypeOK /\ TypeOK' /\ [Next]_vars => [\A k \in Keys : Dead(k) => Dead(k)']_vars
  BY NextDead
<1> QED  BY <1>1, TypeCorrect, PTL DEF Spec, DeadStaysDead

=============================================================================
