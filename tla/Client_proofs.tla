---------------------------- MODULE Client_proofs ---------------------------
(***************************************************************************)
(* Proofs about Client, for any number of processes, keys and users.       *)
(*                                                                         *)
(* The client does to the daemon only what Sessions lets a caller do, so   *)
(* what is proved of Sessions holds here; and the key it saves is followed *)
(* from the row to the answer, the process and the file.                   *)
(***************************************************************************)
EXTENDS Client, Sessions_proofs

LEMMA ActionImplements ==
  ASSUME ClientTypeOK, [ClientNext]_allVars
  PROVE  [Next]_vars
<1>1. CASE UNCHANGED allVars  BY <1>1 DEF allVars
<1>2. CASE DaemonStep  BY <1>2 DEF DaemonStep, Next, Step
<1>3. ASSUME NEW h \in Handlers, Connect(h) PROVE [Next]_vars
  BY <1>3 DEF Connect, Next, Step, Arrive
<1>4. ASSUME NEW h \in Handlers, Send(h) PROVE [Next]_vars
  <2>1. token[h] \in Keys \cup {None}  BY DEF ClientTypeOK
  <2> QED  BY <1>4, <2>1 DEF Send, Next, Step, Arrive
<1>5. ASSUME NEW h \in Handlers, LoginAnswered(h) \/ Answered(h) PROVE [Next]_vars
  BY <1>5 DEF LoginAnswered, Answered, Next, Step, Arrive
<1>6. ASSUME NEW h \in Handlers, Interrupt(h) PROVE [Next]_vars
  BY <1>6 DEF Interrupt, Next, Step, Arrive
<1>7. ASSUME NEW h \in Handlers, OpenSession(h) \/ WriteSession(h) \/ StartCommand(h) \/ GiveUp(h)
      PROVE  [Next]_vars
  BY <1>7 DEF OpenSession, WriteSession, StartCommand, GiveUp
<1>8. CASE Logout  BY <1>8 DEF Logout
<1> QED
  BY <1>1, <1>2, <1>3, <1>4, <1>5, <1>6, <1>7, <1>8 DEF ClientNext, Act, User

-----------------------------------------------------------------------------

(* Where a session key is on its way from the row to the file.             *)
AnswerIsIssued == \A h \in Handlers : reply[h] \in Keys => reply[h] \in issued

TokenIsIssued ==
  \A h \in Handlers : cmd[h] \in {"open", "write"} => token[h] \in issued

LinkedIsThere == \A h \in Handlers : linked[h] => session # "absent"

CInv ==
  ClientTypeOK /\ AnswerIsIssued /\ TokenIsIssued /\ LinkedIsThere /\ SavedSessionIsIssued

LEMMA InitCInv == ClientInit => CInv
<1> SUFFICES ASSUME ClientInit PROVE CInv  OBVIOUS
<1>1. TypeOK  BY InitType DEF ClientInit
<1> QED
  BY <1>1, TextAssumption, NoneAssumption
  DEF ClientInit, Init, CInv, ClientTypeOK, Commands, Contents, AnswerIsIssued,
      TokenIsIssued, LinkedIsThere, SavedSessionIsIssued

(* A step of the daemon issues keys, takes none back, and answers only     *)
(* with one it has issued.                                                 *)
LEMMA NextIssued ==
  ASSUME TypeOK, AnswerIsIssued, [Next]_vars
  PROVE  issued \subseteq issued' /\ AnswerIsIssued'
<1> USE TextAssumption, NoneAssumption DEF TypeOK, AnswerIsIssued
<1>1. CASE UNCHANGED vars  BY <1>1 DEF vars, requestVars
<1>2. ASSUME NEW h \in Handlers, Arrive(h)
      PROVE  issued \subseteq issued' /\ AnswerIsIssued'
  <2>1. issued' = issued  BY <1>2 DEF Arrive, Login, Refuse, Take, Request, Return
  <2>2. \A g \in Handlers : reply'[g] = reply[g] \/ reply'[g] \notin Keys
    BY <1>2 DEF Arrive, Login, Refuse, Take, Request, Return
  <2> QED  BY <2>1, <2>2
<1>3. ASSUME NEW h \in Handlers, Serve(h)
      PROVE  issued \subseteq issued' /\ AnswerIsIssued'
  <2>1. CASE CreateToken(h)
    <3>1. PICK k \in Keys \ issued : issued' = issued \cup {k} /\ Return(h, k)
      BY <2>1 DEF CreateToken
    <3>2. \A g \in Handlers : reply'[g] = reply[g] \/ reply'[g] = k
      BY <3>1 DEF Return
    <3> QED  BY <3>1, <3>2
  <2>2. CASE ~CreateToken(h)
    <3>1. issued' = issued
      BY <1>3, <2>2 DEF Serve, ReadToken, CheckToken, Stamp, SaveToken
    <3>2. \A g \in Handlers : reply'[g] = reply[g] \/ reply'[g] \notin Keys
      BY <1>3, <2>2 DEF Serve, ReadToken, CheckToken, Stamp, SaveToken, Return,
         Goto, GotoWith
    <3> QED  BY <3>1, <3>2
  <2> QED  BY <2>1, <2>2
<1>4. CASE Restart
  <2>1. \A g \in Handlers : reply'[g] = reply[g] \/ reply'[g] = "lost"
    BY <1>4 DEF Restart
  <2> QED  BY <1>4, <2>1 DEF Restart
<1>5. CASE Tick  BY <1>5 DEF Tick, requestVars
<1> QED  BY <1>1, <1>2, <1>3, <1>4, <1>5 DEF Next, Step

(* The types of the client, given those of the daemon.                     *)
LEMMA ClientType ==
  ASSUME ClientTypeOK, TypeOK', ClientNext
  PROVE  ClientTypeOK'
<1> USE DEF ClientTypeOK, Commands, Contents, Become, Exit
<1>1. CASE DaemonStep /\ UNCHANGED clientVars  BY <1>1 DEF clientVars
<1>2. ASSUME NEW h \in Handlers, Act(h) PROVE ClientTypeOK'
  <2>1. CASE LoginAnswered(h)  BY <2>1 DEF LoginAnswered
  <2>2. CASE OpenSession(h)  BY <2>2 DEF OpenSession
  <2>3. CASE WriteSession(h)  BY <2>3 DEF WriteSession
  <2>4. CASE Answered(h)  BY <2>4 DEF Answered
  <2> QED  BY <1>2, <2>1, <2>2, <2>3, <2>4 DEF Act
<1>3. ASSUME NEW h \in Handlers, User(h) PROVE ClientTypeOK'
  <2>1. CASE Connect(h)  BY <2>1 DEF Connect
  <2>2. CASE StartCommand(h)  BY <2>2 DEF StartCommand
  <2>3. CASE Send(h)  BY <2>3 DEF Send
  <2>4. CASE Interrupt(h)  BY <2>4 DEF Interrupt
  <2>5. CASE GiveUp(h)  BY <2>5 DEF GiveUp
  <2> QED  BY <1>3, <2>1, <2>2, <2>3, <2>4, <2>5 DEF User
<1>4. CASE Logout  BY <1>4 DEF Logout
<1> QED  BY <1>1, <1>2, <1>3, <1>4 DEF ClientNext

(* A step leaves the key in the file, and the one on its way to it, among  *)
(* those issued, and no process with its file unlinked writes.             *)
LEMMA ClientSaved ==
  ASSUME CInv, ClientTypeOK', issued \subseteq issued', ClientNext
  PROVE  TokenIsIssued' /\ LinkedIsThere' /\ SavedSessionIsIssued'
<1> USE TextAssumption
    DEF CInv, ClientTypeOK, TokenIsIssued, LinkedIsThere, SavedSessionIsIssued, Become, Exit
<1>1. CASE DaemonStep /\ UNCHANGED clientVars  BY <1>1 DEF clientVars
<1>2. ASSUME NEW h \in Handlers, Act(h)
      PROVE  TokenIsIssued' /\ LinkedIsThere' /\ SavedSessionIsIssued'
  <2>1. CASE LoginAnswered(h)  BY <2>1 DEF LoginAnswered, AnswerIsIssued
  <2>2. CASE OpenSession(h)  BY <2>2 DEF OpenSession
  <2>3. CASE WriteSession(h)  BY <2>3 DEF WriteSession
  <2>4. CASE Answered(h)  BY <2>4 DEF Answered
  <2> QED  BY <1>2, <2>1, <2>2, <2>3, <2>4 DEF Act
<1>3. ASSUME NEW h \in Handlers, User(h)
      PROVE  TokenIsIssued' /\ LinkedIsThere' /\ SavedSessionIsIssued'
  <2>1. CASE Connect(h)  BY <2>1 DEF Connect
  <2>2. CASE StartCommand(h)  BY <2>2 DEF StartCommand
  <2>3. CASE Send(h)  BY <2>3 DEF Send
  <2>4. CASE Interrupt(h)  BY <2>4 DEF Interrupt
  <2>5. CASE GiveUp(h)  BY <2>5 DEF GiveUp
  <2> QED  BY <1>3, <2>1, <2>2, <2>3, <2>4, <2>5 DEF User
<1>4. CASE Logout  BY <1>4 DEF Logout
<1> QED  BY <1>1, <1>2, <1>3, <1>4 DEF ClientNext

LEMMA NextCInv == CInv /\ [ClientNext]_allVars => CInv'
<1> SUFFICES ASSUME CInv, [ClientNext]_allVars PROVE CInv'  OBVIOUS
<1>1. CASE UNCHANGED allVars
  BY <1>1 DEF allVars, vars, requestVars, clientVars, CInv, ClientTypeOK, TypeOK,
     AnswerIsIssued, TokenIsIssued, LinkedIsThere, SavedSessionIsIssued
<1>2. CASE ClientNext
  <2>1. [Next]_vars  BY ActionImplements DEF CInv
  <2>2. TypeOK'  BY <2>1, NextType DEF CInv, ClientTypeOK
  <2>3. issued \subseteq issued' /\ AnswerIsIssued'
    BY <2>1, NextIssued DEF CInv, ClientTypeOK
  <2>4. ClientTypeOK'  BY <1>2, <2>2, ClientType DEF CInv
  <2> QED  BY <1>2, <2>3, <2>4, ClientSaved DEF CInv
<1> QED  BY <1>1, <1>2

LEMMA CInvHolds == ClientSpec => []CInv
BY InitCInv, NextCInv, PTL DEF ClientSpec

(* The types hold, of the client and the daemon together.                  *)
THEOREM ClientTypesHold == ClientSpec => []ClientTypeOK
<1>1. CInv => ClientTypeOK  BY DEF CInv
<1> QED  BY <1>1, CInvHolds, PTL

(* The client implements the callers Sessions allows.                      *)
THEOREM ClientIsCaller == ClientSpec => Spec
<1>1. ClientInit => Init  BY DEF ClientInit
<1>2. CInv /\ [ClientNext]_allVars => [Next]_vars  BY ActionImplements DEF CInv
<1> QED  BY <1>1, <1>2, CInvHolds, PTL DEF ClientSpec, Spec

(* An expired session stays dead whatever the client's processes do.       *)
THEOREM ClientDeadForGood == ClientSpec => DeadStaysDead
BY ClientIsCaller, DeadForGood

(* A saved session names a key the daemon has a row for (connect.go        *)
(* 129-150).                                                               *)
THEOREM SavedHold == ClientSpec => []SavedSessionIsIssued
<1>1. CInv => SavedSessionIsIssued  BY DEF CInv
<1> QED  BY <1>1, CInvHolds, PTL

(* What logout has removed comes back only by opening it again.            *)
THEOREM LogoutsHold == ClientSpec => LogoutHolds
<1> DEFINE Reopened ==
      session = "absent" /\ session' # "absent" =>
        session' = "empty" /\ \E h \in Handlers : cmd[h] = "open" /\ linked'[h]
<1>1. ASSUME CInv, ClientNext PROVE Reopened
  <2> SUFFICES ASSUME session = "absent", session' # "absent" PROVE Reopened  OBVIOUS
  <2>1. PICK h \in Handlers : OpenSession(h) \/ WriteSession(h)
    BY <1>1 DEF ClientNext, clientVars, Act, User, LoginAnswered, Answered, Connect,
       StartCommand, Send, GiveUp, Interrupt, Logout
  <2>2. CASE OpenSession(h)
    BY <1>1, <2>2 DEF OpenSession, CInv, ClientTypeOK
  <2>3. CASE WriteSession(h)
    BY <1>1, <2>3 DEF WriteSession, CInv, LinkedIsThere
  <2> QED  BY <2>1, <2>2, <2>3
<1>2. CInv /\ [ClientNext]_allVars => [Reopened]_allVars  BY <1>1
<1> QED  BY <1>2, CInvHolds, PTL DEF ClientSpec, LogoutHolds

=============================================================================
