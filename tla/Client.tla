------------------------------- MODULE Client -------------------------------
(***************************************************************************)
(* The command line client (cli/cmd) on top of Sessions: processes of one  *)
(* user on one machine, which share the file ~/.mds-session, each with one *)
(* request to the daemon at a time.                                        *)
(*                                                                         *)
(* Process h runs a command, cmd[h], with the session key token[h]; the    *)
(* handler of its request is h of Sessions.  A file is written through a   *)
(* descriptor: linked[h] holds while the one h has opened is still the     *)
(* file of that name.                                                      *)
(***************************************************************************)
EXTENDS Sessions

(* Session keys are told apart from the texts the daemon answers with, and *)
(* records from what no record can be read from.                           *)
ASSUME TextAssumption ==
  { "refused", "expired", "unauthorized", "ok", "lost", "absent", "empty", "garbled" }
    \cap (Keys \cup {None}) = {}

VARIABLES
  cmd,       \* where each process stands
  token,     \* the key it was given or has read, None when it has none
  linked,    \* whether its open file is the one called .mds-session
  session    \* that file: "absent", "empty", "garbled", or the key in it

clientVars == <<cmd, token, linked, session>>
allVars == <<vars, clientVars>>

(* connect goes through login, open and write, create and list through     *)
(* prompt and wait.                                                        *)
Commands == {"off", "login", "open", "write", "prompt", "wait"}

(* A record that holds the empty key is written None.                      *)
Contents == {"absent", "empty", "garbled", None} \cup Keys

ClientInit ==
  /\ Init
  /\ cmd = [h \in Handlers |-> "off"]
  /\ token = [h \in Handlers |-> None]
  /\ linked = [h \in Handlers |-> FALSE]
  /\ session = "absent"

-----------------------------------------------------------------------------

Become(h, c, k) ==
  /\ cmd' = [cmd EXCEPT ![h] = c]
  /\ token' = [token EXCEPT ![h] = k]

Exit(h) == Become(h, "off", None) /\ linked' = [linked EXCEPT ![h] = FALSE]

(* connect posts the credentials it has asked for; its guard against a     *)
(* session that exists reads a setting nothing sets (connect.go 61).       *)
Connect(h) ==
  /\ cmd[h] = "off"
  /\ Login(h) \/ Refuse(h)
  /\ Become(h, "login", None)
  /\ UNCHANGED <<linked, session>>

(* Slip: the error of Unmarshal is ignored, and a blank record goes on.    *)
LoginAnswered_Unchecked(h) ==
  /\ cmd[h] = "login"
  /\ reply[h] # None
  /\ IF reply[h] = "lost"
     THEN Exit(h)
     ELSE Become(h, "open", IF reply[h] \in Keys THEN reply[h] ELSE None) /\ UNCHANGED linked
  /\ Take(h)
  /\ UNCHANGED session

(* Slip: a login that fails is tried again with the same credentials.      *)
LoginAnswered_Again(h) ==
  /\ cmd[h] = "login"
  /\ reply[h] # None
  /\ IF reply[h] \in Keys
     THEN Become(h, "open", reply[h]) /\ Take(h)
     ELSE Refuse(h) /\ UNCHANGED <<cmd, token>>
  /\ UNCHANGED <<linked, session>>

(* Only an answer in JSON is taken for a token.                            *)
LoginAnswered(h) ==
  /\ cmd[h] = "login"
  /\ reply[h] # None
  /\ IF reply[h] \in Keys
     THEN Become(h, "open", reply[h]) /\ UNCHANGED linked
     ELSE Exit(h)
  /\ Take(h)
  /\ UNCHANGED session

(* WriteFile opens the file, which creates or empties it,                  *)
OpenSession(h) ==
  /\ cmd[h] = "open"
  /\ Become(h, "write", token[h])
  /\ session' = "empty"
  /\ linked' = [linked EXCEPT ![h] = TRUE]
  /\ UNCHANGED vars

(* Slip: the file is found by its name, and created where it has gone.     *)
WriteSession_ByName(h) ==
  /\ cmd[h] = "write"
  /\ session' = token[h]
  /\ Exit(h)
  /\ UNCHANGED vars

(* and writes the record at its start, maybe over one that is longer.      *)
WriteSession(h) ==
  /\ cmd[h] = "write"
  /\ \/ linked[h] /\ session' = token[h]
     \/ linked[h] /\ session # "empty" /\ session' = "garbled"
     \/ ~linked[h] /\ UNCHANGED session
  /\ Exit(h)
  /\ UNCHANGED vars

(* A process that starts reads the session file in init().  Without a      *)
(* record it has no host name, and no request it makes leaves the machine. *)
StartCommand(h) ==
  /\ cmd[h] = "off"
  /\ session \in Keys \cup {None}
  /\ Become(h, "prompt", session)
  /\ UNCHANGED <<linked, session, vars>>

(* The prompts of create answered, or at once for list.                    *)
Send(h) ==
  /\ cmd[h] = "prompt"
  /\ Request(h, token[h])
  /\ Become(h, "wait", None)
  /\ UNCHANGED <<linked, session>>

(* create ends without a request: "no" is answered, or a file it was told  *)
(* of cannot be read.                                                      *)
GiveUp(h) ==
  /\ cmd[h] = "prompt"
  /\ Exit(h)
  /\ UNCHANGED <<session, vars>>

(* create prints any answer, list panics on one that is no list of         *)
(* deployments, both end.                                                  *)
Answered(h) ==
  /\ cmd[h] = "wait"
  /\ reply[h] # None
  /\ Exit(h)
  /\ Take(h)
  /\ UNCHANGED session

(* logout, in one step of a process of its own: the daemon is not told.    *)
Logout ==
  /\ session # "absent"
  /\ session' = "absent"
  /\ linked' = [h \in Handlers |-> FALSE]
  /\ UNCHANGED <<cmd, token, vars>>

(* A process is interrupted; a handler at work on its request goes on.     *)
Interrupt(h) ==
  /\ cmd[h] # "off"
  /\ Exit(h)
  /\ IF pc[h] = "idle" THEN Take(h) ELSE UNCHANGED vars
  /\ UNCHANGED session

-----------------------------------------------------------------------------

DaemonStep == (\E h \in Handlers : Serve(h)) \/ Restart \/ Tick

Act(h) ==
  LoginAnswered(h) \/ OpenSession(h) \/ WriteSession(h) \/ Answered(h)

User(h) ==
  Connect(h) \/ StartCommand(h) \/ Send(h) \/ GiveUp(h) \/ Interrupt(h)

ClientNext ==
  \/ DaemonStep /\ UNCHANGED clientVars
  \/ \E h \in Handlers : Act(h) \/ User(h)
  \/ Logout

ClientSpec == ClientInit /\ [][ClientNext]_allVars

(* The daemon answers and the client goes on; nobody need answer a prompt. *)
Fairness ==
  \A h \in Handlers :
     WF_allVars(Serve(h) /\ UNCHANGED clientVars) /\ WF_allVars(Act(h))

ClientFairSpec == ClientSpec /\ Fairness

-----------------------------------------------------------------------------

(* The variables of the client have their types.                           *)
ClientTypeOK ==
  /\ TypeOK
  /\ cmd \in [Handlers -> Commands]
  /\ token \in [Handlers -> Keys \cup {None}]
  /\ linked \in [Handlers -> BOOLEAN]
  /\ session \in Contents

(* The key in the session file is one the daemon has a row for, although   *)
(* it came through an answer, a process and a file, and the daemon or the  *)
(* process may have died between any two of them (connect.go 129-150).     *)
SavedSessionIsIssued == session \in Keys \cup {None} => session \in issued

(* What logout has removed comes back only through a connect that opens    *)
(* the file afterwards, never through one that had it open (connect.go     *)
(* 150, logout.go 34).                                                     *)
LogoutHolds ==
  [][session = "absent" /\ session' # "absent" =>
       session' = "empty" /\ \E h \in Handlers : cmd[h] = "open" /\ linked'[h]]_allVars

(* Every command that has sent its request ends, whatever becomes of the   *)
(* daemon (list.go 81, create.go 178, connect.go 129: no time limit).      *)
CommandsEnd ==
  \A h \in Handlers :
     cmd[h] \in {"login", "open", "write", "wait"} ~> cmd[h] = "off"

=============================================================================
