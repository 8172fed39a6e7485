------------------------------ MODULE Sessions ------------------------------
(***************************************************************************)
(* Login and authentication (api.go): the authentication_tokens table and  *)
(* the requests that read and refresh it, as Unix time goes by.            *)
(*                                                                         *)
(* A request is a process with a label pc[h], the session key it presents, *)
(* held[h], the AuthenticationToken struct it works on, and reply[h], what *)
(* its caller was last answered.  Users and their permissions are written  *)
(* once, when the user is created.                                         *)
(***************************************************************************)
EXTENDS Integers, FiniteSets

CONSTANTS
  Handlers,      \* requests that may be in progress at once
  Keys,          \* session keys GenerateRandomString may return
  Users,         \* accounts in the users table
  Permissions,   \* the permissions endpoints ask for
  PermissionsOf, \* the permissions of each user; "*.*" grants everything
  Week,          \* 60 * 60 * 24 * 7
  MaxTime,       \* bound: the clock stops here
  None           \* no user, no key, no permission

ASSUME TimeAssumption == Week \in Nat /\ MaxTime \in Nat
ASSUME GrantAssumption ==
  PermissionsOf \in [Users -> SUBSET (Permissions \cup {"*.*"})]
ASSUME NoneAssumption == None \notin Users \cup Keys \cup Permissions

VARIABLES
  clock,         \* time.Now().Unix(), in units the bound allows
  issued,        \* session keys with a row in the table
  tokens,        \* the row of each issued key
  pc, key, need, held,
  reply

requestVars == <<pc, key, need, held, reply>>
vars == <<clock, issued, tokens, requestVars>>

Times == 0..MaxTime

(* mds.AuthenticationToken; its key is the index of `tokens`.              *)
Token == [userID : Users \cup {None}, lastSeen : Times, persistent : BOOLEAN]

(* The zero value mds.AuthenticationToken{}.                               *)
Blank == [userID |-> None, lastSeen |-> 0, persistent |-> FALSE]

Labels == {"idle", "createToken", "readToken", "checkToken", "stamp", "saveToken"}

(* A login is answered with its key, in JSON, everything else in text.     *)
(* "lost" is no answer at all: the connection is gone.                     *)
Answers == Keys \cup {"refused", "expired", "unauthorized", "ok", "lost"}

Init ==
  /\ clock = 0
  /\ issued = {}
  /\ tokens = [k \in Keys |-> Blank]
  /\ pc = [h \in Handlers |-> "idle"]
  /\ key = [h \in Handlers |-> None]
  /\ need = [h \in Handlers |-> None]
  /\ held = [h \in Handlers |-> Blank]
  /\ reply = [h \in Handlers |-> None]

-----------------------------------------------------------------------------

Goto(h, label) ==
  pc' = [pc EXCEPT ![h] = label] /\ UNCHANGED <<key, need, reply>>

GotoWith(h, label, token) == Goto(h, label) /\ held' = [held EXCEPT ![h] = token]

Return(h, answer) ==
  /\ reply' = [reply EXCEPT ![h] = answer]
  /\ pc' = [pc EXCEPT ![h] = "idle"]
  /\ key' = [key EXCEPT ![h] = None]
  /\ need' = [need EXCEPT ![h] = None]
  /\ held' = [held EXCEPT ![h] = Blank]

(* Keys no login under way is to be given: the bound on logins.            *)
KeysLeft ==
  Cardinality(Keys \ issued) - Cardinality({h \in Handlers : pc[h] = "createToken"})

(* POST /login with the right password: handleLoginAttempt builds a token  *)
(* seen now.  The "persistent" parameter reaches it but not the token.     *)
Login(h) ==
  /\ pc[h] = "idle"
  /\ KeysLeft > 0
  /\ pc' = [pc EXCEPT ![h] = "createToken"]
  /\ \E u \in Users :
        held' = [held EXCEPT ![h] =
                   [userID |-> u, lastSeen |-> clock, persistent |-> FALSE]]
  /\ reply' = [reply EXCEPT ![h] = None]
  /\ UNCHANGED <<clock, issued, tokens, key, need>>

(* POST /login with an unknown user or a wrong password.                   *)
Refuse(h) ==
  /\ pc[h] = "idle"
  /\ Return(h, "refused")
  /\ UNCHANGED <<clock, issued, tokens>>

(* Slip: the answer is sent although nothing was inserted.                 *)
CreateToken_Lost(h) ==
  /\ pc[h] = "createToken"
  /\ \E k \in Keys \ issued : Return(h, k)
  /\ UNCHANGED <<clock, issued, tokens>>

(* database.Create(&token), under a key drawn from 32 random bytes.        *)
CreateToken(h) ==
  /\ pc[h] = "createToken"
  /\ \E k \in Keys \ issued :
        /\ issued' = issued \cup {k}
        /\ tokens' = [tokens EXCEPT ![k] = held[h]]
        /\ Return(h, k)
  /\ UNCHANGED clock

(* A request to one of the endpoints that call checkAuthentication.        *)
Request(h, k) ==
  /\ pc[h] = "idle"
  /\ key' = [key EXCEPT ![h] = k]
  /\ \E p \in Permissions : need' = [need EXCEPT ![h] = p]
  /\ pc' = [pc EXCEPT ![h] = "readToken"]
  /\ reply' = [reply EXCEPT ![h] = None]
  /\ UNCHANGED <<clock, issued, tokens, held>>

(* The lookup by key.  An unknown key yields a blank struct, last seen in  *)
(* 1970: it is answered "Token Expired".                                   *)
ReadToken(h) ==
  /\ pc[h] = "readToken"
  /\ IF key[h] \in issued
     THEN GotoWith(h, "checkToken", tokens[key[h]])
     ELSE Return(h, "expired")
  /\ UNCHANGED <<clock, issued, tokens>>

Expired(token) == ~token.persistent /\ clock - token.lastSeen > Week

Permitted(token, p) == PermissionsOf[token.userID] \cap {"*.*", p} # {}

(* Slip: the permissions are looked at first, and decide.                  *)
CheckToken_PermissionFirst(h) ==
  /\ pc[h] = "checkToken"
  /\ \/ Permitted(held[h], need[h]) /\ Goto(h, "stamp") /\ UNCHANGED held
     \/ ~Permitted(held[h], need[h]) /\ Return(h, "unauthorized")
  /\ UNCHANGED <<clock, issued, tokens>>

(* The expiry test (code 2), then the permissions (code 1).                *)
CheckToken(h) ==
  /\ pc[h] = "checkToken"
  /\ \/ Expired(held[h]) /\ Return(h, "expired")
     \/ ~Expired(held[h]) /\ ~Permitted(held[h], need[h]) /\ Return(h, "unauthorized")
     \/ ~Expired(held[h]) /\ Permitted(held[h], need[h]) /\ Goto(h, "stamp") /\ UNCHANGED held
  /\ UNCHANGED <<clock, issued, tokens>>

(* Slip: what is stored is the time at which the token expires.            *)
Stamp_Deadline(h) ==
  /\ pc[h] = "stamp"
  /\ GotoWith(h, "saveToken", [held[h] EXCEPT !.lastSeen = clock + Week])
  /\ UNCHANGED <<clock, issued, tokens>>

(* updateLastSeen: the clock is read again, then the struct saved, all its *)
(* columns with it; code 0 is returned.                                    *)
Stamp(h) ==
  /\ pc[h] = "stamp"
  /\ GotoWith(h, "saveToken", [held[h] EXCEPT !.lastSeen = clock])
  /\ UNCHANGED <<clock, issued, tokens>>

(* The endpoint then goes on; whatever it answers is "ok" here.  A failed  *)
(* creation panics instead (api.go 176), which closes the connection.      *)
SaveToken(h) ==
  /\ pc[h] = "saveToken"
  /\ tokens' = [tokens EXCEPT ![key[h]] = held[h]]
  /\ Return(h, "ok") \/ Return(h, "lost")
  /\ UNCHANGED <<clock, issued>>

(* The caller has its answer and is done with it.                          *)
Take(h) ==
  /\ pc[h] = "idle"
  /\ reply' = [reply EXCEPT ![h] = None]
  /\ UNCHANGED <<clock, issued, tokens, pc, key, need, held>>

(* The daemon dies and is started again: the table is all that is left.    *)
Restart ==
  /\ pc' = [h \in Handlers |-> "idle"]
  /\ key' = [h \in Handlers |-> None]
  /\ need' = [h \in Handlers |-> None]
  /\ held' = [h \in Handlers |-> Blank]
  /\ reply' = [h \in Handlers |-> IF pc[h] = "idle" THEN reply[h] ELSE "lost"]
  /\ UNCHANGED <<clock, issued, tokens>>

Tick ==
  /\ clock < MaxTime
  /\ clock' = clock + 1
  /\ UNCHANGED <<issued, tokens, requestVars>>

-----------------------------------------------------------------------------

Arrive(h) == Login(h) \/ Refuse(h) \/ Take(h) \/ \E k \in Keys \cup {None} : Request(h, k)

Serve(h) ==
  \/ CreateToken(h) \/ ReadToken(h) \/ CheckToken(h) \/ Stamp(h) \/ SaveToken(h)

Step(h) == Arrive(h) \/ Serve(h)

Next == (\E h \in Handlers : Step(h)) \/ Restart \/ Tick

Spec == Init /\ [][Next]_vars

-----------------------------------------------------------------------------

(* The variables have their types, and nothing was seen in the future.     *)
TypeOK ==
  /\ clock \in Times
  /\ issued \subseteq Keys
  /\ tokens \in [Keys -> Token]
  /\ \A k \in Keys : tokens[k].lastSeen <= clock
  /\ pc \in [Handlers -> Labels]
  /\ key \in [Handlers -> Keys \cup {None}]
  /\ need \in [Handlers -> Permissions \cup {None}]
  /\ held \in [Handlers -> Token]
  /\ \A h \in Handlers : held[h].lastSeen <= clock
  /\ reply \in [Handlers -> Answers \cup {None}]

(* A request under way with key k may still refresh it: it has passed the  *)
(* expiry test, or is about to, with a struct that is not expired.         *)
MayRefresh(h, k) ==
  /\ key[h] = k
  /\ \/ pc[h] \in {"stamp", "saveToken"}
     \/ pc[h] = "checkToken" /\ ~Expired(held[h])

(* A session that has expired and that no request is about to refresh.     *)
Dead(k) ==
  /\ k \in issued
  /\ Expired(tokens[k])
  /\ \A h \in Handlers : ~MayRefresh(h, k)

(* "If the token hasn't been used in a week. Force a relogin." (api.go     *)
(* 407): a dead session stays dead, although every request saves the whole *)
(* row it read at an earlier time, and saves may come out of order.        *)
DeadStaysDead == [][\A k \in Keys : Dead(k) => Dead(k)']_vars

=============================================================================
