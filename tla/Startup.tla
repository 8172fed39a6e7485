------------------------------ MODULE Startup -------------------------------
(***************************************************************************)
(* main() of the daemon up to the listening socket: the admin account, the *)
(* certificate and key of the API, the monitor, the server; and what a     *)
(* later start finds of them when the daemon is killed, or a write fails,  *)
(* at any point.                                                           *)
(*                                                                         *)
(* pc is the statement main() is at.  Passwords and key pairs are numbered *)
(* in the order they are drawn; a file holds a number when it is whole.    *)
(***************************************************************************)
EXTENDS Integers

CONSTANTS
  MaxFaults,  \* bound: kills, failing writes, early sweeps, files removed
  None,       \* no file, no account, nothing drawn
  Partial     \* a file that was created and not, or not all, written

ASSUME FaultsAssumption == MaxFaults \in Nat
ASSUME NoneAssumption == None \notin Nat /\ Partial \notin Nat /\ None # Partial

VARIABLES
  pc,
  draws,      \* how many passwords and key pairs have been drawn
  password,   \* local to ensureAdminUser
  admin,      \* the password of the user "admin" in the table
  announced,  \* the password last logged
  pair,       \* the key pair main() has generated
  cert, key,  \* the files ApiHttpsCertificate and ApiHttpsKey
  faults

account == <<password, admin, announced>>
files == <<pair, cert, key>>
vars == <<pc, draws, account, files, faults>>

Labels ==
  { "down", "ensureAdmin", "createUser", "announce", "stat", "removeKey",
    "removeCert", "createCert", "fillCert", "createKey", "fillKey",
    "startMonitor", "startAPI", "listen", "serve" }

Init ==
  /\ pc = "down"
  /\ draws = 0
  /\ password = None /\ admin = None /\ announced = None
  /\ pair = None /\ cert = None /\ key = None
  /\ faults = 0

-----------------------------------------------------------------------------

Goto(from, to) == pc = from /\ pc' = to

(* The process ends, and its variables with it.                            *)
Exit ==
  /\ pc' = "down"
  /\ password' = None
  /\ pair' = None
  /\ UNCHANGED <<draws, admin, announced>>

Boot ==
  /\ Goto("down", "ensureAdmin")
  /\ UNCHANGED <<draws, account, files, faults>>

-----------------------------------------------------------------------------
(* ensureAdminUser                                                         *)

(* Slip: the password is logged before the user is created.                *)
EnsureAdmin_Announced ==
  /\ Goto("ensureAdmin", IF admin = None THEN "createUser" ELSE "stat")
  /\ IF admin = None
     THEN password' = draws /\ announced' = draws /\ draws' = draws + 1
     ELSE UNCHANGED <<password, announced, draws>>
  /\ UNCHANGED <<admin, files, faults>>

(* Slip: the new password is never drawn.                                  *)
EnsureAdmin_Undrawn ==
  /\ Goto("ensureAdmin", IF admin = None THEN "createUser" ELSE "stat")
  /\ UNCHANGED <<draws, account, files, faults>>

EnsureAdmin ==
  /\ Goto("ensureAdmin", IF admin = None THEN "createUser" ELSE "stat")
  /\ IF admin = None
     THEN password' = draws /\ draws' = draws + 1
     ELSE UNCHANGED <<password, draws>>
  /\ UNCHANGED <<admin, announced, files, faults>>

(* The user and its permission, in one transaction.                        *)
CreateUser ==
  /\ Goto("createUser", "announce")
  /\ admin' = password
  /\ UNCHANGED <<draws, password, announced, files, faults>>

Announce ==
  /\ Goto("announce", "stat")
  /\ announced' = password
  /\ password' = None
  /\ UNCHANGED <<draws, admin, files, faults>>

-----------------------------------------------------------------------------
(* The certificate of the API                                              *)

(* Slip: a pair is generated only when both files are missing.             *)
Stat_Both ==
  /\ Goto("stat", IF cert = None /\ key = None THEN "removeKey" ELSE "startMonitor")
  /\ UNCHANGED <<draws, account, files, faults>>

(* Only whether the files exist is looked at.                              *)
Stat ==
  /\ Goto("stat", IF cert = None \/ key = None THEN "removeKey" ELSE "startMonitor")
  /\ UNCHANGED <<draws, account, files, faults>>

(* Slip: an old key is left to be overwritten by the new one.              *)
RemoveKey_Kept ==
  /\ Goto("removeKey", "removeCert")
  /\ UNCHANGED <<draws, account, files, faults>>

RemoveKey ==
  /\ Goto("removeKey", "removeCert")
  /\ key' = None
  /\ UNCHANGED <<draws, account, pair, cert, faults>>

RemoveCert ==
  /\ Goto("removeCert", "createCert")
  /\ cert' = None
  /\ UNCHANGED <<draws, account, pair, key, faults>>

(* CreateSelfSignedCertificate, and os.Create of WriteCertificateToFile    *)
CreateCert ==
  /\ Goto("createCert", "fillCert")
  /\ pair' = draws
  /\ draws' = draws + 1
  /\ cert' = Partial
  /\ UNCHANGED <<account, key, faults>>

(* whose pem.Encode may fail without notice.                               *)
FillCert ==
  /\ Goto("fillCert", "createKey")
  /\ \/ cert' = pair /\ UNCHANGED faults
     \/ faults < MaxFaults /\ faults' = faults + 1 /\ UNCHANGED cert
  /\ UNCHANGED <<draws, account, pair, key>>

CreateKey ==
  /\ Goto("createKey", "fillKey")
  /\ key' = Partial
  /\ UNCHANGED <<draws, account, pair, cert, faults>>

FillKey ==
  /\ Goto("fillKey", "startMonitor")
  /\ \/ key' = pair /\ UNCHANGED faults
     \/ faults < MaxFaults /\ faults' = faults + 1 /\ UNCHANGED key
  /\ pair' = None
  /\ UNCHANGED <<draws, account, cert>>

-----------------------------------------------------------------------------
(* The monitor and the server                                              *)

StartMonitor ==
  /\ Goto("startMonitor", "startAPI")
  /\ UNCHANGED <<draws, account, files, faults>>

(* startAPI sets the global `database`.                                    *)
StartAPI ==
  /\ Goto("startAPI", "listen")
  /\ UNCHANGED <<draws, account, files, faults>>

(* ListenAndServeTLS loads the pair; log.Fatal when it cannot.             *)
Listen ==
  /\ pc = "listen"
  /\ IF cert \in Nat /\ cert = key
     THEN pc' = "serve" /\ UNCHANGED <<draws, account, files>>
     ELSE Exit /\ UNCHANGED <<cert, key>>
  /\ UNCHANGED faults

-----------------------------------------------------------------------------
(* Faults                                                                  *)

Fault == faults < MaxFaults /\ faults' = faults + 1

(* The process is killed, panics or calls log.Fatal.  At "startAPI" the    *)
(* first sweep of the monitor may do it, with `database` still nil.        *)
Kill ==
  /\ Fault
  /\ pc # "down"
  /\ Exit
  /\ UNCHANGED <<cert, key>>

(* Somebody removes a file of the API, to have the pair made anew.         *)
RemoveFile ==
  /\ Fault
  /\ pc \in {"down", "serve"}
  /\ \/ cert' = None /\ UNCHANGED key
     \/ key' = None /\ UNCHANGED cert
  /\ UNCHANGED <<pc, draws, account, pair>>

-----------------------------------------------------------------------------

Step ==
  \/ Boot \/ EnsureAdmin \/ CreateUser \/ Announce
  \/ Stat \/ RemoveKey \/ RemoveCert
  \/ CreateCert \/ FillCert \/ CreateKey \/ FillKey
  \/ StartMonitor \/ StartAPI \/ Listen

Next == Step \/ Kill \/ RemoveFile

Spec == Init /\ [][Next]_vars

(* main() goes on, and whoever supervises the daemon starts it again.      *)
FairSpec == Spec /\ WF_vars(Step)

-----------------------------------------------------------------------------

(* The variables have their types, locals while they are in scope.         *)
TypeOK ==
  /\ pc \in Labels
  /\ draws \in Nat
  /\ password \in Nat \cup {None}
  /\ admin \in Nat \cup {None}
  /\ announced \in Nat \cup {None}
  /\ pair \in Nat \cup {None}
  /\ cert \in Nat \cup {None, Partial}
  /\ key \in Nat \cup {None, Partial}
  /\ faults \in 0..MaxFaults
  /\ pc \in {"createUser", "announce"} => password \in Nat
  /\ pc \in {"fillCert", "createKey", "fillKey"} => pair \in Nat

(* The certificate and the key are never of two pairs, although each is    *)
(* removed and written on its own and the daemon may die, or find the disk *)
(* full, in between (main.go 119-142).  The server would refuse them, and  *)
(* no later start replace them.                                            *)
PairMatches == cert \in Nat /\ key \in Nat => cert = key

(* The admin password logged last opens the account, whichever start       *)
(* created it (main.go 161-166).                                           *)
AnnouncedOpens == announced # None => admin = announced

(* Both files are there and one is unusable.                               *)
Stuck == cert # None /\ key # None /\ Partial \in {cert, key}

(* When the faults have ended, the daemon comes up whatever they have left *)
(* of its files, unless one of them was created and not written            *)
(* (main.go 122).                                                          *)
ComesUp == <>[](pc = "serve" \/ Stuck)

=============================================================================
