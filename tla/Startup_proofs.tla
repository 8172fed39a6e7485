--------------------------- MODULE Startup_proofs ---------------------------
(***************************************************************************)
(* Proofs about Startup, for any bound on the faults.                      *)
(*                                                                         *)
(* That the files are of one pair is inductive together with where each of *)
(* them comes from while main() replaces them: the key is removed first,   *)
(* so none is left of an old pair once a new one is drawn, and a key that  *)
(* is written is the one of the certificate before it.                     *)
(***************************************************************************)
EXTENDS Startup, TLAPS

LEMMA InitType == Init => TypeOK
BY NoneAssumption, FaultsAssumption DEF Init, TypeOK, Labels

LEMMA StepType == TypeOK /\ [Next]_vars => TypeOK'
<1> SUFFICES ASSUME TypeOK, [Next]_vars PROVE TypeOK'  OBVIOUS
<1> USE NoneAssumption, FaultsAssumption DEF TypeOK, Labels, Goto, account, files
<1>1. CASE UNCHANGED vars  BY <1>1 DEF vars
<1>2. CASE Boot  BY <1>2 DEF Boot
<1>3. CASE EnsureAdmin  BY <1>3 DEF EnsureAdmin
<1>4. CASE CreateUser  BY <1>4 DEF CreateUser
<1>5. CASE Announce  BY <1>5 DEF Announce
<1>6. CASE Stat  BY <1>6 DEF Stat
<1>7. CASE RemoveKey  BY <1>7 DEF RemoveKey
<1>8. CASE RemoveCert  BY <1>8 DEF RemoveCert
<1>9. CASE CreateCert  BY <1>9 DEF CreateCert
<1>10. CASE FillCert  BY <1>10 DEF FillCert
<1>11. CASE CreateKey  BY <1>11 DEF CreateKey
<1>12. CASE FillKey  BY <1>12 DEF FillKey
<1>13. CASE StartMonitor  BY <1>13 DEF StartMonitor
<1>14. CASE StartAPI  BY <1>14 DEF StartAPI
<1>15. CASE Listen  BY <1>15 DEF Listen, Exit
<1>16. CASE Kill  BY <1>16 DEF Kill, Fault, Exit
<1>17. CASE RemoveFile  BY <1>17 DEF RemoveFile, Fault
<1> QED
  BY <1>1, <1>2, <1>3, <1>4, <1>5, <1>6, <1>7, <1>8, <1>9, <1>10, <1>11, <1>12, <1>13,
     <1>14, <1>15, <1>16, <1>17 DEF Next, Step

(* The types hold; what main() has drawn is there while it is in use.      *)
THEOREM TypeCorrect == Spec => []TypeOK
BY InitType, StepType, PTL DEF Spec

-----------------------------------------------------------------------------

(* Where the files come from while main() replaces them.                   *)
Replacing ==
  /\ pc \in {"removeCert", "createCert", "fillCert", "createKey"} => key = None
  /\ pc = "createKey" => cert \in {pair, Partial}
  /\ pc = "fillKey" => key = Partial /\ cert \in {pair, Partial}
  /\ pc = "fillCert" => cert = Partial

(* The account and what was logged of it.                                  *)
Accounted ==
  /\ announced # None => admin = announced
  /\ pc = "createUser" => admin = None
  /\ pc = "announce" => admin = password

SInv == TypeOK /\ PairMatches /\ Replacing /\ Accounted

LEMMA InitSInv == Init => SInv
BY InitType, NoneAssumption DEF Init, SInv, PairMatches, Replacing, Accounted

(* The steps that write neither file leave the pair as it is.              *)
LEMMA NextPair ==
  ASSUME SInv, Next
  PROVE  PairMatches' /\ Replacing'
<1> USE NoneAssumption DEF SInv, TypeOK, PairMatches, Replacing, Goto, files
<1>1. CASE Boot \/ EnsureAdmin \/ CreateUser \/ Announce
  BY <1>1 DEF Boot, EnsureAdmin, CreateUser, Announce
<1>2. CASE Stat \/ RemoveKey \/ RemoveCert
  BY <1>2 DEF Stat, RemoveKey, RemoveCert
<1>3. CASE CreateCert  BY <1>3 DEF CreateCert
<1>4. CASE FillCert  BY <1>4 DEF FillCert
<1>5. CASE CreateKey  BY <1>5 DEF CreateKey
<1>6. CASE FillKey  BY <1>6 DEF FillKey
<1>7. CASE StartMonitor \/ StartAPI \/ Listen
  BY <1>7 DEF StartMonitor, StartAPI, Listen, Exit
<1>8. CASE Kill \/ RemoveFile
  BY <1>8 DEF Kill, RemoveFile, Fault, Exit
<1> QED
  BY <1>1, <1>2, <1>3, <1>4, <1>5, <1>6, <1>7, <1>8 DEF Next, Step

LEMMA NextAccount ==
  ASSUME SInv, Next
  PROVE  Accounted'
<1> USE NoneAssumption DEF SInv, TypeOK, Accounted, Goto, account
<1>1. CASE Boot \/ EnsureAdmin  BY <1>1 DEF Boot, EnsureAdmin
<1>2. CASE CreateUser \/ Announce  BY <1>2 DEF CreateUser, Announce
<1>3. CASE Stat \/ RemoveKey \/ RemoveCert \/ CreateCert \/ FillCert \/ CreateKey \/ FillKey
  BY <1>3 DEF Stat, RemoveKey, RemoveCert, CreateCert, FillCert, CreateKey, FillKey
<1>4. CASE StartMonitor \/ StartAPI \/ Listen
  BY <1>4 DEF StartMonitor, StartAPI, Listen, Exit
<1>5. CASE Kill \/ RemoveFile
  BY <1>5 DEF Kill, RemoveFile, Exit
<1> QED  BY <1>1, <1>2, <1>3, <1>4, <1>5 DEF Next, Step

LEMMA NextSInv == SInv /\ [Next]_vars => SInv'
<1> SUFFICES ASSUME SInv, [Next]_vars PROVE SInv'  OBVIOUS
<1>1. CASE UNCHANGED vars
  BY <1>1 DEF vars, account, files, SInv, TypeOK, PairMatches, Replacing, Accounted
<1>2. CASE Next
  <2>1. TypeOK'  BY <1>2, StepType DEF SInv
  <2> QED  BY <1>2, <2>1, NextPair, NextAccount DEF SInv
<1> QED  BY <1>1, <1>2

(* The certificate and key on the disk are never of two pairs (main.go     *)
(* 119-142).                                                               *)
THEOREM PairsHold == Spec => []PairMatches
<1>1. SInv => PairMatches  BY DEF SInv
<1> QED  BY <1>1, InitSInv, NextSInv, PTL DEF Spec

(* The password logged last opens the admin account (main.go 161-166).     *)
THEOREM AnnouncementsHold == Spec => []AnnouncedOpens
<1>1. SInv => AnnouncedOpens  BY DEF SInv, Accounted, AnnouncedOpens
<1> QED  BY <1>1, InitSInv, NextSInv, PTL DEF Spec

=============================================================================
