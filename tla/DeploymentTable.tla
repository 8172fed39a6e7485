-------------------------- MODULE DeploymentTable --------------------------
(***************************************************************************)
(* The `deployments` table of mds.db as the daemon uses it through gorm.   *)
(*                                                                         *)
(* Primary keys are handed out in increasing order and never reused, and   *)
(* a delete only stamps deleted_at, so a row is absent, live or deleted.   *)
(* Every gorm call below runs in a transaction of its own and is one       *)
(* atomic step; the daemon ignores the errors these calls return.          *)
(***************************************************************************)
EXTENDS Integers

CONSTANTS
  MaxId,       \* bound: rows the table may receive
  MaxCtr,      \* bound: containers Docker may create
  Ports,       \* host ports GetNextOpenPort draws from (30000..39999)
  Domains,     \* codenames GenerateNewUniqueURL draws from, with UrlBase
  None         \* the blank port or URL

ASSUME BoundsAssumption == MaxId \in Nat /\ MaxCtr \in Nat
ASSUME NoneAssumption == None \notin Ports /\ None \notin Domains

Ids == 1..MaxId
ContainerIds == 1..MaxCtr

(* Docker's container states, "" being the status no inspection has set.   *)
Statuses == {"", "created", "running", "exited"}

(* mds.Deployment without the columns no decision depends on.  0 is the    *)
(* empty container ID.                                                     *)
Deployment ==
  [ port             : Ports \cup {None},
    url              : Domains \cup {None},
    containerID      : 0..MaxCtr,
    mongoContainerID : 0..MaxCtr,
    status           : Statuses ]

(* The zero value mds.Deployment{}.                                        *)
Blank ==
  [ port |-> None, url |-> None, containerID |-> 0, mongoContainerID |-> 0,
    status |-> "" ]

VARIABLES
  deployments,   \* the columns of every row, by primary key
  live,          \* primary keys whose deleted_at is NULL
  lastId         \* the last primary key handed out

tableVars == <<deployments, live, lastId>>

TableInit ==
  /\ deployments = [id \in Ids |-> Blank]
  /\ live = {}
  /\ lastId = 0

-----------------------------------------------------------------------------

(* db.Create: insert `row` under the next primary key.                     *)
Create(row) ==
  /\ lastId < MaxId
  /\ lastId' = lastId + 1
  /\ live' = live \cup {lastId + 1}
  /\ deployments' = [deployments EXCEPT ![lastId + 1] = row]

(* Slip: the update is not restricted to deleted_at IS NULL.               *)
UpdateRow_Unscoped(id, row) ==
  /\ deployments' = [deployments EXCEPT ![id] = row]
  /\ UNCHANGED <<live, lastId>>

(* The UPDATE of db.Save writes every column, and is restricted to         *)
(* deleted_at IS NULL.  When it matches no row gorm falls back to          *)
(* FirstOrCreate, whose INSERT under the same primary key collides with    *)
(* the soft-deleted row and fails: the table does not change.              *)
UpdateRow(id, row) ==
  /\ deployments' =
       IF id \in live THEN [deployments EXCEPT ![id] = row] ELSE deployments
  /\ UNCHANGED <<live, lastId>>

(* db.Save: a value whose primary key is zero is inserted instead.         *)
Save(id, row) == IF id = 0 THEN Create(row) ELSE UpdateRow(id, row)

(* db.Delete: a soft delete.  A value whose primary key is zero puts no    *)
(* condition on the primary key: every live row is deleted.                *)
Delete(id) ==
  /\ live' = IF id = 0 THEN {} ELSE live \ {id}
  /\ UNCHANGED <<deployments, lastId>>

(* db.First(&deployment, id) into a zero struct: when there is no live row *)
(* the struct stays blank, its primary key zero.                           *)
FirstRow(id) == IF id \in live THEN deployments[id] ELSE Blank
FirstId(id)  == IF id \in live THEN id ELSE 0

(* Slip: only running deployments are taken to hold a port.                *)
PortTaken_Running(port) ==
  \E id \in live : deployments[id].port = port /\ deployments[id].status = "running"

(* The lookup in GetNextOpenPort: some live row already holds the port.    *)
PortTaken(port) == \E id \in live : deployments[id].port = port

=============================================================================
