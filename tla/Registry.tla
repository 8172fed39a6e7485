------------------------------ MODULE Registry ------------------------------
(***************************************************************************)
(* What the daemon promises about deployments, however its handlers and    *)
(* its monitor interleave, whatever fails and whenever it is restarted.    *)
(*                                                                         *)
(* A deployment is registered under a fresh id with a port it keeps, has   *)
(* at most one name reserved and at most one container of each kind built  *)
(* for it, and is retired for good.  The record the API shows of it is a   *)
(* lossy one: a column may be blank, or become blank again, but it never   *)
(* shows what belongs to another deployment.  The proxy only ever serves   *)
(* names at the port of a deployment they were reserved for.               *)
(***************************************************************************)
EXTENDS Integers

CONSTANTS
  Ids,           \* deployments there is room for
  ContainerIds,  \* containers there is room for
  Ports, Domains,
  None

VARIABLES
  phase,         \* "absent", "live" or "gone"
  port,          \* the port a deployment was registered with
  name,          \* the domain reserved for it
  url,           \* its record: the URL shown
  boxes,         \* its record: the containers shown, 0 for none
  built,         \* every container: for whom, of which kind, on which port
  served         \* the port behind each domain

vars == <<phase, port, name, url, boxes, built, served>>

Phases == {"absent", "live", "gone"}
Kinds == {"app", "mongo"}

Init ==
  /\ phase = [id \in Ids |-> "absent"]
  /\ port = [id \in Ids |-> None]
  /\ name = [id \in Ids |-> None]
  /\ url = [id \in Ids |-> None]
  /\ boxes = [id \in Ids |-> [app |-> 0, mongo |-> 0]]
  /\ built =
       [c \in ContainerIds |-> [owner |-> 0, kind |-> "app", port |-> None]]
  /\ served = [d \in Domains |-> None]

-----------------------------------------------------------------------------

(* A row is inserted.  The one a sweep inserts for a row deleted under it  *)
(* has no port.                                                            *)
Register(id, p) ==
  /\ phase[id] = "absent"
  /\ phase' = [phase EXCEPT ![id] = "live"]
  /\ port' = [port EXCEPT ![id] = p]
  /\ url' = [url EXCEPT ![id] = None]
  /\ boxes' = [boxes EXCEPT ![id] = [app |-> 0, mongo |-> 0]]
  /\ UNCHANGED <<name, built, served>>

(* A name is reserved, once, even when the deployment is already gone.     *)
Reserve(id, d) ==
  /\ phase[id] # "absent"
  /\ name[id] = None
  /\ name' = [name EXCEPT ![id] = d]
  /\ UNCHANGED <<phase, port, url, boxes, built, served>>

Has(id, kind) ==
  \E c \in ContainerIds : built[c].owner = id /\ built[c].kind = kind

(* A container is built, once of each kind, the application's on the port  *)
(* of its deployment.                                                      *)
Build(id, kind) ==
  /\ phase[id] # "absent"
  /\ ~Has(id, kind)
  /\ \E c \in ContainerIds :
        /\ built[c].owner = 0
        /\ built' = [built EXCEPT ![c] =
             [ owner |-> id, kind |-> kind,
               port |-> IF kind = "app" THEN port[id] ELSE None ]]
  /\ UNCHANGED <<phase, port, name, url, boxes, served>>

(* What a record may show: its own name and containers, or nothing.        *)
MayShow(id, u, box) ==
  /\ u # None => u = name[id]
  /\ \A kind \in Kinds :
        box[kind] # 0 =>
          /\ box[kind] \in ContainerIds
          /\ built[box[kind]].owner = id
          /\ built[box[kind]].kind = kind

(* The record is overwritten, by the creation or by a stale save.          *)
Show(id) ==
  /\ phase[id] = "live"
  /\ UNCHANGED <<phase, port, name, built, served>>
  /\ url' = [url EXCEPT ![id] = url'[id]]
  /\ boxes' = [boxes EXCEPT ![id] = boxes'[id]]
  /\ MayShow(id, url'[id], boxes'[id])

(* A delete; one that failed to look its row up retires them all.          *)
Retire(ids) ==
  /\ \A id \in ids : phase[id] = "live"
  /\ phase' = [id \in Ids |-> IF id \in ids THEN "gone" ELSE phase[id]]
  /\ UNCHANGED <<port, name, url, boxes, built, served>>

(* The port p is that of a deployment the domain d was reserved for.       *)
LeadsTo(d, p) ==
  \E id \in Ids : phase[id] # "absent" /\ name[id] = d /\ port[id] = p

(* The proxy loads a new set of sites.                                     *)
Publish ==
  /\ UNCHANGED <<phase, port, name, url, boxes, built>>
  /\ served' \in [Domains -> Ports \cup {None}]
  /\ \A d \in Domains : served'[d] # None => LeadsTo(d, served'[d])

-----------------------------------------------------------------------------

Next ==
  \/ \E id \in Ids :
       \/ Show(id)
       \/ \E p \in Ports \cup {None} : Register(id, p)
       \/ \E d \in Domains : Reserve(id, d)
       \/ \E kind \in Kinds : Build(id, kind)
       \/ Retire({id})
  \/ Retire({id \in Ids : phase[id] = "live"})
  \/ Publish

Spec == Init /\ [][Next]_vars

=============================================================================
