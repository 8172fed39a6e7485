---------------------------- MODULE DaemonProps ----------------------------
(***************************************************************************)
(* What the daemon should promise.  The first group holds however requests *)
(* and the monitor interleave; the second needs one request at a time; the *)
(* third are promises the code or its comments make and do not keep, but   *)
(* for the circumstances Promises_proofs spells out.                       *)
(***************************************************************************)
EXTENDS Daemon

(* Every variable has the shape its declaration gives it.                  *)
TableTypeOK ==
  /\ deployments \in [Ids -> Deployment]
  /\ live \subseteq Ids
  /\ lastId \in 0..MaxId

DockerTypeOK ==
  /\ containers \in [ContainerIds -> Container]
  /\ lastCtr \in 0..MaxCtr

ProxyTypeOK ==
  /\ nginxConfigs \in [Ids -> NginxConfig]
  /\ certs \in [Domains -> 0..MaxId]
  /\ keys \in [Domains -> 0..MaxId]
  /\ sites \in [Domains -> Ports \cup {None}]
  /\ routes \in [Domains -> Ports \cup {None}]

ProcTypeOK ==
  /\ pc \in [Procs -> Labels]
  /\ dep \in [Procs -> Deployment]
  /\ depID \in [Procs -> 0..MaxId]
  /\ todo \in [Procs -> SUBSET Ids]

TypeOK ==
  /\ TableTypeOK /\ DockerTypeOK /\ ProxyTypeOK /\ ProcTypeOK
  /\ up \in BOOLEAN
  /\ acked \subseteq 0..MaxId

-----------------------------------------------------------------------------
(* Under every interleaving.                                               *)

(* The containers named by a struct with primary key `id` were created for *)
(* that deployment, the application's on the port the struct records.      *)
Owns(id, row) ==
  /\ row.containerID # 0 =>
       LET c == containers[row.containerID]
       IN  c.kind = "app" /\ c.owner = id /\ c.port = row.port
  /\ row.mongoContainerID # 0 =>
       LET c == containers[row.mongoContainerID]
       IN  c.kind = "mongo" /\ c.owner = id

(* No interleaving of whole-row saves puts the container of one deployment *)
(* into the row of another, or into the struct with which a handler is     *)
(* about to stop, remove or inspect it (main.go 346-354, 569-575; api.go   *)
(* 371-379).                                                               *)
ContainersAreOwned ==
  /\ \A id \in Ids : Owns(id, deployments[id])
  /\ \A p \in Procs : Owns(depID[p], dep[p])

(* A deployment is given at most one application container and at most one *)
(* MongoDB container (main.go 453, 480), whoever else creates, deletes or  *)
(* restarts meanwhile.                                                     *)
OneContainerEach ==
  \A c1, c2 \in 1..lastCtr :
     /\ containers[c1].owner = containers[c2].owner
     /\ containers[c1].kind = containers[c2].kind
     => c1 = c2

(* A deleted deployment stays deleted and its row is frozen: the stale     *)
(* saves of a creation, a list or a sweep that overlaps the delete neither *)
(* revive nor alter it (main.go 433-509, 533, 551).                        *)
DeletedIsFinal ==
  [][\A id \in 1..lastId :
        id \notin live => id \notin live' /\ deployments'[id] = deployments[id]]_vars

(* A row with a status has a container whose status it is: stale saves may *)
(* blank a row's columns, never all but this one (main.go 507-509,         *)
(* 543-551).                                                               *)
StatusHasContainer ==
  \A id \in Ids : deployments[id].status # "" => deployments[id].containerID # 0

(* The URL a row shows is the name reserved for that very deployment       *)
(* (main.go 434-439).                                                      *)
URLIsReserved ==
  \A id \in Ids :
     deployments[id].url # None => nginxConfigs[id].domainName = deployments[id].url

(* A site file, and a route nginx serves, leads to the port of a           *)
(* deployment the domain was reserved for (main.go 443-445, proxy.go       *)
(* 86-87), even when names collide or reloads fail and are made up for by  *)
(* another handler's.                                                      *)
LeadsToReserver(d, port) ==
  \E id \in 1..lastId : /\ nginxConfigs[id].domainName = d
                        /\ deployments[id].port = port

SitesLeadToReserver ==
  \A d \in Domains :
     /\ sites[d] # None => LeadsToReserver(d, sites[d])
     /\ routes[d] # None => LeadsToReserver(d, routes[d])

-----------------------------------------------------------------------------
(* What the daemon promises as a whole.                                    *)

(* What the registry sees of the table, of the reservations, of Docker and *)
(* of nginx.                                                               *)
rPhase ==
  [ id \in Ids |-> IF id > lastId THEN "absent"
                   ELSE IF id \in live THEN "live" ELSE "gone" ]
rPort == [id \in Ids |-> deployments[id].port]
rName == [id \in Ids |-> nginxConfigs[id].domainName]
rURL == [id \in Ids |-> deployments[id].url]
rBoxes ==
  [ id \in Ids |-> [ app   |-> deployments[id].containerID,
                     mongo |-> deployments[id].mongoContainerID ] ]
rBuilt ==
  [ c \in ContainerIds |-> [ owner |-> containers[c].owner,
                             kind  |-> containers[c].kind,
                             port  |-> containers[c].port ] ]

R == INSTANCE Registry WITH
  phase <- rPhase, port <- rPort, name <- rName, url <- rURL,
  boxes <- rBoxes, built <- rBuilt, served <- routes

(* Every behaviour of the daemon is one the registry allows: each of its   *)
(* calls registers, reserves, builds, shows, retires or publishes as       *)
(* Registry says, or changes nothing the registry speaks of (main.go       *)
(* 423-583, api.go 345-398, proxy.go 55-191).                              *)
ImplementsRegistry == R!Spec

-----------------------------------------------------------------------------
(* With one request at a time, the monitor still running beside it.        *)

(* No two reservations share a domain name (proxy.go 171-197).             *)
DomainsAreUnique ==
  \A i, j \in LiveConfigs :
     nginxConfigs[i].domainName = nginxConfigs[j].domainName => i = j

(* No two live deployments share a port (main.go 585-597).                 *)
PortsAreUnique ==
  \A i, j \in live :
     /\ deployments[i].port # None
     /\ deployments[i].port = deployments[j].port
     => i = j

(* nginx can always load what CreateProxy left in the sites directory, so  *)
(* one deployment never keeps another's proxy from being loaded.           *)
SitesAreLoadable == ConfigValid

(* A deployment answered "Created" is served under the URL its row shows,  *)
(* until it is deleted, through crashes, failed requests and other         *)
(* deployments' reloads.                                                   *)
AckedIsRouted ==
  \A id \in acked \cap live :
     deployments[id].url # None => routes[deployments[id].url] = deployments[id].port

(* A route that leads to somebody else's deployment belonged to one that   *)
(* has been deleted: the two never lived together (main.go 585-597, api.go *)
(* 386-388, which leaves the route behind).                                *)
OnlyDeletedAreMisrouted ==
  \A d \in Domains, id \in live :
     /\ routes[d] # None
     /\ deployments[id].port = routes[d]
     /\ deployments[id].url # None
     /\ deployments[id].url # d
     => \E old \in (1..lastId) \ live : /\ nginxConfigs[old].domainName = d
                                       /\ deployments[old].port = routes[d]

-----------------------------------------------------------------------------
(* The inductive invariant behind ContainersAreOwned, StatusHasContainer   *)
(* and DeletedIsFinal: what each row and each struct held by a process     *)
(* tells of the containers that have been created.                         *)

Tracked(id, row) ==
  /\ row.containerID <= lastCtr /\ row.mongoContainerID <= lastCtr
  /\ Owns(id, row)
  /\ row.status # "" => row.containerID # 0

(* A struct without a row knows of no container; one with a row agrees     *)
(* with it on the port, however stale the rest of it is.                   *)
StructTracked(p) ==
  /\ depID[p] <= lastId
  /\ Tracked(depID[p], dep[p])
  /\ IF depID[p] = 0
     THEN dep[p].containerID = 0 /\ dep[p].mongoContainerID = 0
     ELSE dep[p].port = deployments[depID[p]].port

NoRowYet == {"idle", "pickPort", "insertDeployment"}
HasContainer ==
  { "saveContainer", "startContainer", "writeCert", "writeKey", "writeSite",
    "reload", "saveRunning" }

(* A creation has its row from the insert on, and its application          *)
(* container from the moment Docker has created it.                        *)
CreationTracked(h) ==
  /\ pc[h] \in NoRowYet => depID[h] = 0
  /\ pc[h] \in CreateLabels \ NoRowYet => depID[h] # 0
  /\ pc[h] \in HasContainer => dep[h].containerID # 0

Inv ==
  /\ TypeOK
  /\ live \subseteq 1..lastId
  /\ \A id \in Ids : Tracked(id, deployments[id])
  /\ \A p \in Procs : StructTracked(p)
  /\ \A h \in Handlers : CreationTracked(h)

-----------------------------------------------------------------------------
(* The inductive invariant behind URLIsReserved, OneContainerEach,         *)
(* SitesLeadToReserver and ImplementsRegistry: what is reserved and built  *)
(* for a deployment at each point of its creation.                         *)

HasBuilt(id, kind) ==
  \E c \in 1..lastCtr : containers[c].owner = id /\ containers[c].kind = kind

(* A struct shows a name only once it is reserved for its row.             *)
StructReserved(p) ==
  IF depID[p] = 0
  THEN dep[p].url = None
  ELSE pc[p] # "reserveDomain" /\ dep[p].url # None
         => nginxConfigs[depID[p]].domainName = dep[p].url

Creating(h) == pc[h] \in CreateLabels \ NoRowYet

BeforeMongo == {"pickDomain", "reserveDomain", "saveURL", "createMongo"}
BeforeApp == BeforeMongo \cup {"saveMongo", "startMongo", "createContainer"}

(* What a creation is still to reserve or build is not there yet.          *)
CreationReserved(h) ==
  /\ pc[h] \in {"pickDomain", "reserveDomain"} =>
       nginxConfigs[depID[h]].domainName = None
  /\ pc[h] = "reserveDomain" => dep[h].url # None
  /\ pc[h] \in BeforeMongo => ~HasBuilt(depID[h], "mongo")
  /\ pc[h] \in BeforeApp => ~HasBuilt(depID[h], "app")

(* Each row has one creation.                                              *)
CreationsDiffer ==
  \A g, h \in Handlers :
     Creating(g) /\ Creating(h) /\ depID[g] = depID[h] => g = h

(* Nothing is reserved or built for a row before it is inserted.           *)
NothingAhead ==
  /\ \A id \in Ids : id > lastId => nginxConfigs[id].domainName = None
  /\ \A c \in ContainerIds :
        IF c <= lastCtr THEN containers[c].owner \in 1..lastId
                        ELSE containers[c].owner = 0

Reserved ==
  /\ URLIsReserved /\ OneContainerEach /\ SitesLeadToReserver
  /\ NothingAhead
  /\ CreationsDiffer
  /\ \A p \in Procs : StructReserved(p)
  /\ \A h \in Handlers : CreationReserved(h)

RInv == Inv /\ Reserved

-----------------------------------------------------------------------------
(* Liveness.                                                               *)

(* Every request is answered or its handler fails: no loop goes on forever *)
(* while a port and a name are free.                                       *)
RequestsEnd == \A h \in Handlers : pc[h] # "idle" ~> pc[h] = "idle"

(* The monitor keeps the table up to date (main.go 521): once the process  *)
(* of a recorded container has ended, the row comes to say "exited" and    *)
(* goes on saying so, whatever stale status other goroutines still save.   *)
Ended(id) ==
  /\ id \in live
  /\ deployments[id].containerID # 0
  /\ containers[deployments[id].containerID].state = "exited"

Settled(id) == Ended(id) => deployments[id].status = "exited"

StatusSettles == \A id \in Ids : <>[]Settled(id)

-----------------------------------------------------------------------------
(* Promises that are not kept.                                             *)

(* The monitor outlives whatever it meets in the table (main.go 521 and    *)
(* the warning of 528): without a kill the daemon stays up.                *)
MonitorSurvives == up

(* Every row of the table is a deployment, with a port (common.go 39).     *)
RowsAreDeployments == \A id \in live : deployments[id].port # None

(* A deployment answered "Created" has its container recorded (common.go   *)
(* 38, main.go 485-488).                                                   *)
AckedHasContainer == \A id \in acked \cap live : deployments[id].containerID # 0

(* Behind a route nobody but the deployment of that URL listens (common.go *)
(* 41).                                                                    *)
RouteReachesItsOwn ==
  \A d \in Domains, id \in live :
     /\ routes[d] # None
     /\ deployments[id].port = routes[d]
     /\ deployments[id].url # None
     => deployments[id].url = d

(* A delete removes "the item" it was asked to remove (api.go 358), one    *)
(* row.                                                                    *)
DeletesOneRow == [][Cardinality(live \ live') <= 1]_vars

-----------------------------------------------------------------------------
(* The inductive invariant behind AckedIsRouted and SitesAreLoadable: what *)
(* is written and served for a name at each point of the creation that     *)
(* holds it, as long as no two reservations share a name and none is       *)
(* dropped.                                                                *)

NamesLive ==
  \A id \in Ids :
     nginxConfigs[id].domainName # None => nginxConfigs[id].row = "live"

(* What was served when a deployment was acknowledged is still on disk,    *)
(* where the next reload of anybody will find it.                          *)
AckedServed ==
  \A id \in acked :
     LET name == nginxConfigs[id].domainName
     IN  /\ id \in 1..lastId
         /\ name # None
         /\ sites[name] = deployments[id].port
         /\ routes[name] = deployments[id].port

Named(h) == Creating(h) /\ pc[h] \notin {"pickDomain", "reserveDomain"}

CreationServed(h) ==
  /\ pc[h] # "dropProxy"
  /\ Creating(h) => depID[h] \notin acked
  /\ Named(h) => dep[h].url # None
  /\ pc[h] \in {"reload", "saveRunning"} => sites[dep[h].url] = dep[h].port
  /\ pc[h] = "saveRunning" => routes[dep[h].url] = dep[h].port

Served ==
  /\ NamesLive /\ AckedServed
  /\ \A h \in Handlers : CreationServed(h)

(* A creation writes the certificate and the key of a name that has no     *)
(* site yet, and its site when they are a pair.                            *)
CreationLoadable(h) ==
  /\ Named(h) /\ pc[h] \notin {"reload", "saveRunning"} => sites[dep[h].url] = None
  /\ pc[h] \in {"writeKey", "writeSite"} => certs[dep[h].url] = depID[h]
  /\ pc[h] = "writeSite" => keys[dep[h].url] = depID[h]

Loadable ==
  /\ SitesAreLoadable
  /\ \A h \in Handlers : CreationLoadable(h)

-----------------------------------------------------------------------------
(* The inductive invariant behind MonitorSurvives and RowsAreDeployments,  *)
(* as long as nothing is deleted: a process that reads a row finds it, and *)
(* a container that was created exists.                                    *)

NothingDeleted ==
  /\ live = 1..lastId
  /\ \A c \in 1..lastCtr : containers[c].state # "removed"
  /\ \A h \in Handlers : pc[h] \notin DeleteLabels

FindsItsRow(p) ==
  /\ todo[p] \subseteq live
  /\ pc[p] \in InspectLabels \ {"loop"} => depID[p] # 0
  /\ pc[p] = "inspect" => dep[p].containerID # 0

Undeleted ==
  /\ NothingDeleted /\ RowsAreDeployments
  /\ \A p \in Procs : FindsItsRow(p)
  /\ \A h \in Handlers : pc[h] = "insertDeployment" => dep[h].port # None

=============================================================================
