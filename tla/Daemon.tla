------------------------------- MODULE Daemon -------------------------------
(***************************************************************************)
(* The mds daemon: the HTTP handlers that create, delete and list          *)
(* deployments, and the deployment monitor, all running concurrently over  *)
(* one database, one Docker and one nginx.                                 *)
(*                                                                         *)
(* Every handler and the monitor is a process with a label pc[p] and its   *)
(* own variables: dep[p] is the mds.Deployment struct it holds, depID[p]   *)
(* that struct's primary key, todo[p] the rows its loop has still to       *)
(* visit.  A step runs from one call on a shared component to the next.    *)
(* A request enters here when checkAuthentication has returned 0.          *)
(***************************************************************************)
EXTENDS DockerHost, NginxProxy, FiniteSets

CONSTANTS
  Handlers,             \* handler goroutines that may be busy at once
  Monitor,              \* the deployment monitor goroutine
  MaxCreates,           \* bound: create requests accepted
  MaxDeletes,           \* bound: delete requests accepted
  Requests,             \* the operations callers use in this instance
  Faults,               \* the failures that may happen in this instance
  AutoManageMongoDB,    \* viper.GetBool("AutoManageMongoDB")
  CertProvider          \* viper.GetString("CertProvider")

ASSUME ProcessAssumption == Monitor \notin Handlers

(* A deleted row makes room for at most one row the monitor inserts, so    *)
(* the table never runs out of primary keys; every create asks Docker for  *)
(* at most two containers.                                                 *)
ASSUME RoomAssumption ==
  /\ MaxCreates \in Nat /\ MaxDeletes \in Nat
  /\ MaxCreates + MaxDeletes <= MaxId
  /\ (IF AutoManageMongoDB THEN 2 ELSE 1) * MaxCreates <= MaxCtr

Procs == Handlers \cup {Monitor}

CreateLabels ==
  { "pickPort", "insertDeployment", "pickDomain", "reserveDomain", "saveURL",
    "createMongo", "saveMongo", "startMongo", "createContainer",
    "saveContainer", "startContainer", "writeCert", "writeKey", "writeSite",
    "reload", "saveRunning" }
DeleteLabels == { "dropProxy", "stop", "remove", "deleteRow" }
InspectLabels == { "loop", "inspect", "saveStatus", "saveResult" }
Labels == {"idle"} \cup CreateLabels \cup DeleteLabels \cup InspectLabels

VARIABLES
  pc, dep, depID, todo,
  up,            \* the daemon process is running
  acked          \* deployments whose creation was answered "Created"

procVars == <<pc, dep, depID, todo>>
vars == <<tableVars, dockerVars, proxyVars, procVars, up, acked>>

Init ==
  /\ TableInit /\ DockerInit /\ ProxyInit
  /\ pc = [p \in Procs |-> "idle"]
  /\ dep = [p \in Procs |-> Blank]
  /\ depID = [p \in Procs |-> 0]
  /\ todo = [p \in Procs |-> {}]
  /\ up = TRUE
  /\ acked = {}

-----------------------------------------------------------------------------
(* Control: go to a label, with or without a change of the local struct,   *)
(* or return.  A handler that returns an error and one whose panic         *)
(* net/http recovers end alike.                                            *)

Goto(p, label) ==
  pc' = [pc EXCEPT ![p] = label] /\ UNCHANGED <<dep, depID, todo>>

GotoWith(p, label, row) ==
  /\ pc' = [pc EXCEPT ![p] = label]
  /\ dep' = [dep EXCEPT ![p] = row]
  /\ UNCHANGED <<depID, todo>>

Return(p) ==
  /\ pc' = [pc EXCEPT ![p] = "idle"]
  /\ dep' = [dep EXCEPT ![p] = Blank]
  /\ depID' = [depID EXCEPT ![p] = 0]
  /\ todo' = [todo EXCEPT ![p] = {}]

(* A panic in the monitor goroutine is recovered by nobody: it takes the   *)
(* whole process down, handlers included.  So does a kill.                 *)
Crash ==
  /\ up' = FALSE
  /\ pc' = [p \in Procs |-> "idle"]
  /\ dep' = [p \in Procs |-> Blank]
  /\ depID' = [p \in Procs |-> 0]
  /\ todo' = [p \in Procs |-> {}]

-----------------------------------------------------------------------------
(* POST /deployment: createDeploymentEndpoint, createDeployment.           *)

(* A request that has passed every check of the endpoint and whose archive *)
(* is uploaded; the ones refused before change no modelled state.          *)
CreateRequest(h) ==
  /\ "create" \in Requests
  /\ pc[h] = "idle"
  /\ LET pending == {g \in Handlers : pc[g] \in {"pickPort", "insertDeployment"}}
     IN  lastId + Cardinality(pending) < MaxCreates
  /\ Goto(h, "pickPort")
  /\ UNCHANGED <<tableVars, dockerVars, proxyVars, up, acked>>

(* Slip: Docker is asked which ports are bound, not the table.             *)
PickPort_DockerOnly(h) ==
  /\ pc[h] = "pickPort"
  /\ \E port \in Ports :
        /\ ~PortBound(port)
        /\ GotoWith(h, "insertDeployment", [Blank EXCEPT !.port = port])
  /\ UNCHANGED <<tableVars, dockerVars, proxyVars, up, acked>>

(* GetNextOpenPort: draws until no live row holds the port drawn.  Nothing *)
(* is reserved until the insert.                                           *)
PickPort(h) ==
  /\ pc[h] = "pickPort"
  /\ \E port \in Ports :
        /\ ~PortTaken(port)
        /\ GotoWith(h, "insertDeployment", [Blank EXCEPT !.port = port])
  /\ UNCHANGED <<tableVars, dockerVars, proxyVars, up, acked>>

InsertDeployment(h) ==
  /\ pc[h] = "insertDeployment"
  /\ Create(dep[h])
  /\ depID' = [depID EXCEPT ![h] = lastId + 1]
  /\ pc' = [pc EXCEPT ![h] = "pickDomain"]
  /\ UNCHANGED <<dockerVars, proxyVars, dep, todo, up, acked>>

(* Slip: the name is never reserved.                                       *)
PickDomain_Unreserved(h) ==
  /\ pc[h] = "pickDomain"
  /\ \E d \in Domains :
        /\ IsDomainNameUnique(d)
        /\ GotoWith(h, "saveURL", [dep[h] EXCEPT !.url = d])
  /\ UNCHANGED <<tableVars, dockerVars, proxyVars, up, acked>>

(* Slip: the new row's primary key is looked up afterwards, as the last.   *)
PickDomain_LastRow(h) ==
  /\ pc[h] = "pickDomain"
  /\ \E d \in Domains :
        /\ IsDomainNameUnique(d)
        /\ dep' = [dep EXCEPT ![h].url = d]
  /\ depID' = [depID EXCEPT ![h] = lastId]
  /\ pc' = [pc EXCEPT ![h] = "reserveDomain"]
  /\ UNCHANGED <<tableVars, dockerVars, proxyVars, todo, up, acked>>

(* GenerateNewUniqueURL: draws until no live row has the name drawn.  The  *)
(* struct's URL is assigned once the name is reserved, before any save.    *)
PickDomain(h) ==
  /\ pc[h] = "pickDomain"
  /\ \E d \in Domains :
        /\ IsDomainNameUnique(d)
        /\ GotoWith(h, "reserveDomain", [dep[h] EXCEPT !.url = d])
  /\ UNCHANGED <<tableVars, dockerVars, proxyVars, up, acked>>

(* Slip: the name is drawn a second time for the reservation.              *)
ReserveDomain_DrawnAgain(h) ==
  /\ pc[h] = "reserveDomain"
  /\ \E d \in Domains : IsDomainNameUnique(d) /\ InsertConfig(depID[h], d)
  /\ Goto(h, "saveURL")
  /\ UNCHANGED <<tableVars, dockerVars, up, acked>>

ReserveDomain(h) ==
  /\ pc[h] = "reserveDomain"
  /\ InsertConfig(depID[h], dep[h].url)
  /\ Goto(h, "saveURL")
  /\ UNCHANGED <<tableVars, dockerVars, up, acked>>

(* The three db.Save(&deployment) on the way, each writing the whole       *)
(* struct, and the label each leads to.                                    *)
AfterSave ==
  [ saveURL       |-> IF AutoManageMongoDB THEN "createMongo"
                                           ELSE "createContainer",
    saveMongo     |-> "startMongo",
    saveContainer |-> "startContainer" ]

SaveDeployment(h) ==
  /\ pc[h] \in DOMAIN AfterSave
  /\ UpdateRow(depID[h], dep[h])
  /\ Goto(h, AfterSave[pc[h]])
  /\ UNCHANGED <<dockerVars, proxyVars, up, acked>>

(* CreateMongoDBDockerContainer, and the copy of the new ID.               *)
CreateMongo(h) ==
  /\ pc[h] = "createMongo"
  /\ NewContainer("mongo", depID[h], None)
  /\ GotoWith(h, "saveMongo", [dep[h] EXCEPT !.mongoContainerID = lastCtr + 1])
  /\ UNCHANGED <<tableVars, proxyVars, up, acked>>

StartMongo(h) ==
  /\ pc[h] = "startMongo"
  /\ CanStart(dep[h].mongoContainerID)
  /\ SetState(dep[h].mongoContainerID, "running")
  /\ Goto(h, "createContainer")
  /\ UNCHANGED <<tableVars, proxyVars, up, acked>>

(* Slip: the container is given a port drawn anew.                         *)
CreateContainer_NewPort(h) ==
  /\ pc[h] = "createContainer"
  /\ \E port \in Ports : ~PortTaken(port) /\ NewContainer("app", depID[h], port)
  /\ GotoWith(h, "saveContainer", [dep[h] EXCEPT !.containerID = lastCtr + 1])
  /\ UNCHANGED <<tableVars, proxyVars, up, acked>>

(* Slip: no port is bound, Docker is left to choose one.                   *)
CreateContainer_AnyPort(h) ==
  /\ pc[h] = "createContainer"
  /\ NewContainer("app", depID[h], None)
  /\ GotoWith(h, "saveContainer", [dep[h] EXCEPT !.containerID = lastCtr + 1])
  /\ UNCHANGED <<tableVars, proxyVars, up, acked>>

CreateContainer(h) ==
  /\ pc[h] = "createContainer"
  /\ NewContainer("app", depID[h], dep[h].port)
  /\ GotoWith(h, "saveContainer", [dep[h] EXCEPT !.containerID = lastCtr + 1])
  /\ UNCHANGED <<tableVars, proxyVars, up, acked>>

(* Slip: the test of the provider is inverted.                             *)
StartContainer_Inverted(h) ==
  /\ pc[h] = "startContainer"
  /\ CanStart(dep[h].containerID)
  /\ SetState(dep[h].containerID, "running")
  /\ Goto(h, IF CertProvider # "selfsigned" THEN "writeCert" ELSE "writeSite")
  /\ UNCHANGED <<tableVars, proxyVars, up, acked>>

(* GenerateHTTPSSettings only fills in the two paths; certificates are     *)
(* generated by the 'selfsigned' provider alone.                           *)
StartContainer(h) ==
  /\ pc[h] = "startContainer"
  /\ CanStart(dep[h].containerID)
  /\ SetState(dep[h].containerID, "running")
  /\ Goto(h, IF CertProvider = "selfsigned" THEN "writeCert" ELSE "writeSite")
  /\ UNCHANGED <<tableVars, proxyVars, up, acked>>

(* Docker refuses: the error is returned (or, for the MongoDB container,   *)
(* the nil result dereferenced) and everything done so far stays behind.   *)
DockerRefuses(h) ==
  /\ \/ pc[h] \in {"createMongo", "createContainer"} /\ "create" \in Faults
     \/ pc[h] \in {"startMongo", "startContainer"} /\ "start" \in Faults
     \/ pc[h] = "startMongo" /\ ~CanStart(dep[h].mongoContainerID)
     \/ pc[h] = "startContainer" /\ ~CanStart(dep[h].containerID)
  /\ Return(h)
  /\ UNCHANGED <<tableVars, dockerVars, proxyVars, up, acked>>

(* NginxInstance.CreateProxy: certificate, key, site file, reload.  The    *)
(* errors of pem.Encode are ignored: when the disk is full the file stays  *)
(* without a usable key pair and the creation goes on.                     *)
Written(h) == {depID[h]} \cup (IF "disk" \in Faults THEN {0} ELSE {})

WriteCertificate(h) ==
  /\ pc[h] = "writeCert"
  /\ \E pair \in Written(h) : WriteCertificateToFile(dep[h].url, pair)
  /\ Goto(h, "writeKey")
  /\ UNCHANGED <<tableVars, dockerVars, up, acked>>

WritePrivateKey(h) ==
  /\ pc[h] = "writeKey"
  /\ \E pair \in Written(h) : WritePrivateKeyToFile(dep[h].url, pair)
  /\ Goto(h, "writeSite")
  /\ UNCHANGED <<tableVars, dockerVars, up, acked>>

WriteSiteFile(h) ==
  /\ pc[h] = "writeSite"
  /\ WriteSite(dep[h].url, dep[h].port)
  /\ Goto(h, "reload")
  /\ UNCHANGED <<tableVars, dockerVars, up, acked>>

(* Slip: the error of the reload is dropped.                               *)
Reload_Unchecked(h) ==
  /\ pc[h] = "reload"
  /\ \/ ApplyChanges
     \/ "reload" \in Faults /\ UNCHANGED proxyVars
  /\ GotoWith(h, "saveRunning", [dep[h] EXCEPT !.status = "running"])
  /\ UNCHANGED <<tableVars, dockerVars, up, acked>>

Reload(h) ==
  /\ pc[h] = "reload"
  /\ ApplyChanges
  /\ GotoWith(h, "saveRunning", [dep[h] EXCEPT !.status = "running"])
  /\ UNCHANGED <<tableVars, dockerVars, up, acked>>

(* A file cannot be opened, or the reload command fails.                   *)
CreateProxyFails(h) ==
  /\ \/ pc[h] \in {"writeCert", "writeKey", "writeSite"} /\ "disk" \in Faults
     \/ pc[h] = "reload" /\ (~ConfigValid \/ "reload" \in Faults)
  /\ Return(h)
  /\ UNCHANGED <<tableVars, dockerVars, proxyVars, up, acked>>

(* The old site file is removed and the new one cannot be written.         *)
SiteIsLost(h) ==
  /\ pc[h] = "writeSite"
  /\ "disk" \in Faults
  /\ WriteSite(dep[h].url, None)
  /\ Return(h)
  /\ UNCHANGED <<tableVars, dockerVars, up, acked>>

(* The last save, and the answer "Created".                                *)
SaveRunning(h) ==
  /\ pc[h] = "saveRunning"
  /\ UpdateRow(depID[h], dep[h])
  /\ acked' = acked \cup {depID[h]}
  /\ Return(h)
  /\ UNCHANGED <<dockerVars, proxyVars, up>>

CreateStep(h) ==
  \/ PickPort(h) \/ InsertDeployment(h)
  \/ PickDomain(h) \/ ReserveDomain(h) \/ SaveDeployment(h)
  \/ CreateMongo(h) \/ StartMongo(h)
  \/ CreateContainer(h) \/ StartContainer(h) \/ DockerRefuses(h)
  \/ WriteCertificate(h) \/ WritePrivateKey(h) \/ WriteSiteFile(h)
  \/ Reload(h) \/ CreateProxyFails(h) \/ SiteIsLost(h) \/ SaveRunning(h)

-----------------------------------------------------------------------------
(* DELETE /deployment: deleteDeploymentAPIHandler; and DeleteDeployment of *)
(* main.go, which no route reaches and which drops the proxy row first.    *)

(* Rows deleted or about to be: what the bound on deletes counts.          *)
Deletions ==
  (lastId - Cardinality(live)) + Cardinality({g \in Handlers : pc[g] \in DeleteLabels})

(* Slip: an unknown id is not refused.                                     *)
DeleteRequest_Unfound(h) ==
  /\ pc[h] = "idle"
  /\ Deletions < MaxDeletes
  /\ \E id \in Ids :
        /\ dep' = [dep EXCEPT ![h] = FirstRow(id)]
        /\ depID' = [depID EXCEPT ![h] = FirstId(id)]
  /\ "delete" \in Requests /\ pc' = [pc EXCEPT ![h] = "stop"]
  /\ UNCHANGED <<tableVars, dockerVars, proxyVars, todo, up, acked>>

(* An unknown id is answered "Record Not Found" and changes nothing.  Any  *)
(* other failure of the lookup passes that test, with a blank struct.      *)
DeleteRequest(h) ==
  /\ pc[h] = "idle"
  /\ Deletions < MaxDeletes
  /\ \E id \in live \cup (IF "lookup" \in Faults THEN {0} ELSE {}) :
        /\ dep' = [dep EXCEPT ![h] = FirstRow(id)]
        /\ depID' = [depID EXCEPT ![h] = id]
  /\ \/ "delete" \in Requests /\ pc' = [pc EXCEPT ![h] = "stop"]
     \/ "DeleteDeployment" \in Requests /\ pc' = [pc EXCEPT ![h] = "dropProxy"]
  /\ UNCHANGED <<tableVars, dockerVars, proxyVars, todo, up, acked>>

DropProxy(h) ==
  /\ pc[h] = "dropProxy"
  /\ DeleteProxyConfiguration
  /\ Goto(h, "stop")
  /\ UNCHANGED <<tableVars, dockerVars, up, acked>>

(* Errors of the two Docker calls are logged and ignored.                  *)
StopContainer(h) ==
  /\ pc[h] = "stop"
  /\ \/ StopIfRunning(dep[h].containerID)
     \/ "remove" \in Faults /\ UNCHANGED dockerVars
  /\ Goto(h, "remove")
  /\ UNCHANGED <<tableVars, proxyVars, up, acked>>

RemoveContainer(h) ==
  /\ pc[h] = "remove"
  /\ \/ RemoveIfExists(dep[h].containerID)
     \/ "remove" \in Faults /\ UNCHANGED dockerVars
  /\ Goto(h, "deleteRow")
  /\ UNCHANGED <<tableVars, proxyVars, up, acked>>

DeleteRow(h) ==
  /\ pc[h] = "deleteRow"
  /\ Delete(depID[h])
  /\ Return(h)
  /\ UNCHANGED <<dockerVars, proxyVars, up, acked>>

DeleteStep(h) ==
  \/ DropProxy(h) \/ StopContainer(h) \/ RemoveContainer(h) \/ DeleteRow(h)

-----------------------------------------------------------------------------
(* GET /deployments (getDeploymentsAPIHandler) and the monitor's sweep     *)
(* (InspectDeployments): both walk a list of rows read at the start and    *)
(* call inspectDeployment on each; the monitor saves the result again.     *)

FindDeployments(p) ==
  /\ pc[p] = "idle"
  /\ p = Monitor \/ "list" \in Requests
  /\ pc' = [pc EXCEPT ![p] = "loop"]
  /\ todo' = [todo EXCEPT ![p] = live]
  /\ UNCHANGED <<tableVars, dockerVars, proxyVars, dep, depID, up, acked>>

AfterInspect(p) == IF p = Monitor THEN "saveResult" ELSE "loop"

(* Slip: the loop does not advance.                                        *)
ReadRow_Again(p) ==
  /\ pc[p] = "loop"
  /\ \E id \in todo[p] :
        /\ dep' = [dep EXCEPT ![p] = FirstRow(id)]
        /\ depID' = [depID EXCEPT ![p] = FirstId(id)]
        /\ pc' = [pc EXCEPT ![p] = IF FirstRow(id).containerID # 0
                                   THEN "inspect" ELSE AfterInspect(p)]
  /\ UNCHANGED <<tableVars, dockerVars, proxyVars, todo, up, acked>>

(* Slip: a row without a container is inspected too.                       *)
ReadRow_Always(p) ==
  /\ pc[p] = "loop"
  /\ \E id \in todo[p] :
        /\ todo' = [todo EXCEPT ![p] = @ \ {id}]
        /\ dep' = [dep EXCEPT ![p] = FirstRow(id)]
        /\ depID' = [depID EXCEPT ![p] = FirstId(id)]
  /\ pc' = [pc EXCEPT ![p] = "inspect"]
  /\ UNCHANGED <<tableVars, dockerVars, proxyVars, up, acked>>

(* db.First in inspectDeployment; its error is ignored, so a row deleted   *)
(* since the list was read yields a blank struct with primary key zero.    *)
ReadRow(p) ==
  /\ pc[p] = "loop"
  /\ \E id \in todo[p] :
        /\ todo' = [todo EXCEPT ![p] = @ \ {id}]
        /\ dep' = [dep EXCEPT ![p] = FirstRow(id)]
        /\ depID' = [depID EXCEPT ![p] = FirstId(id)]
        /\ pc' = [pc EXCEPT ![p] = IF FirstRow(id).containerID # 0
                                   THEN "inspect" ELSE AfterInspect(p)]
  /\ UNCHANGED <<tableVars, dockerVars, proxyVars, up, acked>>

(* Slip: the error of the inspection is not looked at.                     *)
InspectContainer_Unchecked(p) ==
  /\ pc[p] = "inspect"
  /\ GotoWith(p, "saveStatus",
              [dep[p] EXCEPT !.status = containers[dep[p].containerID].state])
  /\ UNCHANGED <<tableVars, dockerVars, proxyVars, up, acked>>

(* Slip: only a running container changes the status.                      *)
InspectContainer_Running(p) ==
  /\ pc[p] = "inspect"
  /\ Exists(dep[p].containerID)
  /\ IF containers[dep[p].containerID].state = "running"
     THEN GotoWith(p, "saveStatus", [dep[p] EXCEPT !.status = "running"])
     ELSE Goto(p, "saveStatus")
  /\ UNCHANGED <<tableVars, dockerVars, proxyVars, up, acked>>

InspectContainer(p) ==
  /\ pc[p] = "inspect"
  /\ Exists(dep[p].containerID)
  /\ GotoWith(p, "saveStatus",
              [dep[p] EXCEPT !.status = containers[dep[p].containerID].state])
  /\ UNCHANGED <<tableVars, dockerVars, proxyVars, up, acked>>

(* The error is logged and then the nil result dereferenced.               *)
InspectFails(p) ==
  /\ pc[p] = "inspect"
  /\ ~Exists(dep[p].containerID) \/ "inspect" \in Faults
  /\ IF p = Monitor THEN Crash ELSE Return(p) /\ UNCHANGED up
  /\ UNCHANGED <<tableVars, dockerVars, proxyVars, acked>>

(* Slip: only the status column is written.                                *)
SaveStatus_Column(p) ==
  /\ pc[p] = "saveStatus"
  /\ UpdateRow(depID[p], [deployments[depID[p]] EXCEPT !.status = dep[p].status])
  /\ Goto(p, AfterInspect(p))
  /\ UNCHANGED <<dockerVars, proxyVars, up, acked>>

SaveStatus(p) ==
  /\ pc[p] = "saveStatus"
  /\ UpdateRow(depID[p], dep[p])
  /\ Goto(p, AfterInspect(p))
  /\ UNCHANGED <<dockerVars, proxyVars, up, acked>>

(* Slip: what is saved is a new struct with nothing but the status.        *)
SaveResult_StatusOnly(p) ==
  /\ pc[p] = "saveResult"
  /\ Save(depID[p], [Blank EXCEPT !.status = dep[p].status])
  /\ Goto(p, "loop")
  /\ UNCHANGED <<dockerVars, proxyVars, up, acked>>

(* db.Save(&inspectResult) of the monitor: an insert when the row it was   *)
(* to inspect had gone.                                                    *)
SaveResult(p) ==
  /\ pc[p] = "saveResult"
  /\ Save(depID[p], dep[p])
  /\ Goto(p, "loop")
  /\ UNCHANGED <<dockerVars, proxyVars, up, acked>>

(* The list is answered; the monitor goes to sleep.                        *)
LoopDone(p) ==
  /\ pc[p] = "loop"
  /\ todo[p] = {}
  /\ Return(p)
  /\ UNCHANGED <<tableVars, dockerVars, proxyVars, up, acked>>

InspectStep(p) ==
  \/ ReadRow(p) \/ InspectContainer(p) \/ InspectFails(p)
  \/ SaveStatus(p) \/ SaveResult(p) \/ LoopDone(p)

-----------------------------------------------------------------------------
(* The environment.                                                        *)

AppExits ==
  /\ "exit" \in Faults
  /\ \E c \in ContainerIds : ContainerExits(c)
  /\ UNCHANGED <<tableVars, proxyVars, procVars, up, acked>>

Kill ==
  /\ "kill" \in Faults
  /\ up
  /\ Crash
  /\ UNCHANGED <<tableVars, dockerVars, proxyVars, acked>>

(* main() finds the database, the containers and the files as they were.   *)
(* A write the kill cut short is a Written blank file, then the kill.      *)
Restart ==
  /\ ~up
  /\ up' = TRUE
  /\ UNCHANGED <<tableVars, dockerVars, proxyVars, procVars, acked>>

-----------------------------------------------------------------------------

HandlerStep(h) == CreateStep(h) \/ DeleteStep(h) \/ InspectStep(h)
MonitorStep == FindDeployments(Monitor) \/ InspectStep(Monitor)

Next ==
  \/ /\ up
     /\ \/ \E h \in Handlers :
             \/ CreateRequest(h) \/ DeleteRequest(h) \/ FindDeployments(h)
             \/ HandlerStep(h)
        \/ MonitorStep
  \/ AppExits \/ Kill \/ Restart

Spec == Init /\ [][Next]_vars

(* Go schedules every runnable goroutine, and the random draws of a port   *)
(* or a domain succeed sooner or later while one is free.  Nothing obliges *)
(* callers to send requests, the daemon to be restarted or anything to     *)
(* fail.                                                                   *)
FairSpec ==
  /\ Spec
  /\ \A h \in Handlers : WF_vars(up /\ HandlerStep(h))
  /\ WF_vars(up /\ MonitorStep)

=============================================================================
