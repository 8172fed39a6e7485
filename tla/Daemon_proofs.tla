--------------------------- MODULE Daemon_proofs ---------------------------
(***************************************************************************)
(* Proofs about the daemon for any number of handlers, deployments, ports, *)
(* domains and failures.                                                   *)
(***************************************************************************)
EXTENDS DaemonProps, TLAPS

-----------------------------------------------------------------------------
(* What the building blocks of the actions do to the types.                *)

(* The zero struct is a deployment.                                        *)
LEMMA BlankType == Blank \in Deployment
<1>1. 0 \in 0..MaxCtr  BY BoundsAssumption
<1> QED  BY <1>1 DEF Blank, Deployment, Statuses

(* Moving a process to a label keeps the types.                            *)
LEMMA GotoType ==
  ASSUME ProcTypeOK, NEW p \in Procs, NEW label \in Labels, Goto(p, label)
  PROVE  ProcTypeOK'
  BY DEF ProcTypeOK, Goto

(* So does moving it with a new struct.                                    *)
LEMMA GotoWithType ==
  ASSUME ProcTypeOK, NEW p \in Procs, NEW label \in Labels,
         NEW row \in Deployment, GotoWith(p, label, row)
  PROVE  ProcTypeOK'
  BY DEF ProcTypeOK, GotoWith

(* So does returning from a handler.                                       *)
LEMMA ReturnType ==
  ASSUME ProcTypeOK, NEW p \in Procs, Return(p)
  PROVE  ProcTypeOK'
<1>1. "idle" \in Labels  BY DEF Labels
<1>2. 0 \in 0..MaxId  BY BoundsAssumption
<1> QED  BY <1>1, <1>2, BlankType DEF ProcTypeOK, Return

(* So does a crash.                                                        *)
LEMMA CrashType == ASSUME Crash PROVE ProcTypeOK' /\ up' \in BOOLEAN
<1>1. "idle" \in Labels  BY DEF Labels
<1>2. 0 \in 0..MaxId  BY BoundsAssumption
<1> QED  BY <1>1, <1>2, BlankType DEF ProcTypeOK, Crash

(* An insert keeps the table well typed.                                   *)
LEMMA CreateType ==
  ASSUME TableTypeOK, NEW row \in Deployment, Create(row)
  PROVE  TableTypeOK' /\ lastId' = lastId + 1 /\ lastId + 1 \in Ids
<1>1. lastId + 1 \in Ids /\ lastId' \in 0..MaxId
  BY BoundsAssumption DEF TableTypeOK, Create, Ids
<1> QED  BY <1>1 DEF TableTypeOK, Create

(* So does an update.                                                      *)
LEMMA UpdateRowType ==
  ASSUME TableTypeOK, NEW id, NEW row \in Deployment, UpdateRow(id, row)
  PROVE  TableTypeOK'
  BY DEF TableTypeOK, UpdateRow

(* So does a delete.                                                       *)
LEMMA DeleteType ==
  ASSUME TableTypeOK, NEW id, Delete(id)
  PROVE  TableTypeOK'
  BY DEF TableTypeOK, Delete

(* What db.First fills in is a deployment.                                 *)
LEMMA FirstRowType ==
  ASSUME TableTypeOK, NEW id
  PROVE  FirstRow(id) \in Deployment
  BY BlankType DEF TableTypeOK, FirstRow

(* A new container is well typed.                                          *)
LEMMA NewContainerType ==
  ASSUME DockerTypeOK, NEW kind \in {"app", "mongo"}, NEW owner \in 0..MaxId,
         NEW port \in Ports \cup {None}, NewContainer(kind, owner, port)
  PROVE  /\ DockerTypeOK'
         /\ lastCtr + 1 \in ContainerIds
         /\ lastCtr + 1 \in 0..MaxCtr
<1>1. lastCtr + 1 \in ContainerIds /\ lastCtr' \in 0..MaxCtr /\ lastCtr + 1 \in 0..MaxCtr
  BY BoundsAssumption DEF DockerTypeOK, NewContainer, ContainerIds
<1>2. [state |-> "created", kind |-> kind, owner |-> owner, port |-> port] \in Container
  BY DEF Container
<1> QED  BY <1>1, <1>2 DEF DockerTypeOK, NewContainer

(* A container in another state is well typed.                             *)
LEMMA SetStateType ==
  ASSUME DockerTypeOK, NEW c, NEW s \in {"removed", "created", "running", "exited"},
         SetState(c, s)
  PROVE  DockerTypeOK'
  BY DEF DockerTypeOK, SetState, Container

-----------------------------------------------------------------------------
(* Type correctness.                                                       *)

LEMMA InitType == Init => TypeOK
<1> SUFFICES ASSUME Init PROVE TypeOK  OBVIOUS
<1>1. TableTypeOK
  BY BlankType, BoundsAssumption DEF Init, TableInit, TableTypeOK
<1>2. DockerTypeOK
  BY BoundsAssumption DEF Init, DockerInit, DockerTypeOK, Container
<1>3. ProxyTypeOK
  BY BoundsAssumption DEF Init, ProxyInit, ProxyTypeOK, NginxConfig
<1>4. ProcTypeOK
  BY BlankType, BoundsAssumption DEF Init, ProcTypeOK, Labels
<1> QED  BY <1>1, <1>2, <1>3, <1>4 DEF Init, TypeOK

(* A creation keeps the types.                                             *)
LEMMA CreateStepType ==
  ASSUME TypeOK, NEW h \in Handlers, CreateRequest(h) \/ CreateStep(h)
  PROVE  TypeOK'
<1> h \in Procs  BY DEF Procs
<1> USE DEF TypeOK
<1>r. dep[h] \in Deployment /\ depID[h] \in 0..MaxId  BY DEF ProcTypeOK
<1>l. "idle" \in Labels /\ CreateLabels \subseteq Labels  BY DEF Labels
<1>t. ASSUME UNCHANGED tableVars PROVE TableTypeOK'
  BY <1>t DEF tableVars, TableTypeOK
<1>d. ASSUME UNCHANGED dockerVars PROVE DockerTypeOK'
  BY <1>d DEF dockerVars, DockerTypeOK
<1>p. ASSUME UNCHANGED proxyVars PROVE ProxyTypeOK'
  BY <1>p DEF proxyVars, ProxyTypeOK
<1>1. CASE CreateRequest(h)
  <2>1. ProcTypeOK'  BY <1>1, <1>l, GotoType DEF CreateRequest, CreateLabels
  <2> QED  BY <1>1, <2>1, <1>t, <1>d, <1>p DEF CreateRequest
<1>2. CASE PickPort(h)
  <2>1. PICK port \in Ports : GotoWith(h, "insertDeployment", [Blank EXCEPT !.port = port])
    BY <1>2 DEF PickPort
  <2>2. [Blank EXCEPT !.port = port] \in Deployment  BY BlankType DEF Deployment
  <2>3. ProcTypeOK'  BY <2>1, <2>2, <1>l, GotoWithType DEF CreateLabels
  <2> QED  BY <1>2, <2>3, <1>t, <1>d, <1>p DEF PickPort
<1>3. CASE InsertDeployment(h)
  <2>1. TableTypeOK' /\ lastId + 1 \in Ids
    BY <1>3, <1>r, CreateType DEF InsertDeployment
  <2>2. lastId + 1 \in 0..MaxId  BY <2>1, BoundsAssumption DEF Ids
  <2>3. ProcTypeOK'
    BY <1>3, <2>2, <1>l DEF InsertDeployment, ProcTypeOK, CreateLabels
  <2> QED  BY <1>3, <2>1, <2>3, <1>d, <1>p DEF InsertDeployment
<1>4. CASE PickDomain(h)
  <2>1. PICK d \in Domains : GotoWith(h, "reserveDomain", [dep[h] EXCEPT !.url = d])
    BY <1>4 DEF PickDomain
  <2>2. [dep[h] EXCEPT !.url = d] \in Deployment  BY <1>r DEF Deployment
  <2>3. ProcTypeOK'  BY <2>1, <2>2, <1>l, GotoWithType DEF CreateLabels
  <2> QED  BY <1>4, <2>3, <1>t, <1>d, <1>p DEF PickDomain
<1>5. CASE ReserveDomain(h)
  <2>1. [row |-> "live", domainName |-> dep[h].url, deploymentID |-> 0] \in NginxConfig
    BY <1>r, BoundsAssumption DEF Deployment, NginxConfig
  <2>2. ProxyTypeOK'
    BY <1>5, <2>1 DEF ReserveDomain, InsertConfig, ProxyTypeOK
  <2>3. ProcTypeOK'  BY <1>5, <1>l, GotoType DEF ReserveDomain, CreateLabels
  <2> QED  BY <1>5, <2>2, <2>3, <1>t, <1>d DEF ReserveDomain
<1>6. CASE SaveDeployment(h)
  <2>1. AfterSave[pc[h]] \in Labels
    BY <1>6, <1>l DEF SaveDeployment, AfterSave, CreateLabels
  <2>2. ProcTypeOK'  BY <1>6, <2>1, GotoType DEF SaveDeployment
  <2>3. TableTypeOK'  BY <1>6, <1>r, UpdateRowType DEF SaveDeployment
  <2> QED  BY <1>6, <2>2, <2>3, <1>d, <1>p DEF SaveDeployment
<1>7. CASE CreateMongo(h)
  <2>1. DockerTypeOK' /\ lastCtr + 1 \in 0..MaxCtr
    BY <1>7, <1>r, NewContainerType DEF CreateMongo
  <2>2. [dep[h] EXCEPT !.mongoContainerID = lastCtr + 1] \in Deployment
    BY <1>r, <2>1 DEF Deployment
  <2>3. ProcTypeOK'  BY <1>7, <2>2, <1>l, GotoWithType DEF CreateMongo, CreateLabels
  <2> QED  BY <1>7, <2>1, <2>3, <1>t, <1>p DEF CreateMongo
<1>8. CASE StartMongo(h)
  <2>1. DockerTypeOK'  BY <1>8, SetStateType DEF StartMongo
  <2>2. ProcTypeOK'  BY <1>8, <1>l, GotoType DEF StartMongo, CreateLabels
  <2> QED  BY <1>8, <2>1, <2>2, <1>t, <1>p DEF StartMongo
<1>9. CASE CreateContainer(h)
  <2>1. dep[h].port \in Ports \cup {None}  BY <1>r DEF Deployment
  <2>2. DockerTypeOK' /\ lastCtr + 1 \in 0..MaxCtr
    BY <1>9, <1>r, <2>1, NewContainerType DEF CreateContainer
  <2>3. [dep[h] EXCEPT !.containerID = lastCtr + 1] \in Deployment
    BY <1>r, <2>2 DEF Deployment
  <2>4. ProcTypeOK'  BY <1>9, <2>3, <1>l, GotoWithType DEF CreateContainer, CreateLabels
  <2> QED  BY <1>9, <2>2, <2>4, <1>t, <1>p DEF CreateContainer
<1>10. CASE StartContainer(h)
  <2>1. DockerTypeOK'  BY <1>10, SetStateType DEF StartContainer
  <2>2. ProcTypeOK'  BY <1>10, <1>l, GotoType DEF StartContainer, CreateLabels
  <2> QED  BY <1>10, <2>1, <2>2, <1>t, <1>p DEF StartContainer
<1>11. CASE DockerRefuses(h) \/ CreateProxyFails(h)
  <2>1. ProcTypeOK'  BY <1>11, ReturnType DEF DockerRefuses, CreateProxyFails
  <2> QED  BY <1>11, <2>1, <1>t, <1>d, <1>p DEF DockerRefuses, CreateProxyFails
<1>12. CASE WriteCertificate(h) \/ WritePrivateKey(h)
  <2>1. \A pair \in Written(h) : pair \in 0..MaxId
    BY <1>r, BoundsAssumption DEF Written
  <2>2. ProxyTypeOK'
    BY <1>12, <2>1 DEF WriteCertificate, WritePrivateKey, WriteCertificateToFile,
                       WritePrivateKeyToFile, ProxyTypeOK
  <2>3. ProcTypeOK'
    BY <1>12, <1>l, GotoType DEF WriteCertificate, WritePrivateKey, CreateLabels
  <2> QED  BY <1>12, <2>2, <2>3, <1>t, <1>d DEF WriteCertificate, WritePrivateKey
<1>13. CASE WriteSiteFile(h) \/ SiteIsLost(h)
  <2>1. dep[h].port \in Ports \cup {None}  BY <1>r DEF Deployment
  <2>2. ProxyTypeOK'
    BY <1>13, <2>1 DEF WriteSiteFile, SiteIsLost, WriteSite, ProxyTypeOK
  <2>3. ProcTypeOK'
    BY <1>13, <1>l, GotoType, ReturnType DEF WriteSiteFile, SiteIsLost, CreateLabels
  <2> QED  BY <1>13, <2>2, <2>3, <1>t, <1>d DEF WriteSiteFile, SiteIsLost
<1>14. CASE Reload(h)
  <2>1. ProxyTypeOK'  BY <1>14 DEF Reload, ApplyChanges, ProxyTypeOK
  <2>2. [dep[h] EXCEPT !.status = "running"] \in Deployment
    BY <1>r DEF Deployment, Statuses
  <2>3. ProcTypeOK'  BY <1>14, <2>2, <1>l, GotoWithType DEF Reload, CreateLabels
  <2> QED  BY <1>14, <2>1, <2>3, <1>t, <1>d DEF Reload
<1>15. CASE SaveRunning(h)
  <2>1. TableTypeOK'  BY <1>15, <1>r, UpdateRowType DEF SaveRunning
  <2>2. ProcTypeOK'  BY <1>15, ReturnType DEF SaveRunning
  <2> QED  BY <1>15, <1>r, <2>1, <2>2, <1>d, <1>p DEF SaveRunning
<1> QED
  BY <1>1, <1>2, <1>3, <1>4, <1>5, <1>6, <1>7, <1>8, <1>9, <1>10, <1>11, <1>12,
     <1>13, <1>14, <1>15 DEF CreateStep

(* A delete keeps the types.                                               *)
LEMMA DeleteStepType ==
  ASSUME TypeOK, NEW h \in Handlers, DeleteRequest(h) \/ DeleteStep(h)
  PROVE  TypeOK'
<1> h \in Procs  BY DEF Procs
<1> USE DEF TypeOK
<1>l. "idle" \in Labels /\ DeleteLabels \subseteq Labels  BY DEF Labels
<1>t. ASSUME UNCHANGED tableVars PROVE TableTypeOK'
  BY <1>t DEF tableVars, TableTypeOK
<1>d. ASSUME UNCHANGED dockerVars PROVE DockerTypeOK'
  BY <1>d DEF dockerVars, DockerTypeOK
<1>p. ASSUME UNCHANGED proxyVars PROVE ProxyTypeOK'
  BY <1>p DEF proxyVars, ProxyTypeOK
<1>1. CASE DeleteRequest(h)
  <2>1. PICK id \in live \cup {0} :
          /\ dep' = [dep EXCEPT ![h] = FirstRow(id)]
          /\ depID' = [depID EXCEPT ![h] = id]
    BY <1>1 DEF DeleteRequest
  <2>2. FirstRow(id) \in Deployment /\ id \in 0..MaxId
    BY FirstRowType, BoundsAssumption DEF TableTypeOK, Ids
  <2>3. ProcTypeOK'
    BY <1>1, <2>1, <2>2, <1>l DEF DeleteRequest, ProcTypeOK, DeleteLabels
  <2> QED  BY <1>1, <2>3, <1>t, <1>d, <1>p DEF DeleteRequest
<1>2. CASE DropProxy(h)
  <2>1. ProxyTypeOK'
    BY <1>2 DEF DropProxy, DeleteProxyConfiguration, ProxyTypeOK, NginxConfig
  <2>2. ProcTypeOK'  BY <1>2, <1>l, GotoType DEF DropProxy, DeleteLabels
  <2> QED  BY <1>2, <2>1, <2>2, <1>t, <1>d DEF DropProxy
<1>3. CASE StopContainer(h) \/ RemoveContainer(h)
  <2>1. DockerTypeOK'
    BY <1>3, <1>d, SetStateType
       DEF StopContainer, RemoveContainer, StopIfRunning, RemoveIfExists
  <2>2. ProcTypeOK'
    BY <1>3, <1>l, GotoType DEF StopContainer, RemoveContainer, DeleteLabels
  <2> QED  BY <1>3, <2>1, <2>2, <1>t, <1>p DEF StopContainer, RemoveContainer
<1>4. CASE DeleteRow(h)
  <2>1. TableTypeOK'  BY <1>4, DeleteType DEF DeleteRow
  <2>2. ProcTypeOK'  BY <1>4, ReturnType DEF DeleteRow
  <2> QED  BY <1>4, <2>1, <2>2, <1>d, <1>p DEF DeleteRow
<1> QED  BY <1>1, <1>2, <1>3, <1>4 DEF DeleteStep

(* So do a list and a sweep.                                               *)
LEMMA InspectStepType ==
  ASSUME TypeOK, NEW p \in Procs, FindDeployments(p) \/ InspectStep(p)
  PROVE  TypeOK'
<1> USE DEF TypeOK
<1>r. dep[p] \in Deployment /\ depID[p] \in 0..MaxId  BY DEF ProcTypeOK
<1>l. "idle" \in Labels /\ InspectLabels \subseteq Labels  BY DEF Labels
<1>a. AfterInspect(p) \in Labels  BY <1>l DEF AfterInspect, InspectLabels
<1>t. ASSUME UNCHANGED tableVars PROVE TableTypeOK'
  BY <1>t DEF tableVars, TableTypeOK
<1>d. ASSUME UNCHANGED dockerVars PROVE DockerTypeOK'
  BY <1>d DEF dockerVars, DockerTypeOK
<1>p. ASSUME UNCHANGED proxyVars PROVE ProxyTypeOK'
  BY <1>p DEF proxyVars, ProxyTypeOK
<1>1. CASE FindDeployments(p)
  <2>1. ProcTypeOK'
    BY <1>1, <1>l DEF FindDeployments, ProcTypeOK, TableTypeOK, InspectLabels
  <2> QED  BY <1>1, <2>1, <1>t, <1>d, <1>p DEF FindDeployments
<1>2. CASE ReadRow(p)
  <2>1. PICK id \in todo[p] :
          /\ todo' = [todo EXCEPT ![p] = @ \ {id}]
          /\ dep' = [dep EXCEPT ![p] = FirstRow(id)]
          /\ depID' = [depID EXCEPT ![p] = FirstId(id)]
          /\ pc' = [pc EXCEPT ![p] = IF FirstRow(id).containerID # 0
                                     THEN "inspect" ELSE AfterInspect(p)]
    BY <1>2 DEF ReadRow
  <2>2. FirstRow(id) \in Deployment  BY FirstRowType
  <2>3. FirstId(id) \in 0..MaxId
    <3>1. id \in Ids  BY <2>1 DEF ProcTypeOK
    <3> QED  BY <3>1, BoundsAssumption DEF FirstId, Ids
  <2>4. ProcTypeOK'
    BY <2>1, <2>2, <2>3, <1>l, <1>a DEF ProcTypeOK, InspectLabels
  <2> QED  BY <1>2, <2>4, <1>t, <1>d, <1>p DEF ReadRow
<1>3. CASE InspectContainer(p)
  <2>1. dep[p].containerID \in ContainerIds
    BY <1>3, <1>r, BoundsAssumption
       DEF InspectContainer, Exists, Deployment, ContainerIds
  <2>2. containers[dep[p].containerID].state \in Statuses
    BY <1>3, <2>1 DEF InspectContainer, Exists, DockerTypeOK, Container, Statuses
  <2>3. [dep[p] EXCEPT !.status = containers[dep[p].containerID].state] \in Deployment
    BY <1>r, <2>2 DEF Deployment
  <2>4. ProcTypeOK'
    BY <1>3, <2>3, <1>l, GotoWithType DEF InspectContainer, InspectLabels
  <2> QED  BY <1>3, <2>4, <1>t, <1>d, <1>p DEF InspectContainer
<1>4. CASE InspectFails(p)
  <2>1. ProcTypeOK' /\ up' \in BOOLEAN
    BY <1>4, ReturnType, CrashType DEF InspectFails
  <2> QED  BY <1>4, <2>1, <1>t, <1>d, <1>p DEF InspectFails
<1>5. CASE SaveStatus(p)
  <2>1. TableTypeOK'  BY <1>5, <1>r, UpdateRowType DEF SaveStatus
  <2>2. ProcTypeOK'  BY <1>5, <1>a, GotoType DEF SaveStatus
  <2> QED  BY <1>5, <2>1, <2>2, <1>d, <1>p DEF SaveStatus
<1>6. CASE SaveResult(p)
  <2>1. TableTypeOK'
    BY <1>6, <1>r, UpdateRowType, CreateType DEF SaveResult, Save
  <2>2. ProcTypeOK'  BY <1>6, <1>l, GotoType DEF SaveResult, InspectLabels
  <2> QED  BY <1>6, <2>1, <2>2, <1>d, <1>p DEF SaveResult
<1>7. CASE LoopDone(p)
  <2>1. ProcTypeOK'  BY <1>7, ReturnType DEF LoopDone
  <2> QED  BY <1>7, <2>1, <1>t, <1>d, <1>p DEF LoopDone
<1> QED
  BY <1>1, <1>2, <1>3, <1>4, <1>5, <1>6, <1>7 DEF InspectStep

(* So does the environment.                                                *)
LEMMA EnvironmentType ==
  ASSUME TypeOK, AppExits \/ Kill \/ Restart
  PROVE  TypeOK'
<1> USE DEF TypeOK
<1>t. TableTypeOK'  BY DEF AppExits, Kill, Restart, tableVars, TableTypeOK
<1>p. ProxyTypeOK'  BY DEF AppExits, Kill, Restart, proxyVars, ProxyTypeOK
<1>d. DockerTypeOK'
  BY SetStateType DEF AppExits, ContainerExits, Kill, Restart, dockerVars, DockerTypeOK
<1>r. ProcTypeOK' /\ up' \in BOOLEAN
  <2>1. CASE Kill  BY <2>1, CrashType DEF Kill
  <2>2. CASE AppExits \/ Restart
    BY <2>2 DEF AppExits, Restart, procVars, ProcTypeOK
  <2> QED  BY <2>1, <2>2
<1> QED  BY <1>t, <1>p, <1>d, <1>r DEF AppExits, Kill, Restart

LEMMA NextType == TypeOK /\ [Next]_vars => TypeOK'
<1> SUFFICES ASSUME TypeOK, [Next]_vars PROVE TypeOK'  OBVIOUS
<1>1. CASE UNCHANGED vars
  BY <1>1 DEF vars, tableVars, dockerVars, proxyVars, procVars, TypeOK, TableTypeOK,
              DockerTypeOK, ProxyTypeOK, ProcTypeOK
<1>2. CASE Next
  BY <1>2, CreateStepType, DeleteStepType, InspectStepType, EnvironmentType
     DEF Next, HandlerStep, MonitorStep, Procs
<1> QED  BY <1>1, <1>2

(* In every reachable state every variable has its declared shape, so no   *)
(* step of the daemon is taken on a value it was not written for.          *)
THEOREM TypeCorrect == Spec => []TypeOK
  BY InitType, NextType, PTL DEF Spec

=============================================================================
