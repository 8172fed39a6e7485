-------------------------- MODULE Ownership_proofs --------------------------
(***************************************************************************)
(* No interleaving of whole-row saves mixes up the containers of two       *)
(* deployments, and a deleted row is final.                                *)
(*                                                                         *)
(* A step of the daemon changes the table, the containers and the struct   *)
(* of one process.  The first part says what the changes to the table and  *)
(* to the containers leave intact; the second goes through the actions.    *)
(***************************************************************************)
EXTENDS Daemon_proofs

(* What the daemon does to the table in one step.                          *)
TableStep ==
  \/ UNCHANGED tableVars
  \/ \E p \in Procs : UpdateRow(depID[p], dep[p])
  \/ \E row \in Deployment :
        /\ Create(row)
        /\ row.containerID = 0 /\ row.mongoContainerID = 0 /\ row.status = ""
  \/ \E id \in 0..MaxId : Delete(id)

(* Docker forgets nothing of a container but its state.                    *)
ContainersKept ==
  /\ lastCtr <= lastCtr'
  /\ \A c \in 1..lastCtr :
        /\ containers'[c].kind = containers[c].kind
        /\ containers'[c].owner = containers[c].owner
        /\ containers'[c].port = containers[c].port

-----------------------------------------------------------------------------

(* Every call to Docker keeps the containers.                              *)
LEMMA UnchangedKeeps ==
  ASSUME DockerTypeOK, UNCHANGED dockerVars PROVE ContainersKept
  BY DEF DockerTypeOK, dockerVars, ContainersKept

LEMMA NewContainerKeeps ==
  ASSUME DockerTypeOK, NEW kind, NEW owner, NEW port, NewContainer(kind, owner, port)
  PROVE  ContainersKept
<1>1. \A c \in 1..lastCtr : c # lastCtr + 1  BY DEF DockerTypeOK
<1>2. \A c \in 1..lastCtr : containers'[c] = containers[c]
  BY <1>1 DEF NewContainer, DockerTypeOK, ContainerIds
<1> QED  BY <1>2, BoundsAssumption DEF NewContainer, DockerTypeOK, ContainersKept

LEMMA SetStateKeeps ==
  ASSUME DockerTypeOK, NEW c, NEW s, SetState(c, s)
  PROVE  ContainersKept
<1>1. \A k \in 1..lastCtr : k \in ContainerIds
  BY BoundsAssumption DEF DockerTypeOK, ContainerIds
<1>2. \A k \in 1..lastCtr : containers[k] \in Container
  BY <1>1 DEF DockerTypeOK
<1>3. \A k \in 1..lastCtr :
         containers'[k] = IF k = c THEN [containers[k] EXCEPT !.state = s]
                                   ELSE containers[k]
  BY <1>1 DEF SetState, DockerTypeOK
<1> QED  BY <1>2, <1>3 DEF SetState, DockerTypeOK, ContainersKept, Container

(* A struct that has not changed still tells the truth of its containers.  *)
LEMMA TrackedKept ==
  ASSUME DockerTypeOK, ContainersKept, DockerTypeOK',
         NEW id, NEW row \in Deployment, Tracked(id, row)
  PROVE  Tracked(id, row)'
<1>1. PICK c \in 0..MaxCtr : row.containerID = c  BY DEF Deployment
<1>2. PICK g \in 0..MaxCtr : row.mongoContainerID = g  BY DEF Deployment
<1>3. lastCtr \in Nat /\ lastCtr' \in Nat /\ lastCtr <= lastCtr'
  BY BoundsAssumption DEF DockerTypeOK, ContainersKept
<1>4. c <= lastCtr /\ g <= lastCtr  BY <1>1, <1>2 DEF Tracked
<1>5. c <= lastCtr' /\ g <= lastCtr'  BY <1>3, <1>4, BoundsAssumption
<1>6. (c # 0 => c \in 1..lastCtr) /\ (g # 0 => g \in 1..lastCtr)
  BY <1>3, <1>4, BoundsAssumption
<1> QED  BY <1>1, <1>2, <1>5, <1>6 DEF ContainersKept, Tracked, Owns

(* The rows are as true as the structs they are written from.              *)
LEMMA RowsTracked ==
  ASSUME Inv, TypeOK', TableStep, ContainersKept
  PROVE  /\ lastId <= lastId'
         /\ live' \subseteq 1..lastId'
         /\ \A id \in 1..lastId : deployments'[id].port = deployments[id].port
         /\ \A id \in Ids : Tracked(id, deployments[id])'
<1> USE DEF Inv
<1>t. TableTypeOK /\ DockerTypeOK /\ TableTypeOK' /\ DockerTypeOK' /\ ProcTypeOK
  BY DEF TypeOK
<1>i. lastId \in Nat /\ \A id \in 1..lastId : id \in Ids
  BY <1>t, BoundsAssumption DEF TableTypeOK, Ids
<1>k. ASSUME NEW id \in Ids PROVE Tracked(id, deployments[id]) /\ deployments[id] \in Deployment
  BY <1>t DEF TableTypeOK
<1>1. CASE UNCHANGED tableVars
  <2>1. ASSUME NEW id \in Ids PROVE Tracked(id, deployments[id])'
    <3>1. PICK row \in Deployment : row = deployments[id] /\ row = deployments'[id]
      BY <1>1, <1>k DEF tableVars
    <3>2. Tracked(id, row)'  BY <1>t, <1>k, <3>1, TrackedKept
    <3> QED  BY <3>1, <3>2 DEF Tracked, Owns
  <2> QED  BY <1>1, <1>i, <2>1 DEF tableVars
<1>2. ASSUME NEW p \in Procs, UpdateRow(depID[p], dep[p])
      PROVE  /\ lastId <= lastId'
             /\ live' \subseteq 1..lastId'
             /\ \A id \in 1..lastId : deployments'[id].port = deployments[id].port
             /\ \A id \in Ids : Tracked(id, deployments[id])'
  <2>1. StructTracked(p) /\ dep[p] \in Deployment  BY <1>t DEF ProcTypeOK
  <2>2. ASSUME NEW id \in Ids
        PROVE  \/ deployments'[id] = deployments[id]
               \/ id = depID[p] /\ depID[p] # 0 /\ deployments'[id] = dep[p]
    BY <1>2, <1>t, <1>i DEF UpdateRow, TableTypeOK
  <2>3. ASSUME NEW id \in Ids PROVE Tracked(id, deployments[id])'
    <3>1. PICK row \in Deployment : Tracked(id, row) /\ row = deployments'[id]
      BY <2>1, <2>2, <1>k DEF StructTracked
    <3>2. Tracked(id, row)'  BY <1>t, <3>1, TrackedKept
    <3> QED  BY <3>1, <3>2 DEF Tracked, Owns
  <2>4. ASSUME NEW id \in 1..lastId PROVE deployments'[id].port = deployments[id].port
    BY <2>1, <2>2, <1>i DEF StructTracked
  <2> QED  BY <1>2, <1>i, <2>3, <2>4 DEF UpdateRow
<1>3. ASSUME NEW new \in Deployment, Create(new),
             new.containerID = 0, new.mongoContainerID = 0, new.status = ""
      PROVE  /\ lastId <= lastId'
             /\ live' \subseteq 1..lastId'
             /\ \A id \in 1..lastId : deployments'[id].port = deployments[id].port
             /\ \A id \in Ids : Tracked(id, deployments[id])'
  <2>1. lastId' = lastId + 1 /\ live' = live \cup {lastId + 1}  BY <1>3 DEF Create
  <2>2. ASSUME NEW id \in Ids
        PROVE  deployments'[id] = IF id = lastId + 1 THEN new ELSE deployments[id]
    BY <1>3, <1>t DEF Create, TableTypeOK
  <2>3. ASSUME NEW id \in Ids PROVE Tracked(id, deployments[id])'
    <3>0. 0 <= lastCtr  BY <1>t, BoundsAssumption DEF DockerTypeOK
    <3>1. Tracked(id, new)  BY <1>3, <3>0 DEF Tracked, Owns
    <3>2. PICK row \in Deployment : Tracked(id, row) /\ row = deployments'[id]
      BY <2>2, <3>1, <1>k
    <3>3. Tracked(id, row)'  BY <1>t, <3>2, TrackedKept
    <3> QED  BY <3>2, <3>3 DEF Tracked, Owns
  <2>4. ASSUME NEW id \in 1..lastId PROVE deployments'[id].port = deployments[id].port
    <3>1. id \in Ids /\ id # lastId + 1  BY <1>i
    <3> QED  BY <2>2, <3>1
  <2>5. live' \subseteq 1..lastId'  BY <2>1, <1>i
  <2> QED  BY <1>i, <2>1, <2>3, <2>4, <2>5
<1>4. ASSUME NEW gone \in 0..MaxId, Delete(gone)
      PROVE  /\ lastId <= lastId'
             /\ live' \subseteq 1..lastId'
             /\ \A id \in 1..lastId : deployments'[id].port = deployments[id].port
             /\ \A id \in Ids : Tracked(id, deployments[id])'
  <2>1. ASSUME NEW id \in Ids PROVE Tracked(id, deployments[id])'
    <3>1. PICK row \in Deployment : row = deployments[id] /\ row = deployments'[id]
      BY <1>4, <1>k DEF Delete
    <3>2. Tracked(id, row)'  BY <1>t, <1>k, <3>1, TrackedKept
    <3> QED  BY <3>1, <3>2 DEF Tracked, Owns
  <2>2. live' \subseteq live /\ lastId' = lastId /\ deployments' = deployments
    <3>1. CASE gone = 0  BY <1>4, <3>1 DEF Delete
    <3>2. CASE gone # 0  BY <1>4, <3>2 DEF Delete
    <3> QED  BY <3>1, <3>2
  <2> QED  BY <1>i, <2>1, <2>2
<1> QED  BY <1>1, <1>2, <1>3, <1>4 DEF TableStep

(* So is a struct that nobody has touched.                                 *)
LEMMA StructKept ==
  ASSUME Inv, TypeOK', TableStep, ContainersKept,
         NEW q \in Procs, dep'[q] = dep[q], depID'[q] = depID[q]
  PROVE  StructTracked(q)'
<1> USE DEF Inv
<1>t. TableTypeOK /\ DockerTypeOK /\ TableTypeOK' /\ DockerTypeOK' /\ ProcTypeOK
  BY DEF TypeOK
<1>1. dep[q] \in Deployment /\ depID[q] \in 0..MaxId /\ StructTracked(q)
  BY <1>t DEF ProcTypeOK
<1>2. PICK id \in 0..MaxId, row \in Deployment : id = depID[q] /\ row = dep[q]
  BY <1>1
<1>3. lastId \in Nat /\ lastId' \in Nat /\ lastId <= lastId'
  BY <1>t, RowsTracked, BoundsAssumption DEF TableTypeOK
<1>4. id <= lastId /\ id <= lastId'
  BY <1>1, <1>2, <1>3, BoundsAssumption DEF StructTracked
<1>5. Tracked(id, row)'  BY <1>t, <1>1, <1>2, TrackedKept DEF StructTracked
<1>6. id # 0 => deployments'[id].port = deployments[id].port
  BY <1>3, <1>4, RowsTracked, BoundsAssumption
<1>7. Tracked(depID[q], dep[q])'  BY <1>2, <1>5 DEF Tracked, Owns
<1>8. IF depID'[q] = 0
      THEN dep'[q].containerID = 0 /\ dep'[q].mongoContainerID = 0
      ELSE dep'[q].port = deployments'[depID'[q]].port
  BY <1>1, <1>2, <1>6 DEF StructTracked
<1> QED  BY <1>2, <1>4, <1>7, <1>8 DEF StructTracked

-----------------------------------------------------------------------------
(* The ways a process moves.                                               *)

(* The process that moves may be looked at alone.                          *)
LEMMA MoveTracked ==
  ASSUME Inv, TypeOK', TableStep, ContainersKept, NEW p \in Procs,
         \A q \in Procs \ {p} :
            pc'[q] = pc[q] /\ dep'[q] = dep[q] /\ depID'[q] = depID[q],
         StructTracked(p)',
         p \in Handlers => CreationTracked(p)'
  PROVE  Inv'
<1>1. ASSUME NEW q \in Procs PROVE StructTracked(q)'
  BY StructKept
<1>2. ASSUME NEW h \in Handlers PROVE CreationTracked(h)'
  <2>1. CASE h = p  BY <2>1
  <2>2. CASE h # p
    <3>1. h \in Procs \ {p}  BY <2>2 DEF Procs
    <3>2. CreationTracked(h)  BY DEF Inv
    <3> QED  BY <3>1, <3>2 DEF CreationTracked
  <2> QED  BY <2>1, <2>2
<1> QED  BY <1>1, <1>2, RowsTracked DEF Inv

(* What a creation must know of its struct to be at a label.               *)
Fits(label, id, row) ==
  /\ label \in NoRowYet => id = 0
  /\ label \in CreateLabels \ NoRowYet => id # 0
  /\ label \in HasContainer => row.containerID # 0

LEMMA GotoTracked ==
  ASSUME Inv, TypeOK', TableStep, ContainersKept, NEW p \in Procs, NEW label,
         Goto(p, label), p \in Handlers => Fits(label, depID[p], dep[p])
  PROVE  Inv'
<1>1. pc \in [Procs -> Labels]  BY DEF Inv, TypeOK, ProcTypeOK
<1>2. StructTracked(p)'  BY StructKept DEF Goto
<1>3. p \in Handlers => CreationTracked(p)'
  BY <1>1 DEF Goto, Fits, CreationTracked
<1>4. \A q \in Procs \ {p} :
         pc'[q] = pc[q] /\ dep'[q] = dep[q] /\ depID'[q] = depID[q]
  BY <1>1 DEF Goto
<1> QED  BY <1>2, <1>3, <1>4, MoveTracked

LEMMA GotoWithTracked ==
  ASSUME Inv, TypeOK', TableStep, ContainersKept, NEW p \in Procs, NEW label,
         NEW row \in Deployment, GotoWith(p, label, row),
         Tracked(depID[p], row)',
         IF depID[p] = 0 THEN row.containerID = 0 /\ row.mongoContainerID = 0
                         ELSE row.port = dep[p].port,
         p \in Handlers => Fits(label, depID[p], row)
  PROVE  Inv'
<1>1. pc \in [Procs -> Labels] /\ dep \in [Procs -> Deployment] /\ depID[p] \in 0..MaxId
  BY DEF Inv, TypeOK, ProcTypeOK
<1>2. dep'[p] = row /\ depID'[p] = depID[p] /\ pc'[p] = label
  BY <1>1 DEF GotoWith
<1>3. StructTracked(p)'
  <2>1. StructTracked(p)  BY DEF Inv
  <2>2. lastId \in Nat /\ lastId' \in Nat /\ lastId <= lastId'
    BY RowsTracked, BoundsAssumption DEF Inv, TypeOK, TableTypeOK
  <2>3. depID[p] <= lastId /\ depID[p] <= lastId'
    BY <1>1, <2>1, <2>2, BoundsAssumption DEF StructTracked
  <2>4. depID[p] # 0 => deployments'[depID[p]].port = deployments[depID[p]].port
    BY <1>1, <2>2, <2>3, RowsTracked, BoundsAssumption
  <2>5. Tracked(depID[p], dep[p])'  BY <1>2 DEF Tracked, Owns
  <2> QED  BY <1>2, <2>1, <2>3, <2>4, <2>5 DEF StructTracked
<1>4. p \in Handlers => CreationTracked(p)'
  BY <1>2 DEF Fits, CreationTracked
<1>5. \A q \in Procs \ {p} :
         pc'[q] = pc[q] /\ dep'[q] = dep[q] /\ depID'[q] = depID[q]
  BY <1>1 DEF GotoWith
<1> QED  BY <1>3, <1>4, <1>5, MoveTracked

(* A process that returns, or is about to start, knows of nothing.         *)
LEMMA BlankTracked ==
  ASSUME TypeOK', NEW p \in Procs, dep'[p] = Blank, depID'[p] = 0
  PROVE  StructTracked(p)'
<1>1. 0 <= lastId' /\ 0 <= lastCtr'
  BY BoundsAssumption DEF TypeOK, TableTypeOK, DockerTypeOK
<1>2. /\ dep'[p].containerID = 0 /\ dep'[p].mongoContainerID = 0
      /\ dep'[p].status = ""
  <2>1. Blank.containerID = 0 /\ Blank.mongoContainerID = 0 /\ Blank.status = ""
    BY DEF Blank
  <2> QED  BY <2>1
<1>3. Tracked(depID[p], dep[p])'
  <2>1. Owns(depID[p], dep[p])'  BY <1>2 DEF Owns
  <2> QED  BY <1>1, <1>2, <2>1 DEF Tracked
<1>4. depID'[p] <= lastId'  BY <1>1
<1> QED  BY <1>2, <1>3, <1>4 DEF StructTracked

LEMMA ReturnTracked ==
  ASSUME Inv, TypeOK', TableStep, ContainersKept, NEW p \in Procs, Return(p)
  PROVE  Inv'
<1>1. pc \in [Procs -> Labels] /\ dep \in [Procs -> Deployment]
      /\ depID \in [Procs -> 0..MaxId]
  BY DEF Inv, TypeOK, ProcTypeOK
<1>2. dep'[p] = Blank /\ depID'[p] = 0 /\ pc'[p] = "idle"
  BY <1>1 DEF Return
<1>3. StructTracked(p)'  BY <1>2, BlankTracked
<1>4. CreationTracked(p)'
  BY <1>2 DEF CreationTracked, NoRowYet, CreateLabels, HasContainer
<1>5. \A q \in Procs \ {p} :
         pc'[q] = pc[q] /\ dep'[q] = dep[q] /\ depID'[q] = depID[q]
  BY <1>1 DEF Return
<1> QED  BY <1>3, <1>4, <1>5, MoveTracked

LEMMA CrashTracked ==
  ASSUME Inv, TypeOK', TableStep, ContainersKept, Crash
  PROVE  Inv'
<1>1. ASSUME NEW q \in Procs PROVE StructTracked(q)'
  BY BlankTracked DEF Crash
<1>2. ASSUME NEW h \in Handlers PROVE CreationTracked(h)'
  BY DEF Crash, Procs, CreationTracked, NoRowYet, CreateLabels, HasContainer
<1> QED  BY <1>1, <1>2, RowsTracked DEF Inv

-----------------------------------------------------------------------------
(* The actions.                                                            *)

LEMMA CreateStepTracked ==
  ASSUME Inv, TypeOK', NEW h \in Handlers, CreateRequest(h) \/ CreateStep(h)
  PROVE  Inv'
<1> h \in Procs  BY DEF Procs
<1>d. DockerTypeOK /\ DockerTypeOK' /\ dep[h] \in Deployment /\ depID[h] \in 0..MaxId
  BY DEF Inv, TypeOK, ProcTypeOK
<1>s. StructTracked(h) /\ CreationTracked(h)  BY DEF Inv
<1>t. ASSUME UNCHANGED tableVars PROVE TableStep  BY <1>t DEF TableStep
<1>u. ASSUME UpdateRow(depID[h], dep[h]) PROVE TableStep  BY <1>u DEF TableStep
<1>k. ASSUME UNCHANGED dockerVars PROVE ContainersKept  BY <1>k, <1>d, UnchangedKeeps
<1>1. CASE CreateRequest(h)
  <2>1. Fits("pickPort", depID[h], dep[h])
    BY <1>1, <1>s DEF CreateRequest, CreationTracked, Fits, NoRowYet, CreateLabels, HasContainer
  <2> QED  BY <1>1, <2>1, <1>t, <1>k, GotoTracked DEF CreateRequest
<1>2. CASE PickPort(h)
  <2>1. PICK port \in Ports : GotoWith(h, "insertDeployment", [Blank EXCEPT !.port = port])
    BY <1>2 DEF PickPort
  <2>2. PICK row \in Deployment : row = [Blank EXCEPT !.port = port]
    BY BlankType DEF Deployment
  <2>3. row.containerID = 0 /\ row.mongoContainerID = 0 /\ row.status = ""
    BY <2>2 DEF Blank
  <2>4. depID[h] = 0  BY <1>2, <1>s DEF PickPort, CreationTracked, NoRowYet
  <2>5. 0 <= lastCtr'  BY <1>d, BoundsAssumption DEF DockerTypeOK
  <2>6. Tracked(depID[h], row)'  BY <2>3, <2>5 DEF Tracked, Owns
  <2>7. Fits("insertDeployment", depID[h], row)
    BY <2>4 DEF Fits, NoRowYet, HasContainer
  <2>8. GotoWith(h, "insertDeployment", row)  BY <2>1, <2>2
  <2>9. TableStep /\ ContainersKept  BY <1>2, <1>t, <1>k DEF PickPort
  <2> QED  BY <2>2, <2>3, <2>4, <2>6, <2>7, <2>8, <2>9, GotoWithTracked
<1>3. CASE InsertDeployment(h)
  <2>1. depID[h] = 0  BY <1>3, <1>s DEF InsertDeployment, CreationTracked, NoRowYet
  <2>2. /\ dep[h].containerID = 0 /\ dep[h].mongoContainerID = 0 /\ dep[h].status = ""
    BY <2>1, <1>s DEF StructTracked, Tracked
  <2>3. TableStep  BY <1>3, <2>2, <1>d DEF InsertDeployment, TableStep
  <2>4. ContainersKept  BY <1>3, <1>k DEF InsertDeployment
  <2>5. /\ lastId + 1 \in Ids /\ lastId' = lastId + 1
        /\ deployments'[lastId + 1] = dep[h]
    <3>1. lastId + 1 \in Ids /\ lastId' = lastId + 1
      BY <1>3, <1>d, CreateType DEF InsertDeployment, Inv, TypeOK
    <3> QED  BY <1>3, <3>1 DEF InsertDeployment, Create, Inv, TypeOK, TableTypeOK
  <2>6. dep'[h] = dep[h] /\ depID'[h] = lastId + 1 /\ pc'[h] = "pickDomain"
    BY <1>3 DEF InsertDeployment, Inv, TypeOK, ProcTypeOK
  <2>7. lastId + 1 # 0 /\ lastId + 1 <= lastId'  BY <2>5 DEF Ids
  <2>8. 0 <= lastCtr'  BY <1>d, BoundsAssumption DEF DockerTypeOK
  <2>9. StructTracked(h)'
    BY <2>2, <2>5, <2>6, <2>7, <2>8 DEF StructTracked, Tracked, Owns
  <2>10. CreationTracked(h)'
    BY <2>6, <2>7 DEF CreationTracked, NoRowYet, HasContainer
  <2>11. \A q \in Procs \ {h} :
            pc'[q] = pc[q] /\ dep'[q] = dep[q] /\ depID'[q] = depID[q]
    BY <1>3 DEF InsertDeployment, Inv, TypeOK, ProcTypeOK
  <2> QED  BY <2>3, <2>4, <2>9, <2>10, <2>11, MoveTracked
<1>4. CASE PickDomain(h)
  <2>1. PICK d \in Domains : GotoWith(h, "reserveDomain", [dep[h] EXCEPT !.url = d])
    BY <1>4 DEF PickDomain
  <2>2. PICK row \in Deployment : row = [dep[h] EXCEPT !.url = d]
    BY <1>d DEF Deployment
  <2>3. /\ row.containerID = dep[h].containerID /\ row.port = dep[h].port
        /\ row.mongoContainerID = dep[h].mongoContainerID /\ row.status = dep[h].status
    BY <1>d, <2>2 DEF Deployment
  <2>4. TableStep /\ ContainersKept  BY <1>4, <1>t, <1>k DEF PickDomain
  <2>5. Tracked(depID[h], row)  BY <2>3, <1>s DEF StructTracked, Tracked, Owns
  <2>6. Tracked(depID[h], row)'
    <3>1. PICK id : id = depID[h] /\ id = depID'[h]
      BY <2>1 DEF GotoWith
    <3>2. Tracked(id, row)'  BY <2>2, <2>4, <2>5, <3>1, <1>d, TrackedKept
    <3> QED  BY <3>1, <3>2 DEF Tracked, Owns
  <2>7. Fits("reserveDomain", depID[h], row)
    BY <1>4, <1>s DEF PickDomain, CreationTracked, Fits, CreateLabels, NoRowYet, HasContainer
  <2>8. GotoWith(h, "reserveDomain", row)  BY <2>1, <2>2
  <2>9. IF depID[h] = 0 THEN row.containerID = 0 /\ row.mongoContainerID = 0
                        ELSE row.port = dep[h].port
    BY <2>3, <1>s DEF StructTracked
  <2> QED  BY <2>2, <2>4, <2>6, <2>7, <2>8, <2>9, GotoWithTracked
<1>5. CASE ReserveDomain(h)
  <2>1. Fits("saveURL", depID[h], dep[h])
    BY <1>5, <1>s DEF ReserveDomain, CreationTracked, Fits, CreateLabels, NoRowYet, HasContainer
  <2> QED  BY <1>5, <2>1, <1>t, <1>k, GotoTracked DEF ReserveDomain
<1>6. CASE SaveDeployment(h)
  <2>1. Fits(AfterSave[pc[h]], depID[h], dep[h])
    BY <1>6, <1>s DEF SaveDeployment, AfterSave, CreationTracked, Fits, CreateLabels,
                      NoRowYet, HasContainer
  <2> QED  BY <1>6, <2>1, <1>u, <1>k, GotoTracked DEF SaveDeployment
<1>7. CASE StartMongo(h) \/ StartContainer(h)
  <2>1. ContainersKept  BY <1>7, <1>d, SetStateKeeps DEF StartMongo, StartContainer
  <2>2. CASE StartMongo(h)
    <3>1. Fits("createContainer", depID[h], dep[h])
      BY <2>2, <1>s DEF StartMongo, CreationTracked, Fits, CreateLabels, NoRowYet, HasContainer
    <3> QED  BY <2>1, <2>2, <3>1, <1>t, GotoTracked DEF StartMongo
  <2>3. CASE StartContainer(h)
    <3>1. \A label \in {"writeCert", "writeSite"} : Fits(label, depID[h], dep[h])
      BY <2>3, <1>s DEF StartContainer, CreationTracked, Fits, CreateLabels, NoRowYet,
                        HasContainer
    <3> QED  BY <2>1, <2>3, <3>1, <1>t, GotoTracked DEF StartContainer
  <2> QED  BY <1>7, <2>2, <2>3
<1>8. CASE DockerRefuses(h) \/ CreateProxyFails(h) \/ SiteIsLost(h)
  BY <1>8, <1>t, <1>k, ReturnTracked DEF DockerRefuses, CreateProxyFails, SiteIsLost
<1>9. CASE WriteCertificate(h) \/ WritePrivateKey(h) \/ WriteSiteFile(h)
  <2>1. \A label \in {"writeKey", "writeSite", "reload"} : Fits(label, depID[h], dep[h])
    BY <1>9, <1>s DEF WriteCertificate, WritePrivateKey, WriteSiteFile, CreationTracked,
                      Fits, CreateLabels, NoRowYet, HasContainer
  <2> QED
    BY <1>9, <2>1, <1>t, <1>k, GotoTracked
       DEF WriteCertificate, WritePrivateKey, WriteSiteFile
<1>10. CASE SaveRunning(h)
  BY <1>10, <1>u, <1>k, ReturnTracked DEF SaveRunning
<1>11. CASE Reload(h)
  <2>1. PICK row \in Deployment : row = [dep[h] EXCEPT !.status = "running"]
    BY <1>d DEF Deployment, Statuses
  <2>2. /\ row.containerID = dep[h].containerID /\ row.port = dep[h].port
        /\ row.mongoContainerID = dep[h].mongoContainerID
    BY <1>d, <2>1 DEF Deployment
  <2>3. GotoWith(h, "saveRunning", row)  BY <1>11, <2>1 DEF Reload
  <2>4. TableStep /\ ContainersKept  BY <1>11, <1>t, <1>k DEF Reload
  <2>5. row.containerID # 0
    BY <1>11, <1>s, <2>2 DEF Reload, CreationTracked, HasContainer
  <2>6. Tracked(depID[h], row)  BY <2>2, <2>5, <1>s DEF StructTracked, Tracked, Owns
  <2>7. Tracked(depID[h], row)'
    <3>1. PICK id : id = depID[h] /\ id = depID'[h]
      BY <2>3 DEF GotoWith
    <3>2. Tracked(id, row)'  BY <2>1, <2>4, <2>6, <3>1, <1>d, TrackedKept
    <3> QED  BY <3>1, <3>2 DEF Tracked, Owns
  <2>8. Fits("saveRunning", depID[h], row)
    BY <1>11, <1>s, <2>5 DEF Reload, CreationTracked, Fits, CreateLabels, NoRowYet, HasContainer
  <2>9. IF depID[h] = 0 THEN row.containerID = 0 /\ row.mongoContainerID = 0
                        ELSE row.port = dep[h].port
    BY <2>2, <1>s DEF StructTracked
  <2> QED  BY <2>1, <2>3, <2>4, <2>7, <2>8, <2>9, GotoWithTracked
<1>12. CASE CreateMongo(h)
  <2>1. /\ DockerTypeOK' /\ lastCtr + 1 \in 0..MaxCtr /\ lastCtr + 1 \in ContainerIds
    BY <1>12, <1>d, NewContainerType DEF CreateMongo
  <2>2. PICK row \in Deployment : row = [dep[h] EXCEPT !.mongoContainerID = lastCtr + 1]
    BY <1>d, <2>1 DEF Deployment
  <2>3. /\ row.containerID = dep[h].containerID /\ row.port = dep[h].port
        /\ row.mongoContainerID = lastCtr + 1 /\ row.status = dep[h].status
    BY <1>d, <2>2 DEF Deployment
  <2>4. GotoWith(h, "saveMongo", row)  BY <1>12, <2>2 DEF CreateMongo
  <2>5. TableStep /\ ContainersKept
    BY <1>12, <1>t, <1>d, NewContainerKeeps DEF CreateMongo
  <2>6. depID[h] # 0
    BY <1>12, <1>s DEF CreateMongo, CreationTracked, CreateLabels, NoRowYet
  <2>7. Tracked(depID[h], row)'
    <3>1. PICK id : id = depID[h] /\ id = depID'[h]
      BY <2>4 DEF GotoWith
    <3>2. Tracked(id, dep[h])  BY <1>s, <3>1 DEF StructTracked
    <3>3. PICK old \in Deployment : old = dep[h]  BY <1>d
    <3>4. Tracked(id, old)'  BY <2>5, <3>2, <3>3, <1>d, TrackedKept
    <3>5. /\ containers'[lastCtr + 1].kind = "mongo" /\ containers'[lastCtr + 1].owner = id
          /\ lastCtr' = lastCtr + 1
      BY <1>12, <1>d, <2>1, <3>1 DEF CreateMongo, NewContainer, DockerTypeOK
    <3>6. lastCtr + 1 <= lastCtr'  BY <3>5, <2>1
    <3> QED  BY <2>3, <3>1, <3>3, <3>4, <3>5, <3>6 DEF Tracked, Owns
  <2>8. Fits("saveMongo", depID[h], row)  BY <2>6 DEF Fits, NoRowYet, HasContainer
  <2>9. IF depID[h] = 0 THEN row.containerID = 0 /\ row.mongoContainerID = 0
                        ELSE row.port = dep[h].port
    BY <2>3, <2>6
  <2> QED  BY <2>2, <2>4, <2>5, <2>7, <2>8, <2>9, GotoWithTracked
<1>13. CASE CreateContainer(h)
  <2>0. dep[h].port \in Ports \cup {None}  BY <1>d DEF Deployment
  <2>1. /\ DockerTypeOK' /\ lastCtr + 1 \in 0..MaxCtr /\ lastCtr + 1 \in ContainerIds
    BY <1>13, <1>d, <2>0, NewContainerType DEF CreateContainer
  <2>2. PICK row \in Deployment : row = [dep[h] EXCEPT !.containerID = lastCtr + 1]
    BY <1>d, <2>1 DEF Deployment
  <2>3. /\ row.containerID = lastCtr + 1 /\ row.port = dep[h].port
        /\ row.mongoContainerID = dep[h].mongoContainerID /\ row.status = dep[h].status
    BY <1>d, <2>2 DEF Deployment
  <2>4. GotoWith(h, "saveContainer", row)  BY <1>13, <2>2 DEF CreateContainer
  <2>5. TableStep /\ ContainersKept
    BY <1>13, <1>t, <1>d, NewContainerKeeps DEF CreateContainer
  <2>6. depID[h] # 0
    BY <1>13, <1>s DEF CreateContainer, CreationTracked, CreateLabels, NoRowYet
  <2>z. lastCtr + 1 # 0  BY <2>1 DEF ContainerIds
  <2>7. Tracked(depID[h], row)'
    <3>1. PICK id : id = depID[h] /\ id = depID'[h]
      BY <2>4 DEF GotoWith
    <3>2. Tracked(id, dep[h])  BY <1>s, <3>1 DEF StructTracked
    <3>3. PICK old \in Deployment : old = dep[h]  BY <1>d
    <3>4. Tracked(id, old)'  BY <2>5, <3>2, <3>3, <1>d, TrackedKept
    <3>5. /\ containers'[lastCtr + 1].kind = "app" /\ containers'[lastCtr + 1].owner = id
          /\ containers'[lastCtr + 1].port = dep[h].port
          /\ lastCtr' = lastCtr + 1
      BY <1>13, <1>d, <2>1, <3>1 DEF CreateContainer, NewContainer, DockerTypeOK
    <3>6. lastCtr + 1 <= lastCtr'  BY <3>5, <2>1
    <3> QED  BY <2>3, <2>z, <3>1, <3>3, <3>4, <3>5, <3>6 DEF Tracked, Owns
  <2>8. Fits("saveContainer", depID[h], row)  BY <2>3, <2>6, <2>z DEF Fits, NoRowYet
  <2>9. IF depID[h] = 0 THEN row.containerID = 0 /\ row.mongoContainerID = 0
                        ELSE row.port = dep[h].port
    BY <2>3, <2>6
  <2> QED  BY <2>2, <2>4, <2>5, <2>7, <2>8, <2>9, GotoWithTracked
<1> QED
  BY <1>1, <1>2, <1>3, <1>4, <1>5, <1>6, <1>7, <1>8, <1>9, <1>10, <1>11, <1>12,
     <1>13 DEF CreateStep

LEMMA DeleteStepTracked ==
  ASSUME Inv, TypeOK', NEW h \in Handlers, DeleteRequest(h) \/ DeleteStep(h)
  PROVE  Inv'
<1> h \in Procs  BY DEF Procs
<1>d. DockerTypeOK /\ DockerTypeOK' /\ depID[h] \in 0..MaxId
  BY DEF Inv, TypeOK, ProcTypeOK
<1>t. ASSUME UNCHANGED tableVars PROVE TableStep  BY <1>t DEF TableStep
<1>k. ASSUME UNCHANGED dockerVars PROVE ContainersKept  BY <1>k, <1>d, UnchangedKeeps
<1>f. \A label \in DeleteLabels : Fits(label, depID[h], dep[h])
  BY DEF Fits, DeleteLabels, NoRowYet, CreateLabels, HasContainer
<1>1. CASE DeleteRequest(h)
  <2>1. PICK id \in live \cup {0} :
          /\ dep' = [dep EXCEPT ![h] = FirstRow(id)]
          /\ depID' = [depID EXCEPT ![h] = id]
    BY <1>1 DEF DeleteRequest
  <2>2. /\ pc \in [Procs -> Labels] /\ dep \in [Procs -> Deployment]
        /\ depID \in [Procs -> 0..MaxId]
    BY DEF Inv, TypeOK, ProcTypeOK
  <2>3. dep'[h] = FirstRow(id) /\ depID'[h] = id /\ pc'[h] \in DeleteLabels
    BY <1>1, <2>1, <2>2 DEF DeleteRequest, DeleteLabels
  <2>4. StructTracked(h)'
    <3>1. CASE id = 0
      <4>1. id \notin live  BY <3>1 DEF Inv, TypeOK, TableTypeOK, Ids
      <4> QED  BY <2>3, <3>1, <4>1, BlankTracked DEF FirstRow
    <3>2. CASE id # 0
      <4>1. id \in live /\ id \in Ids /\ id \in 1..lastId
        BY <3>2 DEF Inv, TypeOK, TableTypeOK
      <4>2. dep'[h] = deployments[id]  BY <2>3, <4>1 DEF FirstRow
      <4>3. Tracked(id, deployments[id])  BY <4>1 DEF Inv
      <4>4. UNCHANGED <<tableVars, dockerVars>>  BY <1>1 DEF DeleteRequest
      <4>5. id <= lastId  BY <4>1 DEF Inv, TypeOK, TableTypeOK
      <4>6. Tracked(depID[h], dep[h])'
        BY <2>3, <4>2, <4>3, <4>4 DEF Tracked, Owns, dockerVars
      <4> QED  BY <2>3, <3>2, <4>2, <4>4, <4>5, <4>6 DEF StructTracked, tableVars
    <3> QED  BY <3>1, <3>2
  <2>5. CreationTracked(h)'
    BY <2>3 DEF CreationTracked, DeleteLabels, NoRowYet, CreateLabels, HasContainer
  <2>6. \A q \in Procs \ {h} :
           pc'[q] = pc[q] /\ dep'[q] = dep[q] /\ depID'[q] = depID[q]
    BY <1>1, <2>1, <2>2 DEF DeleteRequest
  <2>7. TableStep /\ ContainersKept  BY <1>1, <1>t, <1>k DEF DeleteRequest
  <2> QED  BY <2>4, <2>5, <2>6, <2>7, MoveTracked
<1>2. CASE DropProxy(h)
  BY <1>2, <1>f, <1>t, <1>k, GotoTracked DEF DropProxy, DeleteLabels
<1>3. CASE StopContainer(h) \/ RemoveContainer(h)
  <2>1. ContainersKept
    BY <1>3, <1>d, <1>k, SetStateKeeps
       DEF StopContainer, RemoveContainer, StopIfRunning, RemoveIfExists
  <2> QED
    BY <1>3, <2>1, <1>f, <1>t, GotoTracked DEF StopContainer, RemoveContainer, DeleteLabels
<1>4. CASE DeleteRow(h)
  <2>1. TableStep  BY <1>4, <1>d DEF DeleteRow, TableStep
  <2> QED  BY <1>4, <2>1, <1>k, ReturnTracked DEF DeleteRow
<1> QED  BY <1>1, <1>2, <1>3, <1>4 DEF DeleteStep

LEMMA InspectStepTracked ==
  ASSUME Inv, TypeOK', NEW p \in Procs, FindDeployments(p) \/ InspectStep(p)
  PROVE  Inv'
<1>d. DockerTypeOK /\ DockerTypeOK' /\ dep[p] \in Deployment /\ depID[p] \in 0..MaxId
  BY DEF Inv, TypeOK, ProcTypeOK
<1>y. /\ pc \in [Procs -> Labels] /\ dep \in [Procs -> Deployment]
      /\ depID \in [Procs -> 0..MaxId]
  BY DEF Inv, TypeOK, ProcTypeOK
<1>s. StructTracked(p)  BY DEF Inv
<1>t. ASSUME UNCHANGED tableVars PROVE TableStep  BY <1>t DEF TableStep
<1>k. ASSUME UNCHANGED dockerVars PROVE ContainersKept  BY <1>k, <1>d, UnchangedKeeps
<1>f. \A label \in InspectLabels : \A id, row : Fits(label, id, row)
  BY DEF Fits, InspectLabels, NoRowYet, CreateLabels, HasContainer
<1>a. AfterInspect(p) \in InspectLabels  BY DEF AfterInspect, InspectLabels
<1>1. CASE FindDeployments(p)
  <2>1. /\ \A q \in Procs : dep'[q] = dep[q] /\ depID'[q] = depID[q]
        /\ \A q \in Procs \ {p} : pc'[q] = pc[q]
        /\ pc'[p] = "loop"
    BY <1>1, <1>y DEF FindDeployments
  <2>2. TableStep /\ ContainersKept  BY <1>1, <1>t, <1>k DEF FindDeployments
  <2>3. StructTracked(p)'  BY <2>1, <2>2, StructKept
  <2>4. CreationTracked(p)'
    BY <2>1 DEF CreationTracked, NoRowYet, CreateLabels, HasContainer
  <2> QED  BY <2>1, <2>2, <2>3, <2>4, MoveTracked
<1>2. CASE ReadRow(p)
  <2>1. PICK id \in todo[p] :
          /\ dep' = [dep EXCEPT ![p] = FirstRow(id)]
          /\ depID' = [depID EXCEPT ![p] = FirstId(id)]
          /\ pc' = [pc EXCEPT ![p] = IF FirstRow(id).containerID # 0
                                     THEN "inspect" ELSE AfterInspect(p)]
    BY <1>2 DEF ReadRow
  <2>2. /\ dep'[p] = FirstRow(id) /\ depID'[p] = FirstId(id)
        /\ pc'[p] \in InspectLabels
    BY <2>1, <1>y, <1>a DEF InspectLabels
  <2>3. StructTracked(p)'
    <3>1. CASE id \notin live
      BY <2>2, <3>1, BlankTracked DEF FirstRow, FirstId
    <3>2. CASE id \in live
      <4>1. id \in Ids /\ id \in 1..lastId  BY <3>2 DEF Inv, TypeOK, TableTypeOK
      <4>2. dep'[p] = deployments[id] /\ depID'[p] = id
        BY <2>2, <3>2 DEF FirstRow, FirstId
      <4>3. Tracked(id, deployments[id])  BY <4>1 DEF Inv
      <4>4. UNCHANGED <<tableVars, dockerVars>>  BY <1>2 DEF ReadRow
      <4>5. id <= lastId /\ id # 0  BY <4>1 DEF Inv, TypeOK, TableTypeOK
      <4>6. Tracked(depID[p], dep[p])'
        BY <4>2, <4>3, <4>4 DEF Tracked, Owns, dockerVars
      <4> QED  BY <4>2, <4>4, <4>5, <4>6 DEF StructTracked, tableVars
    <3> QED  BY <3>1, <3>2
  <2>4. CreationTracked(p)'
    BY <2>2 DEF CreationTracked, InspectLabels, NoRowYet, CreateLabels, HasContainer
  <2>5. \A q \in Procs \ {p} :
           pc'[q] = pc[q] /\ dep'[q] = dep[q] /\ depID'[q] = depID[q]
    BY <2>1, <1>y
  <2>6. TableStep /\ ContainersKept  BY <1>2, <1>t, <1>k DEF ReadRow
  <2> QED  BY <2>3, <2>4, <2>5, <2>6, MoveTracked
<1>3. CASE InspectContainer(p)
  <2>0. PICK state \in Statuses : state = containers[dep[p].containerID].state
    <3>1. dep[p].containerID \in ContainerIds
      BY <1>3, <1>d, BoundsAssumption DEF InspectContainer, Exists, Deployment, ContainerIds
    <3> QED  BY <1>3, <1>d, <3>1 DEF InspectContainer, Exists, DockerTypeOK, Container, Statuses
  <2>1. PICK row \in Deployment : row = [dep[p] EXCEPT !.status = state]
    BY <1>d DEF Deployment
  <2>2. /\ row.containerID = dep[p].containerID /\ row.port = dep[p].port
        /\ row.mongoContainerID = dep[p].mongoContainerID
    BY <1>d, <2>1 DEF Deployment
  <2>3. GotoWith(p, "saveStatus", row)  BY <1>3, <2>0, <2>1 DEF InspectContainer
  <2>4. TableStep /\ ContainersKept  BY <1>3, <1>t, <1>k DEF InspectContainer
  <2>5. row.containerID # 0  BY <1>3, <2>2 DEF InspectContainer, Exists
  <2>6. Tracked(depID[p], row)  BY <2>2, <2>5, <1>s DEF StructTracked, Tracked, Owns
  <2>7. Tracked(depID[p], row)'
    <3>1. PICK id : id = depID[p] /\ id = depID'[p]
      BY <2>3 DEF GotoWith
    <3>2. Tracked(id, row)'  BY <2>4, <2>6, <3>1, <1>d, TrackedKept
    <3> QED  BY <3>1, <3>2 DEF Tracked, Owns
  <2>8. Fits("saveStatus", depID[p], row)  BY <1>f DEF InspectLabels
  <2>9. IF depID[p] = 0 THEN row.containerID = 0 /\ row.mongoContainerID = 0
                        ELSE row.port = dep[p].port
    BY <2>2, <1>s DEF StructTracked
  <2> QED  BY <2>3, <2>4, <2>7, <2>8, <2>9, GotoWithTracked
<1>4. CASE InspectFails(p)
  BY <1>4, <1>t, <1>k, ReturnTracked, CrashTracked DEF InspectFails
<1>5. CASE SaveStatus(p)
  <2>1. TableStep  BY <1>5 DEF SaveStatus, TableStep
  <2> QED  BY <1>5, <2>1, <1>a, <1>f, <1>k, GotoTracked DEF SaveStatus
<1>6. CASE SaveResult(p)
  <2>1. TableStep
    <3>1. CASE depID[p] = 0
      <4>1. /\ dep[p].containerID = 0 /\ dep[p].mongoContainerID = 0
            /\ dep[p].status = ""
        BY <3>1, <1>s DEF StructTracked, Tracked
      <4> QED  BY <1>6, <3>1, <4>1, <1>d DEF SaveResult, Save, TableStep
    <3>2. CASE depID[p] # 0  BY <1>6, <3>2 DEF SaveResult, Save, TableStep
    <3> QED  BY <3>1, <3>2
  <2>2. "loop" \in InspectLabels  BY DEF InspectLabels
  <2> QED  BY <1>6, <2>1, <2>2, <1>f, <1>k, GotoTracked DEF SaveResult
<1>7. CASE LoopDone(p)
  BY <1>7, <1>t, <1>k, ReturnTracked DEF LoopDone
<1> QED
  BY <1>1, <1>2, <1>3, <1>4, <1>5, <1>6, <1>7 DEF InspectStep

LEMMA EnvironmentTracked ==
  ASSUME Inv, TypeOK', AppExits \/ Kill \/ Restart
  PROVE  Inv'
<1>d. DockerTypeOK  BY DEF Inv, TypeOK
<1>t. TableStep  BY DEF AppExits, Kill, Restart, TableStep
<1>k. ContainersKept
  BY <1>d, UnchangedKeeps, SetStateKeeps DEF AppExits, ContainerExits, Kill, Restart
<1>1. CASE Kill  BY <1>1, <1>t, <1>k, CrashTracked DEF Kill
<1>2. CASE AppExits \/ Restart
  <2>1. pc' = pc /\ dep' = dep /\ depID' = depID
    BY <1>2 DEF AppExits, Restart, procVars
  <2>2. ASSUME NEW p \in Procs PROVE StructTracked(p)'
    BY <2>1, <1>t, <1>k, StructKept
  <2>3. ASSUME NEW h \in Handlers PROVE CreationTracked(h)'
    BY <2>1 DEF CreationTracked, Inv
  <2> QED  BY <2>2, <2>3, <1>t, <1>k, RowsTracked DEF Inv
<1> QED  BY <1>1, <1>2

-----------------------------------------------------------------------------
(* The invariant and what follows from it.                                 *)

LEMMA InitTracked == Init => Inv
<1> SUFFICES ASSUME Init PROVE Inv  OBVIOUS
<1>1. TypeOK  BY InitType
<1>b. Blank.containerID = 0 /\ Blank.mongoContainerID = 0 /\ Blank.status = ""
  BY DEF Blank
<1>z. lastCtr = 0 /\ 0 <= lastCtr /\ lastId = 0 /\ 0 <= lastId
  BY DEF Init, DockerInit, TableInit
<1>2. \A id : Tracked(id, Blank)
  BY <1>b, <1>z DEF Tracked, Owns
<1>3. live \subseteq 1..lastId /\ \A id \in Ids : Tracked(id, deployments[id])
  BY <1>2 DEF Init, TableInit
<1>4. ASSUME NEW p \in Procs PROVE StructTracked(p)
  <2>1. dep[p] = Blank /\ depID[p] = 0  BY DEF Init
  <2>2. Tracked(depID[p], dep[p])  BY <1>2, <2>1
  <2>3. depID[p] <= lastId  BY <1>z, <2>1
  <2> QED  BY <1>b, <2>1, <2>2, <2>3 DEF StructTracked
<1>5. ASSUME NEW h \in Handlers PROVE CreationTracked(h)
  BY DEF Init, Procs, CreationTracked, NoRowYet, CreateLabels, HasContainer
<1> QED  BY <1>1, <1>3, <1>4, <1>5 DEF Inv

LEMMA NextTracked == Inv /\ [Next]_vars => Inv'
<1> SUFFICES ASSUME Inv, [Next]_vars PROVE Inv'  OBVIOUS
<1>1. TypeOK'  BY NextType DEF Inv
<1>2. CASE UNCHANGED vars
  <2>1. UNCHANGED <<deployments, live, lastId, containers, lastCtr, pc, dep, depID>>
    BY <1>2 DEF vars, tableVars, dockerVars, procVars
  <2> QED
    BY <1>1, <2>1 DEF Inv, Tracked, Owns, StructTracked, CreationTracked
<1>3. CASE Next
  BY <1>1, <1>3, CreateStepTracked, DeleteStepTracked, InspectStepTracked,
     EnvironmentTracked DEF Next, HandlerStep, MonitorStep, Procs
<1> QED  BY <1>2, <1>3

(* Whatever the interleaving, rows and structs name only containers made   *)
(* for their own deployment: a delete stops and removes nobody else's, a   *)
(* sweep inspects nobody else's (main.go 538-554, api.go 371-379).         *)
THEOREM OwnershipHolds == Spec => []ContainersAreOwned
<1>1. Inv => ContainersAreOwned
  BY DEF Inv, StructTracked, Tracked, ContainersAreOwned
<1> QED  BY <1>1, InitTracked, NextTracked, PTL DEF Spec

(* No row ever shows a status without the container it is the status of,   *)
(* however stale the saves that wrote it (main.go 507-509, 543-551).       *)
THEOREM StatusHolds == Spec => []StatusHasContainer
<1>1. Inv => StatusHasContainer
  BY DEF Inv, Tracked, StatusHasContainer
<1> QED  BY <1>1, InitTracked, NextTracked, PTL DEF Spec

(* All the table ever sees is one of these three.                          *)
LEMMA NextOnTable ==
  ASSUME Next
  PROVE  \/ UNCHANGED tableVars
         \/ \E id, row : UpdateRow(id, row)
         \/ \E row : Create(row)
         \/ \E id : Delete(id)
<1>1. ASSUME NEW h \in Handlers, CreateRequest(h) \/ CreateStep(h)
      PROVE  UNCHANGED tableVars \/ (\E id, row : UpdateRow(id, row)) \/ \E row : Create(row)
  BY <1>1 DEF CreateStep, CreateRequest, PickPort, InsertDeployment, PickDomain,
     ReserveDomain, SaveDeployment, CreateMongo, StartMongo, CreateContainer,
     StartContainer, DockerRefuses, WriteCertificate, WritePrivateKey,
     WriteSiteFile, Reload, CreateProxyFails, SiteIsLost, SaveRunning
<1>2. ASSUME NEW h \in Handlers, DeleteRequest(h) \/ DeleteStep(h)
      PROVE  UNCHANGED tableVars \/ \E id : Delete(id)
  BY <1>2 DEF DeleteStep, DeleteRequest, DropProxy, StopContainer, RemoveContainer,
     DeleteRow
<1>3. ASSUME NEW p \in Procs, FindDeployments(p) \/ InspectStep(p)
      PROVE  UNCHANGED tableVars \/ (\E id, row : UpdateRow(id, row)) \/ \E row : Create(row)
  BY <1>3 DEF InspectStep, FindDeployments, ReadRow, InspectContainer, InspectFails,
     SaveStatus, SaveResult, Save, LoopDone
<1>4. ASSUME AppExits \/ Kill \/ Restart PROVE UNCHANGED tableVars
  BY <1>4 DEF AppExits, Kill, Restart
<1> QED  BY <1>1, <1>2, <1>3, <1>4 DEF Next, HandlerStep, MonitorStep, Procs

(* A deleted deployment stays deleted and its row frozen: no stale save    *)
(* revives it or writes to it (main.go 433-509, 533, 551).                 *)
THEOREM DeletedStaysDeleted == Spec => DeletedIsFinal
<1> DEFINE Final == \A id \in 1..lastId :
                       id \notin live => id \notin live' /\ deployments'[id] = deployments[id]
<1>1. ASSUME Inv, Next PROVE Final
  <2> SUFFICES ASSUME NEW id \in 1..lastId, id \notin live
               PROVE  id \notin live' /\ deployments'[id] = deployments[id]
    OBVIOUS
  <2>1. lastId \in Nat /\ id # lastId + 1 /\ deployments \in [Ids -> Deployment]
    BY <1>1, BoundsAssumption DEF Inv, TypeOK, TableTypeOK
  <2>2. CASE UNCHANGED tableVars  BY <2>2 DEF tableVars
  <2>3. ASSUME NEW k, NEW row, UpdateRow(k, row)
        PROVE  id \notin live' /\ deployments'[id] = deployments[id]
    BY <2>1, <2>3 DEF UpdateRow
  <2>4. ASSUME NEW row, Create(row)
        PROVE  id \notin live' /\ deployments'[id] = deployments[id]
    <3>1. id \in Ids  BY <2>1, <1>1, BoundsAssumption DEF Ids, Inv, TypeOK, TableTypeOK
    <3> QED  BY <2>1, <2>4, <3>1 DEF Create
  <2>5. ASSUME NEW k, Delete(k)
        PROVE  id \notin live' /\ deployments'[id] = deployments[id]
    <3>1. deployments' = deployments /\ live' \subseteq live
      <4>1. CASE k = 0  BY <2>5, <4>1 DEF Delete
      <4>2. CASE k # 0  BY <2>5, <4>2 DEF Delete
      <4> QED  BY <4>1, <4>2
    <3> QED  BY <3>1
  <2> QED  BY <1>1, <2>2, <2>3, <2>4, <2>5, NextOnTable
<1>2. ASSUME Inv, [Next]_vars PROVE [Final]_vars
  BY <1>1, <1>2
<1> HIDE DEF Final
<1>3. Spec => [][Final]_vars
  BY <1>2, InitTracked, NextTracked, PTL DEF Spec
<1> QED  BY <1>3 DEF DeletedIsFinal, Final

=============================================================================
