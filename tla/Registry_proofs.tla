-------------------------- MODULE Registry_proofs --------------------------
(***************************************************************************)
(* The daemon implements the registry: names, containers and routes are    *)
(* each reserved, built and published for the deployment they belong to.   *)
(*                                                                         *)
(* The first part classifies what a step of one process does to the table, *)
(* to Docker and to the proxy; the second shows that such a step preserves *)
(* RInv and is a step of the registry; the third goes through the actions. *)
(***************************************************************************)
EXTENDS Ownership_proofs

(* What a process may do to the table, to the containers and to the proxy. *)
TableMove ==
  \/ UNCHANGED tableVars
  \/ \E p \in Procs : pc[p] # "reserveDomain" /\ UpdateRow(depID[p], dep[p])
  \/ \E row \in Deployment :
        /\ Create(row)
        /\ row.url = None /\ row.containerID = 0 /\ row.mongoContainerID = 0
  \/ \E id \in 0..MaxId : Delete(id)

OwnersKept ==
  /\ lastCtr' = lastCtr
  /\ \A c \in ContainerIds :
        /\ containers'[c].owner = containers[c].owner
        /\ containers'[c].kind = containers[c].kind
        /\ containers'[c].port = containers[c].port

Builds(h) ==
  /\ h \in Handlers /\ Creating(h)
  /\ \/ pc[h] \in BeforeMongo /\ NewContainer("mongo", depID[h], None)
     \/ pc[h] \in BeforeApp /\ NewContainer("app", depID[h], dep[h].port)

Reserves(h) ==
  /\ h \in Handlers
  /\ pc[h] = "reserveDomain"
  /\ InsertConfig(depID[h], dep[h].url)

NamesKept ==
  \A id \in Ids : nginxConfigs'[id].domainName = nginxConfigs[id].domainName

(* A handler past its reservation writes the site of its own deployment.   *)
WritesSite(h) ==
  /\ NamesKept /\ UNCHANGED routes
  /\ h \in Handlers /\ Creating(h) /\ pc[h] # "reserveDomain"
  /\ \E port \in {None, dep[h].port} : sites' = [sites EXCEPT ![dep[h].url] = port]

Loads == NamesKept /\ sites' = sites /\ routes' = sites

KeepsProxy == NamesKept /\ UNCHANGED <<sites, routes>>

(* One step changes one of the three.                                      *)
Move(p) ==
  \/ TableMove /\ OwnersKept /\ KeepsProxy
  \/ UNCHANGED tableVars /\ Builds(p) /\ KeepsProxy
  \/ UNCHANGED tableVars /\ OwnersKept /\ (Reserves(p) \/ WritesSite(p) \/ Loads)

-----------------------------------------------------------------------------
(* What such a step leaves as it was.                                      *)

(* The name of a deployment is never changed once it is reserved, and only *)
(* its own creation reserves it.                                           *)
LEMMA NamesGrow ==
  ASSUME RInv, NEW p \in Procs, Move(p), NEW id \in Ids
  PROVE  \/ nginxConfigs'[id].domainName = nginxConfigs[id].domainName
         \/ /\ Reserves(p) /\ id = depID[p]
            /\ nginxConfigs[id].domainName = None
            /\ nginxConfigs'[id].domainName = dep[p].url
<1>1. CASE NamesKept  BY <1>1 DEF NamesKept
<1>2. CASE Reserves(p)
  <2>1. nginxConfigs \in [Ids -> NginxConfig]
    BY DEF RInv, Inv, TypeOK, ProxyTypeOK
  <2>2. nginxConfigs'[id] =
          IF id = depID[p] THEN [row |-> "live", domainName |-> dep[p].url, deploymentID |-> 0]
          ELSE nginxConfigs[id]
    BY <1>2, <2>1 DEF Reserves, InsertConfig
  <2>3. nginxConfigs[depID[p]].domainName = None
    BY <1>2 DEF Reserves, RInv, Reserved, CreationReserved
  <2> QED  BY <1>2, <2>2, <2>3
<1> QED  BY <1>1, <1>2 DEF Move, KeepsProxy, WritesSite, Loads

(* A container is added only by the creation it is for.                    *)
LEMMA BuiltGrows ==
  ASSUME RInv, NEW p \in Procs, Move(p)
  PROVE  \/ OwnersKept
         \/ /\ Builds(p)
            /\ lastCtr + 1 \in ContainerIds /\ lastCtr' = lastCtr + 1
            /\ depID[p] \in 1..lastId
            /\ \A c \in ContainerIds \ {lastCtr + 1} : containers'[c] = containers[c]
            /\ containers'[lastCtr + 1].owner = depID[p]
            /\ ~HasBuilt(depID[p], containers'[lastCtr + 1].kind)
            /\ \/ /\ pc[p] \in BeforeMongo
                  /\ containers'[lastCtr + 1] = [state |-> "created", kind |-> "mongo",
                                                 owner |-> depID[p], port |-> None]
               \/ /\ pc[p] \in BeforeApp
                  /\ containers'[lastCtr + 1] = [state |-> "created", kind |-> "app",
                                                 owner |-> depID[p], port |-> dep[p].port]
<1> SUFFICES ASSUME Builds(p)
             PROVE  /\ lastCtr + 1 \in ContainerIds /\ lastCtr' = lastCtr + 1
                    /\ depID[p] \in 1..lastId
                    /\ \A c \in ContainerIds \ {lastCtr + 1} : containers'[c] = containers[c]
                    /\ containers'[lastCtr + 1].owner = depID[p]
                    /\ ~HasBuilt(depID[p], containers'[lastCtr + 1].kind)
                    /\ \/ /\ pc[p] \in BeforeMongo
                          /\ containers'[lastCtr + 1] = [state |-> "created", kind |-> "mongo",
                                                         owner |-> depID[p], port |-> None]
                       \/ /\ pc[p] \in BeforeApp
                          /\ containers'[lastCtr + 1] = [state |-> "created", kind |-> "app",
                                                         owner |-> depID[p], port |-> dep[p].port]
  BY DEF Move
<1>1. /\ containers \in [ContainerIds -> Container] /\ lastCtr \in 0..MaxCtr
      /\ depID[p] \in 0..MaxId
  BY DEF RInv, Inv, TypeOK, DockerTypeOK, ProcTypeOK
<1>2. lastCtr + 1 \in ContainerIds /\ lastCtr' = lastCtr + 1
  BY <1>1, BoundsAssumption DEF Builds, NewContainer, ContainerIds
<1>3. depID[p] # 0 /\ depID[p] <= lastId
  BY DEF Builds, Creating, RInv, Inv, CreationTracked, StructTracked
<1>4. lastId \in 0..MaxId  BY DEF RInv, Inv, TypeOK, TableTypeOK
<1>5. depID[p] \in 1..lastId  BY <1>1, <1>3, <1>4, BoundsAssumption
<1>6. CreationReserved(p)  BY DEF Builds, RInv, Reserved
<1>7. CASE pc[p] \in BeforeMongo /\ NewContainer("mongo", depID[p], None)
  BY <1>1, <1>2, <1>5, <1>6, <1>7 DEF NewContainer, CreationReserved
<1>8. CASE pc[p] \in BeforeApp /\ NewContainer("app", depID[p], dep[p].port)
  BY <1>1, <1>2, <1>5, <1>6, <1>8 DEF NewContainer, CreationReserved
<1> QED  BY <1>7, <1>8 DEF Builds

(* Ids are handed out one at a time, and ports stay what they are.         *)
LEMMA IdsGrow ==
  ASSUME RInv, NEW p \in Procs, Move(p)
  PROVE  /\ \/ lastId' = lastId
            \/ lastId' = lastId + 1 /\ OwnersKept /\ KeepsProxy
         /\ \A id \in 1..lastId : deployments'[id].port = deployments[id].port
<1>0. /\ deployments \in [Ids -> Deployment] /\ lastId \in 0..MaxId /\ lastId \in Nat
      /\ \A id \in 1..lastId : id \in Ids /\ id # lastId + 1
  BY BoundsAssumption DEF RInv, Inv, TypeOK, TableTypeOK, Ids
<1>1. CASE UNCHANGED tableVars  BY <1>1 DEF tableVars
<1>2. CASE TableMove /\ OwnersKept /\ KeepsProxy
  <2>1. ASSUME NEW q \in Procs, UpdateRow(depID[q], dep[q])
        PROVE  \A id \in 1..lastId : deployments'[id].port = deployments[id].port
    <3>1. StructTracked(q)  BY DEF RInv, Inv
    <3>2. \A id \in 1..lastId : \/ deployments'[id] = deployments[id]
                                \/ id = depID[q] /\ id # 0 /\ deployments'[id] = dep[q]
      BY <1>0, <2>1 DEF UpdateRow
    <3> QED  BY <3>1, <3>2 DEF StructTracked
  <2>2. ASSUME NEW row, Create(row)
        PROVE  \A id \in 1..lastId : deployments'[id].port = deployments[id].port
    BY <1>0, <2>2 DEF Create
  <2>3. ASSUME NEW id, Delete(id) PROVE lastId' = lastId /\ deployments' = deployments
    BY <2>3 DEF Delete
  <2> QED  BY <1>1, <1>2, <2>1, <2>2, <2>3 DEF TableMove, UpdateRow, Create
<1> QED  BY <1>1, <1>2 DEF Move

(* Rows come from structs with the name reserved for them, or are new.     *)
LEMMA RowsMove ==
  ASSUME RInv, NEW p \in Procs, Move(p), NEW id \in Ids
  PROVE  \/ deployments'[id] = deployments[id]
         \/ /\ OwnersKept /\ KeepsProxy
            /\ id \in live
            /\ \E q \in Procs : /\ pc[q] # "reserveDomain" /\ id = depID[q]
                               /\ deployments'[id] = dep[q]
         \/ /\ OwnersKept /\ KeepsProxy
            /\ lastId' = lastId + 1 /\ id = lastId + 1
            /\ deployments'[id].url = None
<1>0. deployments \in [Ids -> Deployment]  BY DEF RInv, Inv, TypeOK, TableTypeOK
<1>1. CASE UNCHANGED tableVars  BY <1>1 DEF tableVars
<1>2. CASE TableMove /\ OwnersKept /\ KeepsProxy
  <2>1. ASSUME NEW q \in Procs, pc[q] # "reserveDomain", UpdateRow(depID[q], dep[q])
        PROVE  \/ deployments'[id] = deployments[id]
               \/ id \in live /\ id = depID[q] /\ deployments'[id] = dep[q]
    BY <1>0, <2>1 DEF UpdateRow
  <2>2. ASSUME NEW row \in Deployment, Create(row), row.url = None
        PROVE  \/ deployments'[id] = deployments[id]
               \/ /\ lastId' = lastId + 1 /\ id = lastId + 1
                  /\ deployments'[id].url = None
    BY <1>0, <2>2 DEF Create
  <2>3. ASSUME NEW k, Delete(k) PROVE deployments' = deployments
    BY <2>3 DEF Delete
  <2> QED  BY <1>1, <1>2, <2>1, <2>2, <2>3 DEF TableMove
<1> QED  BY <1>1, <1>2 DEF Move

(* A name that is reserved stays so.                                       *)
LEMMA NameKept ==
  ASSUME RInv, NEW p \in Procs, Move(p), NEW id \in Ids,
         nginxConfigs[id].domainName # None
  PROVE  nginxConfigs'[id].domainName = nginxConfigs[id].domainName
  BY NamesGrow

LEMMA URLsMove ==
  ASSUME RInv, NEW p \in Procs, Move(p)
  PROVE  URLIsReserved'
<1> SUFFICES ASSUME NEW id \in Ids, deployments'[id].url # None
             PROVE  nginxConfigs'[id].domainName = deployments'[id].url
  BY DEF URLIsReserved
<1>1. CASE deployments'[id] = deployments[id]
  <2>1. nginxConfigs[id].domainName = deployments[id].url
    BY <1>1 DEF RInv, Reserved, URLIsReserved
  <2> QED  BY <1>1, <2>1, NameKept
<1>2. ASSUME KeepsProxy, NEW q \in Procs, pc[q] # "reserveDomain", id = depID[q],
             deployments'[id] = dep[q]
      PROVE  nginxConfigs'[id].domainName = deployments'[id].url
  <2>1. id # 0 /\ StructReserved(q)  BY DEF Ids, RInv, Reserved
  <2>2. nginxConfigs[id].domainName = dep[q].url  BY <1>2, <2>1 DEF StructReserved
  <2> QED  BY <1>2, <2>2 DEF KeepsProxy, NamesKept
<1> QED  BY <1>1, <1>2, RowsMove

(* Nothing comes to be built for a deployment but by its creation.         *)
LEMMA NotBuiltKept ==
  ASSUME RInv, NEW p \in Procs, Move(p), NEW id, NEW kind, ~HasBuilt(id, kind),
         OwnersKept \/ id # depID[p] \/ containers'[lastCtr + 1].kind # kind
  PROVE  ~HasBuilt(id, kind)'
<1>0. lastCtr \in 0..MaxCtr /\ lastCtr \in Nat
      /\ \A c \in 1..lastCtr : c \in ContainerIds /\ c # lastCtr + 1
  BY BoundsAssumption DEF RInv, Inv, TypeOK, DockerTypeOK, ContainerIds
<1>1. CASE OwnersKept  BY <1>0, <1>1 DEF OwnersKept, HasBuilt
<1>2. CASE ~OwnersKept
  <2>1. /\ lastCtr' = lastCtr + 1
        /\ \A c \in ContainerIds \ {lastCtr + 1} : containers'[c] = containers[c]
        /\ containers'[lastCtr + 1].owner = depID[p]
    BY <1>2, BuiltGrows
  <2>2. ASSUME NEW c \in 1..lastCtr', containers'[c].owner = id, containers'[c].kind = kind
        PROVE  FALSE
    <3>1. CASE c = lastCtr + 1  BY <1>2, <2>1, <2>2, <3>1
    <3>2. CASE c # lastCtr + 1
      <4>1. c \in 1..lastCtr  BY <1>0, <2>1, <3>2
      <4>2. containers'[c] = containers[c]  BY <1>0, <2>1, <3>2, <4>1
      <4> QED  BY <2>2, <4>1, <4>2 DEF HasBuilt
    <3> QED  BY <3>1, <3>2
  <2> QED  BY <2>2 DEF HasBuilt
<1> QED  BY <1>1, <1>2

LEMMA ContainersMove ==
  ASSUME RInv, NEW p \in Procs, Move(p)
  PROVE  OneContainerEach'
<1>0. lastCtr \in 0..MaxCtr /\ lastCtr \in Nat
      /\ \A c \in 1..lastCtr : c \in ContainerIds /\ c # lastCtr + 1
  BY BoundsAssumption DEF RInv, Inv, TypeOK, DockerTypeOK, ContainerIds
<1>i. OneContainerEach  BY DEF RInv, Reserved
<1>1. CASE OwnersKept  BY <1>0, <1>1, <1>i DEF OwnersKept, OneContainerEach
<1>2. CASE ~OwnersKept
  <2>1. /\ lastCtr' = lastCtr + 1
        /\ \A c \in ContainerIds \ {lastCtr + 1} : containers'[c] = containers[c]
        /\ ~HasBuilt(containers'[lastCtr + 1].owner, containers'[lastCtr + 1].kind)
    BY <1>2, BuiltGrows
  <2>2. \A c \in 1..lastCtr' : c = lastCtr + 1 \/ c \in 1..lastCtr
    BY <1>0, <2>1
  <2>3. \A c \in 1..lastCtr : containers'[c] = containers[c]
    BY <1>0, <2>1
  <2>4. \A c \in 1..lastCtr : \/ containers'[c].owner # containers'[lastCtr + 1].owner
                             \/ containers'[c].kind # containers'[lastCtr + 1].kind
    BY <2>1, <2>3 DEF HasBuilt
  <2> QED  BY <1>i, <2>2, <2>3, <2>4 DEF OneContainerEach
<1> QED  BY <1>1, <1>2

(* What a site leads to goes on being what it was reserved for.            *)
LEMMA LeadsKept ==
  ASSUME RInv, NEW p \in Procs, Move(p), NEW d \in Domains, NEW port,
         LeadsToReserver(d, port)
  PROVE  LeadsToReserver(d, port)'
<1>1. PICK id \in 1..lastId : nginxConfigs[id].domainName = d /\ deployments[id].port = port
  BY DEF LeadsToReserver
<1>2. lastId \in Nat /\ lastId' \in Nat /\ lastId <= lastId' /\ id \in Ids
  BY IdsGrow, BoundsAssumption DEF RInv, Inv, TypeOK, TableTypeOK, Ids
<1>3. nginxConfigs'[id].domainName = d
  BY <1>1, <1>2, NameKept, NoneAssumption
<1>4. deployments'[id].port = port  BY <1>1, IdsGrow
<1>5. id \in 1..lastId'  BY <1>2
<1> QED  BY <1>3, <1>4, <1>5 DEF LeadsToReserver

LEMMA SitesMove ==
  ASSUME RInv, NEW p \in Procs, Move(p)
  PROVE  SitesLeadToReserver'
<1> SUFFICES ASSUME NEW d \in Domains
             PROVE  /\ sites'[d] # None => LeadsToReserver(d, sites[d])'
                    /\ routes'[d] # None => LeadsToReserver(d, routes[d])'
  BY DEF SitesLeadToReserver, LeadsToReserver
<1>i. /\ sites[d] # None => LeadsToReserver(d, sites[d])
      /\ routes[d] # None => LeadsToReserver(d, routes[d])
  BY DEF RInv, Reserved, SitesLeadToReserver
<1>k. ASSUME NEW port, LeadsToReserver(d, port) PROVE LeadsToReserver(d, port)'
  BY <1>k, LeadsKept
<1>s. PICK s, r : s = sites'[d] /\ r = routes'[d]  OBVIOUS
<1>l. ASSUME NEW port, port = sites[d] \/ port = routes[d], port # None
      PROVE  LeadsToReserver(d, port)'
  BY <1>i, <1>k, <1>l
<1>w. CASE WritesSite(p)
  <2>1. PICK port \in {None, dep[p].port} : sites' = [sites EXCEPT ![dep[p].url] = port]
    BY <1>w DEF WritesSite
  <2>2. routes' = routes /\ sites \in [Domains -> Ports \cup {None}]
    BY <1>w DEF WritesSite, RInv, Inv, TypeOK, ProxyTypeOK
  <2>3. CASE d = dep[p].url /\ port # None
    <3>1. depID[p] # 0 /\ depID[p] \in 0..MaxId /\ depID[p] <= lastId
      BY <1>w DEF WritesSite, Creating, RInv, Inv, TypeOK, ProcTypeOK, CreationTracked,
                  StructTracked
    <3>2. depID[p] \in 1..lastId
      BY <3>1, BoundsAssumption DEF RInv, Inv, TypeOK, TableTypeOK
    <3>3. deployments[depID[p]].port = port
      BY <2>1, <2>3, <3>1 DEF RInv, Inv, StructTracked
    <3>4. nginxConfigs[depID[p]].domainName = d
      BY <1>w, <2>3, <3>1, NoneAssumption DEF WritesSite, RInv, Reserved, StructReserved
    <3>5. LeadsToReserver(d, port)  BY <3>2, <3>3, <3>4 DEF LeadsToReserver
    <3>6. LeadsToReserver(d, s)'
      BY <1>s, <2>1, <2>2, <2>3, <3>5, <1>k
    <3>7. LeadsToReserver(d, r)' \/ r = None  BY <1>s, <2>2, <1>l
    <3> QED  BY <1>s, <3>6, <3>7 DEF LeadsToReserver
  <2>4. CASE ~(d = dep[p].url /\ port # None)
    <3>1. s \in {None, sites[d]} /\ r = routes[d]  BY <1>s, <2>1, <2>2, <2>4
    <3>2. (s # None => LeadsToReserver(d, s)') /\ (r # None => LeadsToReserver(d, r)')
      BY <3>1, <1>l
    <3> QED  BY <1>s, <3>2 DEF LeadsToReserver
  <2> QED  BY <2>3, <2>4
<1>o. CASE ~WritesSite(p)
  <2>1. s = sites[d] /\ r \in {routes[d], sites[d]}
    BY <1>s, <1>o DEF Move, KeepsProxy, Reserves, InsertConfig, Loads
  <2>2. (s # None => LeadsToReserver(d, s)') /\ (r # None => LeadsToReserver(d, r)')
    BY <2>1, <1>l
  <2> QED  BY <1>s, <2>2 DEF LeadsToReserver
<1> QED  BY <1>w, <1>o

LEMMA AheadMove ==
  ASSUME RInv, TypeOK', NEW p \in Procs, Move(p)
  PROVE  NothingAhead'
<1>0. /\ lastId \in Nat /\ lastId' \in Nat /\ lastId <= lastId'
      /\ lastCtr \in Nat /\ lastCtr' \in Nat
  BY IdsGrow, BoundsAssumption DEF RInv, Inv, TypeOK, TableTypeOK, DockerTypeOK
<1>i. NothingAhead  BY DEF RInv, Reserved
<1>1. ASSUME NEW id \in Ids, id > lastId' PROVE nginxConfigs'[id].domainName = None
  <2>1. id > lastId  BY <1>0, <1>1 DEF Ids
  <2>2. nginxConfigs[id].domainName = None  BY <1>i, <2>1 DEF NothingAhead
  <2>3. ~(Reserves(p) /\ id = depID[p])
    <3>1. depID[p] <= lastId /\ depID[p] \in Int
      BY BoundsAssumption DEF RInv, Inv, StructTracked, TypeOK, ProcTypeOK
    <3> QED  BY <1>0, <2>1, <3>1 DEF Ids
  <2> QED  BY <2>2, <2>3, NamesGrow
<1>2. ASSUME NEW c \in ContainerIds
      PROVE  IF c <= lastCtr' THEN containers'[c].owner \in 1..lastId'
                              ELSE containers'[c].owner = 0
  <2>1. c \in Nat  BY DEF ContainerIds
  <2>2. CASE OwnersKept
    BY <1>0, <1>i, <2>1, <2>2 DEF OwnersKept, NothingAhead
  <2>3. CASE ~OwnersKept
    <3>1. /\ lastCtr' = lastCtr + 1 /\ depID[p] \in 1..lastId
          /\ c # lastCtr + 1 => containers'[c] = containers[c]
          /\ containers'[lastCtr + 1].owner = depID[p]
      BY <2>3, BuiltGrows
    <3>2. CASE c = lastCtr + 1  BY <1>0, <3>1, <3>2
    <3>3. CASE c # lastCtr + 1
      <4>1. c <= lastCtr' <=> c <= lastCtr  BY <1>0, <2>1, <3>1, <3>3
      <4>2. containers'[c] = containers[c]  BY <3>1, <3>3
      <4>3. IF c <= lastCtr THEN containers[c].owner \in 1..lastId
                            ELSE containers[c].owner = 0
        BY <1>i DEF NothingAhead
      <4> QED  BY <1>0, <4>1, <4>2, <4>3
    <3> QED  BY <3>2, <3>3
  <2> QED  BY <2>2, <2>3
<1> QED  BY <1>1, <1>2 DEF NothingAhead

(* A process that is not concerned keeps what it knows.                    *)
LEMMA StructReservedKept ==
  ASSUME RInv, NEW p \in Procs, Move(p), NEW q \in Procs,
         pc'[q] = pc[q], dep'[q] = dep[q], depID'[q] = depID[q]
  PROVE  StructReserved(q)'
<1>1. StructReserved(q) /\ depID[q] \in 0..MaxId
  BY DEF RInv, Reserved, Inv, TypeOK, ProcTypeOK
<1>2. CASE depID[q] = 0  BY <1>1, <1>2 DEF StructReserved
<1>3. CASE depID[q] # 0
  <2>1. depID[q] \in Ids  BY <1>1, <1>3, BoundsAssumption DEF Ids
  <2>2. PICK id \in Ids : id = depID[q] /\ id = depID'[q]  BY <2>1
  <2>3. nginxConfigs[id].domainName # None =>
          nginxConfigs'[id].domainName = nginxConfigs[id].domainName
    BY NameKept
  <2> QED  BY <1>1, <1>3, <2>2, <2>3 DEF StructReserved
<1> QED  BY <1>2, <1>3

(* The row of a creation, and what goes on outside of it.                  *)
LEMMA CreatingRow ==
  ASSUME RInv, NEW h \in Handlers, Creating(h)
  PROVE  depID[h] \in Ids /\ depID[h] \in 1..lastId
<1>1. depID[h] \in 0..MaxId /\ depID[h] # 0 /\ depID[h] <= lastId
  BY DEF Creating, RInv, Inv, TypeOK, ProcTypeOK, CreationTracked, StructTracked, Procs
<1>2. lastId \in 0..MaxId  BY DEF RInv, Inv, TypeOK, TableTypeOK
<1> QED  BY <1>1, <1>2, BoundsAssumption DEF Ids

LEMMA CreationReservedKept ==
  ASSUME RInv, NEW p \in Procs, Move(p), NEW h \in Handlers \ {p},
         pc'[h] = pc[h], dep'[h] = dep[h], depID'[h] = depID[h]
  PROVE  CreationReserved(h)'
<1>1. CASE ~Creating(h)
  BY <1>1 DEF Creating, CreationReserved, BeforeApp, BeforeMongo, CreateLabels, NoRowYet
<1>2. CASE Creating(h)
  <2>1. PICK id \in Ids : id = depID[h] /\ id = depID'[h]  BY <1>2, CreatingRow
  <2>2. ~OwnersKept \/ Reserves(p) => id # depID[p]
    <3>1. ~OwnersKept \/ Reserves(p) => p \in Handlers /\ Creating(p)
      BY BuiltGrows DEF Builds, Reserves, Creating, CreateLabels, NoRowYet
    <3> QED  BY <1>2, <2>1, <3>1 DEF RInv, Reserved, CreationsDiffer
  <2>3. CreationReserved(h)  BY DEF RInv, Reserved
  <2>4. ASSUME NEW kind, ~HasBuilt(id, kind) PROVE ~HasBuilt(id, kind)'
    BY <2>2, <2>4, NotBuiltKept
  <2>5. nginxConfigs'[id].domainName = nginxConfigs[id].domainName
    BY <2>2, NamesGrow
  <2>6. /\ pc[h] \in BeforeMongo => ~HasBuilt(id, "mongo")'
        /\ pc[h] \in BeforeApp => ~HasBuilt(id, "app")'
    BY <2>1, <2>3, <2>4 DEF CreationReserved
  <2>7. HasBuilt(depID[h], "mongo")' <=> HasBuilt(id, "mongo")'
    BY <2>1 DEF HasBuilt
  <2>8. HasBuilt(depID[h], "app")' <=> HasBuilt(id, "app")'
    BY <2>1 DEF HasBuilt
  <2> QED  BY <2>1, <2>3, <2>5, <2>6, <2>7, <2>8 DEF CreationReserved
<1> QED  BY <1>1, <1>2

(* A creation that goes on has no less reserved or built than before.      *)
LEMMA CreationGoesOn ==
  ASSUME RInv, NEW p \in Handlers, Move(p), Creating(p), depID'[p] = depID[p],
         pc'[p] \in {"pickDomain", "reserveDomain"} =>
           pc[p] \in {"pickDomain", "reserveDomain"} /\ ~Reserves(p),
         pc'[p] = "reserveDomain" => dep'[p].url # None,
         pc'[p] \in BeforeMongo => pc[p] \in BeforeMongo /\ OwnersKept,
         pc'[p] \in BeforeApp =>
           /\ pc[p] \in BeforeApp
           /\ OwnersKept \/ containers'[lastCtr + 1].kind = "mongo"
  PROVE  CreationReserved(p)'
<1> p \in Procs  BY DEF Procs
<1>1. PICK id \in Ids : id = depID[p] /\ id = depID'[p]  BY CreatingRow
<1>2. CreationReserved(p)  BY DEF RInv, Reserved
<1>3. pc'[p] \in {"pickDomain", "reserveDomain"} => nginxConfigs'[id].domainName = None
  BY <1>1, <1>2, NamesGrow DEF CreationReserved
<1>4. pc'[p] \in BeforeMongo => ~HasBuilt(id, "mongo")'
  BY <1>1, <1>2, NotBuiltKept DEF CreationReserved
<1>5. pc'[p] \in BeforeApp => ~HasBuilt(id, "app")'
  BY <1>1, <1>2, NotBuiltKept DEF CreationReserved
<1>6. HasBuilt(depID[p], "mongo")' <=> HasBuilt(id, "mongo")'
  BY <1>1 DEF HasBuilt
<1>7. HasBuilt(depID[p], "app")' <=> HasBuilt(id, "app")'
  BY <1>1 DEF HasBuilt
<1> QED  BY <1>1, <1>3, <1>4, <1>5, <1>6, <1>7 DEF CreationReserved

(* Only the process that moves need be looked at.                          *)
LEMMA MoveReserved ==
  ASSUME RInv, Inv', NEW p \in Procs, Move(p),
         \A q \in Procs \ {p} :
            pc'[q] = pc[q] /\ dep'[q] = dep[q] /\ depID'[q] = depID[q],
         StructReserved(p)',
         p \in Handlers => CreationReserved(p)',
         p \in Handlers /\ Creating(p)' =>
           \/ Creating(p) /\ depID'[p] = depID[p]
           \/ depID'[p] = lastId + 1
  PROVE  RInv'
<1>1. URLIsReserved' /\ OneContainerEach' /\ SitesLeadToReserver'
  BY URLsMove, ContainersMove, SitesMove
<1>2. NothingAhead'  BY AheadMove DEF Inv
<1>3. ASSUME NEW q \in Procs PROVE StructReserved(q)'  BY StructReservedKept
<1>4. ASSUME NEW h \in Handlers PROVE CreationReserved(h)'
  BY CreationReservedKept DEF Procs
<1>5. CreationsDiffer'
  <2>0. ASSUME NEW h \in Handlers, Creating(h)'
        PROVE  \/ Creating(h) /\ depID'[h] = depID[h]
               \/ h = p /\ depID'[h] = lastId + 1
    BY <2>0 DEF Creating, Procs
  <2>1. SUFFICES ASSUME NEW g \in Handlers, NEW h \in Handlers, Creating(g)', Creating(h)',
                        depID'[g] = depID'[h]
                 PROVE  g = h
    BY DEF CreationsDiffer
  <2>2. ASSUME NEW k \in Handlers, Creating(k) PROVE depID[k] # lastId + 1
    <3>1. lastId \in Nat  BY BoundsAssumption DEF RInv, Inv, TypeOK, TableTypeOK
    <3> QED  BY <2>2, <3>1, CreatingRow
  <2> QED  BY <2>0, <2>1, <2>2 DEF RInv, Reserved, CreationsDiffer
<1> QED  BY <1>1, <1>2, <1>3, <1>4, <1>5 DEF RInv, Reserved

-----------------------------------------------------------------------------
(* Such a step is a step of the registry.                                  *)

LEMMA MapTypes ==
  ASSUME RInv
  PROVE  /\ lastId \in 0..MaxId /\ lastId \in Nat /\ live \subseteq Ids
         /\ \A id \in live : id <= lastId
         /\ deployments \in [Ids -> Deployment]
         /\ nginxConfigs \in [Ids -> NginxConfig]
         /\ containers \in [ContainerIds -> Container]
         /\ lastCtr \in 0..MaxCtr
<1>1. live \subseteq 1..lastId  BY DEF RInv, Inv
<1>2. lastId \in 0..MaxId /\ lastId \in Nat
  BY BoundsAssumption DEF RInv, Inv, TypeOK, TableTypeOK
<1> QED
  BY <1>1, <1>2 DEF RInv, Inv, TypeOK, TableTypeOK, ProxyTypeOK, DockerTypeOK

LEMMA SameBuilt == ASSUME OwnersKept PROVE rBuilt' = rBuilt
  BY DEF OwnersKept, rBuilt

LEMMA SameNames == ASSUME NamesKept PROVE rName' = rName
  BY DEF NamesKept, rName

LEMMA SameRows ==
  ASSUME UNCHANGED tableVars
  PROVE  UNCHANGED <<rPhase, rPort, rURL, rBoxes>>
  BY DEF tableVars, rPhase, rPort, rURL, rBoxes

(* An insert registers.                                                    *)
LEMMA CreateRefines ==
  ASSUME RInv, NEW row \in Deployment, Create(row), row.url = None,
         row.containerID = 0, row.mongoContainerID = 0, OwnersKept, KeepsProxy
  PROVE  R!Next
<1>0. lastId + 1 \in Ids
  BY MapTypes, BoundsAssumption DEF Create, Ids
<1>1. ASSUME NEW id \in Ids
      PROVE  deployments'[id] = IF id = lastId + 1 THEN row ELSE deployments[id]
  BY MapTypes DEF Create
<1>2. rPhase[lastId + 1] = "absent" /\ rPhase' = [rPhase EXCEPT ![lastId + 1] = "live"]
  <2>1. ASSUME NEW id \in Ids
        PROVE  rPhase'[id] = IF id = lastId + 1 THEN "live" ELSE rPhase[id]
    BY MapTypes DEF rPhase, Create, Ids
  <2>2. lastId + 1 > lastId  BY MapTypes
  <2>3. rPhase[lastId + 1] = "absent"  BY <1>0, <2>2 DEF rPhase
  <2>4. rPhase' = [rPhase EXCEPT ![lastId + 1] = "live"]  BY <2>1 DEF rPhase
  <2> QED  BY <2>3, <2>4
<1>3. rPort' = [rPort EXCEPT ![lastId + 1] = row.port]  BY <1>0, <1>1 DEF rPort
<1>4. rURL' = [rURL EXCEPT ![lastId + 1] = None]  BY <1>0, <1>1 DEF rURL
<1>5. rBoxes' = [rBoxes EXCEPT ![lastId + 1] = [app |-> 0, mongo |-> 0]]
  BY <1>0, <1>1 DEF rBoxes
<1>6. UNCHANGED <<rName, rBuilt, routes>>  BY SameBuilt, SameNames DEF KeepsProxy
<1>7. row.port \in Ports \cup {None}  BY DEF Deployment
<1>8. R!Register(lastId + 1, row.port)
  BY <1>2, <1>3, <1>4, <1>5, <1>6 DEF R!Register
<1> QED  BY <1>0, <1>7, <1>8 DEF R!Next

(* A save shows, or does nothing when its row has gone.                    *)
LEMMA UpdateRefines ==
  ASSUME RInv, NEW q \in Procs, pc[q] # "reserveDomain", UpdateRow(depID[q], dep[q]),
         OwnersKept, KeepsProxy
  PROVE  R!Next \/ UNCHANGED R!vars
<1>1. UNCHANGED <<rName, rBuilt, routes>>  BY SameBuilt, SameNames DEF KeepsProxy
<1>2. rPhase' = rPhase  BY DEF UpdateRow, rPhase
<1>3. CASE depID[q] \notin live
  <2>1. UNCHANGED tableVars  BY <1>3 DEF UpdateRow, tableVars
  <2> QED  BY <1>1, <2>1, SameRows DEF R!vars
<1>4. CASE depID[q] \in live
  <2>1. PICK id \in Ids : id = depID[q]  BY <1>4, MapTypes
  <2>2. id # 0 /\ id <= lastId /\ id \in live  BY <1>4, <2>1, MapTypes DEF Ids
  <2>3. PICK row \in Deployment : row = dep[q]  BY DEF RInv, Inv, TypeOK, ProcTypeOK
  <2>4. deployments' = [deployments EXCEPT ![id] = row]
    BY <2>1, <2>2, <2>3 DEF UpdateRow
  <2>5. row.port = deployments[id].port /\ Tracked(id, row)
    BY <2>1, <2>2, <2>3 DEF RInv, Inv, StructTracked
  <2>6. ASSUME NEW k \in Ids
        PROVE  deployments'[k] = IF k = id THEN row ELSE deployments[k]
    BY <2>4, MapTypes
  <2>7. rPort' = rPort  BY <2>5, <2>6 DEF rPort
  <2>8. rURL' = [rURL EXCEPT ![id] = row.url] /\ rURL'[id] = row.url
    BY <2>6 DEF rURL
  <2>9. /\ rBoxes' = [rBoxes EXCEPT ![id] = [app |-> row.containerID,
                                            mongo |-> row.mongoContainerID]]
        /\ rBoxes'[id] = [app |-> row.containerID, mongo |-> row.mongoContainerID]
    BY <2>6 DEF rBoxes
  <2>10. rPhase[id] = "live"
    <3>1. ~(id > lastId)  BY <2>2, MapTypes DEF Ids
    <3> QED  BY <2>2, <3>1 DEF rPhase
  <2>11. row.url # None => row.url = rName[id]
    BY <2>1, <2>2, <2>3 DEF RInv, Reserved, StructReserved, rName
  <2>12. /\ row.containerID # 0 =>
              /\ row.containerID \in ContainerIds
              /\ rBuilt[row.containerID].owner = id
              /\ rBuilt[row.containerID].kind = "app"
         /\ row.mongoContainerID # 0 =>
              /\ row.mongoContainerID \in ContainerIds
              /\ rBuilt[row.mongoContainerID].owner = id
              /\ rBuilt[row.mongoContainerID].kind = "mongo"
    <3>1. \A c \in 0..MaxCtr : c # 0 => c \in ContainerIds
      BY BoundsAssumption DEF ContainerIds
    <3>2. row.containerID \in 0..MaxCtr /\ row.mongoContainerID \in 0..MaxCtr
      BY DEF Deployment
    <3> QED  BY <2>5, <3>1, <3>2 DEF Tracked, Owns, rBuilt
  <2>13. R!MayShow(id, rURL'[id], rBoxes'[id])
    BY <2>8, <2>9, <2>11, <2>12 DEF R!MayShow, R!Kinds
  <2>14. R!Show(id)
    BY <1>1, <1>2, <2>7, <2>8, <2>9, <2>10, <2>13 DEF R!Show
  <2> QED  BY <2>14 DEF R!Next
<1> QED  BY <1>3, <1>4

(* A delete retires one, or all.                                           *)
LEMMA DeleteRefines ==
  ASSUME RInv, NEW gone \in 0..MaxId, Delete(gone), OwnersKept, KeepsProxy
  PROVE  R!Next \/ UNCHANGED R!vars
<1>1. UNCHANGED <<rName, rBuilt, routes, rPort, rURL, rBoxes>>
  BY SameBuilt, SameNames DEF KeepsProxy, Delete, rPort, rURL, rBoxes
<1>2. ASSUME NEW id \in Ids, id \in live PROVE rPhase[id] = "live"
  <2>1. ~(id > lastId)  BY <1>2, MapTypes DEF Ids
  <2> QED  BY <1>2, <2>1 DEF rPhase
<1>3. ASSUME NEW id \in Ids, rPhase[id] = "live" PROVE id \in live
  BY <1>3 DEF rPhase
<1>4. lastId' = lastId  BY DEF Delete
<1>5. CASE gone = 0
  <2>1. live' = {}  BY <1>5 DEF Delete
  <2>2. ASSUME NEW id \in Ids
        PROVE  rPhase'[id] = IF rPhase[id] = "live" THEN "gone" ELSE rPhase[id]
    BY <1>4, <2>1 DEF rPhase
  <2>3. rPhase' = [id \in Ids |-> IF id \in {k \in Ids : rPhase[k] = "live"}
                                  THEN "gone" ELSE rPhase[id]]
    BY <2>2 DEF rPhase
  <2>4. R!Retire({id \in Ids : rPhase[id] = "live"})
    BY <1>1, <2>3 DEF R!Retire
  <2> QED  BY <2>4 DEF R!Next
<1>6. CASE gone # 0 /\ gone \in live
  <2>1. live' = live \ {gone} /\ gone \in Ids  BY <1>6, MapTypes DEF Delete
  <2>2. ~(gone > lastId)  BY <1>6, <2>1, MapTypes DEF Ids
  <2>3. ASSUME NEW id \in Ids
        PROVE  rPhase'[id] = IF id \in {gone} THEN "gone" ELSE rPhase[id]
    BY <1>4, <2>1, <2>2 DEF rPhase
  <2>4. rPhase' = [id \in Ids |-> IF id \in {gone} THEN "gone" ELSE rPhase[id]]
    BY <2>3 DEF rPhase
  <2>5. rPhase[gone] = "live"  BY <1>2, <1>6, <2>1
  <2>6. R!Retire({gone})  BY <1>1, <2>4, <2>5 DEF R!Retire
  <2> QED  BY <2>1, <2>6 DEF R!Next
<1>7. CASE gone # 0 /\ gone \notin live
  <2>1. live' = live  BY <1>7 DEF Delete
  <2>2. rPhase' = rPhase  BY <1>4, <2>1 DEF rPhase
  <2> QED  BY <1>1, <2>2 DEF R!vars
<1> QED  BY <1>5, <1>6, <1>7

(* Docker builds a container nobody else has.                              *)
LEMMA BuildRefines ==
  ASSUME RInv, NEW p \in Procs, UNCHANGED tableVars, Builds(p), KeepsProxy
  PROVE  R!Next
<1>1. Move(p) /\ p \in Handlers /\ Creating(p)  BY DEF Move, Builds
<1>2. PICK id \in Ids : id = depID[p] /\ id \in 1..lastId  BY <1>1, CreatingRow
<1>3. PICK c \in ContainerIds : c = lastCtr + 1
  BY MapTypes, BoundsAssumption DEF Builds, NewContainer, ContainerIds
<1>4. UNCHANGED <<rPhase, rPort, rURL, rBoxes, rName, routes>>
  BY SameRows, SameNames DEF KeepsProxy
<1>5. rPhase[id] # "absent"
  <2>1. ~(id > lastId)  BY <1>2, MapTypes
  <2> QED  BY <2>1 DEF rPhase
<1>6. rBuilt[c].owner = 0
  <2>1. ~(c <= lastCtr)  BY <1>3, MapTypes
  <2> QED  BY <2>1 DEF RInv, Reserved, NothingAhead, rBuilt
<1>7. ASSUME NEW kind, ~HasBuilt(id, kind) PROVE ~R!Has(id, kind)
  <2>1. ASSUME NEW k \in ContainerIds, rBuilt[k].owner = id, rBuilt[k].kind = kind
        PROVE  FALSE
    <3>1. containers[k].owner = id /\ containers[k].kind = kind  BY <2>1 DEF rBuilt
    <3>2. id # 0  BY DEF Ids
    <3>3. k <= lastCtr  BY <3>1, <3>2 DEF RInv, Reserved, NothingAhead
    <3>4. k \in 1..lastCtr  BY <3>3, MapTypes DEF ContainerIds
    <3> QED  BY <1>7, <3>1, <3>4 DEF HasBuilt
  <2> QED  BY <2>1 DEF R!Has
<1>8. CreationReserved(p)  BY <1>1 DEF RInv, Reserved
<1>9. dep[p].port = rPort[id]
  <2>1. id # 0 /\ StructTracked(p)  BY DEF Ids, RInv, Inv
  <2> QED  BY <1>2, <2>1 DEF StructTracked, rPort
<1>10. CASE pc[p] \in BeforeMongo /\ NewContainer("mongo", depID[p], None)
  <2>1. ASSUME NEW k \in ContainerIds
        PROVE  containers'[k] = IF k = c THEN [state |-> "created", kind |-> "mongo",
                                               owner |-> id, port |-> None]
                                ELSE containers[k]
    BY <1>2, <1>3, <1>10, MapTypes DEF NewContainer
  <2>2. rBuilt' = [rBuilt EXCEPT ![c] = [owner |-> id, kind |-> "mongo", port |-> None]]
    <3>1. ASSUME NEW k \in ContainerIds
          PROVE  [owner |-> containers'[k].owner, kind |-> containers'[k].kind,
                  port |-> containers'[k].port]
                 = IF k = c THEN [owner |-> id, kind |-> "mongo", port |-> None]
                            ELSE rBuilt[k]
      <4>1. CASE k = c
        <5>1. /\ containers'[k].owner = id /\ containers'[k].kind = "mongo"
              /\ containers'[k].port = None
          BY <2>1, <4>1
        <5> QED  BY <4>1, <5>1
      <4>2. CASE k # c
        <5>1. containers'[k] = containers[k]  BY <2>1, <4>2
        <5> QED  BY <4>2, <5>1 DEF rBuilt
      <4> QED  BY <4>1, <4>2
    <3> QED  BY <3>1 DEF rBuilt
  <2>3. ~R!Has(id, "mongo")  BY <1>2, <1>7, <1>8, <1>10 DEF CreationReserved
  <2>4. R!Build(id, "mongo")  BY <1>4, <1>5, <1>6, <2>2, <2>3 DEF R!Build
  <2> QED  BY <2>4 DEF R!Next, R!Kinds
<1>11. CASE pc[p] \in BeforeApp /\ NewContainer("app", depID[p], dep[p].port)
  <2>1. ASSUME NEW k \in ContainerIds
        PROVE  containers'[k] = IF k = c THEN [state |-> "created", kind |-> "app",
                                               owner |-> id, port |-> rPort[id]]
                                ELSE containers[k]
    BY <1>2, <1>3, <1>9, <1>11, MapTypes DEF NewContainer
  <2>2. rBuilt' = [rBuilt EXCEPT ![c] = [owner |-> id, kind |-> "app", port |-> rPort[id]]]
    <3>1. ASSUME NEW k \in ContainerIds
          PROVE  [owner |-> containers'[k].owner, kind |-> containers'[k].kind,
                  port |-> containers'[k].port]
                 = IF k = c THEN [owner |-> id, kind |-> "app", port |-> rPort[id]]
                            ELSE rBuilt[k]
      <4>1. CASE k = c
        <5>1. /\ containers'[k].owner = id /\ containers'[k].kind = "app"
              /\ containers'[k].port = rPort[id]
          BY <2>1, <4>1
        <5> QED  BY <4>1, <5>1
      <4>2. CASE k # c
        <5>1. containers'[k] = containers[k]  BY <2>1, <4>2
        <5> QED  BY <4>2, <5>1 DEF rBuilt
      <4> QED  BY <4>1, <4>2
    <3> QED  BY <3>1 DEF rBuilt
  <2>3. ~R!Has(id, "app")  BY <1>2, <1>7, <1>8, <1>11 DEF CreationReserved
  <2>4. R!Build(id, "app")  BY <1>4, <1>5, <1>6, <2>2, <2>3 DEF R!Build
  <2> QED  BY <2>4 DEF R!Next, R!Kinds
<1> QED  BY <1>10, <1>11 DEF Builds

(* A name is reserved once.                                                *)
LEMMA ReserveRefines ==
  ASSUME RInv, NEW p \in Procs, UNCHANGED tableVars, OwnersKept, Reserves(p)
  PROVE  R!Next
<1>1. p \in Handlers /\ Creating(p)
  BY DEF Reserves, Creating, CreateLabels, NoRowYet
<1>2. PICK id \in Ids : id = depID[p] /\ id \in 1..lastId  BY <1>1, CreatingRow
<1>3. UNCHANGED <<rPhase, rPort, rURL, rBoxes, rBuilt, routes>>
  BY SameRows, SameBuilt DEF Reserves, InsertConfig
<1>4. rPhase[id] # "absent"
  <2>1. ~(id > lastId)  BY <1>2, MapTypes
  <2> QED  BY <2>1 DEF rPhase
<1>5. CreationReserved(p)  BY <1>1 DEF RInv, Reserved
<1>6. nginxConfigs[id].domainName = None /\ dep[p].url # None
  BY <1>2, <1>5 DEF Reserves, CreationReserved
<1>7. dep[p].url \in Domains
  BY <1>6 DEF RInv, Inv, TypeOK, ProcTypeOK, Deployment
<1>8. rName[id] = None  BY <1>6 DEF rName
<1>9. rName' = [rName EXCEPT ![id] = dep[p].url]
  BY <1>2, MapTypes DEF Reserves, InsertConfig, rName
<1>10. R!Reserve(id, dep[p].url)  BY <1>3, <1>4, <1>8, <1>9 DEF R!Reserve
<1> QED  BY <1>7, <1>10 DEF R!Next

(* What nginx loads leads where the names were reserved.                   *)
LEMMA LoadRefines ==
  ASSUME RInv, UNCHANGED tableVars, OwnersKept, Loads
  PROVE  R!Next
<1>1. UNCHANGED <<rPhase, rPort, rURL, rBoxes, rBuilt, rName>>
  BY SameRows, SameBuilt, SameNames DEF Loads
<1>2. routes' = sites /\ sites \in [Domains -> Ports \cup {None}]
  BY DEF Loads, RInv, Inv, TypeOK, ProxyTypeOK
<1>3. ASSUME NEW d \in Domains, sites[d] # None PROVE R!LeadsTo(d, sites[d])
  <2>1. PICK id \in 1..lastId : /\ nginxConfigs[id].domainName = d
                                /\ deployments[id].port = sites[d]
    BY <1>3 DEF RInv, Reserved, SitesLeadToReserver, LeadsToReserver
  <2>2. id \in Ids /\ ~(id > lastId)  BY MapTypes, BoundsAssumption DEF Ids
  <2>3. rPhase[id] # "absent" /\ rName[id] = d /\ rPort[id] = sites[d]
    BY <2>1, <2>2 DEF rPhase, rName, rPort
  <2> QED  BY <2>2, <2>3 DEF R!LeadsTo
<1>4. R!Publish  BY <1>1, <1>2, <1>3 DEF R!Publish
<1> QED  BY <1>4 DEF R!Next

LEMMA MoveRefines ==
  ASSUME RInv, NEW p \in Procs, Move(p)
  PROVE  R!Next \/ UNCHANGED R!vars
<1>1. CASE TableMove /\ OwnersKept /\ KeepsProxy
  <2>1. CASE UNCHANGED tableVars
    BY <1>1, <2>1, SameRows, SameBuilt, SameNames DEF KeepsProxy, R!vars
  <2> QED  BY <1>1, <2>1, CreateRefines, UpdateRefines, DeleteRefines DEF TableMove
<1>2. CASE UNCHANGED tableVars /\ Builds(p) /\ KeepsProxy  BY <1>2, BuildRefines
<1>3. CASE UNCHANGED tableVars /\ OwnersKept /\ Reserves(p)  BY <1>3, ReserveRefines
<1>4. CASE UNCHANGED tableVars /\ OwnersKept /\ Loads  BY <1>4, LoadRefines
<1>5. CASE UNCHANGED tableVars /\ OwnersKept /\ WritesSite(p)
  BY <1>5, SameRows, SameBuilt, SameNames DEF WritesSite, R!vars
<1> QED  BY <1>1, <1>2, <1>3, <1>4, <1>5 DEF Move

-----------------------------------------------------------------------------
(* The actions are such steps.                                             *)

LEMMA KeepsParts ==
  ASSUME RInv
  PROVE  /\ UNCHANGED dockerVars => OwnersKept
         /\ UNCHANGED proxyVars => KeepsProxy
         /\ DeleteProxyConfiguration => KeepsProxy
         /\ ApplyChanges => Loads
         /\ \A c, s : SetState(c, s) => OwnersKept
         /\ \A d, pair : WriteCertificateToFile(d, pair) => KeepsProxy
         /\ \A d, pair : WritePrivateKeyToFile(d, pair) => KeepsProxy
<1>1. UNCHANGED dockerVars => OwnersKept  BY DEF dockerVars, OwnersKept
<1>2. UNCHANGED proxyVars => KeepsProxy  BY DEF proxyVars, KeepsProxy, NamesKept
<1>3. ASSUME DeleteProxyConfiguration PROVE KeepsProxy
  <2>1. ASSUME NEW id \in Ids
        PROVE  nginxConfigs'[id].domainName = nginxConfigs[id].domainName
    <3>1. nginxConfigs[id] \in NginxConfig  BY MapTypes
    <3>2. CASE nginxConfigs[id].row = "live"
      <4>1. nginxConfigs'[id] = [nginxConfigs[id] EXCEPT !.row = "deleted"]
        BY <1>3, <3>2 DEF DeleteProxyConfiguration
      <4> QED  BY <3>1, <4>1 DEF NginxConfig
    <3>3. CASE nginxConfigs[id].row # "live"
      <4>1. nginxConfigs'[id] = nginxConfigs[id]
        BY <1>3, <3>3 DEF DeleteProxyConfiguration
      <4> QED  BY <4>1
    <3> QED  BY <3>2, <3>3
  <2> QED  BY <1>3, <2>1 DEF DeleteProxyConfiguration, KeepsProxy, NamesKept
<1>4. ApplyChanges => Loads  BY DEF ApplyChanges, Loads, NamesKept
<1>5. ASSUME NEW c, NEW s, SetState(c, s) PROVE OwnersKept
  <2>1. ASSUME NEW k \in ContainerIds
        PROVE  /\ containers'[k].owner = containers[k].owner
               /\ containers'[k].kind = containers[k].kind
               /\ containers'[k].port = containers[k].port
    <3>1. containers[k] \in Container  BY MapTypes
    <3>2. containers'[k] = IF k = c THEN [containers[k] EXCEPT !.state = s]
                                    ELSE containers[k]
      BY <1>5, MapTypes DEF SetState
    <3> QED  BY <3>1, <3>2 DEF Container
  <2> QED  BY <1>5, <2>1 DEF SetState, OwnersKept
<1>6. ASSUME NEW d, NEW pair, WriteCertificateToFile(d, pair) PROVE KeepsProxy
  BY <1>6 DEF WriteCertificateToFile, KeepsProxy, NamesKept
<1>7. ASSUME NEW d, NEW pair, WritePrivateKeyToFile(d, pair) PROVE KeepsProxy
  BY <1>7 DEF WritePrivateKeyToFile, KeepsProxy, NamesKept
<1> QED  BY <1>1, <1>2, <1>3, <1>4, <1>5, <1>6, <1>7

(* Nothing but the processes changes.                                      *)
LEMMA QuietMoves ==
  ASSUME RInv, NEW p \in Procs, UNCHANGED <<tableVars, dockerVars, proxyVars>>
  PROVE  Move(p)
  BY KeepsParts DEF Move, TableMove

(* What a process without a row inserts is blank.                          *)
LEMMA InsertMoves ==
  ASSUME RInv, NEW p \in Procs, depID[p] = 0, Create(dep[p]),
         UNCHANGED <<dockerVars, proxyVars>>
  PROVE  Move(p)
<1>1. PICK row \in Deployment : row = dep[p]  BY DEF RInv, Inv, TypeOK, ProcTypeOK
<1>2. row.url = None /\ row.containerID = 0 /\ row.mongoContainerID = 0
  <2>1. StructReserved(p) /\ StructTracked(p)  BY DEF RInv, Reserved, Inv
  <2> QED  BY <1>1, <2>1 DEF StructReserved, StructTracked
<1> QED  BY <1>1, <1>2, KeepsParts DEF Move, TableMove

LEMMA SaveMoves ==
  ASSUME RInv, NEW p \in Procs, pc[p] # "reserveDomain", UpdateRow(depID[p], dep[p]),
         UNCHANGED <<dockerVars, proxyVars>>
  PROVE  Move(p)
  BY KeepsParts DEF Move, TableMove

LEMMA CreateMoves ==
  ASSUME RInv, NEW h \in Handlers, CreateRequest(h) \/ CreateStep(h)
  PROVE  Move(h)
<1> h \in Procs  BY DEF Procs
<1>1. CASE CreateRequest(h) \/ PickPort(h) \/ PickDomain(h) \/ DockerRefuses(h)
           \/ CreateProxyFails(h)
  BY <1>1, QuietMoves DEF CreateRequest, PickPort, PickDomain, DockerRefuses, CreateProxyFails
<1>2. CASE InsertDeployment(h)
  <2>1. depID[h] = 0
    BY <1>2 DEF InsertDeployment, RInv, Inv, CreationTracked, NoRowYet
  <2> QED  BY <1>2, <2>1, InsertMoves DEF InsertDeployment
<1>3. CASE ReserveDomain(h)
  BY <1>3, KeepsParts DEF ReserveDomain, Reserves, Move
<1>4. CASE SaveDeployment(h) \/ SaveRunning(h)
  BY <1>4, SaveMoves DEF SaveDeployment, AfterSave, SaveRunning
<1>5. CASE CreateMongo(h) \/ CreateContainer(h)
  BY <1>5, KeepsParts
     DEF CreateMongo, CreateContainer, Builds, Creating, CreateLabels, NoRowYet,
         BeforeMongo, BeforeApp, Move
<1>6. CASE StartMongo(h) \/ StartContainer(h)
  BY <1>6, KeepsParts DEF StartMongo, StartContainer, Move, TableMove
<1>7. CASE WriteCertificate(h) \/ WritePrivateKey(h)
  BY <1>7, KeepsParts DEF WriteCertificate, WritePrivateKey, Move, TableMove
<1>8. CASE WriteSiteFile(h) \/ SiteIsLost(h)
  <2>1. Creating(h) /\ pc[h] # "reserveDomain"
    BY <1>8 DEF WriteSiteFile, SiteIsLost, Creating, CreateLabels, NoRowYet
  <2>2. WritesSite(h)
    BY <1>8, <2>1 DEF WriteSiteFile, SiteIsLost, WriteSite, WritesSite, NamesKept
  <2> QED  BY <1>8, <2>2, KeepsParts DEF WriteSiteFile, SiteIsLost, Move
<1>9. CASE Reload(h)  BY <1>9, KeepsParts DEF Reload, Move
<1> QED
  BY <1>1, <1>2, <1>3, <1>4, <1>5, <1>6, <1>7, <1>8, <1>9 DEF CreateStep

LEMMA DeleteMoves ==
  ASSUME RInv, NEW h \in Handlers, DeleteRequest(h) \/ DeleteStep(h)
  PROVE  Move(h)
<1> h \in Procs  BY DEF Procs
<1>1. CASE DeleteRequest(h)  BY <1>1, QuietMoves DEF DeleteRequest
<1>2. CASE DropProxy(h)  BY <1>2, KeepsParts DEF DropProxy, Move, TableMove
<1>3. CASE StopContainer(h) \/ RemoveContainer(h)
  BY <1>3, KeepsParts
     DEF StopContainer, RemoveContainer, StopIfRunning, RemoveIfExists, Move, TableMove
<1>4. CASE DeleteRow(h)
  <2>1. depID[h] \in 0..MaxId  BY DEF RInv, Inv, TypeOK, ProcTypeOK
  <2> QED  BY <1>4, <2>1, KeepsParts DEF DeleteRow, Move, TableMove
<1> QED  BY <1>1, <1>2, <1>3, <1>4 DEF DeleteStep

LEMMA InspectMoves ==
  ASSUME RInv, NEW p \in Procs, FindDeployments(p) \/ InspectStep(p)
  PROVE  Move(p)
<1>1. CASE FindDeployments(p) \/ ReadRow(p) \/ InspectContainer(p) \/ InspectFails(p)
           \/ LoopDone(p)
  BY <1>1, QuietMoves DEF FindDeployments, ReadRow, InspectContainer, InspectFails, LoopDone
<1>2. CASE SaveStatus(p)  BY <1>2, SaveMoves DEF SaveStatus
<1>3. CASE SaveResult(p)
  <2>1. CASE depID[p] = 0  BY <1>3, <2>1, InsertMoves DEF SaveResult, Save
  <2>2. CASE depID[p] # 0  BY <1>3, <2>2, SaveMoves DEF SaveResult, Save
  <2> QED  BY <2>1, <2>2
<1> QED  BY <1>1, <1>2, <1>3 DEF InspectStep

LEMMA EnvironmentMoves ==
  ASSUME RInv, AppExits \/ Kill \/ Restart
  PROVE  Move(Monitor)
<1> Monitor \in Procs  BY DEF Procs
<1>1. CASE AppExits  BY <1>1, KeepsParts DEF AppExits, ContainerExits, Move, TableMove
<1>2. CASE Kill \/ Restart  BY <1>2, QuietMoves DEF Kill, Restart
<1> QED  BY <1>1, <1>2

-----------------------------------------------------------------------------
(* The actions keep RInv.                                                  *)

OthersWait(p) ==
  \A q \in Procs \ {p} : pc'[q] = pc[q] /\ dep'[q] = dep[q] /\ depID'[q] = depID[q]

(* Where a creation may go, given what it has just reserved or built.      *)
Advances(h) ==
  /\ pc'[h] \in CreateLabels \ NoRowYet => Creating(h)
  /\ pc'[h] \in {"pickDomain", "reserveDomain"} =>
       pc[h] \in {"pickDomain", "reserveDomain"} /\ ~Reserves(h)
  /\ pc'[h] = "reserveDomain" => dep'[h].url # None
  /\ pc'[h] \in BeforeMongo => pc[h] \in BeforeMongo /\ OwnersKept
  /\ pc'[h] \in BeforeApp =>
       pc[h] \in BeforeApp /\ (OwnersKept \/ containers'[lastCtr + 1].kind = "mongo")

LEMMA NotCreating ==
  ASSUME NEW h, pc'[h] \notin CreateLabels \ NoRowYet
  PROVE  Advances(h) /\ CreationReserved(h)' /\ ~Creating(h)'
  BY DEF Advances, CreationReserved, Creating, BeforeApp, BeforeMongo, CreateLabels, NoRowYet

(* A process goes on with the row it has.                                  *)
LEMMA StayReserved ==
  ASSUME RInv, Inv', NEW p \in Procs, Move(p), OthersWait(p), depID'[p] = depID[p],
         \/ dep'[p].url = dep[p].url /\ (pc[p] = "reserveDomain" => Reserves(p))
         \/ depID[p] = 0 /\ dep'[p].url = None
         \/ depID[p] # 0 /\ pc'[p] = "reserveDomain",
         p \in Handlers => Advances(p)
  PROVE  RInv'
<1>1. StructReserved(p)'
  <2>0. StructReserved(p) /\ depID[p] \in 0..MaxId
    BY DEF RInv, Reserved, Inv, TypeOK, ProcTypeOK
  <2>1. CASE depID[p] = 0  BY <2>0, <2>1 DEF StructReserved
  <2>2. CASE depID[p] # 0 /\ pc'[p] = "reserveDomain"  BY <2>2 DEF StructReserved
  <2>3. CASE depID[p] # 0 /\ dep'[p].url = dep[p].url
             /\ (pc[p] = "reserveDomain" => Reserves(p))
    <3>1. PICK id \in Ids : id = depID[p] /\ id = depID'[p]
      BY <2>0, <2>3, BoundsAssumption DEF Ids
    <3>2. dep[p].url # None => nginxConfigs'[id].domainName = dep[p].url
      <4>1. CASE pc[p] = "reserveDomain"
        BY <2>3, <3>1, <4>1, MapTypes DEF Reserves, InsertConfig
      <4>2. CASE pc[p] # "reserveDomain"
        BY <2>0, <2>3, <3>1, <4>2, NameKept DEF StructReserved
      <4> QED  BY <4>1, <4>2
    <3> QED  BY <2>3, <3>1, <3>2 DEF StructReserved
  <2> QED  BY <2>1, <2>2, <2>3
<1>2. ASSUME p \in Handlers
      PROVE  CreationReserved(p)' /\ (Creating(p)' => Creating(p))
  <2>1. CASE Creating(p)
    <3>1. CreationReserved(p)'  BY <1>2, <2>1, CreationGoesOn DEF Advances
    <3> QED  BY <2>1, <3>1
  <2>2. CASE ~Creating(p)  BY <1>2, <2>2, NotCreating DEF Advances
  <2> QED  BY <2>1, <2>2
<1> QED  BY <1>1, <1>2, MoveReserved DEF OthersWait

(* A process leaves its row, or takes one up that it has just read.        *)
LEMMA TakeReserved ==
  ASSUME RInv, Inv', NEW p \in Procs, Move(p), OthersWait(p),
         pc'[p] \notin CreateLabels \ NoRowYet,
         \/ dep'[p] = Blank
         \/ KeepsProxy /\ \E id \in live : depID'[p] = id /\ dep'[p] = deployments[id]
  PROVE  RInv'
<1>1. StructReserved(p)'
  <2>1. CASE dep'[p] = Blank
    <3>1. Blank.url = None  BY DEF Blank
    <3>2. dep'[p].url = None  BY <2>1, <3>1
    <3> QED  BY <3>2 DEF StructReserved
  <2>2. CASE KeepsProxy /\ \E id \in live : depID'[p] = id /\ dep'[p] = deployments[id]
    <3>1. PICK id \in Ids : depID'[p] = id /\ dep'[p] = deployments[id]
      BY <2>2, MapTypes
    <3>2. deployments[id].url # None => nginxConfigs'[id].domainName = deployments[id].url
      BY <2>2 DEF RInv, Reserved, URLIsReserved, KeepsProxy, NamesKept
    <3>3. id # 0  BY DEF Ids
    <3> QED  BY <3>1, <3>2, <3>3 DEF StructReserved
  <2> QED  BY <2>1, <2>2
<1>2. p \in Handlers => CreationReserved(p)' /\ ~Creating(p)'  BY NotCreating
<1> QED  BY <1>1, <1>2, MoveReserved DEF OthersWait

LEMMA GotoFacts ==
  ASSUME RInv, NEW p \in Procs, NEW label, Goto(p, label)
  PROVE  /\ OthersWait(p) /\ depID'[p] = depID[p]
         /\ pc'[p] = label /\ dep'[p] = dep[p]
  BY DEF Goto, OthersWait, RInv, Inv, TypeOK, ProcTypeOK

LEMMA GotoWithFacts ==
  ASSUME RInv, NEW p \in Procs, NEW label, NEW row, GotoWith(p, label, row)
  PROVE  /\ OthersWait(p) /\ depID'[p] = depID[p]
         /\ pc'[p] = label /\ dep'[p] = row
  BY DEF GotoWith, OthersWait, RInv, Inv, TypeOK, ProcTypeOK

LEMMA ReturnReserved ==
  ASSUME RInv, Inv', NEW p \in Procs, Move(p), Return(p)
  PROVE  RInv'
<1>1. OthersWait(p) /\ dep'[p] = Blank /\ pc'[p] = "idle"
  BY DEF Return, OthersWait, RInv, Inv, TypeOK, ProcTypeOK
<1> QED  BY <1>1, TakeReserved DEF NoRowYet

LEMMA CrashReserved ==
  ASSUME RInv, Inv', NEW p \in Procs, Move(p), Crash
  PROVE  RInv'
<1>1. URLIsReserved' /\ OneContainerEach' /\ SitesLeadToReserver' /\ NothingAhead'
  BY URLsMove, ContainersMove, SitesMove, AheadMove DEF Inv
<1>2. \A q \in Procs : pc'[q] = "idle" /\ depID'[q] = 0 /\ dep'[q] = Blank
  BY DEF Crash
<1>3. \A h \in Handlers : CreationReserved(h)' /\ ~Creating(h)'
  <2> SUFFICES ASSUME NEW h \in Handlers PROVE CreationReserved(h)' /\ ~Creating(h)'
    OBVIOUS
  <2>1. pc'[h] = "idle"  BY <1>2 DEF Procs
  <2> QED  BY <2>1, NotCreating DEF NoRowYet
<1>4. \A q \in Procs : StructReserved(q)'
  <2>1. Blank.url = None  BY DEF Blank
  <2> QED  BY <1>2, <2>1 DEF StructReserved
<1> QED  BY <1>1, <1>3, <1>4 DEF RInv, Reserved, CreationsDiffer

LEMMA CreateStepReserved ==
  ASSUME RInv, Inv', NEW h \in Handlers, CreateRequest(h) \/ CreateStep(h)
  PROVE  RInv'
<1> h \in Procs  BY DEF Procs
<1>m. Move(h)  BY CreateMoves
<1>d. dep[h] \in Deployment  BY DEF RInv, Inv, TypeOK, ProcTypeOK
<1>s. CreationTracked(h) /\ CreationReserved(h)  BY DEF RInv, Inv, Reserved
<1>k. (UNCHANGED dockerVars => OwnersKept) /\ \A c, s : SetState(c, s) => OwnersKept
  BY KeepsParts
<1>1. CASE CreateRequest(h)
  <2>1. /\ OthersWait(h) /\ depID'[h] = depID[h] /\ dep'[h] = dep[h]
        /\ pc'[h] = "pickPort" /\ pc[h] = "idle"
    BY <1>1, GotoFacts DEF CreateRequest
  <2>2. Advances(h)  BY <2>1, NotCreating DEF NoRowYet
  <2> QED  BY <1>m, <2>1, <2>2, StayReserved
<1>2. CASE PickPort(h)
  <2>1. PICK port \in Ports : GotoWith(h, "insertDeployment", [Blank EXCEPT !.port = port])
    BY <1>2 DEF PickPort
  <2>2. PICK row : row = [Blank EXCEPT !.port = port]  OBVIOUS
  <2>3. row.url = None  BY <2>2 DEF Blank
  <2>4. /\ OthersWait(h) /\ depID'[h] = depID[h] /\ dep'[h] = row
        /\ pc'[h] = "insertDeployment"
    BY <2>1, <2>2, GotoWithFacts
  <2>5. Advances(h)  BY <2>4, NotCreating DEF NoRowYet
  <2>6. depID[h] = 0  BY <1>2, <1>s DEF PickPort, CreationTracked, NoRowYet
  <2> QED  BY <1>m, <2>3, <2>4, <2>5, <2>6, StayReserved
<1>3. CASE InsertDeployment(h)
  <2>1. /\ OthersWait(h) /\ depID'[h] = lastId + 1 /\ dep'[h] = dep[h]
        /\ pc'[h] = "pickDomain"
    BY <1>3 DEF InsertDeployment, OthersWait, RInv, Inv, TypeOK, ProcTypeOK
  <2>2. dep[h].url = None
    <3>1. depID[h] = 0  BY <1>3, <1>s DEF InsertDeployment, CreationTracked, NoRowYet
    <3> QED  BY <3>1 DEF RInv, Reserved, StructReserved
  <2>3. StructReserved(h)'  BY <2>1, <2>2 DEF StructReserved
  <2>4. PICK id \in Ids : id = lastId + 1
    BY <1>3, MapTypes, BoundsAssumption DEF InsertDeployment, Create, Ids
  <2>5. id > lastId  BY <2>4, MapTypes
  <2>6. nginxConfigs[id].domainName = None
    BY <2>5 DEF RInv, Reserved, NothingAhead
  <2>7. UNCHANGED <<containers, lastCtr, nginxConfigs>>
    BY <1>3 DEF InsertDeployment, dockerVars, proxyVars
  <2>8. ASSUME NEW kind PROVE ~HasBuilt(id, kind)'
    <3>1. ASSUME NEW c \in 1..lastCtr, containers[c].owner = id PROVE FALSE
      <4>1. c \in ContainerIds /\ c <= lastCtr
        BY MapTypes, BoundsAssumption DEF ContainerIds
      <4>2. id \in 1..lastId  BY <3>1, <4>1 DEF RInv, Reserved, NothingAhead
      <4> QED  BY <2>5, <4>2, MapTypes
    <3> QED  BY <2>7, <3>1 DEF HasBuilt
  <2>9. HasBuilt(depID[h], "mongo")' <=> HasBuilt(id, "mongo")'
    BY <2>1, <2>4 DEF HasBuilt
  <2>10. HasBuilt(depID[h], "app")' <=> HasBuilt(id, "app")'
    BY <2>1, <2>4 DEF HasBuilt
  <2>11. CreationReserved(h)'
    BY <2>1, <2>4, <2>6, <2>7, <2>8, <2>9, <2>10 DEF CreationReserved
  <2> QED  BY <1>m, <2>1, <2>3, <2>11, MoveReserved DEF OthersWait
<1>4. CASE PickDomain(h)
  <2>1. PICK d \in Domains : GotoWith(h, "reserveDomain", [dep[h] EXCEPT !.url = d])
    BY <1>4 DEF PickDomain
  <2>2. PICK row : row = [dep[h] EXCEPT !.url = d]  OBVIOUS
  <2>3. row.url = d  BY <1>d, <2>2 DEF Deployment
  <2>4. /\ OthersWait(h) /\ depID'[h] = depID[h] /\ dep'[h] = row
        /\ pc'[h] = "reserveDomain" /\ pc[h] = "pickDomain"
    BY <1>4, <2>1, <2>2, GotoWithFacts DEF PickDomain
  <2>5. depID[h] # 0
    BY <2>4, <1>s DEF CreationTracked, CreateLabels, NoRowYet
  <2>6. OwnersKept  BY <1>4, <1>k DEF PickDomain
  <2>7. Advances(h)
    BY <2>3, <2>4, <2>6, NoneAssumption
       DEF Advances, Creating, CreateLabels, NoRowYet, BeforeMongo, BeforeApp, Reserves
  <2> QED  BY <1>m, <2>4, <2>5, <2>7, StayReserved
<1>5. CASE ReserveDomain(h)
  <2>1. /\ OthersWait(h) /\ depID'[h] = depID[h] /\ dep'[h] = dep[h]
        /\ pc'[h] = "saveURL" /\ pc[h] = "reserveDomain"
    BY <1>5, GotoFacts DEF ReserveDomain
  <2>2. OwnersKept /\ Reserves(h)  BY <1>5, <1>k DEF ReserveDomain, Reserves
  <2>3. Advances(h)
    BY <2>1, <2>2 DEF Advances, Creating, CreateLabels, NoRowYet, BeforeMongo, BeforeApp
  <2> QED  BY <1>m, <2>1, <2>2, <2>3, StayReserved
<1>6. CASE SaveDeployment(h)
  <2>1. /\ OthersWait(h) /\ depID'[h] = depID[h] /\ dep'[h] = dep[h]
        /\ pc'[h] = AfterSave[pc[h]] /\ pc[h] \in DOMAIN AfterSave
    BY <1>6, GotoFacts DEF SaveDeployment
  <2>2. OwnersKept  BY <1>6, <1>k DEF SaveDeployment
  <2>3. Advances(h)
    BY <2>1, <2>2 DEF Advances, AfterSave, Creating, CreateLabels, NoRowYet, BeforeMongo,
                      BeforeApp
  <2>4. pc[h] # "reserveDomain"  BY <2>1 DEF AfterSave
  <2> QED  BY <1>m, <2>1, <2>3, <2>4, StayReserved
<1>7. CASE CreateMongo(h)
  <2>1. PICK row : row = [dep[h] EXCEPT !.mongoContainerID = lastCtr + 1]  OBVIOUS
  <2>2. row.url = dep[h].url  BY <1>d, <2>1 DEF Deployment
  <2>3. /\ OthersWait(h) /\ depID'[h] = depID[h] /\ dep'[h] = row
        /\ pc'[h] = "saveMongo" /\ pc[h] = "createMongo"
    BY <1>7, <2>1, GotoWithFacts DEF CreateMongo
  <2>4. containers'[lastCtr + 1].kind = "mongo"
    <3>1. lastCtr + 1 \in ContainerIds
      BY <1>7, MapTypes, BoundsAssumption DEF CreateMongo, NewContainer, ContainerIds
    <3> QED  BY <1>7, <3>1, MapTypes DEF CreateMongo, NewContainer
  <2>5. Advances(h)
    BY <2>3, <2>4 DEF Advances, Creating, CreateLabels, NoRowYet, BeforeMongo, BeforeApp
  <2> QED  BY <1>m, <2>2, <2>3, <2>5, StayReserved
<1>8. CASE StartMongo(h)
  <2>1. /\ OthersWait(h) /\ depID'[h] = depID[h] /\ dep'[h] = dep[h]
        /\ pc'[h] = "createContainer" /\ pc[h] = "startMongo"
    BY <1>8, GotoFacts DEF StartMongo
  <2>2. OwnersKept  BY <1>8, <1>k DEF StartMongo
  <2>3. Advances(h)
    BY <2>1, <2>2 DEF Advances, Creating, CreateLabels, NoRowYet, BeforeMongo, BeforeApp
  <2> QED  BY <1>m, <2>1, <2>3, StayReserved
<1>9. CASE CreateContainer(h) \/ Reload(h)
  <2>1. PICK row : \/ CreateContainer(h) /\ row = [dep[h] EXCEPT !.containerID = lastCtr + 1]
                   \/ Reload(h) /\ row = [dep[h] EXCEPT !.status = "running"]
    BY <1>9
  <2>2. row.url = dep[h].url  BY <1>d, <2>1 DEF Deployment
  <2>3. /\ OthersWait(h) /\ depID'[h] = depID[h] /\ dep'[h] = row
        /\ pc'[h] \in {"saveContainer", "saveRunning"}
        /\ pc[h] \in {"createContainer", "reload"}
    BY <2>1, GotoWithFacts DEF CreateContainer, Reload
  <2>4. Advances(h)
    BY <2>3 DEF Advances, Creating, CreateLabels, NoRowYet, BeforeMongo, BeforeApp
  <2> QED  BY <1>m, <2>2, <2>3, <2>4, StayReserved
<1>10. CASE StartContainer(h) \/ WriteCertificate(h) \/ WritePrivateKey(h) \/ WriteSiteFile(h)
  <2>1. /\ OthersWait(h) /\ depID'[h] = depID[h] /\ dep'[h] = dep[h]
        /\ pc'[h] \in {"writeCert", "writeKey", "writeSite", "reload"}
        /\ pc[h] \in {"startContainer", "writeCert", "writeKey", "writeSite"}
    BY <1>10, GotoFacts DEF StartContainer, WriteCertificate, WritePrivateKey, WriteSiteFile
  <2>2. Advances(h)
    BY <2>1 DEF Advances, Creating, CreateLabels, NoRowYet, BeforeMongo, BeforeApp
  <2> QED  BY <1>m, <2>1, <2>2, StayReserved
<1>11. CASE DockerRefuses(h) \/ CreateProxyFails(h) \/ SiteIsLost(h) \/ SaveRunning(h)
  BY <1>11, <1>m, ReturnReserved DEF DockerRefuses, CreateProxyFails, SiteIsLost, SaveRunning
<1> QED
  BY <1>1, <1>2, <1>3, <1>4, <1>5, <1>6, <1>7, <1>8, <1>9, <1>10, <1>11 DEF CreateStep

LEMMA DeleteStepReserved ==
  ASSUME RInv, Inv', NEW h \in Handlers, DeleteRequest(h) \/ DeleteStep(h)
  PROVE  RInv'
<1> h \in Procs  BY DEF Procs
<1>m. Move(h)  BY DeleteMoves
<1>1. CASE DeleteRequest(h)
  <2>1. PICK id \in live \cup {0} :
          /\ dep' = [dep EXCEPT ![h] = FirstRow(id)]
          /\ depID' = [depID EXCEPT ![h] = id]
    BY <1>1 DEF DeleteRequest
  <2>2. /\ OthersWait(h) /\ dep'[h] = FirstRow(id) /\ depID'[h] = id
        /\ pc'[h] \in {"stop", "dropProxy"}
    BY <1>1, <2>1 DEF DeleteRequest, OthersWait, RInv, Inv, TypeOK, ProcTypeOK
  <2>3. pc'[h] \notin CreateLabels \ NoRowYet  BY <2>2 DEF CreateLabels
  <2>4. KeepsProxy  BY <1>1, KeepsParts DEF DeleteRequest
  <2>5. CASE id \in live  BY <1>m, <2>2, <2>3, <2>4, <2>5, TakeReserved DEF FirstRow
  <2>6. CASE id \notin live  BY <1>m, <2>2, <2>3, <2>6, TakeReserved DEF FirstRow
  <2> QED  BY <2>5, <2>6
<1>2. CASE DropProxy(h) \/ StopContainer(h) \/ RemoveContainer(h)
  <2>1. /\ OthersWait(h) /\ depID'[h] = depID[h] /\ dep'[h] = dep[h]
        /\ pc'[h] \in {"stop", "remove", "deleteRow"} /\ pc[h] # "reserveDomain"
    BY <1>2, GotoFacts DEF DropProxy, StopContainer, RemoveContainer
  <2>2. Advances(h)  BY <2>1, NotCreating DEF CreateLabels
  <2> QED  BY <1>m, <2>1, <2>2, StayReserved
<1>3. CASE DeleteRow(h)  BY <1>3, <1>m, ReturnReserved DEF DeleteRow
<1> QED  BY <1>1, <1>2, <1>3 DEF DeleteStep

LEMMA InspectStepReserved ==
  ASSUME RInv, Inv', NEW p \in Procs, FindDeployments(p) \/ InspectStep(p)
  PROVE  RInv'
<1>m. Move(p)  BY InspectMoves
<1>1. CASE FindDeployments(p)
  <2>1. /\ OthersWait(p) /\ depID'[p] = depID[p] /\ dep'[p] = dep[p]
        /\ pc'[p] = "loop" /\ pc[p] = "idle"
    BY <1>1 DEF FindDeployments, OthersWait, RInv, Inv, TypeOK, ProcTypeOK
  <2>2. Advances(p)  BY <2>1, NotCreating DEF CreateLabels
  <2> QED  BY <1>m, <2>1, <2>2, StayReserved
<1>2. CASE ReadRow(p)
  <2>1. PICK id \in todo[p] :
          /\ dep' = [dep EXCEPT ![p] = FirstRow(id)]
          /\ depID' = [depID EXCEPT ![p] = FirstId(id)]
          /\ pc' = [pc EXCEPT ![p] = IF FirstRow(id).containerID # 0
                                     THEN "inspect" ELSE AfterInspect(p)]
    BY <1>2 DEF ReadRow
  <2>2. /\ OthersWait(p) /\ dep'[p] = FirstRow(id) /\ depID'[p] = FirstId(id)
        /\ pc'[p] \in {"inspect", "saveResult", "loop"}
    BY <2>1 DEF AfterInspect, OthersWait, RInv, Inv, TypeOK, ProcTypeOK
  <2>3. pc'[p] \notin CreateLabels \ NoRowYet  BY <2>2 DEF CreateLabels
  <2>4. KeepsProxy  BY <1>2, KeepsParts DEF ReadRow
  <2>5. CASE id \in live
    BY <1>m, <2>2, <2>3, <2>4, <2>5, TakeReserved DEF FirstRow, FirstId
  <2>6. CASE id \notin live  BY <1>m, <2>2, <2>3, <2>6, TakeReserved DEF FirstRow
  <2> QED  BY <2>5, <2>6
<1>3. CASE InspectContainer(p)
  <2>1. PICK row : row = [dep[p] EXCEPT !.status = containers[dep[p].containerID].state]
    OBVIOUS
  <2>2. row.url = dep[p].url
    BY <2>1 DEF RInv, Inv, TypeOK, ProcTypeOK, Deployment
  <2>3. /\ OthersWait(p) /\ depID'[p] = depID[p] /\ dep'[p] = row
        /\ pc'[p] = "saveStatus" /\ pc[p] = "inspect"
    BY <1>3, <2>1, GotoWithFacts DEF InspectContainer
  <2>4. Advances(p)  BY <2>3, NotCreating DEF CreateLabels
  <2> QED  BY <1>m, <2>2, <2>3, <2>4, StayReserved
<1>4. CASE InspectFails(p)
  BY <1>4, <1>m, ReturnReserved, CrashReserved DEF InspectFails
<1>5. CASE SaveStatus(p) \/ SaveResult(p)
  <2>1. /\ OthersWait(p) /\ depID'[p] = depID[p] /\ dep'[p] = dep[p]
        /\ pc'[p] \in {"saveResult", "loop"} /\ pc[p] # "reserveDomain"
    BY <1>5, GotoFacts DEF SaveStatus, SaveResult, AfterInspect
  <2>2. Advances(p)  BY <2>1, NotCreating DEF CreateLabels
  <2> QED  BY <1>m, <2>1, <2>2, StayReserved
<1>6. CASE LoopDone(p)  BY <1>6, <1>m, ReturnReserved DEF LoopDone
<1> QED  BY <1>1, <1>2, <1>3, <1>4, <1>5, <1>6 DEF InspectStep

LEMMA EnvironmentReserved ==
  ASSUME RInv, Inv', AppExits \/ Kill \/ Restart
  PROVE  RInv'
<1> Monitor \in Procs  BY DEF Procs
<1>m. Move(Monitor)  BY EnvironmentMoves
<1>1. CASE Kill  BY <1>1, <1>m, CrashReserved DEF Kill
<1>2. CASE AppExits \/ Restart
  <2>1. pc' = pc /\ dep' = dep /\ depID' = depID
    BY <1>2 DEF AppExits, Restart, procVars
  <2>2. URLIsReserved' /\ OneContainerEach' /\ SitesLeadToReserver' /\ NothingAhead'
    BY <1>m, URLsMove, ContainersMove, SitesMove, AheadMove DEF Inv
  <2>3. KeepsProxy /\ OwnersKept
    BY <1>2, KeepsParts DEF AppExits, ContainerExits, Restart
  <2>4. ASSUME NEW q \in Procs PROVE StructReserved(q)'
    BY <1>m, <2>1, StructReservedKept
  <2>5. ASSUME NEW h \in Handlers PROVE CreationReserved(h)'
    <3>1. h \in Handlers \ {Monitor}  BY ProcessAssumption
    <3> QED  BY <1>m, <2>1, <3>1, CreationReservedKept
  <2>6. CreationsDiffer'
    BY <2>1 DEF RInv, Reserved, CreationsDiffer, Creating
  <2> QED  BY <2>2, <2>4, <2>5, <2>6 DEF RInv, Reserved
<1> QED  BY <1>1, <1>2

-----------------------------------------------------------------------------
(* The invariant, and what follows from it.                                *)

LEMMA InitReserved == Init => RInv
<1> SUFFICES ASSUME Init PROVE RInv  OBVIOUS
<1>1. Inv  BY InitTracked
<1>2. /\ \A id \in Ids : deployments[id].url = None
      /\ \A id \in Ids : nginxConfigs[id].domainName = None
      /\ \A c \in ContainerIds : containers[c].owner = 0
      /\ \A d \in Domains : sites[d] = None /\ routes[d] = None
  <2>1. Blank.url = None  BY DEF Blank
  <2> QED  BY <2>1 DEF Init, TableInit, DockerInit, ProxyInit
<1>3. lastCtr = 0  BY DEF Init, DockerInit
<1>4. OneContainerEach  BY <1>3 DEF OneContainerEach
<1>5. NothingAhead
  <2>1. \A c \in ContainerIds : ~(c <= lastCtr)  BY <1>3 DEF ContainerIds
  <2> QED  BY <1>2, <2>1 DEF NothingAhead
<1>6. ASSUME NEW p \in Procs PROVE StructReserved(p)
  <2>1. dep[p] = Blank /\ depID[p] = 0  BY DEF Init
  <2>2. dep[p].url = None
    <3>1. Blank.url = None  BY DEF Blank
    <3> QED  BY <2>1, <3>1
  <2> QED  BY <2>1, <2>2 DEF StructReserved
<1>7. ASSUME NEW h \in Handlers PROVE CreationReserved(h) /\ ~Creating(h)
  <2>1. pc[h] = "idle"  BY DEF Init, Procs
  <2> QED
    BY <2>1 DEF CreationReserved, Creating, BeforeApp, BeforeMongo, CreateLabels, NoRowYet
<1> QED
  BY <1>1, <1>2, <1>4, <1>5, <1>6, <1>7
     DEF RInv, Reserved, URLIsReserved, SitesLeadToReserver, CreationsDiffer

LEMMA NextReserved == RInv /\ [Next]_vars => RInv'
<1> SUFFICES ASSUME RInv, [Next]_vars PROVE RInv'  OBVIOUS
<1>1. Inv'  BY NextTracked DEF RInv
<1>2. CASE UNCHANGED vars
  <2>1. UNCHANGED <<deployments, live, lastId, containers, lastCtr, nginxConfigs, sites,
                    routes, pc, dep, depID>>
    BY <1>2 DEF vars, tableVars, dockerVars, proxyVars, procVars
  <2>2. /\ URLIsReserved' /\ OneContainerEach' /\ NothingAhead' /\ CreationsDiffer'
        /\ SitesLeadToReserver'
    BY <2>1 DEF RInv, Reserved, URLIsReserved, OneContainerEach, NothingAhead,
                CreationsDiffer, Creating, SitesLeadToReserver, LeadsToReserver
  <2>3. \A p \in Procs : StructReserved(p)'
    BY <2>1 DEF RInv, Reserved, StructReserved
  <2>4. \A h \in Handlers : CreationReserved(h)'
    BY <2>1 DEF RInv, Reserved, CreationReserved, HasBuilt
  <2> QED  BY <1>1, <2>2, <2>3, <2>4 DEF RInv, Reserved
<1>3. CASE Next
  BY <1>1, <1>3, CreateStepReserved, DeleteStepReserved, InspectStepReserved,
     EnvironmentReserved DEF Next, HandlerStep, MonitorStep, Procs
<1> QED  BY <1>2, <1>3

LEMMA ReservedAlways == Spec => []RInv
  BY InitReserved, NextReserved, PTL DEF Spec

(* No row ever shows a name that was not reserved for its own deployment,  *)
(* however stale the save that wrote it (main.go 434-443).                 *)
THEOREM URLsHold == Spec => []URLIsReserved
<1>1. RInv => URLIsReserved  BY DEF RInv, Reserved
<1> QED  BY <1>1, ReservedAlways, PTL

(* No deployment is given two containers of a kind (main.go 453, 480).     *)
THEOREM ContainersHold == Spec => []OneContainerEach
<1>1. RInv => OneContainerEach  BY DEF RInv, Reserved
<1> QED  BY <1>1, ReservedAlways, PTL

(* Site files and routes lead only to ports of deployments their name was  *)
(* reserved for (main.go 443-445, proxy.go 86-87).                         *)
THEOREM SitesHold == Spec => []SitesLeadToReserver
<1>1. RInv => SitesLeadToReserver  BY DEF RInv, Reserved
<1> QED  BY <1>1, ReservedAlways, PTL

(* The daemon, with any number of handlers and deployments and whatever    *)
(* fails, implements the registry.                                         *)
THEOREM RegistryHolds == Spec => ImplementsRegistry
<1>1. Init => R!Init
  <2> SUFFICES ASSUME Init PROVE R!Init  OBVIOUS
  <2>1. RInv  BY InitReserved
  <2>2. \A id \in Ids : id > lastId /\ deployments[id] = Blank
    BY DEF Init, TableInit, Ids
  <2>3. rPhase = [id \in Ids |-> "absent"]  BY <2>2 DEF rPhase
  <2>4. /\ Blank.port = None /\ Blank.url = None /\ Blank.containerID = 0
        /\ Blank.mongoContainerID = 0
    BY DEF Blank
  <2>5. /\ rPort = [id \in Ids |-> None] /\ rURL = [id \in Ids |-> None]
        /\ rBoxes = [id \in Ids |-> [app |-> 0, mongo |-> 0]]
    BY <2>2, <2>4 DEF rPort, rURL, rBoxes
  <2>6. rName = [id \in Ids |-> None]  BY DEF Init, ProxyInit, rName
  <2>7. rBuilt = [c \in ContainerIds |-> [owner |-> 0, kind |-> "app", port |-> None]]
    BY DEF Init, DockerInit, rBuilt
  <2>8. routes = [d \in Domains |-> None]  BY DEF Init, ProxyInit
  <2> QED  BY <2>3, <2>5, <2>6, <2>7, <2>8 DEF R!Init
<1>2. RInv /\ [Next]_vars => [R!Next]_(R!vars)
  <2> SUFFICES ASSUME RInv, [Next]_vars PROVE R!Next \/ UNCHANGED R!vars  OBVIOUS
  <2>1. CASE UNCHANGED vars
    BY <2>1 DEF vars, tableVars, dockerVars, proxyVars, R!vars, rPhase, rPort, rName, rURL,
                rBoxes, rBuilt
  <2>2. CASE Next
    <3>1. \E p \in Procs : Move(p)
      BY <2>2, CreateMoves, DeleteMoves, InspectMoves, EnvironmentMoves
         DEF Next, HandlerStep, MonitorStep, Procs
    <3> QED  BY <3>1, MoveRefines
  <2> QED  BY <2>1, <2>2
<1> QED  BY <1>1, <1>2, ReservedAlways, PTL DEF Spec, ImplementsRegistry, R!Spec

=============================================================================
