-------------------------- MODULE Promises_proofs --------------------------
(***************************************************************************)
(* What stands between the daemon and the promises it does not always      *)
(* keep.  Each theorem names what to exclude, a race for a name, a delete, *)
(* a failed lookup, a sweep over a creation, and shows that the promise    *)
(* then holds under every other interleaving and failure: the              *)
(* counterexample TLC finds is the only kind there is.                     *)
(***************************************************************************)
EXTENDS Serial_proofs, FiniteSetTheorems

(* No route reaches DeleteDeployment (api.go 444-453).                     *)
NeverDropped == "DeleteDeployment" \notin Requests

(* Preserved by every step from a state in which names have one holder.    *)
WInv == RInv /\ Served

-----------------------------------------------------------------------------
(* The holder of a name.                                                   *)

LEMMA OneHolder ==
  ASSUME Served, DomainsAreUnique, NEW i \in Ids, NEW j \in Ids,
         nginxConfigs[i].domainName # None,
         nginxConfigs[i].domainName = nginxConfigs[j].domainName
  PROVE  i = j
  BY DEF Served, NamesLive, DomainsAreUnique, LiveConfigs

(* A creation past its reservation holds its name, and its row the port it *)
(* is about to serve.                                                      *)
LEMMA NamedHolds ==
  ASSUME WInv, NEW h \in Handlers, Named(h)
  PROVE  /\ depID[h] \in Ids /\ depID[h] \in 1..lastId
         /\ dep[h].url \in Domains
         /\ nginxConfigs[depID[h]].domainName = dep[h].url
         /\ dep[h].port = deployments[depID[h]].port
<1> h \in Procs  BY DEF Procs
<1>1. Creating(h) /\ pc[h] # "reserveDomain"  BY DEF Named
<1>2. depID[h] \in Ids /\ depID[h] \in 1..lastId  BY <1>1, CreatingRow DEF WInv
<1>3. depID[h] # 0  BY <1>2 DEF Ids
<1>4. dep[h].url # None  BY DEF WInv, Served, CreationServed
<1>5. dep[h].url \in Domains
  BY <1>4 DEF WInv, RInv, Inv, TypeOK, ProcTypeOK, Deployment
<1>6. StructReserved(h) /\ StructTracked(h)  BY DEF WInv, RInv, Inv, Reserved
<1> QED  BY <1>1, <1>2, <1>3, <1>4, <1>5, <1>6 DEF StructReserved, StructTracked

(* No two creations are about to write the files of one name.              *)
LEMMA NamesDiffer ==
  ASSUME WInv, DomainsAreUnique, NEW g \in Handlers, NEW h \in Handlers,
         Named(g), Named(h), dep[g].url = dep[h].url
  PROVE  g = h
<1>1. depID[g] = depID[h]  BY NamedHolds, OneHolder, NoneAssumption DEF WInv
<1> QED  BY <1>1 DEF WInv, RInv, Reserved, CreationsDiffer, Named

(* Nor those of a name whose deployment has been acknowledged.             *)
LEMMA NameNotServed ==
  ASSUME WInv, DomainsAreUnique, NEW h \in Handlers, Named(h), NEW id \in acked
  PROVE  nginxConfigs[id].domainName # dep[h].url
<1>1. id \in Ids /\ nginxConfigs[id].domainName # None
  BY MapTypes, BoundsAssumption DEF WInv, Served, AckedServed, Ids
<1>2. id # depID[h]  BY DEF WInv, Served, CreationServed, Named
<1> QED  BY <1>1, <1>2, NamedHolds, OneHolder DEF WInv

-----------------------------------------------------------------------------
(* What a step leaves of the sites and the routes.                         *)

(* The names that the step of `p` leaves alone keep their site, and their  *)
(* route is the old one or that site.                                      *)
SitesStay(p) ==
  /\ routes' \in {routes, sites} /\ (routes' # routes => sites' = sites)
  /\ \/ sites' = sites
     \/ /\ p \in Handlers /\ Named(p)
        /\ \A d \in Domains : d # dep[p].url => sites'[d] = sites[d]

(* Every other handler waits or is ended by a crash.                       *)
OthersRest(p) ==
  \A g \in Handlers \ {p} :
     \/ pc'[g] = pc[g] /\ dep'[g] = dep[g] /\ depID'[g] = depID[g]
     \/ pc'[g] = "idle"

Acknowledges(p) ==
  /\ p \in Handlers /\ pc[p] = "saveRunning"
  /\ acked' = acked \cup {depID[p]}
  /\ UNCHANGED <<sites, routes>>

NamesStayLive(p) ==
  UNCHANGED nginxConfigs \/ Reserves(p)

LEMMA NamesLiveMove ==
  ASSUME WInv, NEW p \in Procs, NamesStayLive(p)
  PROVE  NamesLive'
<1>1. CASE UNCHANGED nginxConfigs  BY <1>1 DEF WInv, Served, NamesLive
<1>2. CASE Reserves(p)
  <2>1. ASSUME NEW id \in Ids
        PROVE  nginxConfigs'[id] = IF id = depID[p]
                                   THEN [row |-> "live", domainName |-> dep[p].url,
                                         deploymentID |-> 0]
                                   ELSE nginxConfigs[id]
    BY <1>2, MapTypes DEF WInv, Reserves, InsertConfig
  <2> QED  BY <2>1 DEF WInv, Served, NamesLive
<1> QED  BY <1>1, <1>2 DEF NamesStayLive

LEMMA AckedMove ==
  ASSUME WInv, RInv', DomainsAreUnique, NEW p \in Procs, Move(p), SitesStay(p),
         UNCHANGED acked \/ Acknowledges(p)
  PROVE  AckedServed'
<1> SUFFICES ASSUME NEW id \in acked'
             PROVE  /\ id \in 1..lastId'
                    /\ nginxConfigs'[id].domainName # None
                    /\ sites'[nginxConfigs'[id].domainName] = deployments'[id].port
                    /\ routes'[nginxConfigs'[id].domainName] = deployments'[id].port
  BY DEF AckedServed
<1>0. lastId \in Nat /\ lastId' \in Nat /\ lastId \in 0..MaxId
      /\ (lastId' = lastId \/ lastId' = lastId + 1)
  BY MapTypes, IdsGrow, BoundsAssumption DEF WInv, RInv, Inv, TypeOK, TableTypeOK
<1>1. ASSUME id \in 1..lastId
      PROVE  /\ id \in 1..lastId' /\ id \in Ids
             /\ deployments'[id].port = deployments[id].port
  BY <1>0, <1>1, IdsGrow, BoundsAssumption DEF WInv, Ids
<1>2. CASE id \in acked
  <2>1. PICK d \in Domains : /\ id \in 1..lastId
                             /\ d = nginxConfigs[id].domainName
                             /\ sites[d] = deployments[id].port
                             /\ routes[d] = deployments[id].port
    <3>1. id \in 1..lastId /\ nginxConfigs[id].domainName # None
      BY <1>2 DEF WInv, Served, AckedServed
    <3>2. nginxConfigs[id] \in NginxConfig  BY <1>1, <3>1, MapTypes DEF WInv
    <3>3. nginxConfigs[id].domainName \in Domains  BY <3>1, <3>2 DEF NginxConfig
    <3> QED  BY <1>2, <3>1, <3>3 DEF WInv, Served, AckedServed
  <2>2. nginxConfigs'[id].domainName = d
    BY <1>1, <2>1, NameKept, NoneAssumption DEF WInv
  <2>3. sites'[d] = sites[d]
    <3>1. CASE p \in Handlers /\ Named(p)
      BY <1>2, <2>1, <3>1, NameNotServed DEF SitesStay
    <3> QED  BY <3>1 DEF SitesStay
  <2>4. routes'[d] = deployments[id].port  BY <2>1, <2>3 DEF SitesStay
  <2> QED  BY <1>1, <2>1, <2>2, <2>3, <2>4, NoneAssumption
<1>3. CASE id \notin acked
  <2>1. Acknowledges(p) /\ id = depID[p]  BY <1>3 DEF Acknowledges
  <2>2. Named(p)
    BY <2>1 DEF Acknowledges, Named, Creating, CreateLabels, NoRowYet
  <2>3. /\ id \in 1..lastId /\ nginxConfigs[id].domainName = dep[p].url
        /\ dep[p].url \in Domains /\ dep[p].port = deployments[id].port
    BY <2>1, <2>2, NamedHolds DEF Acknowledges
  <2>4. sites[dep[p].url] = dep[p].port /\ routes[dep[p].url] = dep[p].port
    BY <2>1 DEF Acknowledges, WInv, Served, CreationServed
  <2>5. nginxConfigs'[id].domainName = dep[p].url
    BY <1>1, <2>3, NameKept, NoneAssumption DEF WInv
  <2> QED  BY <1>1, <2>1, <2>3, <2>4, <2>5, NoneAssumption DEF Acknowledges
<1> QED  BY <1>2, <1>3

(* A handler that rests goes on holding what it held.                      *)
LEMMA RestServed ==
  ASSUME WInv, DomainsAreUnique, NEW p \in Procs, SitesStay(p), OthersRest(p),
         UNCHANGED acked \/ Acknowledges(p), NEW g \in Handlers \ {p}
  PROVE  CreationServed(g)'
<1>1. CASE pc'[g] = "idle"
  BY <1>1 DEF CreationServed, Named, Creating, CreateLabels
<1>2. CASE pc'[g] = pc[g] /\ dep'[g] = dep[g] /\ depID'[g] = depID[g]
  <2>0. CreationServed(g)  BY DEF WInv, Served
  <2>1. Creating(g)' <=> Creating(g)  BY <1>2 DEF Creating
  <2>2. Named(g)' <=> Named(g)  BY <1>2, <2>1 DEF Named
  <2>3. Creating(g) => depID[g] \notin acked'
    <3>1. CASE Acknowledges(p)
      <4>1. Creating(p)
        BY <3>1 DEF Acknowledges, Creating, CreateLabels, NoRowYet
      <4>2. Creating(g) => depID[g] # depID[p]
        BY <3>1, <4>1 DEF Acknowledges, WInv, RInv, Reserved, CreationsDiffer
      <4> QED  BY <2>0, <3>1, <4>2 DEF Acknowledges, CreationServed
    <3> QED  BY <2>0, <3>1 DEF CreationServed
  <2>4. Named(g) => sites'[dep[g].url] = sites[dep[g].url]
    BY NamedHolds, NamesDiffer DEF SitesStay
  <2>5. pc[g] \in {"reload", "saveRunning"} => Named(g)
    BY DEF Named, Creating, CreateLabels, NoRowYet
  <2>6. pc[g] = "saveRunning" => routes'[dep[g].url] = dep[g].port
    BY <2>0, <2>4, <2>5 DEF CreationServed, SitesStay
  <2> QED
    BY <1>2, <2>0, <2>1, <2>2, <2>3, <2>4, <2>5, <2>6 DEF CreationServed
<1> QED  BY <1>1, <1>2 DEF OthersRest

LEMMA MoveServed ==
  ASSUME WInv, RInv', DomainsAreUnique, NEW p \in Procs, Move(p), SitesStay(p),
         NamesStayLive(p), OthersRest(p), UNCHANGED acked \/ Acknowledges(p),
         p \in Handlers => CreationServed(p)'
  PROVE  Served'
<1>1. NamesLive'  BY NamesLiveMove
<1>2. AckedServed'  BY AckedMove
<1>3. \A g \in Handlers : CreationServed(g)'  BY RestServed
<1> QED  BY <1>1, <1>2, <1>3 DEF Served

-----------------------------------------------------------------------------
(* The actions keep Served.                                                *)

(* A step that touches nothing of the proxy only has to hand the handler   *)
(* that takes it over.                                                     *)
LEMMA QuietServed ==
  ASSUME WInv, RInv', DomainsAreUnique, NEW p \in Procs, Move(p), OthersRest(p),
         UNCHANGED <<proxyVars, acked>>, p \in Handlers => CreationServed(p)'
  PROVE  Served'
<1>1. SitesStay(p) /\ NamesStayLive(p)
  BY DEF proxyVars, SitesStay, NamesStayLive
<1> QED  BY <1>1, MoveServed

LEMMA OthersWaitRest == ASSUME NEW p, OthersWait(p) PROVE OthersRest(p)
  BY DEF OthersWait, OthersRest, Procs

(* Outside a creation there is nothing to hold, but for the delete that    *)
(* drops the reservations.                                                 *)
LEMMA NotServing ==
  ASSUME NEW h, pc'[h] \notin (CreateLabels \ NoRowYet) \cup {"dropProxy"}
  PROVE  CreationServed(h)'
  BY DEF CreationServed, Named, Creating, CreateLabels, NoRowYet

(* A creation that goes on before its site is written.                     *)
LEMMA GoesOnServed ==
  ASSUME WInv, NEW h \in Handlers, Creating(h), UNCHANGED acked, depID'[h] = depID[h],
         pc'[h] \in CreateLabels \ {"reload", "saveRunning"},
         pc'[h] \notin {"pickDomain", "reserveDomain"} => dep'[h].url # None
  PROVE  CreationServed(h)'
<1>1. depID[h] \notin acked  BY DEF WInv, Served, CreationServed
<1> QED  BY <1>1 DEF CreationServed, Named, Creating, CreateLabels

LEMMA CreateStepServed ==
  ASSUME WInv, RInv', DomainsAreUnique, NEW h \in Handlers, CreateRequest(h) \/ CreateStep(h)
  PROVE  Served'
<1> h \in Procs  BY DEF Procs
<1>i. RInv  BY DEF WInv
<1>m. Move(h)  BY <1>i, CreateMoves
<1>d. dep[h] \in Deployment  BY <1>i DEF RInv, Inv, TypeOK, ProcTypeOK
<1>c. CreationServed(h)  BY DEF WInv, Served
<1>1. CASE CreateRequest(h) \/ PickPort(h)
  <2>1. OthersWait(h) /\ pc'[h] \in {"pickPort", "insertDeployment"}
    BY <1>1, <1>i, GotoFacts, GotoWithFacts DEF CreateRequest, PickPort
  <2>2. CreationServed(h)'  BY <2>1, NotServing DEF NoRowYet
  <2> QED  BY <1>1, <1>m, <2>1, <2>2, OthersWaitRest, QuietServed DEF CreateRequest, PickPort
<1>2. CASE DockerRefuses(h) \/ CreateProxyFails(h)
  <2>1. OthersWait(h) /\ pc'[h] = "idle"
    BY <1>2, <1>i DEF DockerRefuses, CreateProxyFails, Return, OthersWait, RInv, Inv, TypeOK,
                      ProcTypeOK
  <2>2. CreationServed(h)'  BY <2>1, NotServing DEF CreateLabels
  <2> QED
    BY <1>2, <1>m, <2>1, <2>2, OthersWaitRest, QuietServed DEF DockerRefuses, CreateProxyFails
<1>3. CASE InsertDeployment(h)
  <2>1. OthersWait(h) /\ pc'[h] = "pickDomain" /\ depID'[h] = lastId + 1
    BY <1>3, <1>i DEF InsertDeployment, OthersWait, RInv, Inv, TypeOK, ProcTypeOK
  <2>2. lastId + 1 \notin acked
    BY <1>i, MapTypes DEF WInv, Served, AckedServed
  <2>3. CreationServed(h)'
    BY <1>3, <2>1, <2>2 DEF InsertDeployment, CreationServed, Named
  <2> QED  BY <1>3, <1>m, <2>1, <2>3, OthersWaitRest, QuietServed DEF InsertDeployment
<1>4. CASE PickDomain(h)
  <2>1. PICK row : GotoWith(h, "reserveDomain", row)  BY <1>4 DEF PickDomain
  <2>2. OthersWait(h) /\ depID'[h] = depID[h] /\ pc'[h] = "reserveDomain"
    BY <1>i, <2>1, GotoWithFacts
  <2>3. CreationServed(h)'
    BY <1>4, <2>2, GoesOnServed DEF PickDomain, Creating, CreateLabels, NoRowYet
  <2> QED  BY <1>4, <1>m, <2>2, <2>3, OthersWaitRest, QuietServed DEF PickDomain
<1>5. CASE ReserveDomain(h)
  <2>1. /\ OthersWait(h) /\ depID'[h] = depID[h] /\ dep'[h] = dep[h] /\ pc'[h] = "saveURL"
        /\ pc[h] = "reserveDomain"
    BY <1>5, <1>i, GotoFacts DEF ReserveDomain
  <2>2. dep[h].url # None  BY <2>1 DEF WInv, RInv, Reserved, CreationReserved
  <2>3. CreationServed(h)'
    BY <1>5, <2>1, <2>2, GoesOnServed DEF ReserveDomain, Creating, CreateLabels, NoRowYet
  <2>4. SitesStay(h) /\ NamesStayLive(h) /\ UNCHANGED acked
    BY <1>5, <2>1 DEF ReserveDomain, InsertConfig, SitesStay, NamesStayLive, Reserves
  <2> QED  BY <1>m, <2>1, <2>3, <2>4, OthersWaitRest, MoveServed
<1>6. CASE SaveDeployment(h) \/ StartMongo(h) \/ StartContainer(h)
  <2>1. /\ OthersWait(h) /\ depID'[h] = depID[h] /\ dep'[h] = dep[h]
        /\ pc'[h] \in {"createMongo", "createContainer", "startMongo", "startContainer",
                       "writeCert", "writeSite"}
        /\ pc[h] \in {"saveURL", "saveMongo", "saveContainer", "startMongo", "startContainer"}
    BY <1>6, <1>i, GotoFacts DEF SaveDeployment, AfterSave, StartMongo, StartContainer
  <2>2. Named(h)  BY <2>1 DEF Named, Creating, CreateLabels, NoRowYet
  <2>3. CreationServed(h)'
    BY <1>6, <1>c, <2>1, <2>2, GoesOnServed
       DEF SaveDeployment, StartMongo, StartContainer, CreationServed, Named, CreateLabels
  <2> QED
    BY <1>6, <1>m, <2>1, <2>3, OthersWaitRest, QuietServed
       DEF SaveDeployment, StartMongo, StartContainer
<1>7. CASE CreateMongo(h) \/ CreateContainer(h)
  <2>1. PICK row : \/ CreateMongo(h) /\ row = [dep[h] EXCEPT !.mongoContainerID = lastCtr + 1]
                   \/ CreateContainer(h) /\ row = [dep[h] EXCEPT !.containerID = lastCtr + 1]
    BY <1>7
  <2>2. row.url = dep[h].url  BY <1>d, <2>1 DEF Deployment
  <2>3. /\ OthersWait(h) /\ depID'[h] = depID[h] /\ dep'[h] = row
        /\ pc'[h] \in {"saveMongo", "saveContainer"}
        /\ pc[h] \in {"createMongo", "createContainer"}
    BY <1>i, <2>1, GotoWithFacts DEF CreateMongo, CreateContainer
  <2>4. Named(h)  BY <2>3 DEF Named, Creating, CreateLabels, NoRowYet
  <2>5. CreationServed(h)'
    BY <1>7, <1>c, <2>2, <2>3, <2>4, GoesOnServed
       DEF CreateMongo, CreateContainer, CreationServed, Named, CreateLabels
  <2> QED
    BY <1>7, <1>m, <2>3, <2>5, OthersWaitRest, QuietServed DEF CreateMongo, CreateContainer
<1>8. CASE WriteCertificate(h) \/ WritePrivateKey(h)
  <2>1. /\ OthersWait(h) /\ depID'[h] = depID[h] /\ dep'[h] = dep[h]
        /\ pc'[h] \in {"writeKey", "writeSite"} /\ pc[h] \in {"writeCert", "writeKey"}
    BY <1>8, <1>i, GotoFacts DEF WriteCertificate, WritePrivateKey
  <2>2. Named(h)  BY <2>1 DEF Named, Creating, CreateLabels, NoRowYet
  <2>3. UNCHANGED <<nginxConfigs, sites, routes, acked>>
    BY <1>8 DEF WriteCertificate, WritePrivateKey, WriteCertificateToFile,
                WritePrivateKeyToFile
  <2>4. CreationServed(h)'
    BY <1>c, <2>1, <2>2, <2>3, GoesOnServed DEF CreationServed, Named, CreateLabels
  <2>5. SitesStay(h) /\ NamesStayLive(h)  BY <2>3 DEF SitesStay, NamesStayLive
  <2> QED  BY <1>m, <2>1, <2>3, <2>4, <2>5, OthersWaitRest, MoveServed
<1>9. CASE WriteSiteFile(h) \/ SiteIsLost(h)
  <2>1. /\ OthersWait(h) /\ pc[h] = "writeSite"
        /\ \/ pc'[h] = "idle"
           \/ /\ pc'[h] = "reload" /\ depID'[h] = depID[h] /\ dep'[h] = dep[h]
              /\ WriteSite(dep[h].url, dep[h].port)
    <3>1. CASE WriteSiteFile(h)  BY <1>i, <3>1, GotoFacts DEF WriteSiteFile
    <3>2. CASE SiteIsLost(h)
      BY <1>i, <3>2 DEF SiteIsLost, Return, OthersWait, RInv, Inv, TypeOK, ProcTypeOK
    <3> QED  BY <1>9, <3>1, <3>2
  <2>2. Named(h)  BY <2>1 DEF Named, Creating, CreateLabels, NoRowYet
  <2>3. PICK d \in Domains, port \in Ports \cup {None} :
          /\ d = dep[h].url
          /\ WriteSite(d, port)
          /\ pc'[h] = "reload" => port = dep[h].port
    BY <1>9, <1>d, <2>1, <2>2, NamedHolds DEF WriteSiteFile, SiteIsLost, Deployment
  <2>4. sites \in [Domains -> Ports \cup {None}]
    BY <1>i DEF RInv, Inv, TypeOK, ProxyTypeOK
  <2>5. sites'[d] = port /\ \A e \in Domains : e # d => sites'[e] = sites[e]
    BY <2>3, <2>4 DEF WriteSite
  <2>6. UNCHANGED <<nginxConfigs, routes, acked>>
    BY <1>9 DEF WriteSiteFile, SiteIsLost, WriteSite
  <2>7. SitesStay(h) /\ NamesStayLive(h)
    BY <2>2, <2>3, <2>5, <2>6 DEF SitesStay, NamesStayLive
  <2>8. CASE pc'[h] = "idle"
    <3>1. CreationServed(h)'  BY <2>8, NotServing DEF CreateLabels
    <3> QED  BY <1>m, <2>1, <2>6, <2>7, <3>1, OthersWaitRest, MoveServed
  <2>9. CASE /\ pc'[h] = "reload" /\ depID'[h] = depID[h] /\ dep'[h] = dep[h]
    <3>1. sites'[dep[h].url] = dep[h].port /\ dep[h].url # None /\ depID[h] \notin acked
      BY <1>c, <2>2, <2>3, <2>5, <2>9 DEF CreationServed, Named
    <3>2. CreationServed(h)'  BY <2>6, <2>9, <3>1 DEF CreationServed
    <3> QED  BY <1>m, <2>1, <2>6, <2>7, <3>2, OthersWaitRest, MoveServed
  <2> QED  BY <2>1, <2>8, <2>9
<1>10. CASE Reload(h)
  <2>1. PICK row : row = [dep[h] EXCEPT !.status = "running"]  OBVIOUS
  <2>2. row.url = dep[h].url /\ row.port = dep[h].port  BY <1>d, <2>1 DEF Deployment
  <2>3. /\ OthersWait(h) /\ depID'[h] = depID[h] /\ dep'[h] = row
        /\ pc'[h] = "saveRunning" /\ pc[h] = "reload"
    BY <1>10, <1>i, <2>1, GotoWithFacts DEF Reload
  <2>4. Named(h)  BY <2>3 DEF Named, Creating, CreateLabels, NoRowYet
  <2>5. sites' = sites /\ routes' = sites /\ UNCHANGED <<nginxConfigs, acked>>
    BY <1>10 DEF Reload, ApplyChanges
  <2>6. dep[h].url # None /\ depID[h] \notin acked /\ sites[dep[h].url] = dep[h].port
    BY <1>c, <2>3, <2>4 DEF CreationServed, Named
  <2>7. CreationServed(h)'  BY <2>2, <2>3, <2>5, <2>6 DEF CreationServed
  <2>8. SitesStay(h) /\ NamesStayLive(h)  BY <2>5 DEF SitesStay, NamesStayLive
  <2> QED  BY <1>m, <2>3, <2>5, <2>7, <2>8, OthersWaitRest, MoveServed
<1>11. CASE SaveRunning(h)
  <2>1. OthersWait(h) /\ pc'[h] = "idle"
    BY <1>11, <1>i DEF SaveRunning, Return, OthersWait, RInv, Inv, TypeOK, ProcTypeOK
  <2>2. Acknowledges(h) /\ SitesStay(h) /\ NamesStayLive(h)
    BY <1>11 DEF SaveRunning, proxyVars, Acknowledges, SitesStay, NamesStayLive
  <2>3. CreationServed(h)'  BY <2>1, NotServing DEF CreateLabels
  <2> QED  BY <1>m, <2>1, <2>2, <2>3, OthersWaitRest, MoveServed
<1> QED
  BY <1>1, <1>2, <1>3, <1>4, <1>5, <1>6, <1>7, <1>8, <1>9, <1>10, <1>11 DEF CreateStep

(* Every step outside a creation leaves the proxy alone.                   *)
LEMMA OtherStep ==
  ASSUME WInv, NeverDropped, Next,
         ~\E h \in Handlers : CreateRequest(h) \/ CreateStep(h)
  PROVE  \E p \in Procs :
           /\ Move(p) /\ OthersRest(p) /\ UNCHANGED <<proxyVars, acked>>
           /\ p \in Handlers =>
                pc'[p] \in {"stop", "remove", "deleteRow", "idle"} \cup InspectLabels
<1>i. RInv  BY DEF WInv
<1>1. PICK p \in Procs :
        \/ p \in Handlers /\ (DeleteRequest(p) \/ DeleteStep(p))
        \/ FindDeployments(p) \/ InspectStep(p)
        \/ p = Monitor /\ (AppExits \/ Kill \/ Restart)
  BY DEF Next, HandlerStep, MonitorStep, Procs
<1>2. Move(p)
  BY <1>1, <1>i, DeleteMoves, InspectMoves, EnvironmentMoves
<1>3. ~DropProxy(p) \/ p = Monitor
  BY <1>1 DEF WInv, Served, CreationServed, DropProxy, Procs
<1>4. UNCHANGED <<proxyVars, acked>>
  BY <1>1, <1>3, ProcessAssumption
     DEF DeleteRequest, DeleteStep, StopContainer, RemoveContainer, DeleteRow,
         FindDeployments, InspectStep, ReadRow, InspectContainer, InspectFails, SaveStatus,
         SaveResult, LoopDone, AppExits, Kill, Restart
<1>5. OthersRest(p)
  BY <1>1, <1>i
     DEF DeleteRequest, DeleteStep, DropProxy, StopContainer, RemoveContainer, DeleteRow,
         FindDeployments, InspectStep, ReadRow, InspectContainer, InspectFails, SaveStatus,
         SaveResult, LoopDone, AppExits, Kill, Restart, Goto, GotoWith, Return, Crash,
         OthersRest, Procs, procVars, RInv, Inv, TypeOK, ProcTypeOK
<1>6. ASSUME p \in Handlers
      PROVE  pc'[p] \in {"stop", "remove", "deleteRow", "idle"} \cup InspectLabels
  <2>1. p # Monitor  BY <1>6, ProcessAssumption
  <2> QED
    BY <1>1, <1>3, <1>i, <2>1
       DEF DeleteRequest, DeleteStep, StopContainer, RemoveContainer, DeleteRow, NeverDropped,
           FindDeployments, InspectStep, ReadRow, InspectContainer, InspectFails, SaveStatus,
           SaveResult, LoopDone, Goto, GotoWith, Return, AfterInspect, InspectLabels,
           RInv, Inv, TypeOK, ProcTypeOK
<1> QED  BY <1>2, <1>4, <1>5, <1>6

LEMMA OtherStepServed ==
  ASSUME WInv, RInv', DomainsAreUnique, NeverDropped, Next,
         ~\E h \in Handlers : CreateRequest(h) \/ CreateStep(h)
  PROVE  Served'
<1>1. PICK p \in Procs :
        /\ Move(p) /\ OthersRest(p) /\ UNCHANGED <<proxyVars, acked>>
        /\ p \in Handlers =>
             pc'[p] \in {"stop", "remove", "deleteRow", "idle"} \cup InspectLabels
  BY OtherStep
<1>2. p \in Handlers => CreationServed(p)'
  BY <1>1, NotServing DEF CreateLabels, InspectLabels
<1> QED  BY <1>1, <1>2, QuietServed

LEMMA NextServed ==
  ASSUME NeverDropped
  PROVE  WInv /\ DomainsAreUnique /\ [Next]_vars => WInv'
<1> SUFFICES ASSUME WInv, DomainsAreUnique, [Next]_vars PROVE WInv'  OBVIOUS
<1>1. RInv'  BY NextReserved DEF WInv
<1>2. CASE UNCHANGED vars
  <2>1. UNCHANGED <<deployments, lastId, nginxConfigs, sites, routes, pc, dep, depID, acked>>
    BY <1>2 DEF vars, tableVars, proxyVars, procVars
  <2> QED
    BY <1>1, <2>1 DEF WInv, Served, NamesLive, AckedServed, CreationServed, Named, Creating
<1>3. CASE Next
  BY <1>1, <1>3, CreateStepServed, OtherStepServed DEF WInv
<1> QED  BY <1>2, <1>3

LEMMA InitServed == Init => WInv
<1> SUFFICES ASSUME Init PROVE WInv  OBVIOUS
<1>1. RInv  BY InitReserved
<1>2. NamesLive  BY DEF Init, ProxyInit, NamesLive
<1>3. AckedServed  BY DEF Init, AckedServed
<1>4. \A h \in Handlers : CreationServed(h)
  BY DEF Init, Procs, CreationServed, Named, Creating, CreateLabels
<1> QED  BY <1>1, <1>2, <1>3, <1>4 DEF WInv, Served

LEMMA ServedIsRouted == WInv => AckedIsRouted
<1> SUFFICES ASSUME WInv, NEW id \in acked \cap live, deployments[id].url # None
             PROVE  routes[deployments[id].url] = deployments[id].port
  BY DEF AckedIsRouted
<1>1. nginxConfigs[id].domainName = deployments[id].url
  BY MapTypes DEF WInv, RInv, Reserved, URLIsReserved
<1> QED  BY <1>1 DEF WInv, Served, AckedServed

(* As long as no two creations reserve one name, and however many run at   *)
(* once, a deployment answered "Created" goes on being served under the    *)
(* URL its row shows: through full disks, kills, reloads that fail and     *)
(* reloads of other deployments (main.go 499-509, proxy.go 55-138).        *)
THEOREM UniqueNamesAreRouted ==
  ASSUME NeverDropped
  PROVE  Spec /\ []DomainsAreUnique => []AckedIsRouted
<1>1. WInv /\ DomainsAreUnique /\ [Next]_vars => WInv'  BY NextServed
<1> QED  BY <1>1, InitServed, ServedIsRouted, PTL DEF Spec

(* With one request at a time, then, it always is.                         *)
THEOREM SerialRouted == ASSUME NeverDropped, OneHandler PROVE Spec => []AckedIsRouted
  BY UniqueNamesAreRouted, SerialDomains, PTL

-----------------------------------------------------------------------------
(* What nginx can load.                                                    *)

(* Every write of a file succeeds, and the daemon generates the key pairs  *)
(* its site files name.                                                    *)
WritesSucceed == "disk" \notin Faults /\ CertProvider = "selfsigned"

LInv == WInv /\ Loadable

(* A step writes files of no name but the one its handler holds.           *)
FilesStay(p) ==
  \/ UNCHANGED fileVars
  \/ /\ p \in Handlers /\ Named(p)
     /\ \A d \in Domains :
           d # dep[p].url =>
             certs'[d] = certs[d] /\ keys'[d] = keys[d] /\ sites'[d] = sites[d]

LEMMA MoveLoadable ==
  ASSUME LInv, DomainsAreUnique, NEW p \in Procs, FilesStay(p), OthersRest(p),
         SitesAreLoadable', p \in Handlers => CreationLoadable(p)'
  PROVE  Loadable'
<1> SUFFICES ASSUME NEW g \in Handlers \ {p} PROVE CreationLoadable(g)'
  BY DEF Loadable
<1>w. WInv  BY DEF LInv
<1>1. CASE pc'[g] = "idle"
  BY <1>1 DEF CreationLoadable, Named, Creating, CreateLabels
<1>2. CASE pc'[g] = pc[g] /\ dep'[g] = dep[g] /\ depID'[g] = depID[g]
  <2>0. CreationLoadable(g)  BY DEF LInv, Loadable
  <2>1. Named(g)' <=> Named(g)  BY <1>2 DEF Named, Creating
  <2>2. pc[g] \in {"writeKey", "writeSite"} => Named(g)
    BY DEF Named, Creating, CreateLabels, NoRowYet
  <2>3. Named(g) => /\ certs'[dep[g].url] = certs[dep[g].url]
                    /\ keys'[dep[g].url] = keys[dep[g].url]
                    /\ sites'[dep[g].url] = sites[dep[g].url]
    BY <1>w, NamedHolds, NamesDiffer DEF FilesStay, fileVars
  <2> QED  BY <1>2, <2>0, <2>1, <2>2, <2>3 DEF CreationLoadable
<1> QED  BY <1>1, <1>2 DEF OthersRest

(* A step that writes no file keeps what can be loaded.                    *)
LEMMA QuietLoadable ==
  ASSUME LInv, DomainsAreUnique, NEW p \in Procs, UNCHANGED fileVars, OthersRest(p),
         p \in Handlers => CreationLoadable(p)'
  PROVE  Loadable'
<1>1. SitesAreLoadable'
  BY DEF LInv, Loadable, SitesAreLoadable, ConfigValid, HasKeyPair, fileVars
<1>2. FilesStay(p)  BY DEF FilesStay
<1> QED  BY <1>1, <1>2, MoveLoadable

(* A name that is being reserved has no site yet: the deployment whose     *)
(* site it were would have reserved it too.                                *)
LEMMA NoSiteYet ==
  ASSUME WInv, WInv', DomainsAreUnique', NEW h \in Handlers, ReserveDomain(h)
  PROVE  sites[dep[h].url] = None
<1> SUFFICES ASSUME sites[dep[h].url] # None PROVE FALSE  OBVIOUS
<1>1. depID[h] \in Ids /\ pc[h] = "reserveDomain"
  BY CreatingRow DEF WInv, ReserveDomain, Creating, CreateLabels, NoRowYet
<1>2. dep[h].url \in Domains /\ dep[h].url # None
  BY <1>1 DEF WInv, RInv, Inv, TypeOK, ProcTypeOK, Deployment, Procs, Reserved,
              CreationReserved
<1>3. nginxConfigs[depID[h]].domainName = None
  BY <1>1 DEF WInv, RInv, Reserved, CreationReserved
<1>4. PICK id \in 1..lastId : nginxConfigs[id].domainName = dep[h].url
  BY <1>2 DEF WInv, RInv, Reserved, SitesLeadToReserver, LeadsToReserver
<1>5. id \in Ids /\ id # depID[h]
  BY <1>2, <1>3, <1>4, MapTypes, BoundsAssumption DEF WInv, Ids
<1>6. ASSUME NEW k \in Ids
      PROVE  nginxConfigs'[k].domainName = IF k = depID[h] THEN dep[h].url
                                           ELSE nginxConfigs[k].domainName
  BY <1>1, MapTypes DEF WInv, ReserveDomain, InsertConfig
<1>7. /\ nginxConfigs'[id].domainName = dep[h].url
      /\ nginxConfigs'[depID[h]].domainName = dep[h].url
  BY <1>1, <1>4, <1>5, <1>6
<1>8. nginxConfigs'[id].row = "live" /\ nginxConfigs'[depID[h]].row = "live"
  BY <1>1, <1>2, <1>5, <1>7 DEF WInv, Served, NamesLive
<1> QED  BY <1>1, <1>5, <1>7, <1>8 DEF DomainsAreUnique, LiveConfigs

LEMMA NotLoading ==
  ASSUME NEW h, ~Named(h)'
  PROVE  CreationLoadable(h)'
  BY DEF CreationLoadable, Named, Creating, CreateLabels, NoRowYet

(* A creation that writes no file, or has no site to write yet, goes on.   *)
LEMMA GoesOnLoadable ==
  ASSUME LInv, NEW h \in Handlers, Named(h), UNCHANGED sites, dep'[h].url = dep[h].url,
         pc[h] \notin {"reload", "saveRunning"}, pc'[h] \notin {"writeKey", "writeSite"}
  PROVE  CreationLoadable(h)'
  BY DEF LInv, Loadable, CreationLoadable

LEMMA CreateStepLoadable ==
  ASSUME LInv, WInv', DomainsAreUnique, DomainsAreUnique', WritesSucceed,
         NEW h \in Handlers, CreateRequest(h) \/ CreateStep(h)
  PROVE  Loadable'
<1> h \in Procs  BY DEF Procs
<1>w. WInv /\ RInv  BY DEF LInv, WInv
<1>d. dep[h] \in Deployment  BY <1>w DEF RInv, Inv, TypeOK, ProcTypeOK
<1>c. CreationLoadable(h)  BY DEF LInv, Loadable
<1>f. /\ certs \in [Domains -> 0..MaxId] /\ keys \in [Domains -> 0..MaxId]
      /\ sites \in [Domains -> Ports \cup {None}]
  BY <1>w DEF RInv, Inv, TypeOK, ProxyTypeOK
<1>1. CASE \/ CreateRequest(h) \/ PickPort(h) \/ PickDomain(h) \/ DockerRefuses(h)
           \/ CreateProxyFails(h) \/ InsertDeployment(h) \/ SaveRunning(h)
  <2>1. /\ OthersWait(h)
        /\ pc'[h] \in {"pickPort", "insertDeployment", "pickDomain", "reserveDomain", "idle"}
    BY <1>1, <1>w, GotoFacts, GotoWithFacts
       DEF CreateRequest, PickPort, PickDomain, DockerRefuses, CreateProxyFails,
           InsertDeployment, SaveRunning, Return, OthersWait, RInv, Inv, TypeOK, ProcTypeOK
  <2>2. CreationLoadable(h)'
    BY <2>1, NotLoading DEF Named, Creating, CreateLabels, NoRowYet
  <2>3. UNCHANGED fileVars
    BY <1>1 DEF CreateRequest, PickPort, PickDomain, DockerRefuses, CreateProxyFails,
                InsertDeployment, SaveRunning, proxyVars, fileVars
  <2> QED  BY <2>1, <2>2, <2>3, OthersWaitRest, QuietLoadable
<1>2. CASE ReserveDomain(h)
  <2>1. OthersWait(h) /\ dep'[h] = dep[h] /\ pc'[h] = "saveURL"
    BY <1>2, <1>w, GotoFacts DEF ReserveDomain
  <2>2. UNCHANGED fileVars  BY <1>2 DEF ReserveDomain, InsertConfig, fileVars
  <2>3. CreationLoadable(h)'
    BY <1>2, <1>w, <2>1, <2>2, NoSiteYet DEF CreationLoadable, fileVars
  <2> QED  BY <2>1, <2>2, <2>3, OthersWaitRest, QuietLoadable
<1>3. CASE SaveDeployment(h) \/ StartMongo(h) \/ StartContainer(h)
  <2>1. /\ OthersWait(h) /\ dep'[h] = dep[h]
        /\ pc'[h] \in {"createMongo", "createContainer", "startMongo", "startContainer",
                       "writeCert"}
        /\ pc[h] \in {"saveURL", "saveMongo", "saveContainer", "startMongo", "startContainer"}
    BY <1>3, <1>w, GotoFacts
       DEF SaveDeployment, AfterSave, StartMongo, StartContainer, WritesSucceed
  <2>2. UNCHANGED fileVars
    BY <1>3 DEF SaveDeployment, StartMongo, StartContainer, proxyVars, fileVars
  <2>3. Named(h)  BY <2>1 DEF Named, Creating, CreateLabels, NoRowYet
  <2>4. CreationLoadable(h)'  BY <2>1, <2>2, <2>3, GoesOnLoadable DEF fileVars
  <2> QED  BY <2>1, <2>2, <2>4, OthersWaitRest, QuietLoadable
<1>4. CASE CreateMongo(h) \/ CreateContainer(h)
  <2>1. PICK row : \/ CreateMongo(h) /\ row = [dep[h] EXCEPT !.mongoContainerID = lastCtr + 1]
                   \/ CreateContainer(h) /\ row = [dep[h] EXCEPT !.containerID = lastCtr + 1]
    BY <1>4
  <2>2. row.url = dep[h].url  BY <1>d, <2>1 DEF Deployment
  <2>3. /\ OthersWait(h) /\ dep'[h] = row /\ pc'[h] \in {"saveMongo", "saveContainer"}
        /\ pc[h] \in {"createMongo", "createContainer"}
    BY <1>w, <2>1, GotoWithFacts DEF CreateMongo, CreateContainer
  <2>4. UNCHANGED fileVars
    BY <1>4 DEF CreateMongo, CreateContainer, proxyVars, fileVars
  <2>5. Named(h)  BY <2>3 DEF Named, Creating, CreateLabels, NoRowYet
  <2>6. CreationLoadable(h)'  BY <2>2, <2>3, <2>4, <2>5, GoesOnLoadable DEF fileVars
  <2> QED  BY <2>3, <2>4, <2>6, OthersWaitRest, QuietLoadable
<1>5. CASE WriteCertificate(h) \/ WritePrivateKey(h)
  <2>1. /\ OthersWait(h) /\ depID'[h] = depID[h] /\ dep'[h] = dep[h]
        /\ pc[h] \in {"writeCert", "writeKey"}
        /\ pc[h] = "writeCert" => pc'[h] = "writeKey"
        /\ pc[h] = "writeKey" => pc'[h] = "writeSite"
    BY <1>5, <1>w, GotoFacts DEF WriteCertificate, WritePrivateKey
  <2>2. Named(h)  BY <2>1 DEF Named, Creating, CreateLabels, NoRowYet
  <2>3. PICK d \in Domains : d = dep[h].url  BY <1>w, <2>2, NamedHolds
  <2>4. sites[d] = None /\ (pc[h] = "writeKey" => certs[d] = depID[h])
    BY <1>c, <2>1, <2>2, <2>3 DEF CreationLoadable
  <2>5. /\ sites' = sites
        /\ \A e \in Domains : e # d => certs'[e] = certs[e] /\ keys'[e] = keys[e]
        /\ pc[h] = "writeCert" => certs'[d] = depID[h]
        /\ pc[h] = "writeKey" => certs'[d] = certs[d] /\ keys'[d] = depID[h]
    BY <1>5, <1>f, <2>3 DEF WriteCertificate, WritePrivateKey, WriteCertificateToFile,
                            WritePrivateKeyToFile, Written, WritesSucceed
  <2>6. CreationLoadable(h)'
    BY <2>1, <2>3, <2>4, <2>5 DEF CreationLoadable
  <2>7. SitesAreLoadable'
    BY <2>4, <2>5 DEF LInv, Loadable, SitesAreLoadable, ConfigValid, HasKeyPair
  <2>8. FilesStay(h)  BY <2>2, <2>3, <2>5 DEF FilesStay
  <2> QED  BY <2>1, <2>6, <2>7, <2>8, OthersWaitRest, MoveLoadable
<1>6. CASE WriteSiteFile(h)
  <2>1. /\ OthersWait(h) /\ dep'[h] = dep[h] /\ pc[h] = "writeSite" /\ pc'[h] = "reload"
    BY <1>6, <1>w, GotoFacts DEF WriteSiteFile
  <2>2. Named(h)  BY <2>1 DEF Named, Creating, CreateLabels, NoRowYet
  <2>3. PICK d \in Domains : d = dep[h].url  BY <1>w, <2>2, NamedHolds
  <2>4. certs[d] = depID[h] /\ keys[d] = depID[h] /\ depID[h] # 0
    BY <1>c, <1>w, <2>1, <2>2, <2>3, NamedHolds DEF CreationLoadable, Ids
  <2>5. /\ certs' = certs /\ keys' = keys
        /\ \A e \in Domains : e # d => sites'[e] = sites[e]
    BY <1>6, <1>f, <2>3 DEF WriteSiteFile, WriteSite
  <2>6. CreationLoadable(h)'  BY <2>1 DEF CreationLoadable
  <2>7. SitesAreLoadable'
    BY <2>4, <2>5 DEF LInv, Loadable, SitesAreLoadable, ConfigValid, HasKeyPair
  <2>8. FilesStay(h)  BY <2>2, <2>3, <2>5 DEF FilesStay
  <2> QED  BY <2>1, <2>6, <2>7, <2>8, OthersWaitRest, MoveLoadable
<1>7. CASE Reload(h)
  <2>1. OthersWait(h) /\ pc'[h] = "saveRunning"
    BY <1>7, <1>w, GotoWithFacts DEF Reload
  <2>2. UNCHANGED fileVars  BY <1>7 DEF Reload, ApplyChanges, fileVars
  <2>3. CreationLoadable(h)'  BY <2>1 DEF CreationLoadable
  <2> QED  BY <2>1, <2>2, <2>3, OthersWaitRest, QuietLoadable
<1>8. ~SiteIsLost(h)  BY DEF SiteIsLost, WritesSucceed
<1> QED  BY <1>1, <1>2, <1>3, <1>4, <1>5, <1>6, <1>7, <1>8 DEF CreateStep

LEMMA NextLoadable ==
  ASSUME NeverDropped, WritesSucceed
  PROVE  LInv /\ DomainsAreUnique /\ DomainsAreUnique' /\ [Next]_vars => LInv'
<1> SUFFICES ASSUME LInv, DomainsAreUnique, DomainsAreUnique', [Next]_vars PROVE LInv'
  OBVIOUS
<1>1. WInv /\ WInv'  BY NextServed DEF LInv
<1>2. CASE UNCHANGED vars
  <2>1. UNCHANGED <<certs, keys, sites, pc, dep, depID>>
    BY <1>2 DEF vars, proxyVars, procVars
  <2> QED
    BY <1>1, <2>1 DEF LInv, Loadable, SitesAreLoadable, ConfigValid, HasKeyPair,
                      CreationLoadable, Named, Creating
<1>3. CASE \E h \in Handlers : CreateRequest(h) \/ CreateStep(h)
  BY <1>1, <1>3, CreateStepLoadable DEF LInv
<1>4. CASE Next /\ ~\E h \in Handlers : CreateRequest(h) \/ CreateStep(h)
  <2>1. PICK p \in Procs :
          /\ OthersRest(p) /\ UNCHANGED proxyVars
          /\ p \in Handlers =>
               pc'[p] \in {"stop", "remove", "deleteRow", "idle"} \cup InspectLabels
    BY <1>1, <1>4, OtherStep
  <2>2. p \in Handlers => CreationLoadable(p)'
    BY <2>1, NotLoading DEF Named, Creating, CreateLabels, NoRowYet, InspectLabels
  <2> QED  BY <1>1, <2>1, <2>2, QuietLoadable DEF proxyVars, fileVars, LInv
<1> QED  BY <1>2, <1>3, <1>4

LEMMA InitLoadable == Init => LInv
<1> SUFFICES ASSUME Init PROVE LInv  OBVIOUS
<1>1. WInv  BY InitServed
<1>2. SitesAreLoadable  BY DEF Init, ProxyInit, SitesAreLoadable, ConfigValid
<1>3. \A h \in Handlers : CreationLoadable(h)
  BY DEF Init, Procs, CreationLoadable, Named, Creating, CreateLabels
<1> QED  BY <1>1, <1>2, <1>3 DEF LInv, Loadable

(* As long as no two creations reserve one name, however many run at once, *)
(* and no file is cut short, nginx can always load what CreateProxy left   *)
(* in the sites directory: a creation that fails or is killed half way     *)
(* keeps nobody's proxy from being loaded (proxy.go 63-138).               *)
THEOREM UniqueNamesAreLoadable ==
  ASSUME NeverDropped, WritesSucceed
  PROVE  Spec /\ []DomainsAreUnique => []SitesAreLoadable
<1>1. LInv /\ DomainsAreUnique /\ DomainsAreUnique' /\ [Next]_vars => LInv'
  BY NextLoadable
<1>2. LInv => SitesAreLoadable  BY DEF LInv, Loadable
<1> QED  BY <1>1, <1>2, InitLoadable, PTL DEF Spec

(* With one request at a time, then, it always can.                        *)
THEOREM SerialLoadable ==
  ASSUME NeverDropped, WritesSucceed, OneHandler PROVE Spec => []SitesAreLoadable
  BY UniqueNamesAreLoadable, SerialDomains, PTL

-----------------------------------------------------------------------------
(* As long as nothing is deleted.                                          *)

NoDeletes == {"delete", "DeleteDeployment"} \cap Requests = {}

UInv == RInv /\ Undeleted

(* The table only fills, with rows that have a port, and no container is   *)
(* removed.                                                                *)
TableFills ==
  \/ UNCHANGED tableVars
  \/ \E q \in Procs : UpdateRow(depID[q], dep[q])
  \/ \E row \in Deployment : row.port # None /\ Create(row)

HostFills ==
  \/ UNCHANGED dockerVars
  \/ \E c, s : s # "removed" /\ SetState(c, s)
  \/ \E kind, owner, port : NewContainer(kind, owner, port)

Stays(q) ==
  pc'[q] = pc[q] /\ dep'[q] = dep[q] /\ depID'[q] = depID[q] /\ todo'[q] = todo[q]
Ends(q) == pc'[q] = "idle" /\ todo'[q] = {}

LEMMA RowsStay ==
  ASSUME UInv, TableFills
  PROVE  live \subseteq live' /\ live' = 1..lastId' /\ RowsAreDeployments'
<1>0. /\ live = 1..lastId /\ lastId \in Nat /\ lastId \in 0..MaxId /\ live \subseteq Ids
      /\ deployments \in [Ids -> Deployment]
      /\ \A id \in live : id # 0 /\ deployments[id].port # None
  BY MapTypes DEF UInv, Undeleted, NothingDeleted, RowsAreDeployments
<1>1. CASE UNCHANGED tableVars  BY <1>0, <1>1 DEF tableVars, RowsAreDeployments
<1>2. ASSUME NEW q \in Procs, UpdateRow(depID[q], dep[q])
      PROVE  live' = live /\ lastId' = lastId /\ RowsAreDeployments'
  <2>1. live' = live /\ lastId' = lastId  BY <1>2 DEF UpdateRow
  <2>2. ASSUME NEW id \in live PROVE deployments'[id].port = deployments[id].port
    <3>1. StructTracked(q)  BY DEF UInv, RInv, Inv
    <3> QED  BY <1>0, <1>2, <3>1 DEF UpdateRow, StructTracked
  <2> QED  BY <1>0, <2>1, <2>2 DEF RowsAreDeployments
<1>3. ASSUME NEW row \in Deployment, row.port # None, Create(row)
      PROVE  live \subseteq live' /\ live' = 1..lastId' /\ RowsAreDeployments'
  <2>1. lastId' = lastId + 1 /\ live' = live \cup {lastId + 1}  BY <1>3 DEF Create
  <2>2. lastId + 1 \in Ids  BY <1>0, <1>3, BoundsAssumption DEF Create, Ids
  <2>3. \A id \in Ids : deployments'[id] = IF id = lastId + 1 THEN row ELSE deployments[id]
    BY <1>0, <1>3 DEF Create
  <2>4. live' = 1..lastId'  BY <1>0, <2>1
  <2>5. RowsAreDeployments'
    BY <1>0, <1>3, <2>1, <2>2, <2>3 DEF RowsAreDeployments
  <2> QED  BY <2>1, <2>4, <2>5
<1> QED  BY <1>0, <1>1, <1>2, <1>3 DEF TableFills

LEMMA ContainersStay ==
  ASSUME UInv, HostFills
  PROVE  \A c \in 1..lastCtr' : containers'[c].state # "removed"
<1>0. /\ lastCtr \in Nat /\ lastCtr \in 0..MaxCtr
      /\ containers \in [ContainerIds -> Container]
      /\ \A c \in 1..lastCtr : c \in ContainerIds /\ containers[c].state # "removed"
  BY MapTypes, BoundsAssumption DEF UInv, Undeleted, NothingDeleted, ContainerIds
<1>1. CASE UNCHANGED dockerVars  BY <1>0, <1>1 DEF dockerVars
<1>2. ASSUME NEW c, NEW s, s # "removed", SetState(c, s)
      PROVE  \A k \in 1..lastCtr' : containers'[k].state # "removed"
  <2>1. \A k \in ContainerIds :
           containers'[k] = IF k = c THEN [containers[k] EXCEPT !.state = s]
                                     ELSE containers[k]
    BY <1>0, <1>2 DEF SetState
  <2>2. \A k \in ContainerIds : [containers[k] EXCEPT !.state = s].state = s
    BY <1>0 DEF Container
  <2> QED  BY <1>0, <1>2, <2>1, <2>2 DEF SetState
<1>3. ASSUME NEW kind, NEW owner, NEW port, NewContainer(kind, owner, port)
      PROVE  \A k \in 1..lastCtr' : containers'[k].state # "removed"
  <2>1. \A k \in 1..lastCtr' : k \in ContainerIds /\ (k \in 1..lastCtr \/ k = lastCtr + 1)
    BY <1>0, <1>3, BoundsAssumption DEF NewContainer, ContainerIds
  <2> QED  BY <1>0, <1>3, <2>1 DEF NewContainer
<1> QED  BY <1>1, <1>2, <1>3 DEF HostFills

LEMMA MoveUndeleted ==
  ASSUME UInv, TableFills, HostFills, NEW p \in Procs,
         \A q \in Procs \ {p} : Stays(q) \/ Ends(q), FindsItsRow(p)',
         p \in Handlers =>
           /\ pc'[p] \notin DeleteLabels
           /\ pc'[p] = "insertDeployment" => dep'[p].port # None
  PROVE  Undeleted'
<1>1. live \subseteq live' /\ live' = 1..lastId' /\ RowsAreDeployments'  BY RowsStay
<1>2. \A q \in Procs : FindsItsRow(q)'
  <2> SUFFICES ASSUME NEW q \in Procs \ {p} PROVE FindsItsRow(q)'  OBVIOUS
  <2>1. FindsItsRow(q)  BY DEF UInv, Undeleted
  <2>2. CASE Stays(q)  BY <1>1, <2>1, <2>2 DEF FindsItsRow, Stays
  <2>3. CASE Ends(q)  BY <2>3 DEF FindsItsRow, Ends, InspectLabels
  <2> QED  BY <2>2, <2>3
<1>3. ASSUME NEW h \in Handlers
      PROVE  /\ pc'[h] \notin DeleteLabels
             /\ pc'[h] = "insertDeployment" => dep'[h].port # None
  <2>1. CASE h = p  BY <2>1
  <2>2. CASE h # p
    <3>1. Stays(h) \/ Ends(h)  BY <2>2 DEF Procs
    <3> QED
      BY <3>1 DEF UInv, Undeleted, NothingDeleted, Stays, Ends, DeleteLabels
  <2> QED  BY <2>1, <2>2
<1> QED  BY <1>1, <1>2, <1>3, ContainersStay DEF Undeleted, NothingDeleted

(* The container that a process inspects is there.                         *)
LEMMA InspectFinds ==
  ASSUME UInv, NEW p \in Procs, pc[p] = "inspect" PROVE Exists(dep[p].containerID)
<1>1. dep[p].containerID # 0 /\ dep[p].containerID <= lastCtr /\ dep[p] \in Deployment
  BY DEF UInv, Undeleted, FindsItsRow, RInv, Inv, TypeOK, ProcTypeOK, StructTracked, Tracked
<1>2. dep[p].containerID \in 1..lastCtr
  BY <1>1, MapTypes, BoundsAssumption DEF UInv, Deployment
<1> QED  BY <1>1, <1>2 DEF Exists, UInv, Undeleted, NothingDeleted

LEMMA ProcTypes ==
  ASSUME RInv
  PROVE  /\ pc \in [Procs -> Labels] /\ dep \in [Procs -> Deployment]
         /\ depID \in [Procs -> 0..MaxId] /\ todo \in [Procs -> SUBSET Ids]
  BY DEF RInv, Inv, TypeOK, ProcTypeOK

LEMMA CreateStepUndeleted ==
  ASSUME UInv, NEW h \in Handlers, CreateRequest(h) \/ CreateStep(h)
  PROVE  Undeleted'
<1> h \in Procs  BY DEF Procs
<1>i. RInv /\ FindsItsRow(h)  BY DEF UInv, Undeleted
<1>o. \A q \in Procs \ {h} : Stays(q)
  BY <1>i, ProcTypes
     DEF CreateRequest, CreateStep, PickPort, InsertDeployment, PickDomain, ReserveDomain,
         SaveDeployment, CreateMongo, StartMongo, CreateContainer, StartContainer,
         DockerRefuses, WriteCertificate, WritePrivateKey, WriteSiteFile, Reload,
         CreateProxyFails, SiteIsLost, SaveRunning, Goto, GotoWith, Return, Stays
<1>p. /\ pc'[h] \in CreateLabels \cup {"idle"}
      /\ todo'[h] = todo[h] \/ todo'[h] = {}
  BY <1>i, ProcTypes
     DEF CreateRequest, CreateStep, PickPort, InsertDeployment, PickDomain, ReserveDomain,
         SaveDeployment, AfterSave, CreateMongo, StartMongo, CreateContainer, StartContainer,
         DockerRefuses, WriteCertificate, WritePrivateKey, WriteSiteFile, Reload,
         CreateProxyFails, SiteIsLost, SaveRunning, Goto, GotoWith, Return, CreateLabels
<1>t. TableFills
  <2>1. CASE InsertDeployment(h)
    <3>1. dep[h] \in Deployment /\ dep[h].port # None
      BY <1>i, <2>1, ProcTypes DEF InsertDeployment, UInv, Undeleted
    <3> QED  BY <2>1, <3>1 DEF InsertDeployment, TableFills
  <2>2. CASE SaveDeployment(h) \/ SaveRunning(h)
    BY <2>2 DEF SaveDeployment, SaveRunning, TableFills
  <2>3. CASE ~InsertDeployment(h) /\ ~SaveDeployment(h) /\ ~SaveRunning(h)
    BY <2>3 DEF CreateRequest, CreateStep, PickPort, PickDomain, ReserveDomain, CreateMongo,
       StartMongo, CreateContainer, StartContainer, DockerRefuses, WriteCertificate,
       WritePrivateKey, WriteSiteFile, Reload, CreateProxyFails, SiteIsLost, TableFills
  <2> QED  BY <2>1, <2>2, <2>3
<1>d. HostFills
  <2>1. CASE CreateMongo(h) \/ CreateContainer(h)
    BY <2>1 DEF CreateMongo, CreateContainer, HostFills
  <2>2. CASE StartMongo(h) \/ StartContainer(h)
    BY <2>2 DEF StartMongo, StartContainer, HostFills
  <2>3. CASE ~CreateMongo(h) /\ ~CreateContainer(h) /\ ~StartMongo(h) /\ ~StartContainer(h)
    BY <2>3 DEF CreateRequest, CreateStep, PickPort, InsertDeployment, PickDomain,
       ReserveDomain, SaveDeployment, DockerRefuses, WriteCertificate, WritePrivateKey,
       WriteSiteFile, Reload, CreateProxyFails, SiteIsLost, SaveRunning, HostFills
  <2> QED  BY <2>1, <2>2, <2>3
<1>1. FindsItsRow(h)'
  BY <1>i, <1>p, <1>t, RowsStay DEF FindsItsRow, CreateLabels, InspectLabels
<1>2. pc'[h] = "insertDeployment" => dep'[h].port # None
  <2>1. CASE PickPort(h)
    <3>1. PICK port \in Ports : dep'[h] = [Blank EXCEPT !.port = port]
      BY <1>i, <2>1, GotoWithFacts DEF PickPort
    <3> QED  BY <3>1, NoneAssumption DEF Blank
  <2>2. CASE ~PickPort(h)
    BY <1>i, <2>2, ProcTypes
     DEF CreateRequest, CreateStep, InsertDeployment, PickDomain, ReserveDomain,
         SaveDeployment, AfterSave, CreateMongo, StartMongo, CreateContainer, StartContainer,
         DockerRefuses, WriteCertificate, WritePrivateKey, WriteSiteFile, Reload,
         CreateProxyFails, SiteIsLost, SaveRunning, Goto, GotoWith, Return
  <2> QED  BY <2>1, <2>2
<1> QED
  BY <1>o, <1>p, <1>t, <1>d, <1>1, <1>2, MoveUndeleted DEF CreateLabels, DeleteLabels

LEMMA InspectStepUndeleted ==
  ASSUME UInv, NEW p \in Procs, FindDeployments(p) \/ InspectStep(p)
  PROVE  Undeleted'
<1>i. RInv /\ FindsItsRow(p)  BY DEF UInv, Undeleted
<1>o. \A q \in Procs \ {p} : Stays(q) \/ Ends(q)
  BY <1>i, ProcTypes
     DEF FindDeployments, InspectStep, ReadRow, InspectContainer, InspectFails, SaveStatus,
         SaveResult, LoopDone, Goto, GotoWith, Return, Crash, Stays, Ends
<1>p. pc'[p] \in InspectLabels \cup {"idle"}
  BY <1>i, ProcTypes
     DEF FindDeployments, InspectStep, ReadRow, InspectContainer, InspectFails, SaveStatus,
         SaveResult, LoopDone, AfterInspect, Goto, GotoWith, Return, Crash, InspectLabels
<1>d. HostFills
  BY DEF FindDeployments, InspectStep, ReadRow, InspectContainer, InspectFails, SaveStatus,
         SaveResult, LoopDone, HostFills
<1>t. TableFills
  <2>1. CASE SaveStatus(p)  BY <2>1 DEF SaveStatus, TableFills
  <2>2. CASE SaveResult(p)
    BY <1>i, <2>2 DEF SaveResult, Save, FindsItsRow, InspectLabels, TableFills
  <2>3. CASE ~SaveStatus(p) /\ ~SaveResult(p)
    BY <2>3 DEF FindDeployments, InspectStep, ReadRow, InspectContainer, InspectFails,
                LoopDone, TableFills
  <2> QED  BY <2>1, <2>2, <2>3
<1>l. live \subseteq live'  BY <1>t, RowsStay
<1>1. FindsItsRow(p)'
  <2>1. CASE FindDeployments(p)
    <3>1. pc'[p] = "loop" /\ todo'[p] = live
      BY <1>i, <2>1, ProcTypes DEF FindDeployments
    <3> QED  BY <1>l, <3>1 DEF FindsItsRow
  <2>2. CASE ReadRow(p)
    <3>1. PICK id \in todo[p] :
            /\ todo'[p] = todo[p] \ {id} /\ dep'[p] = FirstRow(id) /\ depID'[p] = FirstId(id)
            /\ pc'[p] = "inspect" => FirstRow(id).containerID # 0
      BY <1>i, <2>2, ProcTypes DEF ReadRow, AfterInspect
    <3>2. id \in live /\ id # 0
      BY <1>i, <3>1, MapTypes DEF FindsItsRow, Ids
    <3> QED  BY <1>i, <1>l, <3>1, <3>2 DEF FindsItsRow, FirstId
  <2>3. CASE InspectContainer(p) \/ SaveStatus(p) \/ SaveResult(p)
    <3>1. /\ depID'[p] = depID[p] /\ todo'[p] = todo[p] /\ pc'[p] # "inspect"
          /\ pc[p] \in InspectLabels \ {"loop"}
      BY <1>i, <2>3, ProcTypes
         DEF InspectContainer, SaveStatus, SaveResult, AfterInspect, Goto, GotoWith,
             InspectLabels
    <3> QED  BY <1>i, <1>l, <3>1 DEF FindsItsRow
  <2>4. CASE InspectFails(p) \/ LoopDone(p)
    <3>1. pc'[p] = "idle" /\ todo'[p] = {}
      BY <1>i, <2>4, ProcTypes DEF InspectFails, LoopDone, Return, Crash
    <3> QED  BY <3>1 DEF FindsItsRow, InspectLabels
  <2> QED  BY <2>1, <2>2, <2>3, <2>4 DEF InspectStep
<1> QED
  BY <1>o, <1>p, <1>t, <1>d, <1>1, MoveUndeleted DEF InspectLabels, DeleteLabels

LEMMA EnvironmentUndeleted ==
  ASSUME UInv, AppExits \/ Kill \/ Restart
  PROVE  Undeleted'
<1> Monitor \in Procs  BY DEF Procs
<1>1. FindsItsRow(Monitor)  BY DEF UInv, Undeleted
<1>2. \A q \in Procs : Stays(q) \/ Ends(q)
  BY DEF AppExits, Kill, Restart, Crash, procVars, Stays, Ends
<1>3. UNCHANGED tableVars  BY DEF AppExits, Kill, Restart
<1>4. HostFills  BY DEF AppExits, Kill, Restart, ContainerExits, HostFills
<1>5. FindsItsRow(Monitor)'
  BY <1>1, <1>2, <1>3 DEF FindsItsRow, Stays, Ends, InspectLabels, tableVars
<1> QED
  BY <1>2, <1>3, <1>4, <1>5, ProcessAssumption, MoveUndeleted DEF TableFills

LEMMA NextUndeleted == ASSUME NoDeletes PROVE UInv /\ [Next]_vars => UInv'
<1> SUFFICES ASSUME UInv, [Next]_vars PROVE UInv'  OBVIOUS
<1>1. RInv'  BY NextReserved DEF UInv
<1>2. CASE UNCHANGED vars
  <2>1. UNCHANGED <<deployments, live, lastId, containers, lastCtr, pc, dep, depID, todo>>
    BY <1>2 DEF vars, tableVars, dockerVars, procVars
  <2> QED
    BY <1>1, <2>1 DEF UInv, Undeleted, NothingDeleted, RowsAreDeployments, FindsItsRow
<1>3. CASE Next
  <2>1. \A h \in Handlers : ~DeleteRequest(h)  BY DEF DeleteRequest, NoDeletes
  <2>2. \A h \in Handlers : ~DeleteStep(h)
    BY DEF DeleteStep, DropProxy, StopContainer, RemoveContainer, DeleteRow, DeleteLabels,
           UInv, Undeleted, NothingDeleted
  <2> QED
    BY <1>1, <1>3, <2>1, <2>2, CreateStepUndeleted, InspectStepUndeleted, EnvironmentUndeleted
       DEF UInv, Next, HandlerStep, MonitorStep, Procs
<1> QED  BY <1>2, <1>3

LEMMA InitUndeleted == Init => UInv
<1> SUFFICES ASSUME Init PROVE UInv  OBVIOUS
<1>1. RInv  BY InitReserved
<1>2. NothingDeleted /\ RowsAreDeployments
  BY DEF Init, TableInit, DockerInit, NothingDeleted, RowsAreDeployments, Procs, DeleteLabels
<1>3. \A p \in Procs : pc[p] = "idle" /\ todo[p] = {}  BY DEF Init
<1> QED
  BY <1>1, <1>2, <1>3 DEF UInv, Undeleted, FindsItsRow, InspectLabels, Procs

(* Rows without a port come from deletes alone: as long as there are none, *)
(* neither sweeps, lists, kills nor failures put one into the table        *)
(* (main.go 533-551).                                                      *)
THEOREM UndeletedRowsAreDeployments ==
  ASSUME NoDeletes PROVE Spec => []RowsAreDeployments
<1>1. UInv /\ [Next]_vars => UInv'  BY NextUndeleted
<1>2. UInv => RowsAreDeployments  BY DEF UInv, Undeleted
<1> QED  BY <1>1, <1>2, InitUndeleted, PTL DEF Spec

(* The monitor's panic too: as long as nothing is deleted and Docker       *)
(* answers, it finds every container a row names (main.go 526-551).        *)
THEOREM UndeletedMonitorSurvives ==
  ASSUME NoDeletes, {"kill", "inspect"} \cap Faults = {}
  PROVE  Spec => []MonitorSurvives
<1>1. UInv /\ up /\ [Next]_vars => UInv' /\ up'
  <2> SUFFICES ASSUME UInv, up, [Next]_vars PROVE UInv' /\ up'  OBVIOUS
  <2>1. UInv'  BY NextUndeleted
  <2>2. CASE UNCHANGED vars  BY <2>1, <2>2 DEF vars
  <2>3. CASE \E h \in Handlers : CreateRequest(h) \/ CreateStep(h)
    BY <2>1, <2>3
       DEF CreateRequest, CreateStep, PickPort, InsertDeployment, PickDomain, ReserveDomain,
           SaveDeployment, CreateMongo, StartMongo, CreateContainer, StartContainer,
           DockerRefuses, WriteCertificate, WritePrivateKey, WriteSiteFile, Reload,
           CreateProxyFails, SiteIsLost, SaveRunning
  <2>4. CASE \E h \in Handlers : DeleteRequest(h) \/ DeleteStep(h)
    BY <2>1, <2>4 DEF DeleteRequest, DeleteStep, DropProxy, StopContainer, RemoveContainer,
                      DeleteRow
  <2>5. CASE \E p \in Procs : FindDeployments(p) \/ InspectStep(p)
    <3>1. \A p \in Procs : ~InspectFails(p)  BY InspectFinds DEF InspectFails
    <3> QED
      BY <2>1, <2>5, <3>1 DEF FindDeployments, InspectStep, ReadRow, InspectContainer,
                              SaveStatus, SaveResult, LoopDone
  <2>6. CASE AppExits \/ Kill \/ Restart  BY <2>1, <2>6 DEF AppExits, Kill, Restart
  <2> QED
    BY <2>2, <2>3, <2>4, <2>5, <2>6 DEF Next, HandlerStep, MonitorStep, Procs
<1>2. Init => up  BY DEF Init
<1> QED  BY <1>1, <1>2, InitUndeleted, PTL DEF Spec, MonitorSurvives

(* And the misrouting: as long as nothing is deleted and no two live       *)
(* deployments share a port, nobody but the deployment of its URL listens  *)
(* behind a route (common.go 41, main.go 585-597).                         *)
THEOREM UndeletedRoutesReachTheirOwn ==
  ASSUME NoDeletes PROVE Spec /\ []PortsAreUnique => []RouteReachesItsOwn
<1>1. UInv /\ [Next]_vars => UInv'  BY NextUndeleted
<1>2. UInv /\ OnlyDeletedAreMisrouted => RouteReachesItsOwn
  BY DEF UInv, Undeleted, NothingDeleted, OnlyDeletedAreMisrouted, RouteReachesItsOwn
<1> QED  BY <1>1, <1>2, InitUndeleted, UniquePortsMisrouteDeleted, PTL DEF Spec

(* With one request at a time, then, nobody ever does.                     *)
THEOREM SerialRoutesReachTheirOwn ==
  ASSUME NoDeletes, OneHandler PROVE Spec => []RouteReachesItsOwn
  BY UndeletedRoutesReachTheirOwn, SerialPorts, PTL

-----------------------------------------------------------------------------
(* As long as no lookup fails but with "not found".                        *)

LookupsAnswer == "lookup" \notin Faults

(* A delete under way has the primary key of the row it looked up.         *)
DeleteHasRow(h) == pc[h] \in DeleteLabels => depID[h] # 0

DInv == RInv /\ \A h \in Handlers : DeleteHasRow(h)

LEMMA NextHasRow == ASSUME LookupsAnswer PROVE DInv /\ [Next]_vars => DInv'
<1> SUFFICES ASSUME DInv, [Next]_vars PROVE DInv'  OBVIOUS
<1>i. RInv /\ RInv'  BY NextReserved DEF DInv
<1>0. \A h \in Handlers : DeleteHasRow(h)  BY DEF DInv
<1>1. CASE UNCHANGED vars
  BY <1>i, <1>0, <1>1 DEF vars, procVars, DInv, DeleteHasRow
<1>2. CASE \E g \in Handlers : CreateRequest(g) \/ CreateStep(g)
  <2>1. PICK g \in Handlers : CreateRequest(g) \/ CreateStep(g)  BY <1>2
  <2>2. /\ pc'[g] \in CreateLabels \cup {"idle"}
        /\ \A h \in Handlers \ {g} : pc'[h] = pc[h] /\ depID'[h] = depID[h]
    BY <1>i, <2>1, ProcTypes
       DEF CreateRequest, CreateStep, PickPort, InsertDeployment, PickDomain, ReserveDomain,
           SaveDeployment, AfterSave, CreateMongo, StartMongo, CreateContainer,
           StartContainer, DockerRefuses, WriteCertificate, WritePrivateKey, WriteSiteFile,
           Reload, CreateProxyFails, SiteIsLost, SaveRunning, Goto, GotoWith, Return,
           CreateLabels, Procs
  <2> QED  BY <1>i, <1>0, <2>2 DEF DInv, DeleteHasRow, CreateLabels, DeleteLabels
<1>3. CASE \E g \in Handlers : DeleteRequest(g)
  <2>1. PICK g \in Handlers, id \in live :
          /\ depID'[g] = id
          /\ \A h \in Handlers \ {g} : pc'[h] = pc[h] /\ depID'[h] = depID[h]
    BY <1>i, <1>3, ProcTypes DEF DeleteRequest, LookupsAnswer, Procs
  <2>2. id # 0  BY <1>i, MapTypes DEF Ids
  <2> QED  BY <1>i, <1>0, <2>1, <2>2 DEF DInv, DeleteHasRow
<1>4. CASE \E g \in Handlers : DeleteStep(g)
  <2>1. PICK g \in Handlers : DeleteStep(g)  BY <1>4
  <2>2. /\ \/ pc'[g] = "idle"
           \/ pc[g] \in DeleteLabels /\ depID'[g] = depID[g]
        /\ \A h \in Handlers \ {g} : pc'[h] = pc[h] /\ depID'[h] = depID[h]
    BY <1>i, <2>1, ProcTypes
       DEF DeleteStep, DropProxy, StopContainer, RemoveContainer, DeleteRow, Goto, Return,
           DeleteLabels, Procs
  <2> QED  BY <1>i, <1>0, <2>2 DEF DInv, DeleteHasRow, DeleteLabels
<1>5. CASE \E p \in Procs : FindDeployments(p) \/ InspectStep(p)
  <2>1. PICK p \in Procs : FindDeployments(p) \/ InspectStep(p)  BY <1>5
  <2>2. /\ pc'[p] \in InspectLabels \cup {"idle"}
        /\ \A h \in Procs \ {p} : \/ pc'[h] = pc[h] /\ depID'[h] = depID[h]
                                  \/ pc'[h] = "idle"
    BY <1>i, <2>1, ProcTypes
       DEF FindDeployments, InspectStep, ReadRow, InspectContainer, InspectFails, SaveStatus,
           SaveResult, LoopDone, AfterInspect, Goto, GotoWith, Return, Crash, InspectLabels
  <2> QED
    BY <1>i, <1>0, <2>2 DEF DInv, DeleteHasRow, InspectLabels, DeleteLabels, Procs
<1>6. CASE AppExits \/ Kill \/ Restart
  BY <1>i, <1>0, <1>6
     DEF AppExits, Kill, Restart, Crash, procVars, DInv, DeleteHasRow, DeleteLabels, Procs
<1> QED
  BY <1>1, <1>2, <1>3, <1>4, <1>5, <1>6 DEF Next, HandlerStep, MonitorStep, Procs

LEMMA NextDeletesOne == DInv /\ Next => \E id : live \ live' \subseteq {id}
<1> SUFFICES ASSUME DInv, Next PROVE \E id : live \ live' \subseteq {id}  OBVIOUS
<1>1. CASE \E g \in Handlers : DeleteRow(g)
  <2>1. PICK g \in Handlers : DeleteRow(g)  BY <1>1
  <2>2. depID[g] # 0  BY <2>1 DEF DeleteRow, DInv, DeleteHasRow, DeleteLabels
  <2> QED  BY <2>1, <2>2 DEF DeleteRow, Delete
<1>2. CASE ~\E g \in Handlers : DeleteRow(g)
  <2>1. CASE \E h \in Handlers : CreateRequest(h) \/ CreateStep(h)
    <3>1. UNCHANGED tableVars \/ (\E id, row : UpdateRow(id, row)) \/ \E row : Create(row)
      BY <2>1 DEF CreateStep, CreateRequest, PickPort, InsertDeployment, PickDomain,
         ReserveDomain, SaveDeployment, CreateMongo, StartMongo, CreateContainer,
         StartContainer, DockerRefuses, WriteCertificate, WritePrivateKey,
         WriteSiteFile, Reload, CreateProxyFails, SiteIsLost, SaveRunning
    <3> QED  BY <3>1 DEF tableVars, UpdateRow, Create
  <2>2. CASE \E h \in Handlers : DeleteRequest(h) \/ DeleteStep(h)
    BY <1>2, <2>2 DEF DeleteRequest, DeleteStep, DropProxy, StopContainer, RemoveContainer,
                      tableVars
  <2>3. CASE \E p \in Procs : FindDeployments(p) \/ InspectStep(p)
    <3>1. UNCHANGED tableVars \/ (\E id, row : UpdateRow(id, row)) \/ \E row : Create(row)
      BY <2>3 DEF InspectStep, FindDeployments, ReadRow, InspectContainer, InspectFails,
                  SaveStatus, SaveResult, Save, LoopDone
    <3> QED  BY <3>1 DEF tableVars, UpdateRow, Create
  <2>4. CASE AppExits \/ Kill \/ Restart
    BY <2>4 DEF AppExits, Kill, Restart, tableVars
  <2> QED  BY <2>1, <2>2, <2>3, <2>4 DEF Next, HandlerStep, MonitorStep, Procs
<1> QED  BY <1>1, <1>2

(* A delete removes the one row it looked up, unless the lookup failed     *)
(* with something other than "not found": nothing else a creation, a sweep *)
(* or a crash does meanwhile blanks the primary key it deletes by (api.go  *)
(* 358-388).                                                               *)
THEOREM AnsweredLookupsDeleteOne == ASSUME LookupsAnswer PROVE Spec => DeletesOneRow
<1> DEFINE One == Cardinality(live \ live') <= 1
<1>1. ASSUME DInv, Next PROVE One
  <2>1. PICK id : live \ live' \subseteq {id}  BY <1>1, NextDeletesOne
  <2>2. IsFiniteSet({id}) /\ Cardinality({id}) = 1  BY FS_Singleton
  <2>3. Cardinality(live \ live') <= Cardinality({id})  BY <2>1, <2>2, FS_Subset
  <2> QED  BY <2>2, <2>3
<1>2. DInv /\ [Next]_vars => [One]_vars  BY <1>1
<1>3. DInv /\ [Next]_vars => DInv'  BY NextHasRow
<1>4. Init => DInv
  BY InitReserved DEF DInv, DeleteHasRow, DeleteLabels, Init, Procs
<1> HIDE DEF One
<1>5. Spec => [][One]_vars  BY <1>2, <1>3, <1>4, PTL DEF Spec
<1> QED  BY <1>5 DEF DeletesOneRow, One

-----------------------------------------------------------------------------
(* As long as no sweep holds the row of a creation that is under way.      *)

Sweeping(p) == pc[p] \in {"inspect", "saveStatus", "saveResult"}

NoOverlap ==
  \A p \in Procs, h \in Handlers :
     Sweeping(p) /\ Creating(h) => depID[p] # depID[h]

(* Whoever holds the row of an acknowledged deployment holds its container *)
(* too.                                                                    *)
SweepKept(p) == Sweeping(p) /\ depID[p] \in acked => dep[p].containerID # 0

Kept ==
  /\ \A id \in acked :
        /\ id \in 1..lastId
        /\ id \in live => deployments[id].containerID # 0
  /\ \A p \in Procs : SweepKept(p)
  /\ \A h \in Handlers : Creating(h) => depID[h] \notin acked

KInv == RInv /\ Kept

(* A process saves what it holds, an acknowledged row with its container.  *)
TableKept(p) ==
  \/ UNCHANGED tableVars
  \/ /\ UpdateRow(depID[p], dep[p])
     /\ depID[p] \in acked' => dep[p].containerID # 0
  \/ \E row : Create(row)
  \/ \E id : Delete(id)

LEMMA RowsKept ==
  ASSUME KInv, NEW p \in Procs, TableKept(p), NEW id \in acked, id \in acked'
  PROVE  id \in 1..lastId' /\ (id \in live' => deployments'[id].containerID # 0)
<1>0. /\ id \in 1..lastId /\ lastId \in Nat /\ id \in Ids /\ id # lastId + 1
      /\ id \in live => deployments[id].containerID # 0
      /\ deployments \in [Ids -> Deployment] /\ live \subseteq Ids
  BY MapTypes, BoundsAssumption DEF KInv, Kept, Ids
<1>1. CASE UNCHANGED tableVars  BY <1>0, <1>1 DEF tableVars
<1>2. CASE UpdateRow(depID[p], dep[p]) /\ (depID[p] \in acked' => dep[p].containerID # 0)
  BY <1>0, <1>2 DEF UpdateRow
<1>3. ASSUME NEW row, Create(row)
      PROVE  id \in 1..lastId' /\ (id \in live' => deployments'[id].containerID # 0)
  BY <1>0, <1>3 DEF Create
<1>4. ASSUME NEW k, Delete(k)
      PROVE  id \in 1..lastId' /\ (id \in live' => deployments'[id].containerID # 0)
  <2>1. live' \subseteq live
    <3>1. CASE k = 0  BY <1>4, <3>1 DEF Delete
    <3>2. CASE k # 0  BY <1>4, <3>2 DEF Delete
    <3> QED  BY <3>1, <3>2
  <2> QED  BY <1>0, <1>4, <2>1 DEF Delete
<1> QED  BY <1>1, <1>2, <1>3, <1>4 DEF TableKept

LEMMA QuietKept ==
  ASSUME KInv, NEW p \in Procs, TableKept(p), AllRest(p), UNCHANGED acked, SweepKept(p)',
         p \in Handlers /\ Creating(p)' => depID'[p] \notin acked
  PROVE  Kept'
<1>1. \A id \in acked' : /\ id \in 1..lastId'
                         /\ id \in live' => deployments'[id].containerID # 0
  BY RowsKept
<1>2. ASSUME NEW q \in Procs \ {p} PROVE SweepKept(q)'
  BY DEF KInv, Kept, SweepKept, Sweeping, AllRest
<1>3. ASSUME NEW h \in Handlers, Creating(h)' PROVE depID'[h] \notin acked'
  BY <1>3 DEF KInv, Kept, AllRest, Creating, CreateLabels, Procs
<1> QED  BY <1>1, <1>2, <1>3 DEF Kept

(* A creation is acknowledged with its container, and nobody holds an      *)
(* older copy of its row.                                                  *)
LEMMA SaveRunningKept ==
  ASSUME KInv, NoOverlap, NEW h \in Handlers, SaveRunning(h)
  PROVE  Kept'
<1> h \in Procs  BY DEF Procs
<1>i. RInv  BY DEF KInv
<1>1. /\ pc[h] = "saveRunning" /\ UpdateRow(depID[h], dep[h])
      /\ acked' = acked \cup {depID[h]} /\ pc'[h] = "idle"
      /\ \A q \in Procs \ {h} : pc'[q] = pc[q] /\ dep'[q] = dep[q] /\ depID'[q] = depID[q]
  BY <1>i, ProcTypes DEF SaveRunning, Return
<1>2. Creating(h) /\ dep[h].containerID # 0
  BY <1>1 DEF Creating, CreateLabels, NoRowYet, KInv, RInv, Inv, CreationTracked, HasContainer
<1>3. depID[h] \in 1..lastId /\ depID[h] \in Ids  BY <1>i, <1>2, CreatingRow
<1>4. TableKept(h)  BY <1>1, <1>2 DEF TableKept
<1>5. ASSUME NEW id \in acked'
      PROVE  id \in 1..lastId' /\ (id \in live' => deployments'[id].containerID # 0)
  <2>1. CASE id \in acked  BY <1>4, <2>1, RowsKept
  <2>2. CASE id = depID[h]
    BY <1>i, <1>1, <1>2, <1>3, <2>2, MapTypes DEF UpdateRow
  <2> QED  BY <1>1, <2>1, <2>2
<1>6. ASSUME NEW q \in Procs PROVE SweepKept(q)'
  <2>1. CASE q = h  BY <1>1, <2>1 DEF SweepKept, Sweeping
  <2>2. CASE q # h
    <3>1. Sweeping(q) => depID[q] # depID[h]  BY <1>2 DEF NoOverlap
    <3> QED  BY <1>1, <2>2, <3>1 DEF KInv, Kept, SweepKept, Sweeping
  <2> QED  BY <2>1, <2>2
<1>7. ASSUME NEW g \in Handlers, Creating(g)' PROVE depID'[g] \notin acked'
  <2>1. g # h  BY <1>1, <1>7 DEF Creating, CreateLabels
  <2>2. Creating(g) /\ depID'[g] = depID[g]  BY <1>1, <1>7, <2>1 DEF Creating, Procs
  <2>3. depID[g] # depID[h]
    BY <1>2, <2>1, <2>2 DEF KInv, RInv, Reserved, CreationsDiffer
  <2> QED  BY <1>1, <2>2, <2>3 DEF KInv, Kept
<1> QED  BY <1>5, <1>6, <1>7 DEF Kept

LEMMA CreateStepKept ==
  ASSUME KInv, NoOverlap, NEW h \in Handlers, CreateRequest(h) \/ CreateStep(h)
  PROVE  Kept'
<1> h \in Procs  BY DEF Procs
<1>i. RInv  BY DEF KInv
<1>k. Creating(h) => depID[h] \notin acked  BY DEF KInv, Kept
<1>1. CASE InsertDeployment(h)
  <2>1. pc'[h] = "pickDomain" /\ depID'[h] = lastId + 1 /\ AllRest(h)
    BY <1>i, <1>1, ProcTypes DEF InsertDeployment, AllRest
  <2>2. lastId + 1 \notin acked  BY <1>i, MapTypes DEF KInv, Kept
  <2>3. TableKept(h) /\ UNCHANGED acked  BY <1>1 DEF InsertDeployment, TableKept
  <2>4. SweepKept(h)'  BY <2>1 DEF SweepKept, Sweeping
  <2> QED  BY <2>1, <2>2, <2>3, <2>4, QuietKept
<1>2. CASE SaveRunning(h)  BY <1>2, SaveRunningKept
<1>3. CASE ~InsertDeployment(h) /\ ~SaveRunning(h)
  <2>1. /\ AllRest(h) /\ pc'[h] \in CreateLabels \cup {"idle"}
        /\ pc'[h] \in NoRowYet \/ (depID'[h] = depID[h] /\ Creating(h))
    BY <1>i, <1>3, ProcTypes
       DEF CreateRequest, CreateStep, PickPort, PickDomain, ReserveDomain,
           SaveDeployment, AfterSave, CreateMongo, StartMongo, CreateContainer, StartContainer,
           DockerRefuses, WriteCertificate, WritePrivateKey, WriteSiteFile, Reload,
           CreateProxyFails, SiteIsLost, Goto, GotoWith, Return, CreateLabels,
           NoRowYet, Creating, AllRest
  <2>2. UNCHANGED acked
    BY <1>3
       DEF CreateRequest, CreateStep, PickPort, PickDomain, ReserveDomain,
           SaveDeployment, CreateMongo, StartMongo, CreateContainer, StartContainer,
           DockerRefuses, WriteCertificate, WritePrivateKey, WriteSiteFile, Reload,
           CreateProxyFails, SiteIsLost
  <2>3. UNCHANGED tableVars \/ (UpdateRow(depID[h], dep[h]) /\ pc[h] \in DOMAIN AfterSave)
    BY <1>3
       DEF CreateRequest, CreateStep, PickPort, PickDomain, ReserveDomain,
           SaveDeployment, CreateMongo, StartMongo, CreateContainer, StartContainer,
           DockerRefuses, WriteCertificate, WritePrivateKey, WriteSiteFile, Reload,
           CreateProxyFails, SiteIsLost
  <2>4. pc[h] \in DOMAIN AfterSave => Creating(h)
    BY DEF AfterSave, Creating, CreateLabels, NoRowYet
  <2>5. TableKept(h)  BY <1>k, <2>2, <2>3, <2>4 DEF TableKept
  <2>6. SweepKept(h)'  BY <2>1 DEF SweepKept, Sweeping, CreateLabels
  <2>7. Creating(h)' => depID'[h] \notin acked  BY <1>k, <2>1 DEF Creating
  <2> QED  BY <2>1, <2>2, <2>5, <2>6, <2>7, QuietKept
<1> QED  BY <1>1, <1>2, <1>3

LEMMA DeleteStepKept ==
  ASSUME KInv, NEW h \in Handlers, DeleteRequest(h) \/ DeleteStep(h)
  PROVE  Kept'
<1> h \in Procs  BY DEF Procs
<1>i. RInv  BY DEF KInv
<1>1. AllRest(h) /\ pc'[h] \in DeleteLabels \cup {"idle"}
  BY <1>i, ProcTypes
     DEF DeleteRequest, DeleteStep, DropProxy, StopContainer, RemoveContainer, DeleteRow,
         Goto, Return, DeleteLabels, AllRest
<1>2. TableKept(h) /\ UNCHANGED acked
  BY DEF DeleteRequest, DeleteStep, DropProxy, StopContainer, RemoveContainer, DeleteRow,
         TableKept
<1> QED
  BY <1>1, <1>2, QuietKept DEF SweepKept, Sweeping, Creating, CreateLabels, DeleteLabels

LEMMA InspectStepKept ==
  ASSUME KInv, NEW p \in Procs, FindDeployments(p) \/ InspectStep(p)
  PROVE  Kept'
<1>i. RInv /\ SweepKept(p)  BY DEF KInv, Kept
<1>1. AllRest(p) /\ pc'[p] \in InspectLabels \cup {"idle"}
  BY <1>i, ProcTypes
     DEF FindDeployments, InspectStep, ReadRow, InspectContainer, InspectFails, SaveStatus,
         SaveResult, LoopDone, AfterInspect, Goto, GotoWith, Return, Crash, InspectLabels,
         AllRest
<1>2. UNCHANGED acked
  BY DEF FindDeployments, InspectStep, ReadRow, InspectContainer, InspectFails, SaveStatus,
         SaveResult, LoopDone
<1>3. TableKept(p)
  <2>1. CASE SaveStatus(p)
    BY <1>i, <1>2, <2>1 DEF SaveStatus, SweepKept, Sweeping, TableKept
  <2>2. CASE SaveResult(p)
    BY <1>i, <1>2, <2>2 DEF SaveResult, Save, SweepKept, Sweeping, TableKept
  <2>3. CASE ~SaveStatus(p) /\ ~SaveResult(p)
    BY <2>3 DEF FindDeployments, InspectStep, ReadRow, InspectContainer, InspectFails,
                LoopDone, TableKept
  <2> QED  BY <2>1, <2>2, <2>3
<1>4. SweepKept(p)'
  <2>1. CASE ReadRow(p)
    <3>1. PICK id \in todo[p] : dep'[p] = FirstRow(id) /\ depID'[p] = FirstId(id)
      BY <1>i, <2>1, ProcTypes DEF ReadRow
    <3>2. 0 \notin acked  BY DEF KInv, Kept
    <3> QED  BY <1>2, <3>1, <3>2 DEF SweepKept, FirstRow, FirstId, KInv, Kept
  <2>2. CASE InspectContainer(p)
    <3>1. PICK row : row = [dep[p] EXCEPT !.status = containers[dep[p].containerID].state]
      OBVIOUS
    <3>2. row.containerID = dep[p].containerID
      BY <1>i, <3>1, ProcTypes DEF Deployment
    <3>3. dep'[p] = row /\ depID'[p] = depID[p] /\ Sweeping(p)
      BY <1>i, <2>2, <3>1, GotoWithFacts DEF InspectContainer, Sweeping
    <3> QED  BY <1>i, <1>2, <3>2, <3>3 DEF SweepKept
  <2>3. CASE SaveStatus(p) \/ SaveResult(p)
    <3>1. dep'[p] = dep[p] /\ depID'[p] = depID[p] /\ Sweeping(p)
      BY <1>i, <2>3, GotoFacts DEF SaveStatus, SaveResult, Sweeping
    <3> QED  BY <1>i, <1>2, <3>1 DEF SweepKept
  <2>4. CASE FindDeployments(p) \/ InspectFails(p) \/ LoopDone(p)
    <3>1. pc'[p] \in {"loop", "idle"}
      BY <1>i, <2>4, ProcTypes DEF FindDeployments, InspectFails, LoopDone, Return, Crash
    <3> QED  BY <3>1 DEF SweepKept, Sweeping
  <2> QED  BY <2>1, <2>2, <2>3, <2>4 DEF InspectStep
<1> QED
  BY <1>1, <1>2, <1>3, <1>4, QuietKept DEF Creating, CreateLabels, InspectLabels

LEMMA NextKept == KInv /\ NoOverlap /\ [Next]_vars => KInv'
<1> SUFFICES ASSUME KInv, NoOverlap, [Next]_vars PROVE KInv'  OBVIOUS
<1>1. RInv'  BY NextReserved DEF KInv
<1>2. CASE UNCHANGED vars
  <2>1. UNCHANGED <<deployments, live, lastId, pc, dep, depID, acked>>
    BY <1>2 DEF vars, tableVars, procVars
  <2> QED  BY <1>1, <2>1 DEF KInv, Kept, SweepKept, Sweeping, Creating
<1>3. CASE AppExits \/ Kill \/ Restart
  <2>1. Monitor \in Procs /\ Monitor \notin Handlers  BY ProcessAssumption DEF Procs
  <2>2. TableKept(Monitor) /\ UNCHANGED acked
    BY <1>3 DEF AppExits, Kill, Restart, TableKept
  <2>3. \A q \in Procs : \/ pc'[q] = pc[q] /\ dep'[q] = dep[q] /\ depID'[q] = depID[q]
                         \/ pc'[q] = "idle" /\ dep'[q] = Blank
    BY <1>3 DEF AppExits, Kill, Restart, Crash, procVars
  <2>4. SweepKept(Monitor)'
    BY <2>1, <2>2, <2>3 DEF KInv, Kept, SweepKept, Sweeping
  <2> QED  BY <1>1, <2>1, <2>2, <2>3, <2>4, QuietKept DEF AllRest, KInv
<1>4. CASE Next /\ ~(AppExits \/ Kill \/ Restart)
  BY <1>1, <1>4, CreateStepKept, DeleteStepKept, InspectStepKept
     DEF KInv, Next, HandlerStep, MonitorStep, Procs
<1> QED  BY <1>2, <1>3, <1>4

(* The container of a deployment answered "Created" stays recorded, and is *)
(* so when it is answered, unless a sweep or a list holds a copy of the    *)
(* row from before its creation ended: neither deletes, nor kills, nor     *)
(* sweeps over other rows or finished deployments lose it (main.go         *)
(* 485-488, 533, 551).                                                     *)
THEOREM UnsweptKeepContainers == Spec /\ []NoOverlap => []AckedHasContainer
<1>1. Init => KInv
  BY InitReserved DEF Init, KInv, Kept, SweepKept, Sweeping, Creating, CreateLabels, Procs
<1>2. KInv => AckedHasContainer  BY DEF KInv, Kept, AckedHasContainer
<1> QED  BY <1>1, <1>2, NextKept, PTL DEF Spec

=============================================================================
