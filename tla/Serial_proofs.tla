--------------------------- MODULE Serial_proofs ---------------------------
(***************************************************************************)
(* Ports and names are looked up and inserted in two steps.  What holds as *)
(* long as no two requests draw the same one between their two steps, and  *)
(* so when there is one request at a time.  The monitor runs beside them   *)
(* all the time.                                                           *)
(***************************************************************************)
EXTENDS Registry_proofs

(* No two creations hold the same draw.                                    *)
PortDrawsDiffer ==
  \A g, h \in Handlers :
     /\ pc[g] = "insertDeployment" /\ pc[h] = "insertDeployment"
     /\ dep[g].port = dep[h].port
     => g = h

NameDrawsDiffer ==
  \A g, h \in Handlers :
     /\ pc[g] = "reserveDomain" /\ pc[h] = "reserveDomain"
     /\ dep[g].url = dep[h].url
     => g = h

(* One request at a time: the handlers are one.                            *)
OneHandler == \A g, h \in Handlers : g = h

(* What was looked up is still so when it is used, and the monitor inserts *)
(* no port.                                                                *)
PortHolds(h) ==
  /\ pc[h] = "insertDeployment" => dep[h].port # None /\ ~PortTaken(dep[h].port)
  /\ pc[h] # "saveResult"

PInv ==
  /\ RInv /\ PortsAreUnique
  /\ \A h \in Handlers : PortHolds(h)
  /\ depID[Monitor] = 0 => dep[Monitor].port = None

NameHolds(h) == pc[h] = "reserveDomain" => IsDomainNameUnique(dep[h].url)

NInv ==
  /\ RInv /\ DomainsAreUnique
  /\ \A h \in Handlers : NameHolds(h)

-----------------------------------------------------------------------------

(* What happens to the table, and what it means for ports.                 *)
Inserts(port) ==
  /\ lastId + 1 \in Ids
  /\ live' = live \cup {lastId + 1}
  /\ deployments'[lastId + 1].port = port
  /\ \A id \in live : deployments'[id].port = deployments[id].port

KeepsPorts ==
  /\ live' \subseteq live
  /\ \A id \in live : deployments'[id].port = deployments[id].port

LEMMA PortsKept ==
  ASSUME PortsAreUnique, KeepsPorts \/ Inserts(None)
  PROVE  /\ PortsAreUnique'
         /\ \A port : port # None /\ ~PortTaken(port) => ~PortTaken(port)'
  BY DEF PortsAreUnique, PortTaken, KeepsPorts, Inserts

LEMMA PortInserted ==
  ASSUME PortsAreUnique, NEW port, ~PortTaken(port), Inserts(port)
  PROVE  PortsAreUnique'
  BY DEF PortsAreUnique, PortTaken, Inserts

(* Every step but an insert keeps the ports.                               *)
LEMMA UpdatesKeepPorts ==
  ASSUME RInv, NEW p \in Procs,
         UNCHANGED tableVars \/ UpdateRow(depID[p], dep[p]) \/ Delete(depID[p])
  PROVE  KeepsPorts
<1>1. CASE UNCHANGED tableVars  BY <1>1 DEF tableVars, KeepsPorts
<1>2. CASE UpdateRow(depID[p], dep[p])
  <2>1. StructTracked(p)  BY DEF RInv, Inv
  <2>2. \A id \in live : /\ id \in Ids /\ id # 0
                         /\ deployments'[id] = IF id = depID[p] THEN dep[p]
                                               ELSE deployments[id]
    BY <1>2, MapTypes DEF UpdateRow, Ids
  <2> QED  BY <1>2, <2>1, <2>2 DEF UpdateRow, KeepsPorts, StructTracked
<1>3. CASE Delete(depID[p])
  <2>1. live' \subseteq live
    <3>1. CASE depID[p] = 0  BY <1>3, <3>1 DEF Delete
    <3>2. CASE depID[p] # 0  BY <1>3, <3>2 DEF Delete
    <3> QED  BY <3>1, <3>2
  <2> QED  BY <1>3, <2>1 DEF Delete, KeepsPorts
<1> QED  BY <1>1, <1>2, <1>3

LEMMA CreateInserts ==
  ASSUME RInv, NEW row, Create(row)
  PROVE  Inserts(row.port)
<1>1. lastId + 1 \in Ids  BY MapTypes, BoundsAssumption DEF Create, Ids
<1>2. \A id \in live : id \in Ids /\ id # lastId + 1
  BY MapTypes DEF Ids
<1> QED  BY <1>1, <1>2, MapTypes DEF Create, Inserts

(* What happens to the reservations, and what it means for names.          *)
KeepsDomains ==
  \A id \in Ids : /\ nginxConfigs'[id].row = "live" => nginxConfigs[id].row = "live"
                  /\ nginxConfigs'[id].domainName = nginxConfigs[id].domainName

LEMMA DomainsKept ==
  ASSUME DomainsAreUnique, KeepsDomains
  PROVE  /\ DomainsAreUnique'
         /\ \A d : IsDomainNameUnique(d) => IsDomainNameUnique(d)'
  BY DEF DomainsAreUnique, IsDomainNameUnique, LiveConfigs, KeepsDomains

LEMMA DomainInserted ==
  ASSUME RInv, DomainsAreUnique, NEW id, NEW d, IsDomainNameUnique(d), InsertConfig(id, d)
  PROVE  DomainsAreUnique'
<1>1. ASSUME NEW k \in Ids
      PROVE  nginxConfigs'[k] = IF k = id THEN [row |-> "live", domainName |-> d,
                                                deploymentID |-> 0]
                                ELSE nginxConfigs[k]
  BY MapTypes DEF InsertConfig
<1> QED  BY <1>1 DEF DomainsAreUnique, IsDomainNameUnique, LiveConfigs

LEMMA ProxyKeepsDomains ==
  ASSUME RInv
  PROVE  /\ UNCHANGED nginxConfigs => KeepsDomains
         /\ DeleteProxyConfiguration => KeepsDomains
<1>1. UNCHANGED nginxConfigs => KeepsDomains  BY DEF KeepsDomains
<1>2. ASSUME DeleteProxyConfiguration PROVE KeepsDomains
  <2>1. KeepsProxy  BY <1>2, KeepsParts
  <2>2. ASSUME NEW id \in Ids, nginxConfigs[id].row # "live"
        PROVE  nginxConfigs'[id].row # "live"
    <3>1. nginxConfigs'[id] = nginxConfigs[id]
      BY <1>2, <2>2 DEF DeleteProxyConfiguration
    <3> QED  BY <2>2, <3>1
  <2> QED  BY <2>1, <2>2 DEF KeepsProxy, NamesKept, KeepsDomains
<1> QED  BY <1>1, <1>2

-----------------------------------------------------------------------------
(* What the actions do to ports, names and the other processes.            *)

AllRest(p) ==
  \A q \in Procs \ {p} :
     \/ pc'[q] = pc[q] /\ dep'[q] = dep[q] /\ depID'[q] = depID[q]
     \/ pc'[q] = "idle" /\ dep'[q] = Blank

LEMMA CreateStepKeeps ==
  ASSUME RInv, NEW h \in Handlers, CreateRequest(h) \/ CreateStep(h)
  PROVE  /\ AllRest(h)
         /\ InsertDeployment(h) \/ KeepsPorts
         /\ ReserveDomain(h) \/ KeepsDomains
         /\ pc'[h] = "insertDeployment" => PickPort(h)
         /\ pc'[h] = "reserveDomain" => PickDomain(h)
         /\ pc'[h] # "saveResult"
<1> h \in Procs  BY DEF Procs
<1>u. UNCHANGED proxyVars => KeepsDomains  BY ProxyKeepsDomains DEF proxyVars
<1>t. UNCHANGED tableVars => KeepsPorts  BY UpdatesKeepPorts
<1>w. OthersWait(h) => AllRest(h)  BY DEF OthersWait, AllRest
<1>1. CASE CreateRequest(h) \/ PickPort(h) \/ PickDomain(h)
  <2>1. /\ OthersWait(h)
        /\ \/ pc'[h] = "pickPort"
           \/ pc'[h] = "insertDeployment" /\ PickPort(h)
           \/ pc'[h] = "reserveDomain" /\ PickDomain(h)
    BY <1>1, GotoFacts, GotoWithFacts DEF CreateRequest, PickPort, PickDomain
  <2>2. KeepsPorts /\ KeepsDomains
    BY <1>1, <1>u, <1>t DEF CreateRequest, PickPort, PickDomain
  <2> QED  BY <1>w, <2>1, <2>2
<1>2. CASE InsertDeployment(h) \/ ReserveDomain(h)
  <2>1. OthersWait(h) /\ pc'[h] \in {"pickDomain", "saveURL"}
    BY <1>2, GotoFacts
       DEF InsertDeployment, ReserveDomain, OthersWait, RInv, Inv, TypeOK, ProcTypeOK
  <2>2. /\ InsertDeployment(h) => KeepsDomains
        /\ ReserveDomain(h) => KeepsPorts
    BY <1>u, <1>t DEF InsertDeployment, ReserveDomain
  <2> QED  BY <1>2, <1>w, <2>1, <2>2
<1>3. CASE SaveDeployment(h)
  <2>1. /\ OthersWait(h)
        /\ pc'[h] \in {"createMongo", "createContainer", "startMongo", "startContainer"}
    BY <1>3, GotoFacts DEF SaveDeployment, AfterSave
  <2>2. KeepsPorts /\ KeepsDomains  BY <1>3, <1>u, UpdatesKeepPorts DEF SaveDeployment
  <2> QED  BY <1>w, <2>1, <2>2
<1>4. CASE CreateMongo(h) \/ CreateContainer(h) \/ Reload(h)
  <2>1. OthersWait(h) /\ pc'[h] \in {"saveMongo", "saveContainer", "saveRunning"}
    BY <1>4, GotoWithFacts DEF CreateMongo, CreateContainer, Reload
  <2>2. KeepsPorts /\ KeepsDomains
    BY <1>4, <1>u, <1>t, ProxyKeepsDomains DEF CreateMongo, CreateContainer, Reload, ApplyChanges
  <2> QED  BY <1>w, <2>1, <2>2
<1>5. CASE StartMongo(h) \/ StartContainer(h) \/ WriteCertificate(h) \/ WritePrivateKey(h)
           \/ WriteSiteFile(h)
  <2>1. /\ OthersWait(h)
        /\ pc'[h] \in {"createContainer", "writeCert", "writeKey", "writeSite", "reload"}
    BY <1>5, GotoFacts
       DEF StartMongo, StartContainer, WriteCertificate, WritePrivateKey, WriteSiteFile
  <2>2. KeepsPorts /\ KeepsDomains
    BY <1>5, <1>t, <1>u, ProxyKeepsDomains
       DEF StartMongo, StartContainer, WriteCertificate, WritePrivateKey, WriteSiteFile,
           WriteCertificateToFile, WritePrivateKeyToFile, WriteSite
  <2> QED  BY <1>w, <2>1, <2>2
<1>6. CASE DockerRefuses(h) \/ CreateProxyFails(h) \/ SiteIsLost(h) \/ SaveRunning(h)
  <2>1. OthersWait(h) /\ pc'[h] = "idle"
    BY <1>6 DEF DockerRefuses, CreateProxyFails, SiteIsLost, SaveRunning, Return,
                OthersWait, RInv, Inv, TypeOK, ProcTypeOK
  <2>2. KeepsPorts /\ KeepsDomains
    BY <1>6, <1>t, <1>u, UpdatesKeepPorts, ProxyKeepsDomains
       DEF DockerRefuses, CreateProxyFails, SiteIsLost, SaveRunning, WriteSite
  <2> QED  BY <1>w, <2>1, <2>2
<1> QED  BY <1>1, <1>2, <1>3, <1>4, <1>5, <1>6 DEF CreateStep

LEMMA DeleteStepKeeps ==
  ASSUME RInv, NEW h \in Handlers, DeleteRequest(h) \/ DeleteStep(h)
  PROVE  AllRest(h) /\ KeepsPorts /\ KeepsDomains /\ pc'[h] \in DeleteLabels \cup {"idle"}
<1> h \in Procs  BY DEF Procs
<1>1. AllRest(h) /\ pc'[h] \in DeleteLabels \cup {"idle"}
  BY DEF DeleteRequest, DeleteStep, DropProxy, StopContainer, RemoveContainer, DeleteRow,
     Goto, Return, DeleteLabels, AllRest, RInv, Inv, TypeOK, ProcTypeOK
<1>2. KeepsPorts
  BY UpdatesKeepPorts
     DEF DeleteRequest, DeleteStep, DropProxy, StopContainer, RemoveContainer, DeleteRow
<1>3. KeepsDomains
  BY ProxyKeepsDomains
     DEF DeleteRequest, DeleteStep, DropProxy, StopContainer, RemoveContainer, DeleteRow,
         proxyVars
<1> QED  BY <1>1, <1>2, <1>3

LEMMA InspectStepKeeps ==
  ASSUME RInv, NEW p \in Procs, FindDeployments(p) \/ InspectStep(p)
  PROVE  /\ AllRest(p) /\ KeepsDomains
         /\ KeepsPorts \/ (SaveResult(p) /\ depID[p] = 0)
         /\ pc'[p] \in InspectLabels \cup {"idle"}
         /\ p # Monitor => pc'[p] # "saveResult"
<1>1. /\ AllRest(p) /\ pc'[p] \in InspectLabels \cup {"idle"}
      /\ p # Monitor => pc'[p] # "saveResult"
  BY DEF FindDeployments, InspectStep, ReadRow, InspectContainer, InspectFails, SaveStatus,
     SaveResult, LoopDone, AfterInspect, Goto, GotoWith, Return, Crash, InspectLabels,
     AllRest, RInv, Inv, TypeOK, ProcTypeOK
<1>2. KeepsDomains
  BY ProxyKeepsDomains
     DEF FindDeployments, InspectStep, ReadRow, InspectContainer, InspectFails, SaveStatus,
         SaveResult, LoopDone, proxyVars
<1>3. KeepsPorts \/ (SaveResult(p) /\ depID[p] = 0)
  BY UpdatesKeepPorts
     DEF FindDeployments, InspectStep, ReadRow, InspectContainer, InspectFails, SaveStatus,
         SaveResult, Save, LoopDone
<1> QED  BY <1>1, <1>2, <1>3

LEMMA EnvironmentKeeps ==
  ASSUME RInv, AppExits \/ Kill \/ Restart
  PROVE  /\ AllRest(Monitor) /\ KeepsPorts /\ KeepsDomains
         /\ \/ dep'[Monitor] = dep[Monitor] /\ depID'[Monitor] = depID[Monitor]
            \/ dep'[Monitor] = Blank
<1> Monitor \in Procs  BY DEF Procs
<1>1. KeepsPorts  BY UpdatesKeepPorts DEF AppExits, Kill, Restart
<1>2. KeepsDomains  BY ProxyKeepsDomains DEF AppExits, Kill, Restart, proxyVars
<1>3. \A q \in Procs : \/ pc'[q] = pc[q] /\ dep'[q] = dep[q] /\ depID'[q] = depID[q]
                       \/ pc'[q] = "idle" /\ dep'[q] = Blank
  BY DEF AppExits, Kill, Restart, Crash, procVars
<1> QED  BY <1>1, <1>2, <1>3 DEF AllRest

-----------------------------------------------------------------------------
(* Names.                                                                  *)

LEMMA QuietNames ==
  ASSUME NInv, RInv', KeepsDomains, NEW p \in Procs, AllRest(p),
         p \in Handlers => NameHolds(p)'
  PROVE  NInv'
<1>1. DomainsAreUnique'  BY DomainsKept DEF NInv
<1>2. ASSUME NEW h \in Handlers \ {p}, pc'[h] = "reserveDomain"
      PROVE  IsDomainNameUnique(dep[h].url)'
  <2>1. pc[h] = "reserveDomain" /\ dep'[h] = dep[h]
    BY <1>2 DEF AllRest, Procs
  <2>2. IsDomainNameUnique(dep[h].url)  BY <2>1 DEF NInv, NameHolds
  <2> QED  BY <2>1, <2>2, DomainsKept DEF NInv, IsDomainNameUnique, LiveConfigs
<1> QED  BY <1>1, <1>2 DEF NInv, NameHolds, IsDomainNameUnique, LiveConfigs

LEMMA ReserveNames ==
  ASSUME NInv, RInv', NameDrawsDiffer, NEW h \in Handlers, ReserveDomain(h)
  PROVE  NInv'
<1>i. RInv /\ h \in Procs  BY DEF NInv, Procs
<1>1. OthersWait(h) /\ pc[h] = "reserveDomain" /\ pc'[h] = "saveURL"
  BY <1>i, GotoFacts DEF ReserveDomain
<1>2. InsertConfig(depID[h], dep[h].url) /\ IsDomainNameUnique(dep[h].url)
  BY <1>1 DEF ReserveDomain, NInv, NameHolds
<1>3. DomainsAreUnique'  BY <1>i, <1>2, DomainInserted DEF NInv
<1>4. ASSUME NEW g \in Handlers, pc'[g] = "reserveDomain"
      PROVE  IsDomainNameUnique(dep[g].url)'
  <2>1. g # h /\ pc[g] = "reserveDomain" /\ dep'[g] = dep[g]
    BY <1>1, <1>4 DEF OthersWait, Procs
  <2>2. dep[g].url # dep[h].url  BY <1>1, <2>1 DEF NameDrawsDiffer
  <2>3. IsDomainNameUnique(dep[g].url)  BY <2>1 DEF NInv, NameHolds
  <2>4. ASSUME NEW k \in Ids
        PROVE  nginxConfigs'[k] = IF k = depID[h]
                                  THEN [row |-> "live", domainName |-> dep[h].url,
                                        deploymentID |-> 0]
                                  ELSE nginxConfigs[k]
    BY <1>i, <1>2, MapTypes DEF InsertConfig
  <2> QED  BY <2>1, <2>2, <2>3, <2>4 DEF IsDomainNameUnique, LiveConfigs
<1> QED  BY <1>3, <1>4 DEF NInv, NameHolds, IsDomainNameUnique, LiveConfigs

LEMMA NextNames == NInv /\ NameDrawsDiffer /\ [Next]_vars => NInv'
<1> SUFFICES ASSUME NInv, NameDrawsDiffer, [Next]_vars PROVE NInv'  OBVIOUS
<1>i. RInv /\ RInv'  BY NextReserved DEF NInv
<1>1. CASE UNCHANGED vars
  <2>1. UNCHANGED <<nginxConfigs, pc, dep>>  BY <1>1 DEF vars, proxyVars, procVars
  <2> QED
    BY <1>i, <2>1 DEF NInv, NameHolds, DomainsAreUnique, LiveConfigs, IsDomainNameUnique
<1>2. ASSUME NEW h \in Handlers, CreateRequest(h) \/ CreateStep(h) PROVE NInv'
  <2> h \in Procs  BY DEF Procs
  <2>1. CASE ReserveDomain(h)  BY <1>i, <2>1, ReserveNames
  <2>2. CASE ~ReserveDomain(h)
    <3>1. AllRest(h) /\ KeepsDomains /\ (pc'[h] = "reserveDomain" => PickDomain(h))
      BY <1>i, <1>2, <2>2, CreateStepKeeps
    <3>2. NameHolds(h)'
      <4>1. CASE PickDomain(h)
        <5>1. PICK d \in Domains :
                /\ IsDomainNameUnique(d)
                /\ GotoWith(h, "reserveDomain", [dep[h] EXCEPT !.url = d])
          BY <4>1 DEF PickDomain
        <5>2. PICK row : row = [dep[h] EXCEPT !.url = d]  OBVIOUS
        <5>3. row.url = d  BY <1>i, <5>2 DEF RInv, Inv, TypeOK, ProcTypeOK, Deployment
        <5>4. dep'[h] = row  BY <1>i, <5>1, <5>2, GotoWithFacts
        <5>5. IsDomainNameUnique(d)'  BY <3>1, <5>1, DomainsKept DEF NInv
        <5> QED  BY <5>3, <5>4, <5>5 DEF NameHolds, IsDomainNameUnique
      <4>2. CASE ~PickDomain(h)  BY <3>1, <4>2 DEF NameHolds
      <4> QED  BY <4>1, <4>2
    <3> QED  BY <1>i, <3>1, <3>2, QuietNames
  <2> QED  BY <2>1, <2>2
<1>3. ASSUME NEW h \in Handlers, DeleteRequest(h) \/ DeleteStep(h) PROVE NInv'
  BY <1>i, <1>3, DeleteStepKeeps, QuietNames DEF NameHolds, DeleteLabels, Procs
<1>4. ASSUME NEW p \in Procs, FindDeployments(p) \/ InspectStep(p) PROVE NInv'
  BY <1>i, <1>4, InspectStepKeeps, QuietNames DEF NameHolds, InspectLabels
<1>5. CASE AppExits \/ Kill \/ Restart
  BY <1>i, <1>5, EnvironmentKeeps, QuietNames, ProcessAssumption DEF Procs
<1> QED  BY <1>1, <1>2, <1>3, <1>4, <1>5 DEF Next, HandlerStep, MonitorStep, Procs

LEMMA InitNames == Init => NInv
<1> SUFFICES ASSUME Init PROVE NInv  OBVIOUS
<1>1. RInv  BY InitReserved
<1>2. DomainsAreUnique  BY DEF Init, ProxyInit, DomainsAreUnique, LiveConfigs
<1>3. \A h \in Handlers : pc[h] = "idle"  BY DEF Init, Procs
<1> QED  BY <1>1, <1>2, <1>3 DEF NInv, NameHolds

-----------------------------------------------------------------------------
(* Ports.                                                                  *)

LEMMA QuietPorts ==
  ASSUME PInv, RInv', KeepsPorts \/ Inserts(None), NEW p \in Procs, AllRest(p),
         p \in Handlers => PortHolds(p)',
         p = Monitor => (depID'[p] = 0 => dep'[p].port = None)
  PROVE  PInv'
<1>1. PortsAreUnique'  BY PortsKept DEF PInv
<1>2. ASSUME NEW h \in Handlers \ {p} PROVE PortHolds(h)'
  <2>1. \/ pc'[h] = pc[h] /\ dep'[h] = dep[h]
        \/ pc'[h] = "idle"
    BY DEF AllRest, Procs
  <2>2. PortHolds(h)  BY DEF PInv
  <2>3. ASSUME pc'[h] = "insertDeployment"
        PROVE  dep'[h].port # None /\ ~PortTaken(dep[h].port)'
    <3>1. pc[h] = "insertDeployment" /\ dep'[h] = dep[h]  BY <2>1, <2>3
    <3>2. dep[h].port # None /\ ~PortTaken(dep[h].port)  BY <2>2, <3>1 DEF PortHolds
    <3> QED  BY <3>1, <3>2, PortsKept DEF PInv, PortTaken
  <2> QED  BY <2>1, <2>2, <2>3 DEF PortHolds, PortTaken
<1>3. depID'[Monitor] = 0 => dep'[Monitor].port = None
  <2>1. Blank.port = None  BY DEF Blank
  <2> QED  BY <2>1 DEF AllRest, PInv, Procs
<1> QED  BY <1>1, <1>2, <1>3 DEF PInv

LEMMA InsertPorts ==
  ASSUME PInv, RInv', PortDrawsDiffer, NEW h \in Handlers, InsertDeployment(h)
  PROVE  PInv'
<1>i. RInv /\ h \in Procs  BY DEF PInv, Procs
<1>1. OthersWait(h) /\ pc[h] = "insertDeployment" /\ pc'[h] = "pickDomain"
  BY <1>i DEF InsertDeployment, OthersWait, RInv, Inv, TypeOK, ProcTypeOK
<1>2. Inserts(dep[h].port) /\ ~PortTaken(dep[h].port)
  BY <1>i, <1>1, CreateInserts DEF InsertDeployment, PInv, PortHolds
<1>3. PortsAreUnique'  BY <1>2, PortInserted DEF PInv
<1>4. ASSUME NEW g \in Handlers PROVE PortHolds(g)'
  <2>1. CASE g = h  BY <1>1, <2>1 DEF PortHolds
  <2>2. CASE g # h
    <3>1. pc'[g] = pc[g] /\ dep'[g] = dep[g]  BY <1>1, <2>2 DEF OthersWait, Procs
    <3>2. PortHolds(g)  BY DEF PInv
    <3>3. pc[g] = "insertDeployment" => ~PortTaken(dep[g].port)'
      <4> SUFFICES ASSUME pc[g] = "insertDeployment" PROVE ~PortTaken(dep[g].port)'
        OBVIOUS
      <4>1. dep[g].port # dep[h].port  BY <1>1, <2>2 DEF PortDrawsDiffer
      <4> QED  BY <1>2, <3>1, <3>2, <4>1 DEF PortHolds, PortTaken, Inserts
    <3> QED  BY <3>1, <3>2, <3>3 DEF PortHolds, PortTaken
  <2> QED  BY <2>1, <2>2
<1>5. dep'[Monitor] = dep[Monitor] /\ depID'[Monitor] = depID[Monitor]
  BY <1>1, ProcessAssumption DEF OthersWait, Procs
<1> QED  BY <1>3, <1>4, <1>5 DEF PInv

LEMMA MonitorPorts ==
  ASSUME PInv, FindDeployments(Monitor) \/ InspectStep(Monitor), depID'[Monitor] = 0
  PROVE  dep'[Monitor].port = None
<1>i. RInv /\ Monitor \in Procs  BY DEF PInv, Procs
<1>0. depID[Monitor] = 0 => dep[Monitor].port = None  BY DEF PInv
<1>b. Blank.port = None  BY DEF Blank
<1>1. CASE \/ FindDeployments(Monitor) \/ SaveStatus(Monitor) \/ SaveResult(Monitor)
  BY <1>0, <1>1 DEF FindDeployments, SaveStatus, SaveResult, Goto
<1>2. CASE InspectFails(Monitor) \/ LoopDone(Monitor)
  <2>1. dep'[Monitor] = Blank
    BY <1>i, <1>2 DEF InspectFails, LoopDone, Return, Crash, RInv, Inv, TypeOK, ProcTypeOK
  <2> QED  BY <1>b, <2>1
<1>3. CASE ReadRow(Monitor)
  <2>1. PICK id \in todo[Monitor] :
          dep'[Monitor] = FirstRow(id) /\ depID'[Monitor] = FirstId(id)
    BY <1>i, <1>3 DEF ReadRow, RInv, Inv, TypeOK, ProcTypeOK
  <2>2. CASE id \in live
    <3>1. id # 0  BY <1>i, <2>2, MapTypes DEF Ids
    <3> QED  BY <2>1, <2>2, <3>1 DEF FirstId
  <2>3. CASE id \notin live  BY <1>b, <2>1, <2>3 DEF FirstRow
  <2> QED  BY <2>2, <2>3
<1>4. CASE InspectContainer(Monitor)
  <2>1. PICK row : row = [dep[Monitor] EXCEPT
                            !.status = containers[dep[Monitor].containerID].state]
    OBVIOUS
  <2>2. row.port = dep[Monitor].port
    BY <1>i, <2>1 DEF RInv, Inv, TypeOK, ProcTypeOK, Deployment
  <2>3. dep'[Monitor] = row /\ depID'[Monitor] = depID[Monitor]
    BY <1>i, <1>4, <2>1, GotoWithFacts DEF InspectContainer
  <2> QED  BY <1>0, <2>2, <2>3
<1> QED  BY <1>1, <1>2, <1>3, <1>4 DEF InspectStep

LEMMA NextPorts == PInv /\ PortDrawsDiffer /\ [Next]_vars => PInv'
<1> SUFFICES ASSUME PInv, PortDrawsDiffer, [Next]_vars PROVE PInv'  OBVIOUS
<1>i. RInv /\ RInv'  BY NextReserved DEF PInv
<1>1. CASE UNCHANGED vars
  <2>1. UNCHANGED <<deployments, live, pc, dep, depID>>
    BY <1>1 DEF vars, tableVars, procVars
  <2> QED  BY <1>i, <2>1 DEF PInv, PortHolds, PortsAreUnique, PortTaken
<1>2. ASSUME NEW h \in Handlers, CreateRequest(h) \/ CreateStep(h) PROVE PInv'
  <2> h \in Procs /\ h # Monitor  BY ProcessAssumption DEF Procs
  <2>1. CASE InsertDeployment(h)  BY <1>i, <2>1, InsertPorts
  <2>2. CASE ~InsertDeployment(h)
    <3>1. /\ AllRest(h) /\ KeepsPorts /\ pc'[h] # "saveResult"
          /\ pc'[h] = "insertDeployment" => PickPort(h)
      BY <1>i, <1>2, <2>2, CreateStepKeeps
    <3>2. PortHolds(h)'
      <4>1. CASE PickPort(h)
        <5>1. PICK port \in Ports :
                /\ ~PortTaken(port)
                /\ GotoWith(h, "insertDeployment", [Blank EXCEPT !.port = port])
          BY <4>1 DEF PickPort
        <5>2. PICK row : row = [Blank EXCEPT !.port = port]  OBVIOUS
        <5>3. row.port = port /\ port # None  BY <5>2, NoneAssumption DEF Blank
        <5>4. dep'[h] = row  BY <1>i, <5>1, <5>2, GotoWithFacts
        <5>5. ~PortTaken(port)'  BY <3>1, <5>1, <5>3, PortsKept DEF PInv
        <5> QED  BY <3>1, <5>3, <5>4, <5>5 DEF PortHolds, PortTaken
      <4>2. CASE ~PickPort(h)  BY <3>1, <4>2 DEF PortHolds
      <4> QED  BY <4>1, <4>2
    <3> QED  BY <1>i, <3>1, <3>2, QuietPorts
  <2> QED  BY <2>1, <2>2
<1>3. ASSUME NEW h \in Handlers, DeleteRequest(h) \/ DeleteStep(h) PROVE PInv'
  <2>1. h \in Procs /\ h # Monitor  BY ProcessAssumption DEF Procs
  <2> QED
    BY <1>i, <1>3, <2>1, DeleteStepKeeps, QuietPorts DEF PortHolds, DeleteLabels
<1>4. ASSUME NEW p \in Procs, FindDeployments(p) \/ InspectStep(p) PROVE PInv'
  <2>1. /\ AllRest(p) /\ pc'[p] \in InspectLabels \cup {"idle"}
        /\ KeepsPorts \/ (SaveResult(p) /\ depID[p] = 0)
        /\ p # Monitor => pc'[p] # "saveResult"
    BY <1>i, <1>4, InspectStepKeeps
  <2>2. CASE p \in Handlers
    <3>1. p # Monitor  BY <2>2, ProcessAssumption
    <3>2. ~SaveResult(p)  BY <2>2 DEF SaveResult, PInv, PortHolds
    <3>3. PortHolds(p)'  BY <2>1, <3>1 DEF PortHolds, InspectLabels
    <3> QED  BY <1>i, <2>1, <3>1, <3>2, <3>3, QuietPorts
  <2>3. CASE p = Monitor
    <3>1. KeepsPorts \/ Inserts(None)
      <4>1. ASSUME SaveResult(p), depID[p] = 0 PROVE Inserts(None)
        <5>1. dep[p].port = None  BY <2>3, <4>1 DEF PInv
        <5>2. Create(dep[p])  BY <4>1 DEF SaveResult, Save
        <5> QED  BY <1>i, <5>1, <5>2, CreateInserts
      <4> QED  BY <2>1, <4>1
    <3>2. depID'[p] = 0 => dep'[p].port = None  BY <1>4, <2>3, MonitorPorts
    <3>3. p \notin Handlers  BY <2>3, ProcessAssumption
    <3> QED  BY <1>i, <2>1, <3>1, <3>2, <3>3, QuietPorts
  <2> QED  BY <2>2, <2>3 DEF Procs
<1>5. CASE AppExits \/ Kill \/ Restart
  <2>1. Monitor \in Procs /\ Monitor \notin Handlers  BY ProcessAssumption DEF Procs
  <2>2. Blank.port = None  BY DEF Blank
  <2>3. depID'[Monitor] = 0 => dep'[Monitor].port = None
    BY <1>i, <1>5, <2>2, EnvironmentKeeps DEF PInv
  <2> QED  BY <1>i, <1>5, <2>1, <2>3, EnvironmentKeeps, QuietPorts
<1> QED  BY <1>1, <1>2, <1>3, <1>4, <1>5 DEF Next, HandlerStep, MonitorStep, Procs

LEMMA InitPorts == Init => PInv
<1> SUFFICES ASSUME Init PROVE PInv  OBVIOUS
<1>1. RInv  BY InitReserved
<1>2. PortsAreUnique  BY DEF Init, TableInit, PortsAreUnique
<1>3. \A p \in Procs : pc[p] = "idle" /\ dep[p] = Blank  BY DEF Init
<1>4. Blank.port = None  BY DEF Blank
<1> QED  BY <1>1, <1>2, <1>3, <1>4 DEF PInv, PortHolds, Procs

-----------------------------------------------------------------------------

(* Only two creations that have drawn the same port, neither of them       *)
(* inserted yet, can make live deployments share one: no delete, failure,  *)
(* stale save or row inserted by the monitor does (main.go 585-597).       *)
THEOREM RacesShareAllPorts == Spec /\ []PortDrawsDiffer => []PortsAreUnique
<1>1. PInv => PortsAreUnique  BY DEF PInv
<1> QED  BY <1>1, InitPorts, NextPorts, PTL DEF Spec

(* Only two creations that have drawn the same name, neither of them       *)
(* reserved yet, can make reservations share one, be they all dropped by   *)
(* DeleteProxyConfiguration in between (proxy.go 140-169, 171-197).        *)
THEOREM RacesShareAllDomains == Spec /\ []NameDrawsDiffer => []DomainsAreUnique
<1>1. NInv => DomainsAreUnique  BY DEF NInv
<1> QED  BY <1>1, InitNames, NextNames, PTL DEF Spec

(* With one request at a time no two live deployments share a port,        *)
(* whatever the monitor inserts and saves meanwhile (main.go 585-597).     *)
THEOREM SerialPorts == ASSUME OneHandler PROVE Spec => []PortsAreUnique
<1>1. PortDrawsDiffer  BY DEF PortDrawsDiffer, OneHandler
<1> QED  BY <1>1, RacesShareAllPorts, PTL

(* With one request at a time no two reservations share a domain name      *)
(* (proxy.go 171-197).                                                     *)
THEOREM SerialDomains == ASSUME OneHandler PROVE Spec => []DomainsAreUnique
<1>1. NameDrawsDiffer  BY DEF NameDrawsDiffer, OneHandler
<1> QED  BY <1>1, RacesShareAllDomains, PTL

(* As long as no two live deployments share a port, a route that leads to  *)
(* somebody else's deployment belonged to one that has been deleted,       *)
(* however many requests run at once (api.go 386-388).                     *)
THEOREM UniquePortsMisrouteDeleted == Spec /\ []PortsAreUnique => []OnlyDeletedAreMisrouted
<1>1. RInv /\ PortsAreUnique => OnlyDeletedAreMisrouted
  <2> SUFFICES ASSUME RInv, PortsAreUnique, NEW d \in Domains, NEW id \in live,
                      routes[d] # None, deployments[id].port = routes[d],
                      deployments[id].url # None, deployments[id].url # d
               PROVE  \E old \in (1..lastId) \ live :
                         /\ nginxConfigs[old].domainName = d
                         /\ deployments[old].port = routes[d]
    BY DEF OnlyDeletedAreMisrouted
  <2>1. PICK old \in 1..lastId : /\ nginxConfigs[old].domainName = d
                                 /\ deployments[old].port = routes[d]
    BY DEF RInv, Reserved, SitesLeadToReserver, LeadsToReserver
  <2>2. nginxConfigs[id].domainName = deployments[id].url
    BY MapTypes DEF RInv, Reserved, URLIsReserved
  <2>3. old \notin live  BY <2>1, <2>2 DEF PortsAreUnique
  <2> QED  BY <2>1, <2>3
<1> QED  BY <1>1, InitReserved, NextReserved, PTL DEF Spec

(* With one request at a time, then, no other route leads astray (main.go  *)
(* 585-597).                                                               *)
THEOREM SerialRoutes == ASSUME OneHandler PROVE Spec => []OnlyDeletedAreMisrouted
  BY UniquePortsMisrouteDeleted, SerialPorts, PTL

=============================================================================
