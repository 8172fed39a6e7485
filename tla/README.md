# A formal model of the Meteor Deploy System

The daemon (`src/daemon`) accepts archives of Meteor applications over HTTP,
runs each in a Docker container, and writes an nginx site that proxies a
generated domain name to it. Everything happens in concurrent goroutines over
one SQLite database, with no lock, no transaction longer than one statement and
almost no error handling after the first write. A command line client
(`src/cli`) logs in, keeps the session in a file and sends it requests. This
directory models both in TLA+, checks them with TLC and proves the results that
matter most with TLAPS.

## The system

| component | state | operations | interacts with |
|---|---|---|---|
| deployments table (`common.go`, gorm) | one row per deployment: port, URL, container IDs, status; `deleted_at` | `Create`, `Save` (all columns), `First`, `Find`, `Delete` (soft) | every handler, the monitor |
| Docker (external) | containers and their state, host ports bound by running ones | create, start, stop, remove, inspect | creation, deletion, monitor |
| nginx proxy (`proxy.go`, `tls.go`) | `nginx_proxy_configurations`, a certificate, a key and a site file per domain, the routes nginx has loaded | `ReserveDomainName`, `CreateProxy`, `ApplyChanges`, `DeleteProxyConfiguration` | creation, `DeleteDeployment` |
| creation (`createDeploymentEndpoint`, `createDeployment`) | a goroutine and its `mds.Deployment` struct | about 16 calls on the three above, in order | all of them |
| deletion (`deleteDeploymentAPIHandler`; `DeleteDeployment`, unrouted) | likewise | stop, remove, delete row (and proxy row) | Docker, table |
| list and monitor (`getDeploymentsAPIHandler`, `InspectDeployments`, `inspectDeployment`) | a list of rows, one struct | read, inspect, save, for each row; the monitor every 5 s, saving twice | Docker, table |
| update (`updateDeployment`, unrouted) | a struct | replace the container of a deployment | all |
| sessions (`loginAPIHandler`, `checkAuthentication`, `updateLastSeen`) | `authentication_tokens` | login, check, refresh | every endpoint |
| users and startup (`main`, `ensureAdminUser`, `createUser`) | `users`, the API's key pair, the globals | once, at start | all |
| client (`src/cli`) | a session file | connect, create, list, logout | the API |

What makes each correct:

* table: a deleted row is final; a row never holds another deployment's data;
* Docker: one application container per deployment, and no goroutine stops,
  removes or inspects another deployment's;
* nginx: names are unique, every site can be loaded, a site and a route lead to
  the port of the deployment the name was reserved for;
* creation: whatever was answered "Created" is reachable; a failure at any step
  must not disturb other deployments;
* monitor: it keeps the status current, survives whatever it meets and does not
  undo what others write;
* sessions: an expired session does not come back;
* startup: whatever a kill leaves behind, the next start copes with it;
* client: the session it saves is one the daemon knows, a logout is not undone,
  and every command ends.

The behaviours that are hard to test: whole-row saves of structs read earlier
(creation, list and monitor all do it), checks followed by inserts (port, name),
a delete overlapping a sweep or a creation, requests that fail or a daemon that
dies between two calls, ports that are freed and drawn again while a route still
leads to them, files that are created in one step and written in another.
`PROJECT.json` lists each at its line.

## Modules

| module | models |
|---|---|
| `DeploymentTable` | the table as gorm's calls change it. `deployments` holds the columns, `live` the rows whose `deleted_at` is null, `lastId` the last primary key |
| `DockerHost` | Docker, from the calls and errors the daemon handles; `owner` and `kind` are ghost fields nothing reads |
| `NginxProxy` | the proxy's table, files and loaded routes |
| `Daemon` | the handlers and the monitor as processes over the three above; `FairSpec` adds fairness |
| `Registry` | the abstract specification: what the daemon promises about deployments, without handlers, monitor, structs or files |
| `DaemonProps` | the properties of `Daemon`, its refinement of `Registry`, and the inductive invariants behind them: `Inv`, `RInv`, `Served`, `Loadable`, `Undeleted` |
| `MCDaemon` | the symmetry for TLC; its constants come from the `.cfg` files |
| `Sessions` | the session table, login and authentication, and what callers are answered |
| `Client` | the client's processes and session file, composed with `Sessions`; `ClientFairSpec` adds fairness |
| `MCClient` | a user with one permission, for TLC |
| `Startup` | `main()` of the daemon up to the listening socket, across kills and failed writes |
| `Daemon_proofs` | type correctness of `Daemon` |
| `Ownership_proofs` | `Inv` is inductive, and what follows from it |
| `Registry_proofs` | `RInv` is inductive, and `Daemon` implements `Registry` |
| `Serial_proofs` | what the races for ports and names can break, and what holds when there is one handler |
| `Promises_proofs` | what has to be excluded for the promises that are not always kept to hold |
| `Sessions_proofs`, `Client_proofs`, `Startup_proofs` | the results about the three others |

**How code and model correspond.** Every goroutine is a process `p` with a label
`pc[p]`; `dep[p]` is the `mds.Deployment` struct it holds, `depID[p]` that
struct's primary key (0 is gorm's "new record") and `todo[p]` the rows its loop
has left. One action runs from one call on the database, Docker, the file system
or nginx to the next. So `db.Save(&deployment)` is an action that overwrites the
row with what the struct has held since it was read. The labels of a creation
are, in order: pickPort, insertDeployment, pickDomain, reserveDomain, saveURL,
(createMongo, saveMongo, startMongo,) createContainer, saveContainer,
startContainer, (writeCert, writeKey,) writeSite, reload, saveRunning.
`DockerRefuses`, `CreateProxyFails` and `SiteIsLost` are the error returns. A
panic in a handler is recovered by `net/http` and ends the request, one in the
monitor goroutine ends the process (`Crash`).

In `Client`, process `h` of the client and handler `h` of `Sessions` are the two
ends of one connection: `Connect` and `Send` are a client step and the arrival
of its request in one action, `reply[h]` is the answer. Every action of `Client`
is a step of `Sessions` or leaves its variables alone, which is a theorem
(`ClientIsCaller`). The session file is written as `ioutil.WriteFile` does: open
and truncate, then write at the start of whatever file the descriptor names;
`linked[h]` says whether that is still the file called `.mds-session`, which a
logout unlinks.

In `Startup` passwords and key pairs are numbered as they are drawn, a file is
absent (`None`), created and not written (`Partial`) or holds the number of a
pair.

Three gorm facts carry much of the behaviour, all read in the vendored source:
a `Save` of a struct whose row is soft-deleted changes nothing (the UPDATE is
scoped, and the fallback INSERT collides with the primary key); a `Save` of a
struct without primary key inserts; a `Delete` of a struct without primary key
deletes every row.

Definitions whose comment starts with "Slip:" are not used by the model. Each is
a plausible mistake in the definition that follows it, and the property it
should break is known to break when it is put in its place.

## Properties and runs

All runs of `Daemon` and `Client` check deadlock too (the monitor can always
sweep; the daemon can always be restarted). `startup` does not: a daemon that
serves has reached the end of that module.

| run | instance | shows |
|---|---|---|
| `one_deployment` | 2 handlers + monitor, 1 creation, 1 delete (by either code path), lists; every failure of Docker, disk, reload and inspection, exits of the application, kills | `TypeOK`, `StatusHasContainer`, `URLIsReserved`, `DeletedIsFinal`, and the refinement `ImplementsRegistry` |
| `two_creations` | 2 handlers + monitor, 2 creations and 1 delete, 2 ports, 2 names, nothing fails | `ContainersAreOwned`, `OneContainerEach`, `SitesLeadToReserver` |
| `serial` | 1 request at a time + monitor, 2 creations, 1 delete, failing Docker and reloads, exits, kills | `DomainsAreUnique`, `PortsAreUnique`, `SitesAreLoadable`, `AckedIsRouted`, `OnlyDeletedAreMisrouted`, `DeletesOneRow` |
| `liveness` | 2 handlers + monitor, 1 creation with its MongoDB container, lists, exits, failing starts and reloads, no delete | `MonitorSurvives`, `RowsAreDeployments`, `RequestsEnd`, `StatusSettles` |
| `client` | 2 processes of the client, 2 keys, a user who may list and not create, week 1, clock to 2, interrupts, logouts, restarts of the daemon | `ClientTypeOK`, `SavedSessionIsIssued`, `DeadStaysDead`, `LogoutHolds`, `CommandsEnd` |
| `startup` | up to 4 faults: kills at any step, writes that fail, files removed | `TypeOK`, `PairMatches`, `AnnouncedOpens`, `ComesUp` |

And, because the code or its comments promise it and the code does not keep it,
runs in which TLC finds the property violated:

| run | property | what happens |
|---|---|---|
| `domain_race` | `DomainsAreUnique` | two creations check a name before either inserts it |
| `monitor_crash` | `MonitorSurvives` | a delete removes the container between the sweep's read and its inspection; the nil result is dereferenced and the daemon ends |
| `ghost_row` | `RowsAreDeployments` | a delete removes the row between the sweep's list and its read; a blank row is inserted |
| `lost_update` | `AckedHasContainer` | the sweep saves a row it read before the creation stored the container ID |
| `failed_lookup` | `DeletesOneRow` | the lookup of a delete fails with another error than "not found" and all rows are deleted |
| `stale_route` | `RouteReachesItsOwn` | delete, then create: the freed port is drawn again under the old route |

Other disagreements met while reading, which need no run to see: the URL is
saved long before the deployment is complete (`main.go:437` against
`common.go:41`); `DeploymentID` is "Required" and never saved (`main.go:443`
against `proxy.go:51`), so the unrouted update could never find its proxy
configuration; the provider `letsencrypt` (`config.yaml:1`) writes no
certificate; `DeleteProxyConfiguration` names a column that does not exist and
so deletes every reservation (`proxy.go:140`); `handleLoginAttempt` ignores its
`persistentToken`; the expiry slides with every request though the README says
tokens "expire in 7 days"; a failed creation dereferences a nil deployment after
writing its error (`api.go:176`), so that its caller sees the connection closed;
the error of the insert of a token is ignored and the token answered
(`api.go:100`); the update handler asks for the permission to list
(`api.go:261`); the client's guard "Session exists." reads a setting nothing
sets (`connect.go:61`), and its prompt for SSL errors accepts "false" and asks
again (`connect.go:78`). A save of a token row read earlier can set `last_seen`
back by the time the request took (`api.go:437`); a session may expire that much
early, and what `DeadStaysDead` shows is that none expires late.

**What the properties of the serial runs show.** Ports and names are chosen by
check-then-insert, so uniqueness cannot be had under concurrency. The runs show
that requests one at a time are enough: neither the monitor's stale saves, which
blank columns of live rows, nor failed creations make two deployments share a
port or a name, or leave a site nginx cannot load. The port survives the lost
updates because every struct that has a primary key carries the row's port; this
is `StructTracked`, part of the invariant.

`OnlyDeletedAreMisrouted` says what is left of `RouteReachesItsOwn`, which does
not hold (run `stale_route`): a live deployment is reached under a wrong name
only if the name is that of a deployment that had the port before and was
deleted, which leaves its route behind.

**The registry.** `Registry` is what a user of the API may rely on. A deployment
keeps its port, has at most one name and one container of each kind, and is
retired for good; its record is lossy, because stale saves can blank its URL
and containers at any time, but never shows what belongs to another; and the
proxy serves a name only at the port of a deployment it was reserved for.
`DaemonProps` maps the daemon's state to it (`rPhase`, `rPort`, `rName`, `rURL`,
`rBoxes`, `rBuilt`; `served` is `routes`). Handlers, structs, site files and
certificates have no image: most steps of the daemon stutter there. Name
uniqueness and the survival of what was recorded are left out of it, since the
runs of the second table show that the code does not keep them.

**What `client` shows.** `SavedSessionIsIssued` follows a key through an answer,
a process and a file, any of which may be cut off. `LogoutHolds` places the
point at which a login takes effect at the opening of the file: a connect that
has opened it before the logout writes to a file that has no name any more, one
that opens it later does bring a session back. `DeadStaysDead` is the property
of `Sessions`, here under the callers that exist.

**What `startup` shows.** `PairMatches` and `ComesUp` hold because the key is
removed first and written last: a certificate that is new never meets a key that
is old, and a missing key has the pair made anew. What the code does not recover
from is a file that was created and not written (`Stuck`), left by a kill or by
a full disk whose error `tls.go` ignores: `os.Stat` finds it at every start and
the server refuses it. `AnnouncedOpens` holds for every start; but a kill
between the insert of the account and the log line leaves an account whose
password nobody has seen, and no later start makes another. The monitor's first
sweep, should it run before `startAPI` has set the global `database`
(`api.go:442`), ends the process; that is one of the faults.

**Bounds.** `MaxId`, `MaxCtr`, `MaxCreates`, `MaxDeletes`, the numbers of
handlers, ports and domains; in `Sessions` `MaxTime` and the number of keys
(`KeysLeft` refuses logins beyond it); in `Startup` `MaxFaults`. `RoomAssumption` says
that the table and Docker have room for everything the bounds on requests admit,
so no bound ever blocks a step of a request that was accepted. Two creations and
one delete are the least that exhibit each race listed (two writers of one name,
a freed port drawn again, a delete under a sweep), and two ports and two names
let the draws collide or not. In `client` the clock runs just far enough for a
session to expire unused and for a refreshed one not to, while a stale save and
a later one cross; two keys and two processes are the least in which one writes
over another's session. In `startup` four faults reach every state of the two
files, twice over. The proofs need none of these bounds to be small.
When all ports or names are taken, the code's loops spin; the model's `PickPort`
and `PickDomain` are then disabled.

**Fairness.** `FairSpec` assumes weak fairness of each handler's steps together
and of the monitor's: Go schedules every runnable goroutine, Docker, SQLite and
the file system answer every call, and a random draw that can succeed does
sooner or later. Nothing obliges callers to send requests, anything to fail or
the daemon to be restarted. With deletes the sweep can end the daemon (run
`monitor_crash`), so `liveness` has none.
`ClientFairSpec` assumes weak fairness of each handler and of each process of
the client between two answers: the client sets no time limit, but a daemon that
dies closes its connections, so every request is answered or "lost". Nobody
need answer a prompt, log in or log out. A daemon whose machine vanishes without
closing a connection would leave a command waiting for ever, and is outside the
model. `Startup`'s `FairSpec` assumes that `main()` goes on and that the daemon
is started again whenever it has ended (`mds-daemon.service` sets no `Restart=`,
so an administrator does it, or a reboot); faults, the early sweep among them, are
finitely many.

**Symmetry.** Handlers, ports and names are interchangeable and the runs of
`Daemon`'s safety properties use that; those with liveness do not.

## Proofs

All for every value of the constants that satisfies the named assumptions
(`BoundsAssumption`, `NoneAssumption`, `ProcessAssumption`, `RoomAssumption`; in
`Sessions` `TimeAssumption`, `GrantAssumption`, `NoneAssumption`).

* `Daemon_proofs!TypeCorrect`: `Spec => []TypeOK`, one lemma per group of
  actions.
* `Ownership_proofs!OwnershipHolds`, `StatusHolds`: `[]ContainersAreOwned` and
  `[]StatusHasContainer`. Neither is inductive. A save copies a struct into a
  row, so every struct must be as good as a row (`StructTracked`); Docker's next
  container must be one no struct names yet (`Tracked` bounds the IDs by
  `lastCtr`); a sweep's blank struct must not carry a container into a new row;
  a struct must agree with its row on the port, which is what keeps the port of
  a container that is created later right; and a creation has a primary key and
  a container from certain labels on (`CreationTracked`). Their conjunction is
  `Inv`, preserved by every action (`NextTracked`).
* `Ownership_proofs!DeletedStaysDeleted`: `Spec => DeletedIsFinal`. All the
  table ever sees is an update, an insert or a delete (`NextOnTable`), and none
  of them touches a row that is not live.
* `Registry_proofs!URLsHold`, `ContainersHold`, `SitesHold`, `RegistryHolds`:
  `[]URLIsReserved`, `[]OneContainerEach`, `[]SitesLeadToReserver` and `Spec =>
  ImplementsRegistry`. They share one invariant, `RInv`: `Inv`, the three
  themselves, and what ties them together. A struct shows a name only once it is
  reserved for its row, except between the draw and the insert
  (`StructReserved`); a creation that is still to reserve or build finds nothing
  reserved or built for its row (`CreationReserved`); no two creations work on
  one row (`CreationsDiffer`); and nothing exists ahead of the row it is for
  (`NothingAhead`). Without the last two, a second creation could build or
  reserve again for a row that already has its container or its name. Each
  action is then one of `Registry` or a stutter, by the part of `RInv` its guard
  meets; a save is a `Show`, a reload a `Publish`.
* `Serial_proofs!RacesShareAllPorts`, `RacesShareAllDomains`: `[]PortsAreUnique`
  for every behaviour in which no two creations between their draw and their
  insert hold the same port (`PortDrawsDiffer`), and `[]DomainsAreUnique`
  likewise for names (`NameDrawsDiffer`), for any number of handlers and with
  every fault. The invariants (`PInv`, `NInv`) say that what a creation has
  drawn is still free when it inserts it: others insert something else, and of
  what the monitor and deletes do, nothing takes a port or a name. A row the
  monitor inserts by mistake has no port, and dropping reservations only frees
  names.
* `SerialPorts`, `SerialDomains`: with at most one handler (`OneHandler`), beside
  the monitor, draws cannot meet, so both always hold.
* `UniquePortsMisrouteDeleted`, `SerialRoutes`: `[]OnlyDeletedAreMisrouted` for
  every behaviour in which ports stay unique, and so with one handler.
* `Promises_proofs`: the next section.
* `Sessions_proofs!TypeCorrect`, `DeadForGood`: `[]TypeOK` and `DeadStaysDead`.
  A dead session's row is written only by a request that has passed the expiry
  test with it, and a request that reads the dead row does not pass.
* `Client_proofs!ClientDeadForGood`, `SavedHold`, `LogoutsHold`,
  `ClientTypesHold`: the client implements the callers of `Sessions`
  (`ClientIsCaller`), so `DeadStaysDead` carries over; the other two follow from
  where a key is on its way from the row to the file (`AnswerIsIssued`,
  `TokenIsIssued`) and from `LinkedIsThere`.
* `Startup_proofs!TypeCorrect`, `PairsHold`, `AnnouncementsHold`: from what the
  files hold at each statement that replaces them (`Replacing`) and what the
  account holds at each that creates it (`Accounted`).

`TextAssumption` (`Client`) says that session keys differ from the texts of the
API, `FaultsAssumption` and `NoneAssumption` (`Startup`) type its constants.

Only model-checked: liveness (`RequestsEnd`, `StatusSettles`, `CommandsEnd`,
`ComesUp`), which is out of the proof system's reach.

### What the broken promises need

The runs that end in a violation show that some promises do not hold. The
theorems of `Promises_proofs`, and two of `Serial_proofs`, say how far that
goes: each excludes one thing, by a hypothesis on the constants or on the
behaviour, and proves the promise under every other interleaving, failure and
kill, for any number of handlers. So the counterexample TLC finds is, up to
what is excluded, the only kind there is.

| theorem | promise | excluded |
|---|---|---|
| `RacesShareAllDomains` | `DomainsAreUnique` | two creations that hold the same name between lookup and insert (run `domain_race`) |
| `RacesShareAllPorts` | `PortsAreUnique` | two creations that hold the same port between lookup and insert |
| `UniqueNamesAreRouted` | `AckedIsRouted` | two reservations of one name (run `domain_race`) |
| `UniqueNamesAreLoadable` | `SitesAreLoadable` | the same, and writes that fail or are cut short |
| `UnsweptKeepContainers` | `AckedHasContainer` | a sweep or a list that holds the row of a creation under way (run `lost_update`) |
| `UndeletedMonitorSurvives` | `MonitorSurvives` | deletes (run `monitor_crash`); kills, and inspections Docker fails to answer |
| `UndeletedRowsAreDeployments` | `RowsAreDeployments` | deletes (run `ghost_row`) |
| `UndeletedRoutesReachTheirOwn` | `RouteReachesItsOwn` | deletes (run `stale_route`), two live deployments with one port |
| `AnsweredLookupsDeleteOne` | `DeletesOneRow` | a lookup that fails with anything but "not found" (run `failed_lookup`) |

Where a behaviour is excluded the theorem reads `Spec /\ []P => []Q`. By the first
two rows, "no two reservations of one name" and "no two live deployments with
one port" hold wherever no two draws meet; with one request at a time they
always do (`SerialDomains`, `SerialPorts`), which gives
`SerialRouted`, `SerialLoadable` and `SerialRoutesReachTheirOwn` without it. The
other hypotheses:

* `NeverDropped`: `DeleteDeployment`, which drops every reservation, is not
  called. No route reaches it (`api.go` 444-453). It is a hypothesis of
  `UniqueNamesAreRouted` and `UniqueNamesAreLoadable`.
* `WritesSucceed`: no disk fault, and the provider `selfsigned`. With any other
  provider the daemon writes no certificate, and no site is loadable.

The inductive invariants extend `RInv`.

* `Served`, for `AckedIsRouted`. A reload publishes whatever files there are, so
  it is not enough that an acknowledged name is routed: its site file must still
  be the one it was acknowledged with (`AckedServed`), through the reloads of
  other handlers. Only a creation that holds a name writes that name's files
  (`SitesStay`), a creation holds its reservation (`Named`, `CreationServed`),
  and the holder of a reserved name is unique (`NamesDiffer`, `NameNotServed`);
  that needs the reservations to stay in the table (`NamesLive`). What a deleted
  deployment left behind stays served too, so acknowledged deployments need no
  exception for deletes in the invariant.
* `Loadable`, for `SitesAreLoadable`. A certificate and a key are written in two
  steps, between which they do not match; what makes that harmless is that the
  name has no site file yet. Nobody can have left one, because a site leads to
  a deployment its name is reserved for (`SitesLeadToReserver`), which would be
  a second reservation of the name (`NoSiteYet`). So a failed creation leaves
  files that nobody else's reload trips over.
* `Undeleted`, for the three without deletes: the rows are exactly those ever
  inserted, every container created exists, and whoever is to read a row finds
  it (`FindsItsRow`).
* `Kept`, for `AckedHasContainer`: a process that holds a copy of an acknowledged
  row holds its container; a copy is read from the live row or not at all.
* `DeleteHasRow`, for `DeletesOneRow`: a delete under way has a primary key.

TLC checked `Served` and `Loadable` on the instances of `serial` and
`two_creations` (the latter constrained to unique names), and `Undeleted` on
that of `liveness`, before they were proved.

## Not modelled

* Requests refused before they change anything, the upload of the archive,
  `GetNewApplicationDirectory`, columns no decision depends on.
* Database errors, except the failed lookup of a delete. The daemon ignores
  them all.
* A write cut short by a kill is a blank file followed by the kill (`Written`;
  `Partial` in `Startup`).
* `updateDeployment` and its handler. No route reaches them, and the function
  always ends at its look-up of the proxy configuration by `deployment_id`
  (`main.go:329`), since that column is only ever set on a copy
  (`main.go:443`): there is no state it can change.
* Two daemons started on one directory; a client whose settings come from its
  configuration file or environment instead of a session.
* `autocertSetup` and the plain-http template, which nothing reaches; the
  codename generator, a draw from `Domains`; the configuration file, whose
  values the model takes as `CONSTANTS` or does not depend on; vendored
  libraries, but for the gorm calls named above.
