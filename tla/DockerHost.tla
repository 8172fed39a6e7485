----------------------------- MODULE DockerHost -----------------------------
(***************************************************************************)
(* The Docker daemon as mds drives it: an external service, modelled from  *)
(* the calls in main.go and mongo.go and the errors they handle.           *)
(***************************************************************************)
EXTENDS DeploymentTable

VARIABLES
  containers,    \* every container Docker has been asked to create
  lastCtr        \* how many containers have been created

dockerVars == <<containers, lastCtr>>

(* "removed" also stands for a container that was never created: Docker    *)
(* answers "no such container" for both.  `owner` is the deployment whose  *)
(* application directory is bound to the container, or which it was        *)
(* created for when it is a MongoDB instance; nothing in the daemon reads  *)
(* it.                                                                     *)
Container ==
  [ state : {"removed", "created", "running", "exited"},
    kind  : {"app", "mongo"},
    owner : 0..MaxId,
    port  : Ports \cup {None} ]

DockerInit ==
  /\ containers =
       [c \in ContainerIds |->
          [state |-> "removed", kind |-> "app", owner |-> 0, port |-> None]]
  /\ lastCtr = 0

-----------------------------------------------------------------------------

Exists(c) == c # 0 /\ containers[c].state # "removed"

(* Only running containers occupy their host port.                         *)
PortBound(port) ==
  port # None /\ \E c \in ContainerIds : /\ containers[c].state = "running"
                                         /\ containers[c].port = port

(* client.CreateContainer                                                  *)
NewContainer(kind, owner, port) ==
  /\ lastCtr < MaxCtr
  /\ lastCtr' = lastCtr + 1
  /\ containers' =
       [containers EXCEPT ![lastCtr + 1] =
          [state |-> "created", kind |-> kind, owner |-> owner, port |-> port]]

(* client.StartContainer refuses a container that is gone or whose host    *)
(* port is bound by another running container.                             *)
CanStart(c) == Exists(c) /\ ~PortBound(containers[c].port)

SetState(c, s) ==
  /\ containers' = [containers EXCEPT ![c].state = s]
  /\ UNCHANGED lastCtr

(* client.StopContainer: an error when the container is not running.       *)
StopIfRunning(c) ==
  IF c # 0 /\ containers[c].state = "running"
  THEN SetState(c, "exited") ELSE UNCHANGED dockerVars

(* client.RemoveContainer with Force and RemoveVolumes.                    *)
RemoveIfExists(c) ==
  IF Exists(c) THEN SetState(c, "removed") ELSE UNCHANGED dockerVars

(* The process in a container ends by itself; no restart policy is set.    *)
ContainerExits(c) ==
  /\ containers[c].state = "running"
  /\ SetState(c, "exited")

=============================================================================
