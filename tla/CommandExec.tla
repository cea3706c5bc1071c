----------------------------- MODULE CommandExec -----------------------------
(***************************************************************************)
(* Clusters as session handles and Command Execution on them:              *)
(* internal/store/clusters.go, internal/store/commands.go and the handlers *)
(* of internal/server/clusters.go and internal/server/commands.go.         *)
(*                                                                         *)
(* A handler runs on its own goroutine and asks the engine with no lock    *)
(* held, so it is a call with a location; a step is one store call, one    *)
(* unlocked write through a *Cluster, or a check that ends in an early     *)
(* return.  A cluster is an id; its object outlives its removal from the   *)
(* map, since a handler may still hold the pointer.                        *)
(***************************************************************************)
EXTENDS Integers

CONSTANTS Calls,           \* handlers that may be in flight at once
          MaxCluster,      \* bound on the ids Clusters.Create hands out
          MaxID            \* bound on the ids of contexts and commands

ASSUME ExecAssumption ==
    /\ MaxCluster \in Nat
    /\ MaxID \in Nat

VARIABLES
    nextCluster,  \* Clusters.nextID
    clusters,     \* the ids in the map Clusters.all
    state,        \* Cluster.State of each object
    message,      \* Cluster.StateMessage: what it says
    nextID,       \* Commands.nextID, shared by contexts and commands
    ctxStatus,    \* ExecContext.Status, "none" when the map has no such context
    ctxCluster,   \* ExecContext.ClusterID
    cmdStatus,    \* ExecCommand.Status, "none" when the map has no such command
    cmdCtx,       \* ExecCommand.ContextID
    at,           \* where each handler is
    obj,          \* the cluster, context or command it works for, 0 for none
    attached      \* s.Spark # nil, settled when the process starts

handles  == <<nextCluster, clusters, state, message>>
contexts == <<ctxStatus, ctxCluster>>
commands == <<cmdStatus, cmdCtx>>
vars     == <<nextCluster, clusters, state, message, nextID, ctxStatus,
              ctxCluster, cmdStatus, cmdCtx, at, obj, attached>>

ClusterIds == 1..MaxCluster
Ids        == 1..MaxID

\* Locations of a handler that works for a cluster, for a context or command.
ClusterSteps == {"create", "undo", "start", "setState", "setMessage", "newContext"}
ExecSteps    == {"probe", "newCommand", "engine"}

HandlesType ==
    /\ nextCluster \in 0..MaxCluster
    /\ clusters \subseteq ClusterIds
    /\ state \in [ClusterIds -> {"none", "PENDING", "RUNNING", "ERROR"}]
    /\ message \in [ClusterIds -> {"none", "starting", "session", "failure"}]

ExecType ==
    /\ nextID \in 0..MaxID
    /\ ctxStatus \in [Ids -> {"none", "Pending", "Running"}]
    /\ ctxCluster \in [Ids -> {0} \cup ClusterIds]
    /\ cmdStatus \in [Ids -> {"none", "Running", "Finished", "Error", "Cancelled"}]
    /\ cmdCtx \in [Ids -> {0} \cup Ids]

CallsType ==
    /\ at \in [Calls -> ClusterSteps \cup ExecSteps \cup {"idle"}]
    /\ obj \in [Calls -> {0} \cup ClusterIds \cup Ids]
    /\ attached \in BOOLEAN
    /\ \A c \in Calls : /\ at[c] \in ClusterSteps => obj[c] \in ClusterIds
                        /\ at[c] \in ExecSteps => obj[c] \in Ids

TypeOK == HandlesType /\ ExecType /\ CallsType

Init ==
    /\ nextCluster = 0
    /\ clusters = {}
    /\ state = [k \in ClusterIds |-> "none"]
    /\ message = [k \in ClusterIds |-> "none"]
    /\ nextID = 0
    /\ ctxStatus = [x \in Ids |-> "none"]
    /\ ctxCluster = [x \in Ids |-> 0]
    /\ cmdStatus = [m \in Ids |-> "none"]
    /\ cmdCtx = [m \in Ids |-> 0]
    /\ at = [c \in Calls |-> "idle"]
    /\ obj = [c \in Calls |-> 0]
    /\ attached \in BOOLEAN

\* Call c moves on to location l, working for object i.
Goto(c, l, i) ==
    at' = [at EXCEPT ![c] = l] /\ obj' = [obj EXCEPT ![c] = i] /\ UNCHANGED attached
Return(c)     == Goto(c, "idle", 0)

-------------------------------------------------------------------------------
(***************************************************************************)
(* Clusters.                                                               *)
(***************************************************************************)
SetState(k, s, m) ==
    IF k \in clusters
    THEN state' = [state EXCEPT ![k] = s] /\ message' = [message EXCEPT ![k] = m]
    ELSE UNCHANGED <<state, message>>

clustersCreate(c) ==
    /\ at[c] = "idle"
    /\ nextCluster < MaxCluster
    /\ nextCluster' = nextCluster + 1
    /\ clusters' = clusters \cup {nextCluster + 1}
    /\ state' = [state EXCEPT ![nextCluster + 1] = "PENDING"]
    /\ message' = [message EXCEPT ![nextCluster + 1] = "starting"]
    /\ Goto(c, "create", nextCluster + 1)
    /\ UNCHANGED <<nextID, contexts, commands>>

clustersStart(c, k) ==
    /\ at[c] = "idle"
    /\ k \in clusters
    /\ Goto(c, "start", k)
    /\ UNCHANGED <<handles, nextID, contexts, commands>>

clustersDelete(k) ==
    /\ k \in clusters
    /\ clusters' = clusters \ {k}
    /\ UNCHANGED <<nextCluster, state, message, nextID, contexts, commands, at, obj, attached>>

(***************************************************************************)
(* startClusterSession: the engine answered the probe of a create or a     *)
(* start.                                                                  *)
(***************************************************************************)
SessionStarts(c) ==
    /\ at[c] \in {"create", "start"}
    /\ attached
    /\ SetState(obj[c], "RUNNING", "session")
    /\ Goto(c, "setState", obj[c])
    /\ UNCHANGED <<nextCluster, clusters, nextID, contexts, commands>>

(***************************************************************************)
(* The probe failed, or there is no engine to ask, which records no state. *)
(* A create still has its handle to take back.                             *)
(***************************************************************************)

SessionFails(c) ==
    /\ at[c] \in {"create", "start"}
    /\ IF attached THEN SetState(obj[c], "ERROR", "failure")
                         ELSE UNCHANGED <<state, message>>
    /\ IF at[c] = "create" THEN Goto(c, "undo", obj[c]) ELSE Return(c)
    /\ UNCHANGED <<nextCluster, clusters, nextID, contexts, commands>>

CreateUndone(c) ==
    /\ at[c] = "undo"
    /\ clusters' = clusters \ {obj[c]}
    /\ Return(c)
    /\ UNCHANGED <<nextCluster, state, message, nextID, contexts, commands>>

\* cl.State = "RUNNING", then cl.StateMessage, with no lock held.
WriteState(c) ==
    /\ at[c] = "setState"
    /\ state' = [state EXCEPT ![obj[c]] = "RUNNING"]
    /\ Goto(c, "setMessage", obj[c])
    /\ UNCHANGED <<nextCluster, clusters, message, nextID, contexts, commands>>

WriteMessage(c) ==
    /\ at[c] = "setMessage"
    /\ message' = [message EXCEPT ![obj[c]] = "session"]
    /\ Return(c)
    /\ UNCHANGED <<nextCluster, clusters, state, nextID, contexts, commands>>

-------------------------------------------------------------------------------
(***************************************************************************)
(* Execution contexts.                                                     *)
(***************************************************************************)
contextsCreate(c, k) ==
    /\ at[c] = "idle"
    /\ k \in clusters /\ state[k] = "RUNNING"
    /\ attached
    /\ Goto(c, "newContext", k)
    /\ UNCHANGED <<handles, nextID, contexts, commands>>

CreateContext(c) ==
    /\ at[c] = "newContext"
    /\ nextID < MaxID
    /\ nextID' = nextID + 1
    /\ ctxStatus' = [ctxStatus EXCEPT ![nextID + 1] = "Pending"]
    /\ ctxCluster' = [ctxCluster EXCEPT ![nextID + 1] = obj[c]]
    /\ Goto(c, "probe", nextID + 1)
    /\ UNCHANGED <<handles, commands>>

\* SetContextStatus, unless the context was destroyed during the probe.
ContextStarts(c) ==
    /\ at[c] = "probe"
    /\ ctxStatus' = [ctxStatus EXCEPT ![obj[c]] = IF @ = "none" THEN "none" ELSE "Running"]
    /\ Return(c)
    /\ UNCHANGED <<handles, nextID, ctxCluster, commands>>

DestroyContext(x) ==
    /\ ctxStatus' = [ctxStatus EXCEPT ![x] = "none"]
    /\ ctxCluster' = [ctxCluster EXCEPT ![x] = 0]
    /\ IF ctxStatus[x] = "none" THEN UNCHANGED commands
       ELSE /\ cmdStatus' = [m \in Ids |-> IF cmdCtx[m] = x THEN "none" ELSE cmdStatus[m]]
            /\ cmdCtx' = [m \in Ids |-> IF cmdCtx[m] = x THEN 0 ELSE cmdCtx[m]]

ContextFails_LeavesPending(c) ==
    /\ at[c] = "probe"
    /\ Return(c)
    /\ UNCHANGED <<handles, nextID, contexts, commands>>

ContextFails(c) ==
    /\ at[c] = "probe"
    /\ DestroyContext(obj[c])
    /\ Return(c)
    /\ UNCHANGED <<handles, nextID>>

contextsDestroy(x) ==
    /\ ctxStatus[x] # "none"
    /\ DestroyContext(x)
    /\ UNCHANGED <<handles, nextID, at, obj, attached>>

-------------------------------------------------------------------------------
(***************************************************************************)
(* Commands.                                                               *)
(***************************************************************************)
commandsExecute_AnyContext(c, x) ==
    /\ at[c] = "idle"
    /\ ctxStatus[x] # "none"
    /\ Goto(c, "newCommand", x)
    /\ UNCHANGED <<handles, nextID, contexts, commands>>

commandsExecute(c, x) ==
    /\ at[c] = "idle"
    /\ ctxStatus[x] = "Running"
    /\ Goto(c, "newCommand", x)
    /\ UNCHANGED <<handles, nextID, contexts, commands>>

\* CreateCommand does not look at the context again.
CreateCommand(c) ==
    /\ at[c] = "newCommand"
    /\ nextID < MaxID
    /\ nextID' = nextID + 1
    /\ cmdStatus' = [cmdStatus EXCEPT ![nextID + 1] = "Running"]
    /\ cmdCtx' = [cmdCtx EXCEPT ![nextID + 1] = obj[c]]
    /\ Goto(c, "engine", nextID + 1)
    /\ UNCHANGED <<handles, contexts>>

FinishCommand_WaitsForContext(c, s) ==
    /\ at[c] = "engine"
    /\ cmdStatus[obj[c]] # "none" => ctxStatus[cmdCtx[obj[c]]] # "none"
    /\ cmdStatus' = [cmdStatus EXCEPT ![obj[c]] = IF @ = "none" THEN "none" ELSE s]
    /\ Return(c)
    /\ UNCHANGED <<handles, nextID, contexts, cmdCtx>>

(***************************************************************************)
(* runCommand: whatever the engine answered is stored, if the command is   *)
(* still there.                                                            *)
(***************************************************************************)
FinishCommand(c, s) ==
    /\ at[c] = "engine"
    /\ cmdStatus' = [cmdStatus EXCEPT ![obj[c]] = IF @ = "none" THEN "none" ELSE s]
    /\ Return(c)
    /\ UNCHANGED <<handles, nextID, contexts, cmdCtx>>

commandsCancel_Always(m) ==
    /\ cmdStatus[m] # "none"
    /\ cmdStatus' = [cmdStatus EXCEPT ![m] = "Cancelled"]
    /\ UNCHANGED <<handles, nextID, contexts, cmdCtx, at, obj, attached>>

\* An ended command answers 200 and stays as it is.
commandsCancel(m) ==
    /\ cmdStatus[m] # "none"
    /\ cmdStatus' = [cmdStatus EXCEPT ![m] =
                       IF @ \in {"Finished", "Error"} THEN @ ELSE "Cancelled"]
    /\ UNCHANGED <<handles, nextID, contexts, cmdCtx, at, obj, attached>>

-------------------------------------------------------------------------------
\* A step of handler c after its first.
Proceed(c) ==
    \/ SessionStarts(c) \/ SessionFails(c) \/ CreateUndone(c)
    \/ WriteState(c) \/ WriteMessage(c)
    \/ CreateContext(c) \/ ContextStarts(c) \/ ContextFails(c)
    \/ CreateCommand(c) \/ \E s \in {"Finished", "Error"} : FinishCommand(c, s)

Request ==
    \/ \E c \in Calls : \/ clustersCreate(c)
                        \/ \E k \in ClusterIds : clustersStart(c, k) \/ contextsCreate(c, k)
                        \/ \E x \in Ids : commandsExecute(c, x)
    \/ \E k \in ClusterIds : clustersDelete(k)
    \/ \E i \in Ids : contextsDestroy(i) \/ commandsCancel(i)

Next == Request \/ \E c \in Calls : Proceed(c)

Spec == Init /\ [][Next]_vars

(***************************************************************************)
(* An engine call ends within the HTTP client's 5 minutes                  *)
(* (internal/spark/spark.go) and the scheduler runs every handler on.      *)
(***************************************************************************)
FairSpec == Spec /\ \A c \in Calls : WF_vars(Proceed(c))

-------------------------------------------------------------------------------
\* The handler that is to settle a PENDING cluster, a Pending context or a
\* Running command is still in flight.
ClustersAttended ==
    \A k \in clusters : state[k] = "PENDING" =>
        \E c \in Calls : at[c] \in {"create", "undo"} /\ obj[c] = k

ContextsAttended ==
    \A x \in Ids : ctxStatus[x] = "Pending" =>
        \E c \in Calls : at[c] = "probe" /\ obj[c] = x

CommandsAttended ==
    \A m \in Ids : cmdStatus[m] = "Running" =>
        \E c \in Calls : at[c] = "engine" /\ obj[c] = m

(***************************************************************************)
(* Nothing is left waiting for an answer nobody will bring: a PENDING      *)
(* cluster, a Pending context and a Running command each have the handler  *)
(* that is to settle them still in flight, however starts, deletes,        *)
(* destroys and cancels interleave with it.                                *)
(***************************************************************************)
NothingIsAbandoned == ClustersAttended /\ ContextsAttended /\ CommandsAttended

(***************************************************************************)
(* No command enters a context whose probe has not been answered: the      *)
(* context of a stored command is Running or destroyed, never Pending, and *)
(* so is the one a handler is about to create a command in.                *)
(***************************************************************************)
CommandsFollowTheProbe ==
    /\ \A m \in Ids : cmdStatus[m] # "none" => ctxStatus[cmdCtx[m]] # "Pending"
    /\ \A c \in Calls : at[c] = "newCommand" => ctxStatus[obj[c]] # "Pending"

(***************************************************************************)
(* A command that ended keeps its status until its context is destroyed: a *)
(* late cancel does not relabel it.                                        *)
(***************************************************************************)
EndedCommandsKeepTheirStatus ==
    [][\A m \in Ids : cmdStatus[m] \in {"Finished", "Error"} =>
          cmdStatus'[m] \in {cmdStatus[m], "none"}]_vars

(***************************************************************************)
(* Every command leaves Running, every context and cluster leaves the      *)
(* state it was created in, and without an engine every handle that was    *)
(* created goes away again: the failed create takes it back.               *)
(***************************************************************************)
EverythingSettles ==
    /\ \A m \in Ids : cmdStatus[m] = "Running" ~> cmdStatus[m] # "Running"
    /\ \A x \in Ids : ctxStatus[x] = "Pending" ~> ctxStatus[x] # "Pending"
    /\ \A k \in ClusterIds :
          /\ k \in clusters /\ state[k] = "PENDING" ~> ~(k \in clusters /\ state[k] = "PENDING")
          /\ (~attached /\ k \in clusters) ~> k \notin clusters

-------------------------------------------------------------------------------
(***************************************************************************)
(* A claim of the repository that the code does not keep.                  *)
(***************************************************************************)

\* A cancelled command is Cancelled from then on, whatever the engine answers.
CancelledCommandsStayCancelled ==
    [][\A m \in Ids : cmdStatus[m] = "Cancelled" => cmdStatus'[m] \in {"Cancelled", "none"}]_vars
===============================================================================
