-------------------------- MODULE CommandExecProofs --------------------------
(***************************************************************************)
(* Proofs about CommandExec, for any number of handlers in flight, of      *)
(* clusters, contexts and commands.                                        *)
(***************************************************************************)
EXTENDS CommandExec, TLAPS

(***************************************************************************)
(* What the properties rest on: ids that were not handed out are in nobody *)
(* hands, and a command has one handler that will finish it, which finds   *)
(* it Running, Cancelled or removed.                                       *)
(***************************************************************************)
Unused(i) ==
    /\ ctxStatus[i] = "none" /\ cmdStatus[i] = "none"
    /\ \A m \in Ids : cmdStatus[m] # "none" => cmdCtx[m] # i
    /\ \A c \in Calls : at[c] \in ExecSteps => obj[c] # i

FreshIds == \A i \in Ids : i > nextID => Unused(i)

OneFinisher ==
    \A c \in Calls : at[c] = "engine" =>
        /\ cmdStatus[obj[c]] # "Finished" /\ cmdStatus[obj[c]] # "Error"
        /\ \A d \in Calls : at[d] = "engine" /\ obj[d] = obj[c] => d = c

CommandsHaveContexts == \A m \in Ids : cmdStatus[m] # "none" => cmdCtx[m] \in Ids

\* The part of the invariant that is about contexts and commands.
ExecState ==
    /\ FreshIds
    /\ OneFinisher
    /\ CommandsHaveContexts
    /\ ContextsAttended
    /\ CommandsAttended
    /\ CommandsFollowTheProbe

ExecInv == TypeOK /\ ExecState /\ ClustersAttended

(***************************************************************************)
(* A handler that moves on, and nobody else, is at its new place; the      *)
(* calls are again well typed.                                             *)
(***************************************************************************)
LEMMA GotoMoves ==
    ASSUME TypeOK, NEW c \in Calls, NEW l, NEW i,
           \/ l \in ClusterSteps /\ i \in ClusterIds
           \/ l \in ExecSteps /\ i \in Ids
           \/ l = "idle" /\ i = 0,
           Goto(c, l, i)
    PROVE  /\ CallsType'
           /\ at'[c] = l /\ obj'[c] = i
           /\ \A d \in Calls : d # c => at'[d] = at[d] /\ obj'[d] = obj[d]
<1>1. at \in [Calls -> ClusterSteps \cup ExecSteps \cup {"idle"}]
  BY DEF TypeOK, CallsType
<1>2. obj \in [Calls -> {0} \cup ClusterIds \cup Ids]
  BY DEF TypeOK, CallsType
<1>3. /\ at' \in [Calls -> ClusterSteps \cup ExecSteps \cup {"idle"}]
      /\ at'[c] = l /\ \A d \in Calls : d # c => at'[d] = at[d]
  BY <1>1 DEF Goto
<1>4. /\ obj' \in [Calls -> {0} \cup ClusterIds \cup Ids]
      /\ obj'[c] = i /\ \A d \in Calls : d # c => obj'[d] = obj[d]
  BY <1>2 DEF Goto
<1>5. attached' \in BOOLEAN
  BY DEF Goto, TypeOK, CallsType
<1>6. "idle" \notin ClusterSteps \cup ExecSteps /\ ClusterSteps \cap ExecSteps = {}
  BY DEF ClusterSteps, ExecSteps
<1>7. \A d \in Calls : /\ at'[d] \in ClusterSteps => obj'[d] \in ClusterIds
                       /\ at'[d] \in ExecSteps => obj'[d] \in Ids
  BY <1>3, <1>4, <1>6 DEF TypeOK, CallsType
<1> QED BY <1>3, <1>4, <1>5, <1>7 DEF CallsType

(***************************************************************************)
(* The same for a handler that returns.                                    *)
(***************************************************************************)
LEMMA ReturnMoves ==
    ASSUME TypeOK, NEW c \in Calls, Return(c)
    PROVE  /\ CallsType'
           /\ at'[c] = "idle"
           /\ \A d \in Calls : d # c => at'[d] = at[d] /\ obj'[d] = obj[d]
  BY GotoMoves DEF Return

(***************************************************************************)
(* What a handler at each location works for.                              *)
(***************************************************************************)
LEMMA CallIds ==
    ASSUME TypeOK, NEW c \in Calls
    PROVE  /\ at[c] \in ClusterSteps => obj[c] \in ClusterIds
           /\ at[c] \in ExecSteps => obj[c] \in Ids
  BY DEF TypeOK, CallsType

(***************************************************************************)
(* The next id of a counter below its bound is an id.                      *)
(***************************************************************************)
LEMMA NextIds ==
    ASSUME TypeOK
    PROVE  /\ nextID < MaxID => nextID + 1 \in Ids /\ nextID + 1 \in 0..MaxID
           /\ nextCluster < MaxCluster => nextCluster + 1 \in ClusterIds
                                         /\ nextCluster + 1 \in 0..MaxCluster
<1>1. nextID \in 0..MaxID
  BY DEF TypeOK, ExecType
<1>2. nextCluster \in 0..MaxCluster
  BY DEF TypeOK, HandlesType
<1>3. nextID < MaxID => nextID + 1 \in Ids /\ nextID + 1 \in 0..MaxID
  BY <1>1, ExecAssumption DEF Ids
<1>4. nextCluster < MaxCluster => nextCluster + 1 \in ClusterIds
                                /\ nextCluster + 1 \in 0..MaxCluster
  BY <1>2, ExecAssumption DEF ClusterIds
<1> QED BY <1>3, <1>4

(***************************************************************************)
(* Ids are natural numbers.                                                *)
(***************************************************************************)
LEMMA IdsAreNats == \A i \in Ids : i \in Nat
  BY ExecAssumption DEF Ids

-------------------------------------------------------------------------------
(***************************************************************************)
(* A request keeps the types.                                              *)
(***************************************************************************)
LEMMA RequestType == TypeOK /\ Request => TypeOK'
<1> SUFFICES ASSUME TypeOK, Request PROVE TypeOK'
  OBVIOUS
<1>1. ASSUME NEW c \in Calls, clustersCreate(c) PROVE TypeOK'
  <2>1. nextCluster + 1 \in ClusterIds /\ nextCluster + 1 \in 0..MaxCluster
    BY <1>1, NextIds DEF clustersCreate
  <2>2. CallsType'
    BY <1>1, <2>1, GotoMoves DEF clustersCreate, ClusterSteps
  <2>3. HandlesType'
    BY <1>1, <2>1 DEF clustersCreate, TypeOK, HandlesType
  <2>4. ExecType'
    BY <1>1 DEF clustersCreate, TypeOK, ExecType, contexts, commands
  <2> QED BY <2>2, <2>3, <2>4 DEF TypeOK
<1>2. ASSUME NEW c \in Calls, NEW k \in ClusterIds, clustersStart(c, k) \/ contextsCreate(c, k)
      PROVE  TypeOK'
  <2>1. CallsType'
    BY <1>2, GotoMoves DEF clustersStart, contextsCreate, ClusterSteps
  <2>2. HandlesType' /\ ExecType'
    BY <1>2 DEF clustersStart, contextsCreate, TypeOK, HandlesType, ExecType, handles,
                contexts, commands
  <2> QED BY <2>1, <2>2 DEF TypeOK
<1>3. ASSUME NEW c \in Calls, NEW x \in Ids, commandsExecute(c, x) PROVE TypeOK'
  <2>1. CallsType'
    BY <1>3, GotoMoves DEF commandsExecute, ExecSteps
  <2>2. HandlesType' /\ ExecType'
    BY <1>3 DEF commandsExecute, TypeOK, HandlesType, ExecType, handles, contexts, commands
  <2> QED BY <2>1, <2>2 DEF TypeOK
<1>4. ASSUME NEW k \in ClusterIds, clustersDelete(k) PROVE TypeOK'
  <2>1. HandlesType'
    BY <1>4 DEF clustersDelete, TypeOK, HandlesType
  <2>2. ExecType' /\ CallsType'
    BY <1>4 DEF clustersDelete, TypeOK, CallsType, ExecType, contexts, commands
  <2> QED BY <2>1, <2>2 DEF TypeOK
<1>5. ASSUME NEW x \in Ids, contextsDestroy(x) PROVE TypeOK'
  <2>1. HandlesType' /\ CallsType'
    BY <1>5 DEF contextsDestroy, TypeOK, CallsType, HandlesType, handles
  <2>2. ExecType'
    BY <1>5 DEF contextsDestroy, DestroyContext, TypeOK, ExecType, commands
  <2> QED BY <2>1, <2>2 DEF TypeOK
<1>6. ASSUME NEW m \in Ids, commandsCancel(m) PROVE TypeOK'
  <2>1. HandlesType' /\ CallsType'
    BY <1>6 DEF commandsCancel, TypeOK, CallsType, HandlesType, handles
  <2>2. ExecType'
    BY <1>6 DEF commandsCancel, TypeOK, ExecType, contexts
  <2> QED BY <2>1, <2>2 DEF TypeOK
<1> QED BY <1>1, <1>2, <1>3, <1>4, <1>5, <1>6 DEF Request

(***************************************************************************)
(* So does a handler that proceeds.                                        *)
(***************************************************************************)
LEMMA ProceedType == ASSUME TypeOK, NEW c \in Calls, Proceed(c) PROVE TypeOK'
<1>1. CASE SessionStarts(c)
  <2>1. obj[c] \in ClusterIds
    BY <1>1, CallIds DEF SessionStarts, ClusterSteps
  <2>2. CallsType'
    BY <1>1, <2>1, GotoMoves DEF SessionStarts, ClusterSteps
  <2>3. HandlesType'
    BY <1>1, <2>1 DEF SessionStarts, SetState, TypeOK, HandlesType
  <2>4. ExecType'
    BY <1>1 DEF SessionStarts, TypeOK, ExecType, contexts, commands
  <2> QED BY <2>2, <2>3, <2>4 DEF TypeOK
<1>2. CASE SessionFails(c)
  <2>1. obj[c] \in ClusterIds
    BY <1>2, CallIds DEF SessionFails, ClusterSteps
  <2>2. CallsType'
    BY <1>2, <2>1, GotoMoves, ReturnMoves DEF SessionFails, ClusterSteps
  <2>3. HandlesType'
    BY <1>2, <2>1 DEF SessionFails, SetState, TypeOK, HandlesType
  <2>4. ExecType'
    BY <1>2 DEF SessionFails, TypeOK, ExecType, contexts, commands
  <2> QED BY <2>2, <2>3, <2>4 DEF TypeOK
<1>3. CASE CreateUndone(c) \/ WriteMessage(c)
  <2>1. obj[c] \in ClusterIds
    BY <1>3, CallIds DEF CreateUndone, WriteMessage, ClusterSteps
  <2>2. CallsType'
    BY <1>3, ReturnMoves DEF CreateUndone, WriteMessage
  <2>3. HandlesType'
    BY <1>3, <2>1 DEF CreateUndone, WriteMessage, TypeOK, HandlesType
  <2>4. ExecType'
    BY <1>3 DEF CreateUndone, WriteMessage, TypeOK, ExecType, contexts, commands
  <2> QED BY <2>2, <2>3, <2>4 DEF TypeOK
<1>4. CASE WriteState(c)
  <2>1. obj[c] \in ClusterIds
    BY <1>4, CallIds DEF WriteState, ClusterSteps
  <2>2. CallsType'
    BY <1>4, <2>1, GotoMoves DEF WriteState, ClusterSteps
  <2>3. HandlesType'
    BY <1>4, <2>1 DEF WriteState, TypeOK, HandlesType
  <2>4. ExecType'
    BY <1>4 DEF WriteState, TypeOK, ExecType, contexts, commands
  <2> QED BY <2>2, <2>3, <2>4 DEF TypeOK
<1>5. CASE CreateContext(c)
  <2>1. obj[c] \in ClusterIds /\ nextID + 1 \in Ids /\ nextID + 1 \in 0..MaxID
    BY <1>5, CallIds, NextIds DEF CreateContext, ClusterSteps
  <2>2. CallsType'
    BY <1>5, <2>1, GotoMoves DEF CreateContext, ExecSteps
  <2>3. HandlesType'
    BY <1>5 DEF CreateContext, TypeOK, HandlesType, handles
  <2>4. ExecType'
    BY <1>5, <2>1 DEF CreateContext, TypeOK, ExecType, commands
  <2> QED BY <2>2, <2>3, <2>4 DEF TypeOK
<1>6. CASE ContextStarts(c) \/ ContextFails(c)
  <2>1. obj[c] \in Ids
    BY <1>6, CallIds DEF ContextStarts, ContextFails, ExecSteps
  <2>2. CallsType'
    BY <1>6, ReturnMoves DEF ContextStarts, ContextFails
  <2>3. HandlesType'
    BY <1>6 DEF ContextStarts, ContextFails, TypeOK, HandlesType, handles
  <2>4. CASE ContextStarts(c)
    <3>1. ctxStatus' \in [Ids -> {"none", "Pending", "Running"}]
      BY <2>4, <2>1 DEF ContextStarts, TypeOK, ExecType
    <3>2. ExecType'
      BY <2>4, <3>1 DEF ContextStarts, TypeOK, ExecType, commands
    <3> QED BY <2>2, <2>3, <3>2 DEF TypeOK
  <2>5. CASE ContextFails(c)
    <3>1. ctxStatus' \in [Ids -> {"none", "Pending", "Running"}]
          /\ ctxCluster' \in [Ids -> {0} \cup ClusterIds]
      BY <2>5, <2>1 DEF ContextFails, DestroyContext, TypeOK, ExecType
    <3>2. /\ cmdStatus' \in [Ids -> {"none", "Running", "Finished", "Error", "Cancelled"}]
          /\ cmdCtx' \in [Ids -> {0} \cup Ids]
      BY <2>5, <2>1 DEF ContextFails, DestroyContext, TypeOK, ExecType, commands
    <3>3. ExecType'
      BY <2>5, <3>1, <3>2 DEF ContextFails, TypeOK, ExecType
    <3> QED BY <2>2, <2>3, <3>3 DEF TypeOK
  <2> QED BY <1>6, <2>4, <2>5
<1>7. CASE CreateCommand(c)
  <2>1. obj[c] \in Ids /\ nextID + 1 \in Ids /\ nextID + 1 \in 0..MaxID
    BY <1>7, CallIds, NextIds DEF CreateCommand, ExecSteps
  <2>2. CallsType'
    BY <1>7, <2>1, GotoMoves DEF CreateCommand, ExecSteps
  <2>3. HandlesType'
    BY <1>7 DEF CreateCommand, TypeOK, HandlesType, handles
  <2>4. ExecType'
    BY <1>7, <2>1 DEF CreateCommand, TypeOK, ExecType, contexts
  <2> QED BY <2>2, <2>3, <2>4 DEF TypeOK
<1>8. ASSUME NEW s \in {"Finished", "Error"}, FinishCommand(c, s) PROVE TypeOK'
  <2>1. obj[c] \in Ids
    BY <1>8, CallIds DEF FinishCommand, ExecSteps
  <2>2. CallsType'
    BY <1>8, ReturnMoves DEF FinishCommand
  <2>3. HandlesType'
    BY <1>8 DEF FinishCommand, TypeOK, HandlesType, handles
  <2>4. cmdStatus' \in [Ids -> {"none", "Running", "Finished", "Error", "Cancelled"}]
    BY <1>8, <2>1 DEF FinishCommand, TypeOK, ExecType
  <2>5. ExecType'
    BY <1>8, <2>4 DEF FinishCommand, TypeOK, ExecType, contexts
  <2> QED BY <2>2, <2>3, <2>5 DEF TypeOK
<1> QED BY <1>1, <1>2, <1>3, <1>4, <1>5, <1>6, <1>7, <1>8 DEF Proceed

-------------------------------------------------------------------------------
(***************************************************************************)
(* Steps about clusters leave the state of contexts and commands alone.    *)
(***************************************************************************)
LEMMA ExecUntouched ==
    ASSUME ExecState, UNCHANGED <<nextID, contexts, commands>>,
           \A d \in Calls : at[d] \in ExecSteps \/ at'[d] \in ExecSteps =>
                              at'[d] = at[d] /\ obj'[d] = obj[d]
    PROVE  ExecState'
<1>1. /\ nextID' = nextID /\ ctxStatus' = ctxStatus
      /\ cmdStatus' = cmdStatus /\ cmdCtx' = cmdCtx
  BY DEF contexts, commands
<1>2. FreshIds'
  BY <1>1 DEF ExecState, FreshIds, Unused, ExecSteps
<1>3. OneFinisher'
  BY <1>1 DEF ExecState, OneFinisher, ExecSteps
<1>4. CommandsHaveContexts'
  BY <1>1 DEF ExecState, CommandsHaveContexts, ExecSteps
<1>5. ContextsAttended'
  BY <1>1 DEF ExecState, ContextsAttended, ExecSteps
<1>6. CommandsAttended'
  BY <1>1 DEF ExecState, CommandsAttended, ExecSteps
<1>7. CommandsFollowTheProbe'
  BY <1>1 DEF ExecState, CommandsFollowTheProbe, CommandsHaveContexts, ExecSteps
<1> QED BY <1>2, <1>3, <1>4, <1>5, <1>6, <1>7 DEF ExecState

(***************************************************************************)
(* Steps that neither change a cluster nor move its create leave every     *)
(* PENDING cluster attended.                                               *)
(***************************************************************************)
LEMMA ClustersUntouched ==
    ASSUME ClustersAttended, UNCHANGED <<clusters, state>>,
           \A d \in Calls : at[d] \in {"create", "undo"} => at'[d] = at[d] /\ obj'[d] = obj[d]
    PROVE  ClustersAttended'
  BY DEF ClustersAttended

(***************************************************************************)
(* CreateContext: the new Pending context has its handler at the probe.    *)
(***************************************************************************)
LEMMA CreateContextKeeps ==
    ASSUME TypeOK, ExecState, NEW c \in Calls, CreateContext(c)
    PROVE  ExecState'
<1>1. nextID + 1 \in Ids /\ nextID \in Nat /\ Unused(nextID + 1)
  <2>1. nextID + 1 \in Ids /\ nextID \in 0..MaxID
    BY NextIds DEF CreateContext, TypeOK, ExecType
  <2>2. nextID \in Nat /\ nextID + 1 > nextID
    BY <2>1
  <2> QED BY <2>1, <2>2 DEF ExecState, FreshIds
<1>2. /\ at[c] = "newContext"
      /\ at'[c] = "probe" /\ obj'[c] = nextID + 1
      /\ \A d \in Calls : d # c => at'[d] = at[d] /\ obj'[d] = obj[d]
  BY <1>1, GotoMoves DEF CreateContext, ExecSteps
<1>3. /\ nextID' = nextID + 1 /\ cmdStatus' = cmdStatus /\ cmdCtx' = cmdCtx
      /\ ctxStatus'[nextID + 1] = "Pending"
      /\ \A x \in Ids : x # nextID + 1 => ctxStatus'[x] = ctxStatus[x]
  BY <1>1 DEF CreateContext, commands, TypeOK, ExecType
<1>4. FreshIds'
  BY <1>1, <1>2, <1>3, IdsAreNats DEF ExecState, FreshIds, Unused, ExecSteps
<1>5. OneFinisher'
  BY <1>1, <1>2, <1>3 DEF ExecState, OneFinisher, ExecSteps
<1>6. CommandsHaveContexts'
  BY <1>1, <1>2, <1>3 DEF ExecState, CommandsHaveContexts, ExecSteps
<1>7. ContextsAttended'
  BY <1>1, <1>2, <1>3 DEF ExecState, ContextsAttended, ExecSteps
<1>8. CommandsAttended'
  BY <1>1, <1>2, <1>3 DEF ExecState, CommandsAttended, ExecSteps
<1>9. CommandsFollowTheProbe'
  BY <1>1, <1>2, <1>3, CallIds DEF ExecState, CommandsFollowTheProbe, CommandsHaveContexts, Unused, ExecSteps
<1> QED BY <1>4, <1>5, <1>6, <1>7, <1>8, <1>9 DEF ExecState

(***************************************************************************)
(* A probe that passed: its own context is Running, or was destroyed.      *)
(***************************************************************************)
LEMMA ContextStartsKeeps ==
    ASSUME TypeOK, ExecState, NEW c \in Calls, ContextStarts(c)
    PROVE  ExecState'
<1>1. /\ at[c] = "probe" /\ at'[c] = "idle" /\ obj[c] \in Ids
      /\ \A d \in Calls : d # c => at'[d] = at[d] /\ obj'[d] = obj[d]
  BY ReturnMoves, CallIds DEF ContextStarts, ExecSteps
<1>2. /\ nextID' = nextID /\ cmdStatus' = cmdStatus /\ cmdCtx' = cmdCtx
      /\ ctxStatus'[obj[c]] # "Pending"
      /\ \A x \in Ids : ctxStatus[x] = "none" => ctxStatus'[x] = "none"
      /\ \A x \in Ids : x # obj[c] => ctxStatus'[x] = ctxStatus[x]
  BY <1>1 DEF ContextStarts, commands, TypeOK, ExecType
<1>3. FreshIds'
  BY <1>1, <1>2 DEF ExecState, FreshIds, Unused, ExecSteps
<1>4. OneFinisher'
  BY <1>1, <1>2 DEF ExecState, OneFinisher, ExecSteps
<1>5. CommandsHaveContexts'
  BY <1>1, <1>2 DEF ExecState, CommandsHaveContexts, ExecSteps
<1>6. ContextsAttended'
  BY <1>1, <1>2 DEF ExecState, ContextsAttended, ExecSteps
<1>7. CommandsAttended'
  BY <1>1, <1>2 DEF ExecState, CommandsAttended, ExecSteps
<1>8. CommandsFollowTheProbe'
  BY <1>1, <1>2, CallIds DEF ExecState, CommandsFollowTheProbe, CommandsHaveContexts, ExecSteps
<1> QED BY <1>3, <1>4, <1>5, <1>6, <1>7, <1>8 DEF ExecState

(***************************************************************************)
(* Destroying a context removes it with its commands and frees nobody      *)
(* else's.                                                                 *)
(***************************************************************************)
LEMMA DestroyContextFacts ==
    ASSUME TypeOK, NEW x \in Ids, DestroyContext(x)
    PROVE  /\ ctxStatus'[x] = "none"
           /\ \A y \in Ids : y # x => ctxStatus'[y] = ctxStatus[y]
           /\ \A m \in Ids : cmdStatus'[m] # "none" =>
                 cmdStatus'[m] = cmdStatus[m] /\ cmdCtx'[m] = cmdCtx[m]
<1>1. /\ ctxStatus'[x] = "none"
      /\ \A y \in Ids : y # x => ctxStatus'[y] = ctxStatus[y]
  BY DEF DestroyContext, TypeOK, ExecType
<1>2. ASSUME NEW m \in Ids, cmdStatus'[m] # "none"
      PROVE  cmdStatus'[m] = cmdStatus[m] /\ cmdCtx'[m] = cmdCtx[m]
  BY <1>2 DEF DestroyContext, commands
<1> QED BY <1>1, <1>2

(***************************************************************************)
(* Nothing that remains after a context was destroyed, by a client or after*)
(* its failed probe, depended on it.                                       *)
(***************************************************************************)
LEMMA DestroyContextKeeps ==
    ASSUME TypeOK, ExecState, NEW x \in Ids, DestroyContext(x), nextID' = nextID,
           \/ UNCHANGED <<at, obj>>
           \/ \E c \in Calls : /\ at[c] = "probe" /\ obj[c] = x /\ at'[c] = "idle"
                               /\ \A d \in Calls : d # c => at'[d] = at[d] /\ obj'[d] = obj[d]
    PROVE  ExecState'
<1>1. /\ \A d \in Calls : at'[d] \in ExecSteps => at'[d] = at[d] /\ obj'[d] = obj[d]
      /\ \A d \in Calls : at[d] \in ExecSteps =>
            \/ at'[d] = at[d] /\ obj'[d] = obj[d]
            \/ at[d] = "probe" /\ obj[d] = x
  BY DEF ExecSteps
<1>2. /\ ctxStatus'[x] = "none"
      /\ \A y \in Ids : y # x => ctxStatus'[y] = ctxStatus[y]
      /\ \A m \in Ids : cmdStatus'[m] # "none" =>
            cmdStatus'[m] = cmdStatus[m] /\ cmdCtx'[m] = cmdCtx[m]
  BY DestroyContextFacts
<1>3. FreshIds'
  BY <1>1, <1>2 DEF ExecState, FreshIds, Unused, ExecSteps
<1>4. OneFinisher'
  BY <1>1, <1>2, CallIds DEF ExecState, OneFinisher, ExecSteps
<1>5. CommandsHaveContexts'
  BY <1>1, <1>2 DEF ExecState, CommandsHaveContexts, ExecSteps
<1>6. ContextsAttended'
  BY <1>1, <1>2 DEF ExecState, ContextsAttended, ExecSteps
<1>7. CommandsAttended'
  BY <1>1, <1>2 DEF ExecState, CommandsAttended, ExecSteps
<1>8. CommandsFollowTheProbe'
  BY <1>1, <1>2, CallIds DEF ExecState, CommandsFollowTheProbe, CommandsHaveContexts, ExecSteps
<1> QED BY <1>3, <1>4, <1>5, <1>6, <1>7, <1>8 DEF ExecState

(***************************************************************************)
(* A command is accepted for a context that is Running.                    *)
(***************************************************************************)
LEMMA commandsExecuteKeeps ==
    ASSUME TypeOK, ExecState, NEW c \in Calls, NEW x \in Ids, commandsExecute(c, x)
    PROVE  ExecState'
<1>1. /\ at[c] = "idle" /\ at'[c] = "newCommand" /\ obj'[c] = x
      /\ \A d \in Calls : d # c => at'[d] = at[d] /\ obj'[d] = obj[d]
  BY GotoMoves DEF commandsExecute, ExecSteps
<1>2. /\ nextID' = nextID /\ cmdStatus' = cmdStatus /\ cmdCtx' = cmdCtx
      /\ ctxStatus' = ctxStatus /\ ctxStatus[x] = "Running"
  BY DEF commandsExecute, contexts, commands
<1>3. FreshIds'
  BY <1>1, <1>2 DEF ExecState, FreshIds, Unused, ExecSteps
<1>4. OneFinisher'
  BY <1>1, <1>2 DEF ExecState, OneFinisher, ExecSteps
<1>5. CommandsHaveContexts'
  BY <1>1, <1>2 DEF ExecState, CommandsHaveContexts, ExecSteps
<1>6. ContextsAttended'
  BY <1>1, <1>2 DEF ExecState, ContextsAttended, ExecSteps
<1>7. CommandsAttended'
  BY <1>1, <1>2 DEF ExecState, CommandsAttended, ExecSteps
<1>8. CommandsFollowTheProbe'
  BY <1>1, <1>2 DEF ExecState, CommandsFollowTheProbe, CommandsHaveContexts, ExecSteps
<1> QED BY <1>3, <1>4, <1>5, <1>6, <1>7, <1>8 DEF ExecState

(***************************************************************************)
(* CreateCommand: the new Running command has its handler at the engine.   *)
(***************************************************************************)
LEMMA CreateCommandKeeps ==
    ASSUME TypeOK, ExecState, NEW c \in Calls, CreateCommand(c)
    PROVE  ExecState'
<1>1. nextID + 1 \in Ids /\ nextID \in Nat /\ Unused(nextID + 1)
  <2>1. nextID + 1 \in Ids /\ nextID \in 0..MaxID
    BY NextIds DEF CreateCommand, TypeOK, ExecType
  <2>2. nextID \in Nat /\ nextID + 1 > nextID
    BY <2>1
  <2> QED BY <2>1, <2>2 DEF ExecState, FreshIds
<1>2. /\ at[c] = "newCommand" /\ obj[c] \in Ids
      /\ at'[c] = "engine" /\ obj'[c] = nextID + 1
      /\ \A d \in Calls : d # c => at'[d] = at[d] /\ obj'[d] = obj[d]
  BY <1>1, GotoMoves, CallIds DEF CreateCommand, ExecSteps
<1>3. /\ nextID' = nextID + 1 /\ ctxStatus' = ctxStatus
      /\ cmdStatus'[nextID + 1] = "Running" /\ cmdCtx'[nextID + 1] = obj[c]
      /\ \A m \in Ids : m # nextID + 1 => cmdStatus'[m] = cmdStatus[m] /\ cmdCtx'[m] = cmdCtx[m]
  BY <1>1 DEF CreateCommand, contexts, TypeOK, ExecType
<1>4. FreshIds'
  BY <1>1, <1>2, <1>3, IdsAreNats DEF ExecState, FreshIds, Unused, ExecSteps
<1>5. OneFinisher'
  BY <1>1, <1>2, <1>3, CallIds DEF ExecState, OneFinisher, Unused, ExecSteps
<1>6. CommandsHaveContexts'
  BY <1>1, <1>2, <1>3 DEF ExecState, CommandsHaveContexts, ExecSteps
<1>7. ContextsAttended'
  BY <1>1, <1>2, <1>3 DEF ExecState, ContextsAttended, ExecSteps
<1>8. CommandsAttended'
  BY <1>1, <1>2, <1>3 DEF ExecState, CommandsAttended, ExecSteps
<1>9. CommandsFollowTheProbe'
  BY <1>1, <1>2, <1>3 DEF ExecState, CommandsFollowTheProbe, CommandsHaveContexts, ExecSteps
<1> QED BY <1>4, <1>5, <1>6, <1>7, <1>8, <1>9 DEF ExecState

(***************************************************************************)
(* FinishCommand settles its own command and no other.                     *)
(***************************************************************************)
LEMMA FinishCommandKeeps ==
    ASSUME TypeOK, ExecState, NEW c \in Calls, NEW s \in {"Finished", "Error"},
           FinishCommand(c, s)
    PROVE  ExecState'
<1>1. /\ at[c] = "engine" /\ at'[c] = "idle" /\ obj[c] \in Ids
      /\ \A d \in Calls : d # c => at'[d] = at[d] /\ obj'[d] = obj[d]
  BY ReturnMoves, CallIds DEF FinishCommand, ExecSteps
<1>2. /\ nextID' = nextID /\ ctxStatus' = ctxStatus /\ cmdCtx' = cmdCtx
      /\ cmdStatus'[obj[c]] # "Running"
      /\ \A m \in Ids : cmdStatus[m] = "none" <=> cmdStatus'[m] = "none"
      /\ \A m \in Ids : m # obj[c] => cmdStatus'[m] = cmdStatus[m]
  BY <1>1 DEF FinishCommand, contexts, TypeOK, ExecType
<1>3. FreshIds'
  BY <1>1, <1>2 DEF ExecState, FreshIds, Unused, ExecSteps
<1>4. OneFinisher'
  BY <1>1, <1>2, CallIds DEF ExecState, OneFinisher, ExecSteps
<1>5. CommandsHaveContexts'
  BY <1>1, <1>2 DEF ExecState, CommandsHaveContexts, ExecSteps
<1>6. ContextsAttended'
  BY <1>1, <1>2 DEF ExecState, ContextsAttended, ExecSteps
<1>7. CommandsAttended'
  BY <1>1, <1>2 DEF ExecState, CommandsAttended, ExecSteps
<1>8. CommandsFollowTheProbe'
  BY <1>1, <1>2 DEF ExecState, CommandsFollowTheProbe, CommandsHaveContexts, ExecSteps
<1> QED BY <1>3, <1>4, <1>5, <1>6, <1>7, <1>8 DEF ExecState

(***************************************************************************)
(* A cancel relabels a command that has not ended.                         *)
(***************************************************************************)
LEMMA commandsCancelKeeps ==
    ASSUME TypeOK, ExecState, NEW m \in Ids, commandsCancel(m)
    PROVE  ExecState'
<1>1. /\ nextID' = nextID /\ ctxStatus' = ctxStatus /\ cmdCtx' = cmdCtx /\ UNCHANGED <<at, obj>>
      /\ \A n \in Ids : cmdStatus[n] = "none" <=> cmdStatus'[n] = "none"
      /\ \A n \in Ids : cmdStatus'[n] = cmdStatus[n] \/ cmdStatus'[n] = "Cancelled"
  BY DEF commandsCancel, contexts, TypeOK, ExecType
<1>2. FreshIds'
  BY <1>1 DEF ExecState, FreshIds, Unused, ExecSteps
<1>3. OneFinisher'
  BY <1>1, CallIds DEF ExecState, OneFinisher, ExecSteps
<1>4. CommandsHaveContexts'
  BY <1>1 DEF ExecState, CommandsHaveContexts, ExecSteps
<1>5. ContextsAttended'
  BY <1>1 DEF ExecState, ContextsAttended, ExecSteps
<1>6. CommandsAttended'
  BY <1>1 DEF ExecState, CommandsAttended, ExecSteps
<1>7. CommandsFollowTheProbe'
  BY <1>1 DEF ExecState, CommandsFollowTheProbe, CommandsHaveContexts, ExecSteps
<1> QED BY <1>2, <1>3, <1>4, <1>5, <1>6, <1>7 DEF ExecState

-------------------------------------------------------------------------------
(***************************************************************************)
(* A request keeps what is known about contexts and commands.              *)
(***************************************************************************)
LEMMA RequestKeepsExec == ASSUME ExecInv, Request PROVE ExecState'
<1>1. TypeOK /\ ExecState
  BY DEF ExecInv
<1>2. ASSUME NEW c \in Calls, NEW k \in ClusterIds,
             clustersCreate(c) \/ clustersStart(c, k) \/ contextsCreate(c, k)
      PROVE  ExecState'
  <2>1. /\ UNCHANGED <<nextID, contexts, commands>>
        /\ at[c] = "idle"
        /\ \E l \in {"create", "start", "newContext"}, i \in ClusterIds : Goto(c, l, i)
    BY <1>1, <1>2, NextIds DEF clustersCreate, clustersStart, contextsCreate
  <2>2. /\ at[c] \notin ExecSteps /\ at'[c] \notin ExecSteps
        /\ \A d \in Calls : d # c => at'[d] = at[d] /\ obj'[d] = obj[d]
    BY <1>1, <2>1, GotoMoves DEF ClusterSteps, ExecSteps
  <2> QED BY <1>1, <2>1, <2>2, ExecUntouched
<1>3. ASSUME NEW k \in ClusterIds, clustersDelete(k) PROVE ExecState'
  BY <1>1, <1>3, ExecUntouched DEF clustersDelete
<1>4. ASSUME NEW c \in Calls, clustersCreate(c) PROVE ExecState'
  BY <1>1, <1>2, <1>4, NextIds DEF clustersCreate
<1>5. ASSUME NEW c \in Calls, NEW x \in Ids, commandsExecute(c, x) PROVE ExecState'
  BY <1>1, <1>5, commandsExecuteKeeps
<1>6. ASSUME NEW x \in Ids, contextsDestroy(x) PROVE ExecState'
  BY <1>1, <1>6, DestroyContextKeeps DEF contextsDestroy
<1>7. ASSUME NEW m \in Ids, commandsCancel(m) PROVE ExecState'
  BY <1>1, <1>7, commandsCancelKeeps
<1> QED BY <1>2, <1>3, <1>4, <1>5, <1>6, <1>7 DEF Request

(***************************************************************************)
(* So does a handler that proceeds.                                        *)
(***************************************************************************)
LEMMA ProceedKeepsExec == ASSUME ExecInv, NEW c \in Calls, Proceed(c) PROVE ExecState'
<1>1. TypeOK /\ ExecState
  BY DEF ExecInv
<1>2. CASE SessionStarts(c) \/ SessionFails(c) \/ CreateUndone(c) \/ WriteState(c) \/ WriteMessage(c)
  <2>1. at[c] \in ClusterSteps /\ obj[c] \in ClusterIds
    BY <1>1, <1>2, CallIds DEF SessionStarts, SessionFails, CreateUndone, WriteState, WriteMessage,
                         ClusterSteps
  <2>2. /\ UNCHANGED <<nextID, contexts, commands>>
        /\ Return(c) \/ \E l \in ClusterSteps : Goto(c, l, obj[c])
    BY <1>2 DEF SessionStarts, SessionFails, CreateUndone, WriteState, WriteMessage, ClusterSteps
  <2>3. /\ at[c] \notin ExecSteps /\ at'[c] \notin ExecSteps
        /\ \A d \in Calls : d # c => at'[d] = at[d] /\ obj'[d] = obj[d]
    BY <1>1, <2>1, <2>2, GotoMoves, ReturnMoves DEF ClusterSteps, ExecSteps
  <2> QED BY <1>1, <2>2, <2>3, ExecUntouched
<1>3. CASE CreateContext(c)
  BY <1>1, <1>3, CreateContextKeeps
<1>4. CASE ContextStarts(c)
  BY <1>1, <1>4, ContextStartsKeeps
<1>5. CASE ContextFails(c)
  <2>1. at[c] = "probe" /\ obj[c] \in Ids /\ DestroyContext(obj[c]) /\ nextID' = nextID
    BY <1>1, <1>5, CallIds DEF ContextFails, ExecSteps
  <2>2. /\ at'[c] = "idle"
        /\ \A d \in Calls : d # c => at'[d] = at[d] /\ obj'[d] = obj[d]
    BY <1>1, <1>5, ReturnMoves DEF ContextFails
  <2> QED BY <1>1, <2>1, <2>2, DestroyContextKeeps
<1>6. CASE CreateCommand(c)
  BY <1>1, <1>6, CreateCommandKeeps
<1>7. ASSUME NEW s \in {"Finished", "Error"}, FinishCommand(c, s) PROVE ExecState'
  BY <1>1, <1>7, FinishCommandKeeps
<1> QED BY <1>2, <1>3, <1>4, <1>5, <1>6, <1>7 DEF Proceed

(***************************************************************************)
(* A request leaves every PENDING cluster attended: a new one by its       *)
(* create.                                                                 *)
(***************************************************************************)
LEMMA RequestKeepsClusters == ASSUME ExecInv, Request PROVE ClustersAttended'
<1>1. TypeOK /\ ClustersAttended
  BY DEF ExecInv
<1>2. ASSUME NEW c \in Calls, clustersCreate(c) PROVE ClustersAttended'
  <2>1. nextCluster + 1 \in ClusterIds
    BY <1>1, <1>2, NextIds DEF clustersCreate
  <2>2. /\ at[c] = "idle" /\ at'[c] = "create" /\ obj'[c] = nextCluster + 1
        /\ \A d \in Calls : d # c => at'[d] = at[d] /\ obj'[d] = obj[d]
    BY <1>1, <1>2, <2>1, GotoMoves DEF clustersCreate, ClusterSteps
  <2>3. /\ clusters' = clusters \cup {nextCluster + 1}
        /\ \A k \in clusters : k # nextCluster + 1 => state'[k] = state[k]
    BY <1>1, <1>2 DEF clustersCreate, TypeOK, HandlesType
  <2> QED BY <1>1, <2>2, <2>3 DEF ClustersAttended
<1>4. ASSUME NEW c \in Calls, NEW k \in ClusterIds, clustersStart(c, k) \/ contextsCreate(c, k)
      PROVE  ClustersAttended'
  <2>1. /\ at[c] = "idle" /\ UNCHANGED <<clusters, state>>
        /\ \A d \in Calls : d # c => at'[d] = at[d] /\ obj'[d] = obj[d]
    BY <1>1, <1>4, GotoMoves DEF clustersStart, contextsCreate, ClusterSteps, handles
  <2> QED BY <1>1, <2>1, ClustersUntouched
<1>5. ASSUME NEW c \in Calls, NEW x \in Ids, commandsExecute(c, x) PROVE ClustersAttended'
  <2>1. /\ at[c] = "idle" /\ UNCHANGED <<clusters, state>>
        /\ \A d \in Calls : d # c => at'[d] = at[d] /\ obj'[d] = obj[d]
    BY <1>1, <1>5, GotoMoves DEF commandsExecute, ExecSteps, handles
  <2> QED BY <1>1, <2>1, ClustersUntouched
<1>6. ASSUME NEW k \in ClusterIds, clustersDelete(k) PROVE ClustersAttended'
  BY <1>1, <1>6 DEF clustersDelete, ClustersAttended
<1>7. ASSUME NEW i \in Ids, contextsDestroy(i) \/ commandsCancel(i) PROVE ClustersAttended'
  BY <1>1, <1>7, ClustersUntouched DEF contextsDestroy, commandsCancel, handles
<1> QED BY <1>2, <1>4, <1>5, <1>6, <1>7 DEF Request

(***************************************************************************)
(* So does a handler that proceeds: a create leaves its cluster RUNNING,   *)
(* in ERROR or removed, or has yet to remove it.                           *)
(***************************************************************************)
LEMMA ProceedKeepsClusters == ASSUME ExecInv, NEW c \in Calls, Proceed(c) PROVE ClustersAttended'
<1>1. TypeOK /\ ClustersAttended
  BY DEF ExecInv
<1>2. at[c] \in ClusterSteps => obj[c] \in ClusterIds
  BY <1>1, CallIds
<1>3. CASE SessionStarts(c)
  <2>1. /\ obj[c] \in ClusterIds
        /\ \A d \in Calls : d # c => at'[d] = at[d] /\ obj'[d] = obj[d]
    BY <1>1, <1>2, <1>3, GotoMoves DEF SessionStarts, ClusterSteps
  <2>2. /\ clusters' = clusters
        /\ \A k \in clusters : k # obj[c] => state'[k] = state[k]
        /\ obj[c] \in clusters => state'[obj[c]] = "RUNNING"
    BY <1>1, <1>3, <2>1 DEF SessionStarts, SetState, TypeOK, HandlesType
  <2> QED BY <1>1, <2>1, <2>2 DEF ClustersAttended
<1>4. CASE SessionFails(c)
  <2>1. /\ obj[c] \in ClusterIds
        /\ \A d \in Calls : d # c => at'[d] = at[d] /\ obj'[d] = obj[d]
        /\ at[c] = "create" => at'[c] = "undo" /\ obj'[c] = obj[c]
        /\ at[c] \in {"create", "start"}
    BY <1>1, <1>2, <1>4, GotoMoves, ReturnMoves DEF SessionFails, ClusterSteps
  <2>2. /\ clusters' = clusters
        /\ \A k \in clusters : state'[k] = state[k] \/ state'[k] = "ERROR"
    BY <1>1, <1>4, <2>1 DEF SessionFails, SetState, TypeOK, HandlesType
  <2> QED BY <1>1, <2>1, <2>2 DEF ClustersAttended
<1>5. CASE CreateUndone(c)
  <2>1. \A d \in Calls : d # c => at'[d] = at[d] /\ obj'[d] = obj[d]
    BY <1>1, <1>5, ReturnMoves DEF CreateUndone
  <2>2. clusters' = clusters \ {obj[c]} /\ state' = state
    BY <1>5 DEF CreateUndone
  <2> QED BY <1>1, <2>1, <2>2 DEF ClustersAttended
<1>6. CASE WriteState(c)
  <2>1. /\ obj[c] \in ClusterIds /\ at[c] = "setState"
        /\ \A d \in Calls : d # c => at'[d] = at[d] /\ obj'[d] = obj[d]
    BY <1>1, <1>2, <1>6, GotoMoves DEF WriteState, ClusterSteps
  <2>2. /\ clusters' = clusters
        /\ \A k \in clusters : state'[k] = state[k] \/ state'[k] = "RUNNING"
    BY <1>1, <1>6, <2>1 DEF WriteState, TypeOK, HandlesType
  <2> QED BY <1>1, <2>1, <2>2 DEF ClustersAttended
<1>7. CASE WriteMessage(c)
  <2>1. /\ at[c] = "setMessage"
        /\ \A d \in Calls : d # c => at'[d] = at[d] /\ obj'[d] = obj[d]
    BY <1>1, <1>7, ReturnMoves DEF WriteMessage
  <2> QED BY <1>1, <1>7, <2>1, ClustersUntouched DEF WriteMessage
<1>8. ASSUME NEW s \in {"Finished", "Error"},
             \/ CreateContext(c) \/ ContextStarts(c) \/ ContextFails(c)
             \/ CreateCommand(c) \/ FinishCommand(c, s)
      PROVE  ClustersAttended'
  <2>1. /\ at[c] \notin {"create", "undo"} /\ UNCHANGED handles
        /\ Return(c) \/ (nextID + 1 \in Ids /\ \E l \in ExecSteps : Goto(c, l, nextID + 1))
    BY <1>1, <1>8, NextIds DEF CreateContext, ContextStarts, ContextFails, CreateCommand,
                               FinishCommand, ExecSteps
  <2>2. \A d \in Calls : d # c => at'[d] = at[d] /\ obj'[d] = obj[d]
    BY <1>1, <2>1, GotoMoves, ReturnMoves
  <2> QED BY <1>1, <2>1, <2>2, ClustersUntouched DEF handles
<1>9. PICK s \in {"Finished", "Error"} : TRUE
  OBVIOUS
<1> QED BY <1>3, <1>4, <1>5, <1>6, <1>7, <1>8, <1>9 DEF Proceed

-------------------------------------------------------------------------------
(***************************************************************************)
(* The invariant holds at the start.                                       *)
(***************************************************************************)
LEMMA ExecInvInit == Init => ExecInv
<1> SUFFICES ASSUME Init PROVE ExecInv
  OBVIOUS
<1>1. HandlesType
  BY ExecAssumption DEF Init, HandlesType
<1>2. ExecType
  BY ExecAssumption DEF Init, ExecType
<1>3. \A c \in Calls : at[c] = "idle"
  BY DEF Init
<1>4. CallsType
  BY <1>3 DEF Init, CallsType, ClusterSteps, ExecSteps
<1>5. \A i \in Ids : ctxStatus[i] = "none" /\ cmdStatus[i] = "none"
  BY DEF Init
<1>6. FreshIds /\ OneFinisher /\ CommandsHaveContexts
  BY <1>3, <1>5 DEF FreshIds, Unused, OneFinisher, CommandsHaveContexts, ExecSteps
<1>7. ContextsAttended /\ CommandsAttended /\ CommandsFollowTheProbe
  BY <1>3, <1>5 DEF ContextsAttended, CommandsAttended, CommandsFollowTheProbe
<1>8. ClustersAttended
  BY DEF Init, ClustersAttended
<1> QED BY <1>1, <1>2, <1>4, <1>6, <1>7, <1>8 DEF ExecInv, ExecState, TypeOK

(***************************************************************************)
(* Every step of the specification keeps it.                               *)
(***************************************************************************)
LEMMA ExecInvNext == ExecInv /\ [Next]_vars => ExecInv'
<1> SUFFICES ASSUME ExecInv, [Next]_vars PROVE ExecInv'
  OBVIOUS
<1>1. CASE Request
  BY <1>1, RequestType, RequestKeepsExec, RequestKeepsClusters DEF ExecInv
<1>2. ASSUME NEW c \in Calls, Proceed(c) PROVE ExecInv'
  BY <1>2, ProceedType, ProceedKeepsExec, ProceedKeepsClusters DEF ExecInv
<1>3. CASE UNCHANGED vars
  <2>1. TypeOK'
    BY <1>3 DEF ExecInv, TypeOK, HandlesType, ExecType, CallsType, vars
  <2>2. ExecState'
    BY <1>3, ExecUntouched DEF ExecInv, vars, contexts, commands
  <2>3. ClustersAttended'
    BY <1>3, ClustersUntouched DEF ExecInv, vars
  <2> QED BY <2>1, <2>2, <2>3 DEF ExecInv
<1> QED BY <1>1, <1>2, <1>3 DEF Next

(***************************************************************************)
(* Every cluster, context, command and handler has its type.               *)
(***************************************************************************)
THEOREM ExecTypeCorrect == Spec => []TypeOK
<1>1. ExecInv => TypeOK
  BY DEF ExecInv
<1> QED BY <1>1, ExecInvInit, ExecInvNext, PTL DEF Spec

(***************************************************************************)
(* However many handlers are in flight, a PENDING cluster, a Pending       *)
(* context and a Running command have the handler that settles them.       *)
(***************************************************************************)
THEOREM NothingIsEverAbandoned == Spec => []NothingIsAbandoned
<1>1. ExecInv => NothingIsAbandoned
  BY DEF ExecInv, ExecState, NothingIsAbandoned
<1> QED BY <1>1, ExecInvInit, ExecInvNext, PTL DEF Spec

(***************************************************************************)
(* No command ever enters a context whose probe has not been answered.     *)
(***************************************************************************)
THEOREM CommandsAlwaysFollowTheProbe == Spec => []CommandsFollowTheProbe
<1>1. ExecInv => CommandsFollowTheProbe
  BY DEF ExecInv, ExecState
<1> QED BY <1>1, ExecInvInit, ExecInvNext, PTL DEF Spec

(***************************************************************************)
(* No step relabels a command that ended: the handler of another command   *)
(* does not reach it, its own has returned, a new command takes a fresh id *)
(* and a cancel leaves it alone.                                           *)
(***************************************************************************)
LEMMA EndedStepKeepsStatus ==
    ASSUME ExecInv, [Next]_vars, NEW m \in Ids,
           cmdStatus[m] = "Finished" \/ cmdStatus[m] = "Error"
    PROVE  cmdStatus'[m] = cmdStatus[m] \/ cmdStatus'[m] = "none"
<1>1. TypeOK /\ FreshIds /\ OneFinisher
  BY DEF ExecInv, ExecState
<1>2. cmdStatus \in [Ids -> {"none", "Running", "Finished", "Error", "Cancelled"}]
  BY <1>1 DEF TypeOK, ExecType
<1>3. CASE UNCHANGED cmdStatus
  BY <1>3
<1>4. ASSUME NEW x \in Ids, DestroyContext(x)
      PROVE  cmdStatus'[m] = cmdStatus[m] \/ cmdStatus'[m] = "none"
  BY <1>4, <1>1, DestroyContextFacts
<1>5. ASSUME NEW n \in Ids, commandsCancel(n)
      PROVE  cmdStatus'[m] = cmdStatus[m] \/ cmdStatus'[m] = "none"
  BY <1>2, <1>5 DEF commandsCancel
<1>6. ASSUME NEW c \in Calls, CreateCommand(c)
      PROVE  cmdStatus'[m] = cmdStatus[m] \/ cmdStatus'[m] = "none"
  <2>1. nextID + 1 \in Ids /\ nextID \in 0..MaxID
    BY <1>1, <1>6, NextIds DEF CreateCommand, TypeOK, ExecType
  <2>2. nextID + 1 > nextID
    BY <2>1
  <2>3. cmdStatus[nextID + 1] = "none"
    BY <1>1, <2>1, <2>2 DEF FreshIds, Unused
  <2> QED BY <1>2, <1>6, <2>3 DEF CreateCommand
<1>7. ASSUME NEW c \in Calls, NEW s \in {"Finished", "Error"}, FinishCommand(c, s)
      PROVE  cmdStatus'[m] = cmdStatus[m] \/ cmdStatus'[m] = "none"
  <2>1. obj[c] # m
    BY <1>1, <1>7 DEF FinishCommand, OneFinisher
  <2> QED BY <1>2, <1>7, <2>1 DEF FinishCommand
<1>8. CASE Request
  BY <1>3, <1>4, <1>5, <1>8 DEF Request, clustersCreate, clustersStart, contextsCreate,
     commandsExecute, clustersDelete, contextsDestroy, commands
<1>9. ASSUME NEW c \in Calls, Proceed(c)
      PROVE  cmdStatus'[m] = cmdStatus[m] \/ cmdStatus'[m] = "none"
  <2>1. CASE ContextFails(c)
    <3>1. obj[c] \in Ids
      BY <1>1, <2>1, CallIds DEF ContextFails, ExecSteps
    <3> QED BY <1>4, <2>1, <3>1 DEF ContextFails
  <2>2. CASE \/ SessionStarts(c) \/ SessionFails(c) \/ CreateUndone(c) \/ WriteState(c)
             \/ WriteMessage(c) \/ CreateContext(c) \/ ContextStarts(c)
    BY <1>3, <2>2 DEF SessionStarts, SessionFails, CreateUndone, WriteState, WriteMessage,
       CreateContext, ContextStarts, commands
  <2> QED BY <1>6, <1>7, <1>9, <2>1, <2>2 DEF Proceed
<1> QED BY <1>3, <1>8, <1>9 DEF Next, vars

(***************************************************************************)
(* A command that ended keeps its status until its context is destroyed.   *)
(***************************************************************************)
THEOREM EndedCommandsAreNotRelabelled == Spec => EndedCommandsKeepTheirStatus
<1>1. ExecInv /\ [Next]_vars =>
        [\A m \in Ids : cmdStatus[m] \in {"Finished", "Error"} =>
            cmdStatus'[m] \in {cmdStatus[m], "none"}]_vars
  BY EndedStepKeepsStatus
<1> QED BY <1>1, ExecInvInit, ExecInvNext, PTL DEF Spec, EndedCommandsKeepTheirStatus
===============================================================================
