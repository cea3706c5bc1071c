------------------------------- MODULE JobRuns -------------------------------
(***************************************************************************)
(* The Jobs 2.2 runner: the in-memory job store (internal/store/jobs.go),  *)
(* the HTTP handlers that change it and executeRun with everything it      *)
(* calls (internal/server/jobs.go).                                        *)
(*                                                                         *)
(* Every handler runs on its own goroutine; run-now spawns executeRun,     *)
(* which spawns one goroutine per dispatched task and waits for the wave.  *)
(* A step here is what one goroutine does between two points where another *)
(* can be seen: a store call (under Jobs.mu), an unlocked read of          *)
(* job.Tasks, the end of an engine call.  A run's executor is identified   *)
(* by the run's id, a task's goroutine by the run and the task.            *)
(***************************************************************************)
EXTENDS TaskDag

CONSTANTS MaxID,           \* bound on the ids Create and NewRun hand out
          MaxJobID,        \* bound on the ids clients create jobs under
          MaxRunNowID,     \* bound on the ids clients start runs under
          maxRunJobDepth,  \* 5 in the code
          CreateLists,     \* task lists a client creates jobs with
          ResetLists       \* task lists a client resets jobs to

ASSUME JobsAssumption ==
    /\ MaxID \in Nat
    /\ MaxJobID \in 0..MaxID
    /\ MaxRunNowID \in 0..MaxID
    /\ maxRunJobDepth \in Nat
    /\ CreateLists \subseteq TaskList
    /\ ResetLists \subseteq TaskList

Ids == 1..MaxID

VARIABLES
    nextID,     \* Jobs.nextID, shared by jobs and runs
    jobs,       \* the ids in the map Jobs.jobs
    tasks,      \* job.Tasks of the Job object an id was given to
    runs,       \* the map Jobs.runs
    pc,         \* where the executor of a run is
    list,       \* the job.Tasks the executor is ranging over
    loaded,     \* the tasks the executor put into its map at the start
    remaining,  \* executeRun's remaining
    results,    \* executeRun's results
    flight,     \* the tasks of the wave whose goroutine has not finished
    iters,      \* per for_each task, the state of each iteration
    depth,      \* executeRun's depth argument
    caller,     \* the task goroutine that waits for this run, if any
    attached    \* s.Spark # nil, settled when the process starts

store  == <<nextID, jobs, tasks, runs>>
locals == <<pc, list, loaded, remaining, results, flight, iters>>
frame  == <<depth, caller, attached>>
vars   == <<nextID, jobs, tasks, runs, pc, list, loaded, remaining, results,
            flight, iters, depth, caller, attached>>

Run == [job : 0..MaxID, life : {"", "PENDING", "RUNNING", "TERMINATED"},
        result : {"", "SUCCESS", "FAILED", "CANCELED"}, tasks : Seq(TaskRun)]

NoRun == [job |-> 0, life |-> "", result |-> "", tasks |-> <<>>]

Locations == {"none", "start", "noengine", "load", "wave", "dispatch",
              "reread", "publish", "returned"}

IterState == {"waiting", "running", "SUCCESS", "FAILED"}

\* The caller of a run a handler started.
Handler == [run |-> 0, key |-> ""]

Cancelled(r) == runs[r].result = "CANCELED"
Active(r)    == pc[r] \notin {"none", "returned"}

StoreType ==
    /\ nextID \in 0..MaxID
    /\ jobs \subseteq Ids
    /\ tasks \in [Ids -> Seq(Task)]

RunsType == runs \in [Ids -> Run]

ControlType ==
    /\ pc \in [Ids -> Locations]
    /\ depth \in [Ids -> 0..maxRunJobDepth]
    /\ caller \in [Ids -> [run : 0..MaxID, key : Keys \cup {""}]]
    /\ attached \in BOOLEAN

TasksType ==
    /\ list \in [Ids -> Seq(Task)]
    /\ loaded \in [Ids -> SUBSET Task]
    /\ remaining \in [Ids -> SUBSET Task]
    /\ flight \in [Ids -> SUBSET Task]

RowsType ==
    /\ results \in [Ids -> [Keys -> TaskRun]]
    /\ iters \in [Ids -> [Keys -> Seq(IterState)]]

TypeOK == StoreType /\ RunsType /\ ControlType /\ TasksType /\ RowsType

Init ==
    /\ nextID = 0
    /\ jobs = {}
    /\ tasks = [i \in Ids |-> <<>>]
    /\ runs = [i \in Ids |-> NoRun]
    /\ pc = [i \in Ids |-> "none"]
    /\ list = [i \in Ids |-> <<>>]
    /\ loaded = [i \in Ids |-> {}]
    /\ remaining = [i \in Ids |-> {}]
    /\ results = [i \in Ids |-> [k \in Keys |-> ZeroRow]]
    /\ flight = [i \in Ids |-> {}]
    /\ iters = [i \in Ids |-> [k \in Keys |-> <<>>]]
    /\ depth = [i \in Ids |-> 0]
    /\ caller = [i \in Ids |-> Handler]
    /\ attached \in BOOLEAN

-------------------------------------------------------------------------------
(***************************************************************************)
(* The store.                                                              *)
(***************************************************************************)

(***************************************************************************)
(* NewRun, and the executor it is created for: run-now hands the new run   *)
(* to a goroutine, runJobTask calls executeRun itself.                     *)
(***************************************************************************)
NewRun(j, d, parent) ==
    /\ nextID < MaxID
    /\ nextID' = nextID + 1
    /\ runs' = [runs EXCEPT ![nextID + 1] =
                  [job |-> j, life |-> "PENDING", result |-> "", tasks |-> <<>>]]
    /\ pc' = [pc EXCEPT ![nextID + 1] = "start"]
    /\ depth' = [depth EXCEPT ![nextID + 1] = d]
    /\ caller' = [caller EXCEPT ![nextID + 1] = parent]
    /\ UNCHANGED <<jobs, tasks, list, loaded, remaining, results, flight, iters, attached>>

\* The stored run r with another state and other rows.
Record(r, life, res, rows) ==
    [job |-> runs[r].job, life |-> life, result |-> res, tasks |-> rows]

UpdateRun_Unguarded(r, rec) == runs' = [runs EXCEPT ![r] = rec]

(***************************************************************************)
(* A cancelled run is final: a later publish is dropped.                   *)
(***************************************************************************)
UpdateRun(r, rec) ==
    runs' = IF Cancelled(r) THEN runs ELSE [runs EXCEPT ![r] = rec]

CancelRun_ResultOnly(r) ==
    runs' = IF runs[r].life = "TERMINATED" THEN runs
            ELSE [runs EXCEPT ![r] = Record(r, runs[r].life, "CANCELED", runs[r].tasks)]

CancelRun_Always(r) ==
    runs' = [runs EXCEPT ![r] = Record(r, "TERMINATED", "CANCELED", runs[r].tasks)]

CancelRun(r) ==
    runs' = IF runs[r].life = "TERMINATED" THEN runs
            ELSE [runs EXCEPT ![r] = Record(r, "TERMINATED", "CANCELED", runs[r].tasks)]

-------------------------------------------------------------------------------
(***************************************************************************)
(* The handlers.                                                           *)
(***************************************************************************)
jobsCreate(ts) ==
    /\ nextID < MaxJobID
    /\ nextID' = nextID + 1
    /\ jobs' = jobs \cup {nextID + 1}
    /\ tasks' = [tasks EXCEPT ![nextID + 1] = ts]
    /\ UNCHANGED <<runs, locals, frame>>

jobsReset(j, ts) ==
    /\ j \in jobs
    /\ tasks' = [tasks EXCEPT ![j] = ts]
    /\ UNCHANGED <<nextID, jobs, runs, locals, frame>>

jobsDelete(j) ==
    /\ j \in jobs
    /\ jobs' = jobs \ {j}
    /\ UNCHANGED <<nextID, tasks, runs, locals, frame>>

jobsRunNow(j) ==
    /\ nextID < MaxRunNowID
    /\ j \in jobs
    /\ NewRun(j, 0, Handler)

jobsRunsCancel(r) ==
    /\ runs[r] # NoRun
    /\ CancelRun(r)
    /\ UNCHANGED <<nextID, jobs, tasks, locals, frame>>

-------------------------------------------------------------------------------
(***************************************************************************)
(* executeRun.                                                             *)
(***************************************************************************)
Goto(r, l) == pc' = [pc EXCEPT ![r] = l]

StartRun(r) ==
    /\ pc[r] = "start"
    /\ UpdateRun(r, Record(r, "RUNNING", "", <<>>))
    /\ Goto(r, IF attached THEN "load" ELSE "noengine")
    /\ UNCHANGED <<nextID, jobs, tasks, list, loaded, remaining, results, flight,
                   iters, frame>>

FailWithoutEngine(r) ==
    /\ pc[r] = "noengine"
    /\ UpdateRun(r, Record(r, "TERMINATED", "FAILED", <<>>))
    /\ Goto(r, "returned")
    /\ UNCHANGED <<nextID, jobs, tasks, list, loaded, remaining, results, flight,
                   iters, frame>>

(***************************************************************************)
(* job.Tasks is read with no lock through a pointer Reset writes through:  *)
(* the executor ranges over whatever the Job object holds at that moment,  *)
(* at the start (remaining) and again when it collects the rows.           *)
(***************************************************************************)
SeesTasks(r, ts) ==
    /\ list' = [list EXCEPT ![r] = ts]
    /\ \/ /\ pc[r] = "load"
          /\ loaded' = [loaded EXCEPT ![r] = byKey(ts)]
          /\ remaining' = [remaining EXCEPT ![r] = byKey(ts)]
          /\ Goto(r, "wave")
       \/ /\ pc[r] = "reread"
          /\ Goto(r, "publish")
          /\ UNCHANGED <<loaded, remaining>>
    /\ UNCHANGED <<results, flight, iters, frame>>

ReadTasks(r) ==
    /\ pc[r] \in {"load", "reread"}
    /\ SeesTasks(r, tasks[runs[r].job])
    /\ UNCHANGED store

(***************************************************************************)
(* The same read while Reset is storing the new slice header: the pointer  *)
(* of one list with the length of the other.  The longer length over the   *)
(* shorter array leaves the program's memory and is not modelled.          *)
(***************************************************************************)
TornReads(a, b) ==
    LET n == IF Len(a) <= Len(b) THEN Len(a) ELSE Len(b)
    IN  {SubSeq(a, 1, n), SubSeq(b, 1, n)}

ResetDuringRead(j, ts, r) ==
    /\ j \in jobs
    /\ pc[r] \in {"load", "reread"} /\ runs[r].job = j
    /\ tasks' = [tasks EXCEPT ![j] = ts]
    /\ \E seen \in TornReads(tasks[j], ts) : SeesTasks(r, seen)
    /\ UNCHANGED <<nextID, jobs, runs>>

(***************************************************************************)
(* The loop head: with tasks remaining, a cancelled run returns and        *)
(* publishes nothing; otherwise the next wave is dispatched.  The wave     *)
(* before it has been waited for.                                          *)
(***************************************************************************)
CheckCancelled_NoBarrier(r) ==
    /\ pc[r] = "wave" /\ remaining[r] # {}
    /\ Goto(r, IF Cancelled(r) THEN "returned" ELSE "dispatch")
    /\ UNCHANGED <<store, list, loaded, remaining, results, flight, iters, frame>>

CheckCancelled_Ignored(r) ==
    /\ pc[r] = "wave" /\ flight[r] = {} /\ remaining[r] # {}
    /\ Goto(r, "dispatch")
    /\ UNCHANGED <<store, list, loaded, remaining, results, flight, iters, frame>>

CheckCancelled(r) ==
    /\ pc[r] = "wave" /\ flight[r] = {} /\ remaining[r] # {}
    /\ Goto(r, IF Cancelled(r) THEN "returned" ELSE "dispatch")
    /\ UNCHANGED <<store, list, loaded, remaining, results, flight, iters, frame>>

WavesDone(r) ==
    /\ pc[r] = "wave" /\ flight[r] = {} /\ remaining[r] = {}
    /\ Goto(r, "reread")
    /\ UNCHANGED <<store, list, loaded, remaining, results, flight, iters, frame>>

Ready(r) == { t \in remaining[r] : depsSatisfied(t, results[r]) }

\* What the dispatch loop records for a ready task without a goroutine.
Decided(t, done) ==
    CASE ~shouldRun(t, done) -> Row("SKIPPED")
      [] t.kind = "condition" /\ shouldRun(t, done) ->
            ConditionRow(evalCondition(t.cond))
      [] OTHER -> ZeroRow

Decide(r, T) ==
    results' = [results EXCEPT ![r] =
                  [k \in Keys |-> IF \E t \in T : t.key = k
                                  THEN Decided(CHOOSE t \in T : t.key = k, results[r])
                                  ELSE results[r][k]]]

Spawned(r) ==
    { t \in Ready(r) : shouldRun(t, results[r]) /\ t.kind # "condition" }

\* The iterations a spawned for_each task has before it.
Inputs(r, k) ==
    LET loops == { t \in Spawned(r) : t.key = k /\ t.kind = "for_each" }
    IN  IF loops = {} THEN iters[r][k]
        ELSE [i \in 1..(CHOOSE t \in loops : TRUE).inputs |-> "waiting"]

Dispatch_KeepsRemaining(r) ==
    /\ pc[r] = "dispatch"
    /\ Ready(r) # {}
    /\ Decide(r, Ready(r))
    /\ flight' = [flight EXCEPT ![r] = Spawned(r)]
    /\ iters' = [iters EXCEPT ![r] = [k \in Keys |-> Inputs(r, k)]]
    /\ Goto(r, "wave")
    /\ UNCHANGED <<store, list, loaded, remaining, frame>>

Dispatch(r) ==
    /\ pc[r] = "dispatch"
    /\ Ready(r) # {}
    /\ remaining' = [remaining EXCEPT ![r] = @ \ Ready(r)]
    /\ Decide(r, Ready(r))
    /\ flight' = [flight EXCEPT ![r] = Spawned(r)]
    /\ iters' = [iters EXCEPT ![r] = [k \in Keys |-> Inputs(r, k)]]
    /\ Goto(r, "wave")
    /\ UNCHANGED <<store, list, loaded, frame>>

(***************************************************************************)
(* Nothing is ready: what remains waits on itself or on an unknown key.    *)
(***************************************************************************)
SkipTheRest(r) ==
    /\ pc[r] = "dispatch"
    /\ Ready(r) = {}
    /\ results' = [results EXCEPT ![r] =
                     [k \in Keys |-> IF \E t \in remaining[r] : t.key = k
                                     THEN Row("SKIPPED") ELSE results[r][k]]]
    /\ remaining' = [remaining EXCEPT ![r] = {}]
    /\ Goto(r, "wave")
    /\ UNCHANGED <<store, list, loaded, flight, iters, frame>>

Rows(r) == [i \in DOMAIN list[r] |-> results[r][list[r][i].key]]

Publish_LastRow(r) ==
    /\ pc[r] = "publish"
    /\ UpdateRun(r, Record(r, "TERMINATED",
                           IF Rows(r) # <<>> /\ Rows(r)[Len(Rows(r))].result = "FAILED"
                           THEN "FAILED" ELSE "SUCCESS", Rows(r)))
    /\ Goto(r, "returned")
    /\ UNCHANGED <<nextID, jobs, tasks, list, loaded, remaining, results, flight,
                   iters, frame>>

Publish(r) ==
    /\ pc[r] = "publish"
    /\ UpdateRun(r, Record(r, "TERMINATED",
                           IF \E i \in DOMAIN Rows(r) : Rows(r)[i].result = "FAILED"
                           THEN "FAILED" ELSE "SUCCESS", Rows(r)))
    /\ Goto(r, "returned")
    /\ UNCHANGED <<nextID, jobs, tasks, list, loaded, remaining, results, flight,
                   iters, frame>>

-------------------------------------------------------------------------------
(***************************************************************************)
(* The task goroutines: runTask, runJobTask, runForEachTask.               *)
(***************************************************************************)
FinishTask(r, t, row) ==
    /\ results' = [results EXCEPT ![r][t.key] = row]
    /\ flight' = [flight EXCEPT ![r] = @ \ {t}]
    /\ UNCHANGED <<pc, list, loaded, remaining, iters>>

(***************************************************************************)
(* A code task: secrets, code and the engine may each fail it.             *)
(***************************************************************************)
EngineAnswers(r, t, res) ==
    /\ t \in flight[r] /\ t.kind = "code"
    /\ FinishTask(r, t, Row(res))
    /\ UNCHANGED <<store, frame>>

Child(r, t, c) == caller[c] = [run |-> r, key |-> t.key]
Called(r, t)   == \E c \in Ids : Child(r, t, c)

TooDeep_Never(r) == FALSE

TooDeep(r) == depth[r] + 1 > maxRunJobDepth

RunJobRefused(r, t) ==
    /\ t \in flight[r] /\ t.kind = "run_job" /\ ~Called(r, t)
    /\ t.job \notin jobs \/ TooDeep(r)
    /\ FinishTask(r, t, Row("FAILED"))
    /\ UNCHANGED <<store, frame>>

RunJobStarts(r, t) ==
    /\ t \in flight[r] /\ t.kind = "run_job" /\ ~Called(r, t)
    /\ t.job \in jobs /\ ~TooDeep(r)
    /\ NewRun(t.job, depth[r] + 1, [run |-> r, key |-> t.key])

RunJobEnds_OnTerminated(r, t, c) ==
    /\ t \in flight[r] /\ t.kind = "run_job"
    /\ Child(r, t, c) /\ runs[c].life = "TERMINATED"
    /\ FinishTask(r, t, ChildRow(runs[c].result, c))
    /\ UNCHANGED <<store, frame>>

(***************************************************************************)
(* executeRun of the child has returned; its stored result is this task's. *)
(***************************************************************************)
RunJobEnds(r, t, c) ==
    /\ t \in flight[r] /\ t.kind = "run_job"
    /\ Child(r, t, c) /\ pc[c] = "returned"
    /\ FinishTask(r, t, ChildRow(runs[c].result, c))
    /\ UNCHANGED <<store, frame>>

IterAt(r, t, s) == { i \in DOMAIN iters[r][t.key] : iters[r][t.key][i] = s }

Limit(t) ==
    LET c == IF t.concurrency <= 0 THEN 1 ELSE t.concurrency
    IN  IF c > t.inputs THEN t.inputs ELSE c

(***************************************************************************)
(* The loop over the inputs takes a semaphore slot for each, in order.     *)
(***************************************************************************)
IterationStarts(r, t, i) ==
    /\ t \in flight[r] /\ t.kind = "for_each"
    /\ i \in IterAt(r, t, "waiting")
    /\ \A n \in IterAt(r, t, "waiting") : i <= n
    /\ Cardinality(IterAt(r, t, "running")) < Limit(t)
    /\ iters' = [iters EXCEPT ![r][t.key][i] = "running"]
    /\ UNCHANGED <<store, frame, pc, list, loaded, remaining, results, flight>>

IterationEnds(r, t, i, res) ==
    /\ t \in flight[r] /\ t.kind = "for_each"
    /\ i \in IterAt(r, t, "running")
    /\ iters' = [iters EXCEPT ![r][t.key][i] = res]
    /\ UNCHANGED <<store, frame, pc, list, loaded, remaining, results, flight>>

ForEachEnds_NoWait(r, t) ==
    /\ t \in flight[r] /\ t.kind = "for_each"
    /\ IterAt(r, t, "waiting") = {}
    /\ FinishTask(r, t, Row(IF IterAt(r, t, "FAILED") = {} THEN "SUCCESS" ELSE "FAILED"))
    /\ UNCHANGED <<store, frame>>

ForEachEnds(r, t) ==
    /\ t \in flight[r] /\ t.kind = "for_each"
    /\ IterAt(r, t, "waiting") \cup IterAt(r, t, "running") = {}
    /\ FinishTask(r, t, Row(IF IterAt(r, t, "FAILED") = {} THEN "SUCCESS" ELSE "FAILED"))
    /\ UNCHANGED <<store, frame>>

-------------------------------------------------------------------------------
Executor(r) ==
    \/ StartRun(r) \/ FailWithoutEngine(r) \/ ReadTasks(r)
    \/ CheckCancelled(r) \/ WavesDone(r) \/ Dispatch(r) \/ SkipTheRest(r)
    \/ Publish(r)

TaskStep(r, t) ==
    \/ \E res \in {"SUCCESS", "FAILED"} : EngineAnswers(r, t, res)
    \/ RunJobRefused(r, t) \/ RunJobStarts(r, t)
    \/ \E c \in Ids : RunJobEnds(r, t, c)
    \/ \E i \in 1..t.inputs : IterationStarts(r, t, i)
    \/ \E i \in 1..t.inputs, res \in {"SUCCESS", "FAILED"} : IterationEnds(r, t, i, res)
    \/ ForEachEnds(r, t)

Client ==
    \/ \E ts \in CreateLists : jobsCreate(ts)
    \/ \E j \in jobs, ts \in ResetLists : jobsReset(j, ts)
    \/ \E j \in jobs, ts \in ResetLists, r \in Ids : ResetDuringRead(j, ts, r)
    \/ \E j \in jobs : jobsDelete(j) \/ jobsRunNow(j)
    \/ \E r \in Ids : jobsRunsCancel(r)

Next ==
    \/ Client
    \/ \E r \in Ids : Executor(r) \/ \E t \in flight[r] : TaskStep(r, t)

Spec == Init /\ [][Next]_vars

(***************************************************************************)
(* The Go scheduler runs every runnable goroutine, and an engine call ends *)
(* within the HTTP client's 5 minutes (internal/spark/spark.go).           *)
(***************************************************************************)
FairSpec ==
    /\ Spec
    /\ \A r \in Ids : WF_vars(Executor(r))
    /\ \A r \in Ids : WF_vars(\E t \in flight[r] : TaskStep(r, t))
===============================================================================
