---------------------------- MODULE JobRunsProofs ----------------------------
(***************************************************************************)
(* Theorems about the Jobs runner, for every set of keys, every job list   *)
(* and every bound.                                                        *)
(***************************************************************************)
EXTENDS JobRunsProps, SequenceTheorems, TLAPS

\* The inductive invariant: the types, and the record following the executor.
IndInv == TypeOK /\ RecordFollowsExecutor

-------------------------------------------------------------------------------
(***************************************************************************)
(* What the operators of the model return.                                 *)
(***************************************************************************)

(***************************************************************************)
(* The rows the dispatch loop and the goroutines record are task rows.     *)
(***************************************************************************)
LEMMA RowType ==
    /\ \A res \in {"", "SUCCESS", "FAILED", "SKIPPED", "CANCELED"} :
          /\ Row(res) \in TaskRun
          /\ \A c \in Nat : ChildRow(res, c) \in TaskRun
    /\ \A o \in Outcomes : ConditionRow(o) \in TaskRun
    /\ ZeroRow \in TaskRun
  BY DEF Row, ChildRow, ConditionRow, ZeroRow, TaskRun, Outcomes

(***************************************************************************)
(* evalCondition answers "true" or "false".                                *)
(***************************************************************************)
LEMMA ConditionOutcome ==
    ASSUME NEW c PROVE evalCondition(c) \in {"true", "false"}
  BY DEF evalCondition, Truth

(***************************************************************************)
(* What the dispatch loop decides without a goroutine is a row.            *)
(***************************************************************************)
LEMMA DecidedType ==
    ASSUME NEW t, NEW done PROVE Decided(t, done) \in TaskRun
<1>1. ConditionRow(evalCondition(t.cond)) \in TaskRun
  BY RowType, ConditionOutcome DEF Outcomes
<1>2. Row("SKIPPED") \in TaskRun /\ ZeroRow \in TaskRun
  BY RowType
<1> QED
  BY <1>1, <1>2 DEF Decided

(***************************************************************************)
(* The map built from a task list holds tasks of the list.                 *)
(***************************************************************************)
LEMMA ByKeyType ==
    ASSUME NEW ts \in Seq(Task) PROVE byKey(ts) \subseteq Task
  BY DEF byKey

(***************************************************************************)
(* A torn read still sees a list of tasks.                                 *)
(***************************************************************************)
LEMMA TornReadsType ==
    ASSUME NEW a \in Seq(Task), NEW b \in Seq(Task), NEW s \in TornReads(a, b)
    PROVE  s \in Seq(Task)
<1> DEFINE n == IF Len(a) <= Len(b) THEN Len(a) ELSE Len(b)
<1>1. n \in Nat /\ n <= Len(a) /\ n <= Len(b)
  OBVIOUS
<1> HIDE DEF n
<1>2. SubSeq(a, 1, n) \in Seq(Task)
  <2>1. \A i \in 1..n : a[i] \in Task
    BY <1>1
  <2> QED BY <1>1, <2>1, SubSeqProperties
<1>3. SubSeq(b, 1, n) \in Seq(Task)
  <2>1. \A i \in 1..n : b[i] \in Task
    BY <1>1
  <2> QED BY <1>1, <2>1, SubSeqProperties
<1>4. s = SubSeq(a, 1, n) \/ s = SubSeq(b, 1, n)
  BY DEF TornReads, n
<1> QED BY <1>2, <1>3, <1>4

(***************************************************************************)
(* The fields of a task the executor uses.                                 *)
(***************************************************************************)
LEMMA TaskFields ==
    ASSUME NEW t \in Task
    PROVE  t.key \in Keys /\ t.inputs \in Nat /\ t.job \in Nat
  BY DEF Task

(***************************************************************************)
(* Bounds on the constants that the types use.                             *)
(***************************************************************************)
LEMMA Bounds ==
    MaxID \in Nat /\ maxRunJobDepth \in Nat /\ MaxJobID <= MaxID /\ MaxRunNowID <= MaxID
  BY JobsAssumption

(***************************************************************************)
(* An id that was handed out is in range, and so is the next one.          *)
(***************************************************************************)
LEMMA IdsInRange == \A i \in Ids : i \in 0..MaxID /\ i \in Nat
  BY Bounds DEF Ids

(***************************************************************************)
(* The next id Create or NewRun hands out, under the bound of its guard, is*)
(* an id.                                                                  *)
(***************************************************************************)
LEMMA NextIdInRange ==
    ASSUME NEW n \in 0..MaxID, n < MaxID
    PROVE  n + 1 \in Ids /\ n + 1 \in 0..MaxID
  BY Bounds DEF Ids

(***************************************************************************)
(* Every list a client may send is a sequence of tasks.                    *)
(***************************************************************************)
LEMMA ListsAreTasks ==
    \A ts \in CreateLists \cup ResetLists : ts \in Seq(Task)
  BY JobsAssumption DEF TaskList

-------------------------------------------------------------------------------
(***************************************************************************)
(* The types, part by part.                                                *)
(***************************************************************************)

(***************************************************************************)
(* A new run and its executor keep the types.                              *)
(***************************************************************************)
LEMMA NewRunType ==
    ASSUME TypeOK, NEW j \in Ids, NEW d \in 0..maxRunJobDepth,
           NEW parent \in [run : 0..MaxID, key : Keys \cup {""}], NewRun(j, d, parent)
    PROVE  TypeOK'
<1>1. nextID + 1 \in Ids /\ nextID' \in 0..MaxID
  BY NextIdInRange DEF NewRun, TypeOK, StoreType
<1>2. StoreType'
  BY <1>1 DEF NewRun, TypeOK, StoreType
<1>3. RunsType'
  <2>1. [job |-> j, life |-> "PENDING", result |-> "", tasks |-> <<>>] \in Run
    <3>1. j \in 0..MaxID /\ <<>> \in Seq(TaskRun)
      BY IdsInRange, EmptySeq
    <3> QED BY <3>1 DEF Run
  <2> QED BY <2>1 DEF NewRun, TypeOK, RunsType
<1>4. ControlType'
  BY DEF NewRun, TypeOK, ControlType, Locations
<1>5. TasksType' /\ RowsType'
  BY DEF NewRun, TypeOK, TasksType, RowsType
<1> QED
  BY <1>2, <1>3, <1>4, <1>5 DEF TypeOK

(***************************************************************************)
(* UpdateRun and CancelRun store records.                                  *)
(***************************************************************************)
LEMMA RecordType ==
    ASSUME RunsType, NEW r \in Ids, NEW rows \in Seq(TaskRun)
    PROVE  /\ Record(r, "RUNNING", "", rows) \in Run
           /\ \A res \in {"SUCCESS", "FAILED", "CANCELED"} :
                 Record(r, "TERMINATED", res, rows) \in Run
  BY DEF RunsType, Record, Run

(***************************************************************************)
(* UpdateRun stores a well-typed record, or drops it when the run was      *)
(* cancelled.                                                              *)
(***************************************************************************)
LEMMA UpdateRunType ==
    ASSUME RunsType, NEW r \in Ids, NEW rec \in Run, UpdateRun(r, rec)
    PROVE  RunsType'
  BY DEF RunsType, UpdateRun

(***************************************************************************)
(* Seeing a task list keeps the executor's variables well typed.           *)
(***************************************************************************)
LEMMA SeesTasksType ==
    ASSUME TasksType, ControlType, RowsType, NEW r \in Ids, NEW ts \in Seq(Task),
           SeesTasks(r, ts)
    PROVE  TasksType' /\ ControlType' /\ RowsType'
<1>1. byKey(ts) \subseteq Task
  BY ByKeyType
<1>2. TasksType'
  BY <1>1 DEF SeesTasks, TasksType
<1>3. ControlType'
  BY DEF SeesTasks, ControlType, Goto, Locations, frame
<1>4. RowsType'
  BY DEF SeesTasks, RowsType
<1> QED BY <1>2, <1>3, <1>4

(***************************************************************************)
(* The handlers keep the types.                                            *)
(***************************************************************************)
LEMMA ClientType == TypeOK /\ Client => TypeOK'
<1> SUFFICES ASSUME TypeOK, Client PROVE TypeOK'
  OBVIOUS
<1> USE DEF TypeOK
<1>1. ASSUME NEW ts \in CreateLists, jobsCreate(ts) PROVE TypeOK'
  <2>1. nextID + 1 \in Ids /\ nextID' \in 0..MaxID
    BY <1>1, Bounds, JobsAssumption DEF jobsCreate, StoreType, Ids
  <2>2. StoreType'
    BY <1>1, <2>1, ListsAreTasks DEF jobsCreate, StoreType
  <2>3. RunsType' /\ ControlType' /\ TasksType' /\ RowsType'
    BY <1>1 DEF jobsCreate, RunsType, ControlType, TasksType, RowsType, locals, frame
  <2> QED BY <2>2, <2>3
<1>2. ASSUME NEW j \in jobs, NEW ts \in ResetLists, jobsReset(j, ts) PROVE TypeOK'
  <2>1. StoreType'
    BY <1>2, ListsAreTasks DEF jobsReset, StoreType
  <2>2. RunsType' /\ ControlType' /\ TasksType' /\ RowsType'
    BY <1>2 DEF jobsReset, RunsType, ControlType, TasksType, RowsType, locals, frame
  <2> QED BY <2>1, <2>2
<1>3. ASSUME NEW j \in jobs, NEW ts \in ResetLists, NEW r \in Ids,
             ResetDuringRead(j, ts, r)
      PROVE  TypeOK'
  <2>1. ts \in Seq(Task) /\ tasks[j] \in Seq(Task)
    BY ListsAreTasks DEF StoreType
  <2>2. PICK seen \in TornReads(tasks[j], ts) : SeesTasks(r, seen)
    BY <1>3 DEF ResetDuringRead
  <2>3. TasksType' /\ ControlType' /\ RowsType'
    BY <2>1, <2>2, TornReadsType, SeesTasksType
  <2>4. StoreType' /\ RunsType'
    BY <1>3, <2>1 DEF ResetDuringRead, StoreType, RunsType
  <2> QED BY <2>3, <2>4
<1>4. ASSUME NEW j \in jobs, jobsDelete(j) PROVE TypeOK'
  BY <1>4 DEF jobsDelete, StoreType, RunsType, ControlType, TasksType, RowsType, locals, frame
<1>5. ASSUME NEW j \in jobs, jobsRunNow(j) PROVE TypeOK'
  <2>1. j \in Ids /\ 0 \in 0..maxRunJobDepth
    BY Bounds DEF StoreType
  <2>2. Handler \in [run : 0..MaxID, key : Keys \cup {""}]
    BY Bounds DEF Handler
  <2> QED BY <1>5, <2>1, <2>2, NewRunType DEF jobsRunNow
<1>6. ASSUME NEW r \in Ids, jobsRunsCancel(r) PROVE TypeOK'
  <2>1. runs[r].tasks \in Seq(TaskRun)
    BY DEF RunsType, Run
  <2>2. RunsType'
    BY <1>6, <2>1, RecordType DEF jobsRunsCancel, CancelRun, RunsType
  <2>3. StoreType' /\ ControlType' /\ TasksType' /\ RowsType'
    BY <1>6 DEF jobsRunsCancel, StoreType, ControlType, TasksType, RowsType, locals, frame
  <2> QED BY <2>2, <2>3
<1>7. jobs \subseteq Ids
  BY DEF StoreType
<1> QED
  BY <1>1, <1>2, <1>3, <1>4, <1>5, <1>6 DEF Client

(***************************************************************************)
(* The steps of an executor keep the types; it reads its tasks through     *)
(* the job its record names.                                               *)
(***************************************************************************)
LEMMA ExecutorType ==
    ASSUME IndInv, NEW r \in Ids, Executor(r) PROVE TypeOK'
<1>0. StoreType /\ RunsType /\ ControlType /\ TasksType /\ RowsType
  BY DEF IndInv, TypeOK
<1>1. ASSUME UNCHANGED store, UNCHANGED frame, NEW l \in Locations, Goto(r, l)
      PROVE  StoreType' /\ RunsType' /\ ControlType'
  BY <1>0, <1>1 DEF StoreType, RunsType, ControlType, Goto, store, frame
<1>2. ASSUME UNCHANGED <<nextID, jobs, tasks, list, loaded, remaining, results, flight, iters, frame>>,
             NEW l \in Locations, Goto(r, l), NEW rec \in Run, UpdateRun(r, rec)
      PROVE  TypeOK'
  <2>1. RunsType'
    BY <1>0, <1>2, UpdateRunType
  <2>2. ControlType'
    BY <1>0, <1>2 DEF ControlType, Goto, frame
  <2>3. StoreType' /\ TasksType' /\ RowsType'
    BY <1>0, <1>2 DEF StoreType, TasksType, RowsType
  <2> QED BY <2>1, <2>2, <2>3 DEF TypeOK
<1>3. CASE StartRun(r)
  <2>1. Record(r, "RUNNING", "", <<>>) \in Run
    BY <1>0, RecordType, EmptySeq
  <2>2. (IF attached THEN "load" ELSE "noengine") \in Locations
    BY DEF Locations
  <2> QED BY <1>2, <1>3, <2>1, <2>2 DEF StartRun
<1>4. CASE FailWithoutEngine(r)
  <2>1. Record(r, "TERMINATED", "FAILED", <<>>) \in Run
    BY <1>0, RecordType, EmptySeq
  <2> QED BY <1>2, <1>4, <2>1 DEF FailWithoutEngine, Locations
<1>5. CASE ReadTasks(r)
  <2>1. runs[r].job \in Ids
    BY <1>5 DEF IndInv, RecordFollowsExecutor, InStep, ReadTasks
  <2>2. tasks[runs[r].job] \in Seq(Task)
    BY <1>0, <2>1 DEF StoreType
  <2>3. TasksType' /\ ControlType' /\ RowsType'
    BY <1>0, <1>5, <2>2, SeesTasksType DEF ReadTasks
  <2>4. StoreType' /\ RunsType'
    BY <1>0, <1>5 DEF ReadTasks, store, StoreType, RunsType
  <2> QED BY <2>3, <2>4 DEF TypeOK
<1>6. CASE CheckCancelled(r)
  <2>1. StoreType' /\ RunsType' /\ ControlType'
    BY <1>1, <1>6 DEF CheckCancelled, Locations
  <2>2. TasksType' /\ RowsType'
    BY <1>0, <1>6 DEF CheckCancelled, TasksType, RowsType
  <2> QED BY <2>1, <2>2 DEF TypeOK
<1>7. CASE WavesDone(r)
  <2>1. StoreType' /\ RunsType' /\ ControlType'
    BY <1>1, <1>7 DEF WavesDone, Locations
  <2>2. TasksType' /\ RowsType'
    BY <1>0, <1>7 DEF WavesDone, TasksType, RowsType
  <2> QED BY <2>1, <2>2 DEF TypeOK
<1>8. CASE Dispatch(r)
  <2>1. StoreType' /\ RunsType' /\ ControlType'
    BY <1>1, <1>8 DEF Dispatch, Locations
  <2>2. remaining[r] \subseteq Task /\ Ready(r) \subseteq Task /\ Spawned(r) \subseteq Task
    BY <1>0 DEF TasksType, Ready, Spawned
  <2>3. TasksType'
    BY <1>0, <1>8, <2>2 DEF Dispatch, TasksType
  <2>4. results' \in [Ids -> [Keys -> TaskRun]]
    <3> DEFINE f == [k \in Keys |-> IF \E t \in Ready(r) : t.key = k
                        THEN Decided(CHOOSE t \in Ready(r) : t.key = k, results[r])
                        ELSE results[r][k]]
    <3>1. results[r] \in [Keys -> TaskRun]
      BY <1>0 DEF RowsType
    <3>2. f \in [Keys -> TaskRun]
      BY <3>1, DecidedType
    <3>3. results' = [results EXCEPT ![r] = f]
      BY <1>8 DEF Dispatch, Decide
    <3> HIDE DEF f
    <3> QED BY <1>0, <3>2, <3>3 DEF RowsType
  <2>5. iters' \in [Ids -> [Keys -> Seq(IterState)]]
    <3> DEFINE f == [k \in Keys |-> Inputs(r, k)]
    <3>1. iters[r] \in [Keys -> Seq(IterState)]
      BY <1>0 DEF RowsType
    <3>2. ASSUME NEW k \in Keys PROVE Inputs(r, k) \in Seq(IterState)
      <4>1. \A n \in Nat : [i \in 1..n |-> "waiting"] \in Seq(IterState)
        BY DEF IterState
      <4>2. \A t \in Spawned(r) : t.inputs \in Nat
        BY <2>2, TaskFields
      <4> QED BY <3>1, <4>1, <4>2 DEF Inputs
    <3>3. f \in [Keys -> Seq(IterState)]
      BY <3>2
    <3>4. iters' = [iters EXCEPT ![r] = f]
      BY <1>8 DEF Dispatch
    <3> HIDE DEF f
    <3> QED BY <1>0, <3>3, <3>4 DEF RowsType
  <2> QED BY <2>1, <2>3, <2>4, <2>5 DEF TypeOK, RowsType
<1>9. CASE SkipTheRest(r)
  <2> DEFINE f == [k \in Keys |-> IF \E t \in remaining[r] : t.key = k
                                  THEN Row("SKIPPED") ELSE results[r][k]]
  <2>1. StoreType' /\ RunsType' /\ ControlType'
    BY <1>1, <1>9 DEF SkipTheRest, Locations
  <2>2. TasksType'
    BY <1>0, <1>9 DEF SkipTheRest, TasksType
  <2>3. f \in [Keys -> TaskRun]
    <3>1. results[r] \in [Keys -> TaskRun]
      BY <1>0 DEF RowsType
    <3> QED BY <3>1, RowType
  <2>4. results' = [results EXCEPT ![r] = f] /\ iters' = iters
    BY <1>9 DEF SkipTheRest
  <2> HIDE DEF f
  <2>5. RowsType'
    BY <1>0, <2>3, <2>4 DEF RowsType
  <2> QED BY <2>1, <2>2, <2>5 DEF TypeOK
<1>10. CASE Publish(r)
  <2>1. Rows(r) \in Seq(TaskRun)
    <3>1. list[r] \in Seq(Task) /\ results[r] \in [Keys -> TaskRun]
      BY <1>0 DEF TasksType, RowsType
    <3>2. \A i \in 1..Len(list[r]) : results[r][list[r][i].key] \in TaskRun
      BY <3>1, TaskFields
    <3> QED BY <3>1, <3>2 DEF Rows
  <2>2. \A res \in {"SUCCESS", "FAILED"} : Record(r, "TERMINATED", res, Rows(r)) \in Run
    BY <1>0, <2>1, RecordType
  <2> QED BY <1>2, <1>10, <2>2 DEF Publish, Locations
<1> QED
  BY <1>3, <1>4, <1>5, <1>6, <1>7, <1>8, <1>9, <1>10 DEF Executor

(***************************************************************************)
(* Recording a task's row keeps the types.                                 *)
(***************************************************************************)
LEMMA FinishTaskType ==
    ASSUME TypeOK, NEW r \in Ids, NEW t \in flight[r], NEW row \in TaskRun,
           FinishTask(r, t, row), UNCHANGED <<store, frame>>
    PROVE  TypeOK'
<1>1. t.key \in Keys
  BY TaskFields DEF TypeOK, TasksType
<1>2. TasksType'
  BY DEF FinishTask, TypeOK, TasksType
<1>3. RowsType'
  BY <1>1 DEF FinishTask, TypeOK, RowsType
<1>4. StoreType' /\ RunsType' /\ ControlType'
  BY DEF FinishTask, TypeOK, StoreType, RunsType, ControlType, store, frame
<1> QED BY <1>2, <1>3, <1>4 DEF TypeOK

(***************************************************************************)
(* Moving one iteration of a for_each keeps the types.                     *)
(***************************************************************************)
LEMMA IterationType ==
    ASSUME TypeOK, NEW r \in Ids, NEW t \in flight[r], NEW i, NEW s, NEW s2 \in IterState,
           i \in IterAt(r, t, s),
           iters' = [iters EXCEPT ![r][t.key][i] = s2],
           UNCHANGED <<store, frame, pc, list, loaded, remaining, results, flight>>
    PROVE  TypeOK'
<1>1. t.key \in Keys
  BY TaskFields DEF TypeOK, TasksType
<1>2. iters \in [Ids -> [Keys -> Seq(IterState)]]
  BY DEF TypeOK, RowsType
<1>3. iters[r][t.key] \in Seq(IterState)
  BY <1>1, <1>2
<1>4. i \in 1..Len(iters[r][t.key])
  BY <1>3 DEF IterAt
<1>5. [iters[r][t.key] EXCEPT ![i] = s2] \in Seq(IterState)
  BY <1>3, <1>4, ExceptSeq
<1>6. iters' \in [Ids -> [Keys -> Seq(IterState)]]
  <2> DEFINE e == [iters[r][t.key] EXCEPT ![i] = s2]
             f == [iters[r] EXCEPT ![t.key] = e]
  <2>1. iters' = [iters EXCEPT ![r] = f]
    OBVIOUS
  <2> HIDE DEF e
  <2>2. e \in Seq(IterState)
    BY <1>5 DEF e
  <2>3. iters[r] \in [Keys -> Seq(IterState)]
    BY <1>2
  <2>4. f \in [Keys -> Seq(IterState)]
    BY <1>1, <2>2, <2>3
  <2> HIDE DEF f
  <2> QED BY <1>2, <2>1, <2>4
<1>7. StoreType' /\ RunsType' /\ ControlType' /\ TasksType'
  BY DEF TypeOK, StoreType, RunsType, ControlType, TasksType, store, frame
<1>8. RowsType'
  BY <1>6 DEF TypeOK, RowsType
<1> QED BY <1>7, <1>8 DEF TypeOK

(***************************************************************************)
(* The task goroutines keep the types; a child run stays within the depth. *)
(***************************************************************************)
LEMMA TaskStepType ==
    ASSUME TypeOK, NEW r \in Ids, NEW t \in flight[r], TaskStep(r, t) PROVE TypeOK'
<1>1. t \in Task /\ t.key \in Keys
  BY TaskFields DEF TypeOK, TasksType
<1>2. ASSUME NEW res \in {"SUCCESS", "FAILED"}, EngineAnswers(r, t, res) PROVE TypeOK'
  <2>1. Row(res) \in TaskRun
    BY RowType
  <2> QED BY <1>2, <2>1, FinishTaskType DEF EngineAnswers
<1>3. CASE RunJobRefused(r, t)
  <2>1. Row("FAILED") \in TaskRun
    BY RowType
  <2> QED BY <1>3, <2>1, FinishTaskType DEF RunJobRefused
<1>4. CASE RunJobStarts(r, t)
  <2>1. t.job \in Ids
    BY <1>4 DEF RunJobStarts, TypeOK, StoreType
  <2>2. depth[r] + 1 \in 0..maxRunJobDepth
    <3>1. depth[r] \in 0..maxRunJobDepth /\ ~(depth[r] + 1 > maxRunJobDepth)
      BY <1>4 DEF RunJobStarts, TooDeep, TypeOK, ControlType
    <3> QED BY <3>1, Bounds
  <2>3. [run |-> r, key |-> t.key] \in [run : 0..MaxID, key : Keys \cup {""}]
    BY <1>1, IdsInRange
  <2> QED BY <1>4, <2>1, <2>2, <2>3, NewRunType DEF RunJobStarts
<1>5. ASSUME NEW c \in Ids, RunJobEnds(r, t, c) PROVE TypeOK'
  <2>1. runs[c].result \in {"", "SUCCESS", "FAILED", "CANCELED"}
    BY DEF TypeOK, RunsType, Run
  <2>2. ChildRow(runs[c].result, c) \in TaskRun
    BY <2>1, RowType, IdsInRange
  <2> QED BY <1>5, <2>2, FinishTaskType DEF RunJobEnds
<1>6. ASSUME NEW i \in 1..t.inputs, IterationStarts(r, t, i) PROVE TypeOK'
  <2>1. "running" \in IterState
    BY DEF IterState
  <2> QED BY <1>6, <2>1, IterationType DEF IterationStarts
<1>7. ASSUME NEW i \in 1..t.inputs, NEW res \in {"SUCCESS", "FAILED"},
             IterationEnds(r, t, i, res)
      PROVE  TypeOK'
  <2>1. res \in IterState
    BY DEF IterState
  <2> QED BY <1>7, <2>1, IterationType DEF IterationEnds
<1>8. CASE ForEachEnds(r, t)
  <2>1. Row("SUCCESS") \in TaskRun /\ Row("FAILED") \in TaskRun
    BY RowType
  <2> QED BY <1>8, <2>1, FinishTaskType DEF ForEachEnds
<1> QED
  BY <1>2, <1>3, <1>4, <1>5, <1>6, <1>7, <1>8 DEF TaskStep

-------------------------------------------------------------------------------
(***************************************************************************)
(* The record follows the executor.                                        *)
(***************************************************************************)

(***************************************************************************)
(* A run nobody touches stays in step.                                     *)
(***************************************************************************)
LEMMA InStepUntouched ==
    ASSUME NEW q \in Ids, InStep(q), runs'[q] = runs[q], pc'[q] = pc[q],
           q > nextID' => q > nextID
    PROVE  InStep(q)'
  BY DEF InStep, Stopped, Active

(***************************************************************************)
(* A new run starts in step, and the others are not touched.               *)
(***************************************************************************)
LEMMA NewRunInStep ==
    ASSUME IndInv, NEW j \in Ids, NEW d, NEW parent, NewRun(j, d, parent)
    PROVE  RecordFollowsExecutor'
<1> SUFFICES ASSUME NEW q \in Ids PROVE InStep(q)'
  BY DEF RecordFollowsExecutor
<1>1. InStep(q)
  BY DEF IndInv, RecordFollowsExecutor
<1>2. nextID + 1 \in Ids /\ nextID' = nextID + 1 /\ nextID \in Nat
  <2>1. nextID \in 0..MaxID /\ nextID < MaxID /\ nextID' = nextID + 1
    BY DEF NewRun, IndInv, TypeOK, StoreType
  <2>2. nextID \in Nat
    BY <2>1, Bounds
  <2> QED BY <2>1, <2>2, NextIdInRange
<1>3. runs \in [Ids -> Run] /\ pc \in [Ids -> Locations]
  BY DEF IndInv, TypeOK, RunsType, ControlType
<1>4. CASE q = nextID + 1
  <2> DEFINE rec == [job |-> j, life |-> "PENDING", result |-> "", tasks |-> <<>>]
  <2>1. runs'[q] = rec /\ pc'[q] = "start"
    BY <1>2, <1>3, <1>4 DEF NewRun
  <2>2. ~(q > nextID')
    BY <1>2, <1>4
  <2>3. rec.job = j /\ rec.life = "PENDING" /\ rec.result = ""
    OBVIOUS
  <2> HIDE DEF rec
  <2> QED BY <2>1, <2>2, <2>3 DEF InStep, Active, Stopped
<1>5. CASE q # nextID + 1
  <2>1. runs'[q] = runs[q] /\ pc'[q] = pc[q]
    BY <1>2, <1>3, <1>5 DEF NewRun
  <2>2. q > nextID' => q > nextID
    BY <1>2, IdsInRange
  <2> QED BY <1>1, <2>1, <2>2, InStepUntouched
<1> QED BY <1>4, <1>5

(***************************************************************************)
(* A step of r's executor that leaves the other runs alone only has to     *)
(* keep r in step.                                                         *)
(***************************************************************************)
LEMMA OthersInStep ==
    ASSUME IndInv, NEW r \in Ids, NEW l, Goto(r, l), nextID' = nextID,
           \A q \in Ids \ {r} : runs'[q] = runs[q],
           InStep(r)'
    PROVE  RecordFollowsExecutor'
<1> SUFFICES ASSUME NEW q \in Ids, q # r PROVE InStep(q)'
  BY DEF RecordFollowsExecutor
<1>1. InStep(q)
  BY DEF IndInv, RecordFollowsExecutor
<1>2. pc'[q] = pc[q]
  BY DEF IndInv, TypeOK, ControlType, Goto
<1>3. runs'[q] = runs[q]
  OBVIOUS
<1> QED BY <1>1, <1>2, <1>3, InStepUntouched

(***************************************************************************)
(* The executor's publishes keep its run in step: UpdateRun leaves a       *)
(* cancelled record alone, and otherwise stores the state of the place the *)
(* executor goes to.                                                       *)
(***************************************************************************)
LEMMA ExecutorInStep ==
    ASSUME IndInv, NEW r \in Ids, Executor(r) PROVE RecordFollowsExecutor'
<1>0. /\ runs \in [Ids -> Run] /\ pc \in [Ids -> Locations]
      /\ InStep(r)
  BY DEF IndInv, TypeOK, RunsType, ControlType, RecordFollowsExecutor
<1>1. ASSUME UNCHANGED <<nextID, runs>>, Active(r), pc[r] # "start",
             NEW l \in Locations \ {"none", "start", "returned"}, Goto(r, l)
      PROVE  RecordFollowsExecutor'
  <2>1. pc'[r] = l
    BY <1>0, <1>1 DEF Goto
  <2>2. InStep(r)'
    BY <1>0, <1>1, <2>1 DEF InStep, Active, Stopped, Locations
  <2> QED BY <1>1, <2>2, OthersInStep
<1>2. ASSUME nextID' = nextID, Active(r), NEW l, Goto(r, l),
             NEW life, NEW res, NEW rows, UpdateRun(r, Record(r, life, res, rows)),
             \/ l \in {"load", "noengine"} /\ life = "RUNNING" /\ res = ""
             \/ l = "returned" /\ life = "TERMINATED" /\ res \in {"SUCCESS", "FAILED"}
      PROVE  RecordFollowsExecutor'
  <2>1. pc'[r] = l
    BY <1>0, <1>2 DEF Goto
  <2>2. \A q \in Ids \ {r} : runs'[q] = runs[q]
    BY <1>0, <1>2 DEF UpdateRun
  <2>3. InStep(r)'
    <3>1. CASE Cancelled(r)
      <4>1. runs' = runs
        BY <1>2, <3>1 DEF UpdateRun
      <4>2. Stopped(r)
        BY <1>0, <1>2, <3>1 DEF InStep, Active, Cancelled, Stopped
      <4> QED BY <1>0, <1>2, <2>1, <4>1, <4>2 DEF InStep, Active, Stopped
    <3>2. CASE ~Cancelled(r)
      <4>1. runs'[r] = [job |-> runs[r].job, life |-> life, result |-> res, tasks |-> rows]
        BY <1>0, <1>2, <3>2 DEF UpdateRun, Record
      <4>2. runs'[r].job = runs[r].job /\ runs'[r].life = life /\ runs'[r].result = res
        BY <4>1
      <4> QED BY <1>0, <1>2, <2>1, <4>2 DEF InStep, Active, Stopped
    <3> QED BY <3>1, <3>2
  <2> QED BY <1>2, <2>2, <2>3, OthersInStep
<1>3. CASE StartRun(r)
  BY <1>2, <1>3 DEF StartRun, Active
<1>4. CASE FailWithoutEngine(r)
  BY <1>2, <1>4 DEF FailWithoutEngine, Active
<1>5. CASE ReadTasks(r)
  BY <1>1, <1>5 DEF ReadTasks, SeesTasks, Active, Locations, store
<1>6. CASE CheckCancelled(r)
  <2>1. CASE Cancelled(r)
    <3>1. pc'[r] = "returned" /\ runs' = runs /\ nextID' = nextID
      BY <1>0, <1>6, <2>1 DEF CheckCancelled, Goto, store
    <3>2. Stopped(r)
      BY <1>0, <1>6, <2>1 DEF CheckCancelled, InStep, Active, Cancelled, Stopped
    <3>3. InStep(r)'
      BY <1>0, <1>6, <3>1, <3>2 DEF CheckCancelled, InStep, Active, Stopped
    <3> QED BY <1>6, <2>1, <3>1, <3>3, OthersInStep DEF CheckCancelled
  <2>2. CASE ~Cancelled(r)
    BY <1>1, <1>6, <2>2 DEF CheckCancelled, Active, Locations, store
  <2> QED BY <2>1, <2>2
<1>7. CASE WavesDone(r)
  BY <1>1, <1>7 DEF WavesDone, Active, Locations, store
<1>8. CASE Dispatch(r)
  BY <1>1, <1>8 DEF Dispatch, Active, Locations, store
<1>9. CASE SkipTheRest(r)
  BY <1>1, <1>9 DEF SkipTheRest, Active, Locations, store
<1>10. CASE Publish(r)
  BY <1>2, <1>10 DEF Publish, Active
<1> QED
  BY <1>3, <1>4, <1>5, <1>6, <1>7, <1>8, <1>9, <1>10 DEF Executor

(***************************************************************************)
(* A cancel keeps its run in step.                                         *)
(***************************************************************************)
LEMMA CancelInStep ==
    ASSUME IndInv, NEW r \in Ids, jobsRunsCancel(r) PROVE RecordFollowsExecutor'
<1> SUFFICES ASSUME NEW q \in Ids PROVE InStep(q)'
  BY DEF RecordFollowsExecutor
<1>1. InStep(q) /\ runs \in [Ids -> Run]
  BY DEF IndInv, TypeOK, RunsType, RecordFollowsExecutor
<1>2. pc' = pc /\ nextID' = nextID
  BY DEF jobsRunsCancel, locals
<1>3. CASE runs'[q] = runs[q]
  BY <1>1, <1>2, <1>3, InStepUntouched
<1>4. CASE runs'[q] # runs[q]
  <2>1. q = r /\ runs' = [runs EXCEPT ![r] = Record(r, "TERMINATED", "CANCELED", runs[r].tasks)]
    BY <1>1, <1>4 DEF jobsRunsCancel, CancelRun
  <2>2. runs'[q] = [job |-> runs[q].job, life |-> "TERMINATED", result |-> "CANCELED",
                    tasks |-> runs[q].tasks]
    BY <1>1, <2>1 DEF Record
  <2>3. runs'[q].job = runs[q].job /\ runs'[q].life = "TERMINATED" /\ runs'[q].result = "CANCELED"
    BY <2>2
  <2>4. runs[q] # NoRun
    BY <2>1 DEF jobsRunsCancel
  <2> QED BY <1>1, <1>2, <2>3, <2>4 DEF InStep, Stopped, Active
<1> QED BY <1>3, <1>4

(***************************************************************************)
(* A step that touches neither records nor executors keeps all in step.    *)
(***************************************************************************)
LEMMA AllInStepUntouched ==
    ASSUME IndInv, UNCHANGED <<runs, pc>>, nextID' = nextID \/ nextID' = nextID + 1
    PROVE  RecordFollowsExecutor'
<1> SUFFICES ASSUME NEW q \in Ids PROVE InStep(q)'
  BY DEF RecordFollowsExecutor
<1>1. InStep(q)
  BY DEF IndInv, RecordFollowsExecutor
<1>2. q \in Nat /\ nextID \in Nat
  BY IdsInRange, Bounds DEF IndInv, TypeOK, StoreType
<1>3. q > nextID' => q > nextID
  BY <1>2
<1> QED BY <1>1, <1>3, InStepUntouched

(***************************************************************************)
(* No handler (create, reset, delete, run-now, cancel) puts a stored record*)
(* and its executor out of step.                                           *)
(***************************************************************************)
LEMMA ClientInStep == IndInv /\ Client => RecordFollowsExecutor'
<1> SUFFICES ASSUME IndInv, Client PROVE RecordFollowsExecutor'
  OBVIOUS
<1>0. jobs \subseteq Ids
  BY DEF IndInv, TypeOK, StoreType
<1>1. ASSUME NEW ts \in CreateLists, jobsCreate(ts) PROVE RecordFollowsExecutor'
  BY <1>1, AllInStepUntouched DEF jobsCreate, locals
<1>2. ASSUME NEW j \in jobs, NEW ts \in ResetLists, jobsReset(j, ts)
      PROVE  RecordFollowsExecutor'
  BY <1>2, AllInStepUntouched DEF jobsReset, locals
<1>3. ASSUME NEW j \in jobs, NEW ts \in ResetLists, NEW r \in Ids,
             ResetDuringRead(j, ts, r)
      PROVE  RecordFollowsExecutor'
  <2>1. /\ nextID' = nextID /\ runs' = runs /\ pc[r] \in {"load", "reread"}
        /\ \E l \in {"wave", "publish"} : Goto(r, l)
    BY <1>3 DEF ResetDuringRead, SeesTasks
  <2>2. PICK l \in {"wave", "publish"} : Goto(r, l)
    BY <2>1
  <2>3. InStep(r) /\ pc'[r] = l
    BY <2>2 DEF IndInv, RecordFollowsExecutor, TypeOK, ControlType, Goto
  <2>4. InStep(r)'
    BY <2>1, <2>3 DEF InStep, Active, Stopped
  <2> QED BY <2>1, <2>2, <2>4, OthersInStep
<1>4. ASSUME NEW j \in jobs, jobsDelete(j) PROVE RecordFollowsExecutor'
  BY <1>4, AllInStepUntouched DEF jobsDelete, locals
<1>5. ASSUME NEW j \in jobs, jobsRunNow(j) PROVE RecordFollowsExecutor'
  BY <1>0, <1>5, NewRunInStep DEF jobsRunNow
<1>6. ASSUME NEW r \in Ids, jobsRunsCancel(r) PROVE RecordFollowsExecutor'
  BY <1>6, CancelInStep
<1> QED
  BY <1>1, <1>2, <1>3, <1>4, <1>5, <1>6 DEF Client

(***************************************************************************)
(* A task goroutine does not either: it touches records only by starting a *)
(* child run (runJobTask's NewRun).                                        *)
(***************************************************************************)
LEMMA TaskStepInStep ==
    ASSUME IndInv, NEW r \in Ids, NEW t \in flight[r], TaskStep(r, t)
    PROVE  RecordFollowsExecutor'
<1>1. CASE RunJobStarts(r, t)
  <2>1. t.job \in Ids
    BY <1>1 DEF RunJobStarts, IndInv, TypeOK, StoreType
  <2> QED BY <1>1, <2>1, NewRunInStep DEF RunJobStarts
<1>2. CASE ~RunJobStarts(r, t)
  <2>1. UNCHANGED <<runs, pc>> /\ nextID' = nextID
    BY <1>2 DEF TaskStep, EngineAnswers, RunJobRefused, RunJobEnds, IterationStarts,
                IterationEnds, ForEachEnds, FinishTask, store
  <2> QED BY <2>1, AllInStepUntouched
<1> QED BY <1>1, <1>2

-------------------------------------------------------------------------------
(***************************************************************************)
(* The inductive invariant holds initially: the store of newJobs.          *)
(***************************************************************************)
LEMMA IndInvInit == Init => IndInv
<1> SUFFICES ASSUME Init PROVE IndInv
  OBVIOUS
<1>1. StoreType
  BY Bounds, EmptySeq DEF Init, StoreType
<1>2. RunsType
  <2>1. NoRun \in Run
    BY Bounds, EmptySeq DEF NoRun, Run
  <2> QED BY <2>1 DEF Init, RunsType
<1>3. ControlType
  <2>1. Handler \in [run : 0..MaxID, key : Keys \cup {""}]
    BY Bounds DEF Handler
  <2>2. 0 \in 0..maxRunJobDepth /\ "none" \in Locations
    BY Bounds DEF Locations
  <2> QED BY <2>1, <2>2 DEF Init, ControlType
<1>4. TasksType
  BY EmptySeq DEF Init, TasksType
<1>5. RowsType
  <2>1. [k \in Keys |-> ZeroRow] \in [Keys -> TaskRun]
    BY RowType
  <2>2. [k \in Keys |-> <<>>] \in [Keys -> Seq(IterState)]
    BY EmptySeq
  <2> QED BY <2>1, <2>2 DEF Init, RowsType
<1>6. RecordFollowsExecutor
  BY DEF Init, RecordFollowsExecutor, InStep, Active
<1> QED BY <1>1, <1>2, <1>3, <1>4, <1>5, <1>6 DEF IndInv, TypeOK

(***************************************************************************)
(* Every step of the runner preserves the inductive invariant.             *)
(***************************************************************************)
LEMMA IndInvNext == IndInv /\ [Next]_vars => IndInv'
<1> SUFFICES ASSUME IndInv, [Next]_vars PROVE IndInv'
  OBVIOUS
<1>1. CASE Client
  BY <1>1, ClientType, ClientInStep DEF IndInv
<1>2. ASSUME NEW r \in Ids, Executor(r) PROVE IndInv'
  BY <1>2, ExecutorType, ExecutorInStep DEF IndInv
<1>3. ASSUME NEW r \in Ids, NEW t \in flight[r], TaskStep(r, t) PROVE IndInv'
  BY <1>3, TaskStepType, TaskStepInStep DEF IndInv
<1>4. CASE UNCHANGED vars
  <2>1. TypeOK'
    BY <1>4 DEF IndInv, TypeOK, StoreType, RunsType, ControlType, TasksType, RowsType, vars
  <2>2. RecordFollowsExecutor'
    BY <1>4, AllInStepUntouched DEF vars
  <2> QED BY <2>1, <2>2 DEF IndInv
<1> QED BY <1>1, <1>2, <1>3, <1>4 DEF Next

(***************************************************************************)
(* The types of the Jobs runner hold in every reachable state.             *)
(***************************************************************************)
THEOREM TypeCorrect == Spec => []TypeOK
<1>1. IndInv => TypeOK
  BY DEF IndInv
<1> QED BY <1>1, IndInvInit, IndInvNext, PTL DEF Spec

(***************************************************************************)
(* The record a client polls agrees with the executor of its run, whatever *)
(* cancels and publishes raced (UpdateRun, CancelRun, executeRun).         *)
(***************************************************************************)
THEOREM RecordIsCurrent == Spec => []RecordFollowsExecutor
<1>1. IndInv => RecordFollowsExecutor
  BY DEF IndInv
<1> QED BY <1>1, IndInvInit, IndInvNext, PTL DEF Spec

-------------------------------------------------------------------------------
(***************************************************************************)
(* How a record may change, and what follows for clients.                  *)
(***************************************************************************)

\* The record of r changes, and no other.
Changes(r, life, res) ==
    /\ runs' = [runs EXCEPT ![r] = runs'[r]]
    /\ runs'[r].life = life /\ runs'[r].result = res

\* One step of a record along the life cycle.
RecordStep(r) ==
    \/ runs[r].life = "" /\ Changes(r, "PENDING", "")
    \/ runs[r].life = "PENDING" /\ Changes(r, "RUNNING", "")
    \/ runs[r].life = "RUNNING" /\ \E res \in {"SUCCESS", "FAILED"} : Changes(r, "TERMINATED", res)
    \/ runs[r].life \in {"PENDING", "RUNNING"} /\ Changes(r, "TERMINATED", "CANCELED")

(***************************************************************************)
(* A publish of the executor leaves a cancelled record alone or moves its  *)
(* own record on.                                                          *)
(***************************************************************************)
LEMMA PublishStep ==
    ASSUME IndInv, NEW r \in Ids, Active(r), NEW life, NEW res, NEW rows,
           UpdateRun(r, Record(r, life, res, rows)),
           \/ pc[r] = "start" /\ life = "RUNNING" /\ res = ""
           \/ pc[r] # "start" /\ life = "TERMINATED" /\ res \in {"SUCCESS", "FAILED"}
    PROVE  runs' = runs \/ RecordStep(r)
<1>1. runs \in [Ids -> Run] /\ InStep(r)
  BY DEF IndInv, TypeOK, RunsType, RecordFollowsExecutor
<1>2. CASE Cancelled(r)
  BY <1>2 DEF UpdateRun
<1>3. CASE ~Cancelled(r)
  <2>1. runs' = [runs EXCEPT ![r] = Record(r, life, res, rows)]
    BY <1>3 DEF UpdateRun
  <2> DEFINE rec == Record(r, life, res, rows)
  <2>2. rec.life = life /\ rec.result = res
    BY DEF Record
  <2> HIDE DEF rec
  <2>3. runs' = [runs EXCEPT ![r] = rec] /\ runs'[r] = rec
    BY <1>1, <2>1 DEF rec
  <2>4. runs' = [runs EXCEPT ![r] = runs'[r]] /\ runs'[r].life = life /\ runs'[r].result = res
    BY <2>2, <2>3
  <2>5. \/ pc[r] = "start" /\ runs[r].life = "PENDING"
        \/ pc[r] # "start" /\ runs[r].life = "RUNNING"
    BY <1>1, <1>3 DEF InStep, Stopped, Cancelled, Active
  <2> QED BY <2>4, <2>5 DEF RecordStep, Changes
<1> QED BY <1>2, <1>3

(***************************************************************************)
(* A new run takes a record that was never used.                           *)
(***************************************************************************)
LEMMA NewRunStep ==
    ASSUME IndInv, NEW j, NEW d, NEW parent, NewRun(j, d, parent)
    PROVE  \E r \in Ids : RecordStep(r)
<1>1. nextID \in 0..MaxID /\ nextID < MaxID
  BY DEF NewRun, IndInv, TypeOK, StoreType
<1>2. nextID + 1 \in Ids
  BY <1>1, NextIdInRange
<1>3. nextID + 1 > nextID
  BY <1>1, Bounds
<1>4. runs[nextID + 1] = NoRun
  BY <1>2, <1>3 DEF IndInv, RecordFollowsExecutor, InStep
<1> DEFINE rec == [job |-> j, life |-> "PENDING", result |-> "", tasks |-> <<>>]
<1>5. rec.life = "PENDING" /\ rec.result = "" /\ NoRun.life = ""
  BY DEF NoRun
<1>6. runs' = [runs EXCEPT ![nextID + 1] = rec]
  BY DEF NewRun
<1> HIDE DEF rec
<1>7. runs'[nextID + 1] = rec
  BY <1>2, <1>6 DEF IndInv, TypeOK, RunsType
<1>8. RecordStep(nextID + 1)
  BY <1>4, <1>5, <1>6, <1>7 DEF RecordStep, Changes
<1> QED BY <1>2, <1>8

(***************************************************************************)
(* Every step of the runner changes no record or moves one record on.      *)
(***************************************************************************)
LEMMA StepOfRecords ==
    ASSUME IndInv, [Next]_vars
    PROVE  runs' = runs \/ \E r \in Ids : RecordStep(r)
<1>1. CASE Client
  <2>1. ASSUME NEW ts \in CreateLists, jobsCreate(ts) PROVE runs' = runs
    BY <2>1 DEF jobsCreate
  <2>2. ASSUME NEW j \in jobs, NEW ts \in ResetLists, jobsReset(j, ts) PROVE runs' = runs
    BY <2>2 DEF jobsReset
  <2>3. ASSUME NEW j \in jobs, NEW ts \in ResetLists, NEW r \in Ids, ResetDuringRead(j, ts, r)
        PROVE  runs' = runs
    BY <2>3 DEF ResetDuringRead
  <2>4. ASSUME NEW j \in jobs, jobsDelete(j) PROVE runs' = runs
    BY <2>4 DEF jobsDelete
  <2>5. ASSUME NEW j \in jobs, jobsRunNow(j) PROVE \E r \in Ids : RecordStep(r)
    BY <2>5, NewRunStep DEF jobsRunNow
  <2>6. ASSUME NEW r \in Ids, jobsRunsCancel(r) PROVE runs' = runs \/ RecordStep(r)
    <3>1. CASE runs[r].life = "TERMINATED"
      BY <2>6, <3>1 DEF jobsRunsCancel, CancelRun
    <3>2. CASE runs[r].life # "TERMINATED"
      <4>1. runs' = [runs EXCEPT ![r] = Record(r, "TERMINATED", "CANCELED", runs[r].tasks)]
        BY <2>6, <3>2 DEF jobsRunsCancel, CancelRun
      <4>2. runs'[r] = [job |-> runs[r].job, life |-> "TERMINATED", result |-> "CANCELED",
                        tasks |-> runs[r].tasks]
        BY <4>1 DEF Record, IndInv, TypeOK, RunsType
      <4>3. runs'[r].life = "TERMINATED" /\ runs'[r].result = "CANCELED"
        BY <4>2
      <4>4. runs' = [runs EXCEPT ![r] = runs'[r]]
        BY <4>1, <4>2 DEF Record
      <4>5. runs[r].life \in {"PENDING", "RUNNING"}
        <5>1. InStep(r) /\ pc[r] \in Locations /\ runs[r] # NoRun
          BY <2>6 DEF IndInv, RecordFollowsExecutor, TypeOK, ControlType, jobsRunsCancel
        <5> QED BY <3>2, <5>1 DEF InStep, Active, Stopped
      <4> QED BY <4>3, <4>4, <4>5 DEF RecordStep, Changes
    <3> QED BY <3>1, <3>2
  <2> QED BY <1>1, <2>1, <2>2, <2>3, <2>4, <2>5, <2>6 DEF Client
<1>2. ASSUME NEW r \in Ids, Executor(r) PROVE runs' = runs \/ RecordStep(r)
  <2>1. CASE StartRun(r)
    BY <2>1, PublishStep DEF StartRun, Active
  <2>2. CASE FailWithoutEngine(r)
    BY <2>2, PublishStep DEF FailWithoutEngine, Active
  <2>3. CASE Publish(r)
    BY <2>3, PublishStep DEF Publish, Active
  <2>4. CASE ReadTasks(r) \/ CheckCancelled(r) \/ WavesDone(r) \/ Dispatch(r) \/ SkipTheRest(r)
    BY <2>4 DEF ReadTasks, CheckCancelled, WavesDone, Dispatch, SkipTheRest, store
  <2> QED BY <1>2, <2>1, <2>2, <2>3, <2>4 DEF Executor
<1>3. ASSUME NEW r \in Ids, NEW t \in flight[r], TaskStep(r, t)
      PROVE  runs' = runs \/ \E q \in Ids : RecordStep(q)
  <2>1. CASE RunJobStarts(r, t)
    BY <2>1, NewRunStep DEF RunJobStarts
  <2>2. CASE ~RunJobStarts(r, t)
    BY <1>3, <2>2 DEF TaskStep, EngineAnswers, RunJobRefused, RunJobEnds, IterationStarts,
                IterationEnds, ForEachEnds, FinishTask, store
  <2> QED BY <2>1, <2>2
<1>4. CASE UNCHANGED vars
  BY <1>4 DEF vars
<1> QED BY <1>1, <1>2, <1>3, <1>4 DEF Next

(***************************************************************************)
(* A TERMINATED record never changes again: the late publish of a          *)
(* cancelled run is dropped and a late cancel changes nothing.             *)
(***************************************************************************)
THEOREM EndedRunsAreFinal == Spec => EndedRunsKeepTheirRecord
<1> DEFINE Keeps == \A r \in Ids : runs[r].life = "TERMINATED" => runs'[r] = runs[r]
<1>1. ASSUME IndInv, [Next]_vars PROVE Keeps
  <2> SUFFICES ASSUME NEW q \in Ids, runs[q].life = "TERMINATED" PROVE runs'[q] = runs[q]
    OBVIOUS
  <2>1. runs \in [Ids -> Run]
    BY <1>1 DEF IndInv, TypeOK, RunsType
  <2>2. CASE runs' = runs
    BY <2>2
  <2>3. ASSUME NEW r \in Ids, RecordStep(r) PROVE runs'[q] = runs[q]
    <3>1. q # r
      BY <2>3 DEF RecordStep
    <3>2. runs' = [runs EXCEPT ![r] = runs'[r]]
      BY <2>3 DEF RecordStep, Changes
    <3> QED BY <2>1, <3>1, <3>2
  <2> QED BY <1>1, <2>2, <2>3, StepOfRecords
<1>2. IndInv /\ [Next]_vars => [Keeps]_vars
  BY <1>1
<1> QED
  BY <1>2, IndInvInit, IndInvNext, PTL DEF Spec, EndedRunsKeepTheirRecord

-------------------------------------------------------------------------------
(***************************************************************************)
(* The refinement: the empty store maps to a life cycle with no run.       *)
(***************************************************************************)
LEMMA LifecycleInit == Init => Life!Init
<1>1. StatusOf(NoRun) = "none"
  BY DEF StatusOf, NoRun
<1>2. ASSUME Init, NEW r \in Ids PROVE StatusOf(runs[r]) = "none"
  BY <1>1, <1>2 DEF Init
<1> QED BY <1>2 DEF Life!Init

(***************************************************************************)
(* A step of the runner changes the polled status of at most one run, and  *)
(* as the life cycle allows: the refinement's step simulation.             *)
(***************************************************************************)
LEMMA LifecycleStep ==
    ASSUME IndInv, [Next]_vars
    PROVE  [Life!Next]_([r \in Ids |-> StatusOf(runs[r])])
<1> DEFINE st == [r \in Ids |-> StatusOf(runs[r])]
<1>1. runs \in [Ids -> Run]
  BY DEF IndInv, TypeOK, RunsType
<1>2. CASE runs' = runs
  <2>1. st' = st
    BY <1>2
  <2> QED BY <2>1
<1>3. ASSUME NEW r \in Ids, RecordStep(r) PROVE Life!Next
  <2>1. runs' = [runs EXCEPT ![r] = runs'[r]]
    BY <1>3 DEF RecordStep, Changes
  <2>2. \A q \in Ids \ {r} : runs'[q] = runs[q]
    BY <1>1, <2>1
  <2>3. st' = [st EXCEPT ![r] = StatusOf(runs'[r])]
    BY <2>2
  <2>4. st[r] = StatusOf(runs[r])
    OBVIOUS
  <2> HIDE DEF st
  <2>5. CASE runs[r].life = "" /\ Changes(r, "PENDING", "")
    <3>1. st[r] = "none" /\ StatusOf(runs'[r]) = "PENDING"
      BY <2>4, <2>5 DEF StatusOf, Changes
    <3>2. Life!Submit(r)
      BY <2>3, <3>1 DEF Life!Submit, Life!Become, st
    <3> QED BY <3>2 DEF Life!Next
  <2>6. CASE runs[r].life = "PENDING" /\ Changes(r, "RUNNING", "")
    <3>1. st[r] = "PENDING" /\ StatusOf(runs'[r]) = "RUNNING"
      BY <2>4, <2>6 DEF StatusOf, Changes
    <3>2. Life!Begin(r)
      BY <2>3, <3>1 DEF Life!Begin, Life!Become, st
    <3> QED BY <3>2 DEF Life!Next
  <2>7. ASSUME runs[r].life = "RUNNING", NEW res \in {"SUCCESS", "FAILED"},
               Changes(r, "TERMINATED", res)
        PROVE  Life!Next
    <3>1. st[r] = "RUNNING" /\ StatusOf(runs'[r]) = res
      BY <2>4, <2>7 DEF StatusOf, Changes
    <3>2. Life!Finish(r)
      BY <2>3, <3>1 DEF Life!Finish, Life!Become, st
    <3> QED BY <3>2 DEF Life!Next
  <2>8. CASE runs[r].life \in {"PENDING", "RUNNING"} /\ Changes(r, "TERMINATED", "CANCELED")
    <3>1. st[r] \in {"PENDING", "RUNNING"} /\ StatusOf(runs'[r]) = "CANCELED"
      BY <2>4, <2>8 DEF StatusOf, Changes
    <3>2. Life!Cancel(r)
      BY <2>3, <3>1 DEF Life!Cancel, Life!Become, Life!Open, st
    <3> QED BY <3>2 DEF Life!Next
  <2> QED BY <1>3, <2>5, <2>6, <2>7, <2>8 DEF RecordStep
<1> QED BY <1>2, <1>3, StepOfRecords

(***************************************************************************)
(* The Jobs runner implements the life cycle RunLifecycle states.          *)
(***************************************************************************)
THEOREM RunnerImplementsLifecycle == Spec => ImplementsLifecycle
<1> QED
  BY IndInvInit, IndInvNext, LifecycleInit, LifecycleStep, PTL
     DEF Spec, ImplementsLifecycle, Life!Spec
===============================================================================
