---------------------------- MODULE JobRunsProps ----------------------------
(***************************************************************************)
(* What the Jobs runner must guarantee, whatever the interleaving of       *)
(* clients, executors and task goroutines.                                 *)
(***************************************************************************)
EXTENDS JobRuns

\* The executor holds its maps: it has loaded the tasks and not returned.
Loaded(r) == pc[r] \in {"wave", "dispatch", "reread", "publish"}

KeysOf(T) == { t.key : t \in T }

(***************************************************************************)
(* A run's record never changes once it is TERMINATED: not by the closing  *)
(* publish of an executor whose run was cancelled meanwhile (UpdateRun),   *)
(* not by a cancel that arrives late (CancelRun).                          *)
(***************************************************************************)
EndedRunsKeepTheirRecord ==
    [][\A r \in Ids : runs[r].life = "TERMINATED" => runs'[r] = runs[r]]_vars

\* The record of a run a client cancelled.
Stopped(r) == runs[r].life = "TERMINATED" /\ runs[r].result = "CANCELED"

\* The stored record of r and the place of its executor agree.
InStep(r) ==
    /\ r > nextID => pc[r] = "none"
    /\ pc[r] = "none" => runs[r] = NoRun
    /\ pc[r] # "none" => runs[r].job \in Ids
    /\ pc[r] = "start" =>
          (runs[r].life = "PENDING" /\ runs[r].result = "") \/ Stopped(r)
    /\ Active(r) /\ pc[r] # "start" =>
          (runs[r].life = "RUNNING" /\ runs[r].result = "") \/ Stopped(r)
    /\ pc[r] = "returned" => runs[r].life = "TERMINATED" /\ runs[r].result # ""

(***************************************************************************)
(* The stored record and the executor never disagree: a client that polls  *)
(* sees PENDING, RUNNING or TERMINATED as executeRun is about to start, at *)
(* work or returned, or sees the cancel it asked for; no executor returns  *)
(* with its run still open, and ids are never reused.                      *)
(***************************************************************************)
RecordFollowsExecutor == \A r \in Ids : InStep(r)

(***************************************************************************)
(* Every task the executor loaded is in exactly one place: waiting in      *)
(* remaining, running in a goroutine, or recorded in results.  No task is  *)
(* lost between two waves and none is dispatched twice (executeRun's       *)
(* delete(remaining, t.Key) before each dispatch).                         *)
(***************************************************************************)
EveryTaskInOnePlace ==
    \A r \in Ids : Loaded(r) =>
        LET waiting  == KeysOf(remaining[r])
            running  == KeysOf(flight[r])
            recorded == Recorded(results[r])
        IN  /\ waiting \cup running \cup recorded = KeysOf(loaded[r])
            /\ waiting \cap running = {}
            /\ recorded \cap (waiting \cup running) = {}

(***************************************************************************)
(* No task runs beside a task it depends on: when its goroutine exists,    *)
(* every dependency has its result recorded (depsSatisfied, and the wave   *)
(* barrier wg.Wait).                                                       *)
(***************************************************************************)
DependenciesEndFirst ==
    \A r \in Ids : \A t \in flight[r] : \A d \in t.deps :
        /\ d.key \in Recorded(results[r])
        /\ d.key \notin KeysOf(remaining[r] \cup flight[r])

(***************************************************************************)
(* Whatever the waves and the order in which goroutines finished, the rows *)
(* an executor collects are those of the graph itself: skipped exactly     *)
(* when blocked by a cycle or an unknown key, or when run_if and the edge  *)
(* outcomes, evaluated on the FINAL results, say so.                       *)
(***************************************************************************)
WavesComputeTheGraph ==
    \A r \in Ids : pc[r] \in {"reread", "publish"} => VerdictOf(loaded[r], results[r])

(***************************************************************************)
(* A run says SUCCESS only if none of the tasks it ran FAILED and each of  *)
(* the tasks it shows was decided: no row is the zero value.               *)
(***************************************************************************)
SuccessIsEarned ==
    \A r \in Ids : runs[r].result = "SUCCESS" =>
        /\ \A t \in loaded[r] : results[r][t.key].result # "FAILED"
        /\ \A i \in DOMAIN runs[r].tasks : runs[r].tasks[i] # ZeroRow

(***************************************************************************)
(* A run_job task that has ended reports the stored outcome of its child,  *)
(* and the child's executor is over by then: the parent never moves on     *)
(* while work it started is still running (runJobTask is synchronous), not *)
(* even when the child's record was TERMINATED by a cancel.                *)
(***************************************************************************)
ChildOutcomeIsTheTasks ==
    \A r \in Ids, c \in Ids : \A t \in loaded[r] :
        Child(r, t, c) /\ t \notin flight[r] =>
            /\ pc[c] = "returned"
            /\ results[r][t.key].child = c
            /\ results[r][t.key].result = runs[c].result

(***************************************************************************)
(* A task goroutine has at most one child run, and a run that is still     *)
(* executing for a caller is waited for: its caller's task is in flight.   *)
(***************************************************************************)
ChildrenAreWaitedFor ==
    \A c \in Ids : Active(c) /\ caller[c] # Handler =>
        /\ \E t \in flight[caller[c].run] : Child(caller[c].run, t, c)
        /\ \A e \in Ids : caller[e] = caller[c] => e = c

\* A parent waits for the child runs of its run_job tasks and reports their ends.
ParentsReportTheirChildren == ChildrenAreWaitedFor /\ ChildOutcomeIsTheTasks

(***************************************************************************)
(* for_each never runs more iterations at once than its concurrency, and   *)
(* one at a time when none was given (the semaphore of runForEachTask).    *)
(***************************************************************************)
ForEachWithinItsConcurrency ==
    \A r \in Ids : \A t \in flight[r] :
        LET most == IF t.concurrency <= 0 THEN 1 ELSE t.concurrency
        IN  t.kind = "for_each" => Cardinality(IterAt(r, t, "running")) <= most

(***************************************************************************)
(* for_each counts every input: when its row is recorded each iteration    *)
(* has ended, and the row FAILED exactly when one of them did.             *)
(***************************************************************************)
ForEachCountsEveryInput ==
    \A r \in Ids : Loaded(r) => \A t \in loaded[r] :
        t.kind = "for_each" /\ results[r][t.key].result \in {"SUCCESS", "FAILED"} =>
            /\ Len(iters[r][t.key]) = t.inputs
            /\ \A i \in 1..t.inputs : iters[r][t.key][i] \in {"SUCCESS", "FAILED"}
            /\ (results[r][t.key].result = "FAILED") =
               (\E i \in 1..t.inputs : iters[r][t.key][i] = "FAILED")

\* runForEachTask keeps to its limit and loses no iteration.
ForEachIsBoundedAndCounted == ForEachWithinItsConcurrency /\ ForEachCountsEveryInput

(***************************************************************************)
(* Once a cancel is stored while an executor is at or before its loop head *)
(* no further wave of that run is ever dispatched (executeRun's check).    *)
(***************************************************************************)
CancelStopsLaterWaves ==
    \A r \in Ids :
        [](Cancelled(r) /\ pc[r] \in {"start", "load", "wave"} => [](pc[r] # "dispatch"))

(***************************************************************************)
(* Every executor returns, and by then its run is TERMINATED, even for     *)
(* jobs that run themselves and for graphs with cycles.                    *)
(***************************************************************************)
EveryRunEnds ==
    \A r \in Ids : pc[r] = "start" ~> (pc[r] = "returned" /\ runs[r].life = "TERMINATED")

(***************************************************************************)
(* The runner implements the life cycle a polling client sees.             *)
(***************************************************************************)
StatusOf(run) ==
    CASE run.life = "" -> "none"
      [] run.life = "TERMINATED" -> run.result
      [] OTHER -> run.life

Life == INSTANCE RunLifecycle WITH status <- [r \in Ids |-> StatusOf(runs[r])]

\* The steps of a run's record are those of the life cycle.
ImplementsLifecycle == Life!Spec

-------------------------------------------------------------------------------
(***************************************************************************)
(* A claim of the repository that the code does not keep.                  *)
(***************************************************************************)

(***************************************************************************)
(* "no further wave starts, so cancelling actually stops consuming the     *)
(* attach": also in the child runs a cancelled run has started.            *)
(***************************************************************************)
CancelReachesChildren ==
    [][\A c \in Ids : \A p \in Ids :
         caller[c].run = p /\ Cancelled(p) /\ pc[c] = "wave" => pc'[c] # "dispatch"]_vars
===============================================================================
