-------------------------- MODULE JobRunsTaskProofs --------------------------
(***************************************************************************)
(* Theorems about the tasks of a run: the waves of executeRun, the child   *)
(* runs of run_job tasks and the iterations of for_each tasks, for every   *)
(* set of keys, every graph a client may send and every bound.             *)
(***************************************************************************)
EXTENDS JobRunsProofs, FiniteSetTheorems

(***************************************************************************)
(* The inductive invariant of the waves.                                   *)
(***************************************************************************)

\* Before the executor has read its tasks it has none, and no rows.
Empty(r) ==
    pc[r] \in {"none", "start", "noengine", "load"} =>
        /\ loaded[r] = {} /\ remaining[r] = {} /\ flight[r] = {}
        /\ results[r] = [k \in Keys |-> ZeroRow]

\* The map has one task per key.
UniqueKeys(T) == \A t, u \in T : t.key = u.key => t = u

\* A goroutine works only between two dispatches, and the loop ends with all done.
Barrier(r) ==
    /\ pc[r] # "wave" => flight[r] = {}
    /\ pc[r] = "dispatch" => remaining[r] # {}
    /\ pc[r] \in {"reread", "publish"} => remaining[r] = {}

\* A task waits, runs or has its row.
Placed(r) ==
    /\ remaining[r] \subseteq loaded[r]
    /\ flight[r] \subseteq loaded[r] \ remaining[r]
    /\ Recorded(results[r]) = KeysOf(loaded[r] \ (remaining[r] \cup flight[r]))

(***************************************************************************)
(* A task that was dispatched is not blocked, all it depends on has its    *)
(* row, and its own row, once there, says what the graph says.             *)
(***************************************************************************)
Dispatched(r, t) ==
    /\ t \notin Blocked(loaded[r])
    /\ \A d \in t.deps : d.key \in Recorded(results[r])
    /\ t \in flight[r] => shouldRun(t, results[r]) /\ t.kind # "condition"
    /\ t \notin flight[r] =>
          /\ results[r][t.key].result = "SKIPPED" <=> ~shouldRun(t, results[r])
          /\ shouldRun(t, results[r]) /\ t.kind = "condition" =>
                results[r][t.key] = ConditionRow(evalCondition(t.cond))

\* One that never could be is skipped when nothing else is left.
LeftOver(r, t) ==
    /\ t \in Blocked(loaded[r])
    /\ remaining[r] = {} /\ t \notin flight[r]
    /\ results[r][t.key].result = "SKIPPED"

Decisions(r) == \A t \in loaded[r] \ remaining[r] : Dispatched(r, t) \/ LeftOver(r, t)

WaveInv(r) == Empty(r) /\ UniqueKeys(loaded[r]) /\ Barrier(r) /\ Placed(r) /\ Decisions(r)

Waves == \A r \in Ids : WaveInv(r)

-------------------------------------------------------------------------------
(***************************************************************************)
(* The pure functions of the graph.                                        *)
(***************************************************************************)

(***************************************************************************)
(* The map built from a task list has one task per key.                    *)
(***************************************************************************)
LEMMA ByKeyUnique ==
    ASSUME NEW ts \in Seq(Task) PROVE UniqueKeys(byKey(ts))
<1> SUFFICES ASSUME NEW t \in byKey(ts), NEW u \in byKey(ts), t.key = u.key PROVE t = u
  BY DEF UniqueKeys
<1>1. PICK n \in DOMAIN ts : t = ts[n] /\ \A m \in DOMAIN ts : ts[m].key = ts[n].key => m <= n
  BY DEF byKey
<1>2. PICK i \in DOMAIN ts : u = ts[i] /\ \A m \in DOMAIN ts : ts[m].key = ts[i].key => m <= i
  BY DEF byKey
<1>3. i <= n /\ n <= i /\ i \in Int /\ n \in Int
  BY <1>1, <1>2
<1> QED BY <1>1, <1>2, <1>3

(***************************************************************************)
(* shouldRun depends on the rows of the dependencies only.                 *)
(***************************************************************************)
LEMMA ShouldRunReadsDependencies ==
    ASSUME NEW t, NEW done, NEW later, \A d \in t.deps : later[d.key] = done[d.key]
    PROVE  shouldRun(t, later) <=> shouldRun(t, done)
<1>1. runIfHolds(t, later) <=> runIfHolds(t, done)
  BY DEF runIfHolds
<1> QED BY <1>1 DEF shouldRun

\* Each task of U waits on a key no task of T has, or on a task of U.
Blocking(T, U) ==
    \A t \in U : \E d \in t.deps :
        \/ \A u \in T : u.key # d.key
        \/ \E u \in U : u.key = d.key

(***************************************************************************)
(* Blocked(T) is the largest such set.                                     *)
(***************************************************************************)
LEMMA BlockedIsLargest ==
    ASSUME NEW T
    PROVE  /\ Blocking(T, Blocked(T)) /\ Blocked(T) \subseteq T
           /\ \A U \in SUBSET T : Blocking(T, U) => U \subseteq Blocked(T)
<1>1. Blocked(T) = UNION { U \in SUBSET T : Blocking(T, U) }
  BY DEF Blocked, Blocking
<1>2. ASSUME NEW t \in Blocked(T)
      PROVE  \E d \in t.deps : \/ \A u \in T : u.key # d.key
                               \/ \E u \in Blocked(T) : u.key = d.key
  <2>1. PICK U \in SUBSET T : Blocking(T, U) /\ t \in U
    BY <1>1, <1>2
  <2>2. U \subseteq Blocked(T)
    BY <1>1, <2>1
  <2> QED BY <2>1, <2>2 DEF Blocking
<1>3. Blocking(T, Blocked(T))
  BY <1>2 DEF Blocking
<1> QED BY <1>1, <1>3

-------------------------------------------------------------------------------
(***************************************************************************)
(* What a step must leave alone for the invariant of the waves to stay.    *)
(***************************************************************************)

(***************************************************************************)
(* An executor's own variables, without the place it is at, are untouched. *)
(***************************************************************************)
Idle(q) ==
    /\ loaded'[q] = loaded[q] /\ remaining'[q] = remaining[q]
    /\ flight'[q] = flight[q] /\ results'[q] = results[q]

(***************************************************************************)
(* A run whose tasks nobody touches keeps the invariant, wherever its      *)
(* executor goes as long as the barrier allows it.                         *)
(***************************************************************************)
LEMMA WaveUntouched ==
    ASSUME NEW q \in Ids, WaveInv(q), Idle(q), Empty(q)', Barrier(q)'
    PROVE  WaveInv(q)'
<1>1. UniqueKeys(loaded'[q])
  BY DEF WaveInv, Idle
<1>2. Placed(q)'
  BY DEF WaveInv, Idle, Placed
<1>3. Decisions(q)'
  <2> SUFFICES ASSUME NEW t \in loaded'[q] \ remaining'[q]
               PROVE  (Dispatched(q, t) \/ LeftOver(q, t))'
    BY DEF Decisions
  <2>1. Dispatched(q, t) \/ LeftOver(q, t)
    BY DEF WaveInv, Decisions, Idle
  <2> QED BY <2>1 DEF Dispatched, LeftOver, Idle
<1> QED BY <1>1, <1>2, <1>3 DEF WaveInv

(***************************************************************************)
(* So does a run whose executor does not move either.                      *)
(***************************************************************************)
LEMMA WaveStays ==
    ASSUME NEW q \in Ids, WaveInv(q), Idle(q), pc'[q] = pc[q]
    PROVE  WaveInv(q)'
<1>1. Empty(q)' /\ Barrier(q)'
  BY DEF WaveInv, Idle, Empty, Barrier
<1> QED BY <1>1, WaveUntouched

(***************************************************************************)
(* The decision about a task stays right while rows are added: those it    *)
(* was decided on are there and do not change.                             *)
(***************************************************************************)
LEMMA DispatchedKeeps ==
    ASSUME NEW r \in Ids, NEW t, Dispatched(r, t), loaded'[r] = loaded[r],
           \A k \in Recorded(results[r]) :
              results'[r][k] = results[r][k] /\ k \in Recorded(results'[r]),
           t \in flight'[r] <=> t \in flight[r],
           t \notin flight[r] => results'[r][t.key] = results[r][t.key]
    PROVE  Dispatched(r, t)'
<1>1. shouldRun(t, results'[r]) <=> shouldRun(t, results[r])
  <2>1. \A d \in t.deps : results'[r][d.key] = results[r][d.key]
    BY DEF Dispatched
  <2> HIDE DEF Dispatched
  <2> QED BY <2>1, ShouldRunReadsDependencies
<1> QED BY <1>1 DEF Dispatched

(***************************************************************************)
(* What is known of the variables of one run.                              *)
(***************************************************************************)
LEMMA RunTypes ==
    ASSUME TypeOK, NEW r \in Ids
    PROVE  /\ loaded[r] \subseteq Task /\ remaining[r] \subseteq Task
           /\ flight[r] \subseteq Task /\ results[r] \in [Keys -> TaskRun]
           /\ loaded \in [Ids -> SUBSET Task] /\ remaining \in [Ids -> SUBSET Task]
           /\ flight \in [Ids -> SUBSET Task] /\ results \in [Ids -> [Keys -> TaskRun]]
           /\ pc \in [Ids -> Locations] /\ iters \in [Ids -> [Keys -> Seq(IterState)]]
           /\ iters[r] \in [Keys -> Seq(IterState)]
  BY DEF TypeOK, TasksType, RowsType, ControlType

(***************************************************************************)
(* A row is there for the tasks that are neither waiting nor running.      *)
(***************************************************************************)
LEMMA RowsArePlaced ==
    ASSUME TypeOK, NEW r \in Ids, WaveInv(r), NEW t \in loaded[r]
    PROVE  t.key \in Recorded(results[r]) <=> t \notin remaining[r] \cup flight[r]
<1>1. t.key \in Keys
  BY RunTypes, TaskFields
<1> QED BY <1>1 DEF WaveInv, Placed, UniqueKeys, KeysOf

-------------------------------------------------------------------------------
(***************************************************************************)
(* The waves.                                                              *)
(***************************************************************************)

(***************************************************************************)
(* A goroutine that ends records one row, that of its task.                *)
(***************************************************************************)
LEMMA FinishWave ==
    ASSUME TypeOK, NEW r \in Ids, WaveInv(r), NEW t \in flight[r], NEW row \in TaskRun,
           row # ZeroRow, row.result # "SKIPPED", FinishTask(r, t, row)
    PROVE  WaveInv(r)'
<1>1. /\ t \in loaded[r] \ remaining[r] /\ t.key \in Keys
      /\ t.key \notin Recorded(results[r])
  <2>1. t \in loaded[r] \ remaining[r]
    BY DEF WaveInv, Placed
  <2> QED BY <2>1, RowsArePlaced, RunTypes, TaskFields
<1>2. /\ pc' = pc /\ loaded' = loaded /\ remaining' = remaining
      /\ flight'[r] = flight[r] \ {t}
      /\ results'[r] = [results[r] EXCEPT ![t.key] = row]
  BY RunTypes DEF FinishTask
<1>3. results'[r][t.key] = row /\ \A k \in Keys \ {t.key} : results'[r][k] = results[r][k]
  BY <1>1, <1>2, RunTypes
<1>4. Recorded(results'[r]) = Recorded(results[r]) \cup {t.key}
  BY <1>1, <1>3 DEF Recorded
<1>5. \A k \in Recorded(results[r]) :
         results'[r][k] = results[r][k] /\ k \in Recorded(results'[r])
  BY <1>1, <1>3, <1>4 DEF Recorded
<1>6. pc[r] = "wave" /\ Empty(r)' /\ Barrier(r)'
  BY <1>2 DEF WaveInv, Barrier, Empty
<1>7. Placed(r)'
  <2>1. flight'[r] \subseteq loaded'[r] \ remaining'[r] /\ remaining'[r] \subseteq loaded'[r]
    BY <1>2 DEF WaveInv, Placed
  <2>2. loaded[r] \ (remaining[r] \cup (flight[r] \ {t})) =
           (loaded[r] \ (remaining[r] \cup flight[r])) \cup {t}
    BY <1>1
  <2>3. Recorded(results'[r]) = KeysOf(loaded'[r] \ (remaining'[r] \cup flight'[r]))
    BY <1>2, <1>4, <2>2 DEF WaveInv, Placed, KeysOf
  <2> QED BY <2>1, <2>3 DEF Placed
<1>8. Decisions(r)'
  <2> SUFFICES ASSUME NEW u \in loaded[r] \ remaining[r]
               PROVE  (Dispatched(r, u) \/ LeftOver(r, u))'
    BY <1>2 DEF Decisions
  <2>1. Dispatched(r, u) \/ LeftOver(r, u)
    BY DEF WaveInv, Decisions
  <2>2. u.key \in Keys /\ (u # t => u.key # t.key)
    BY <1>1, RunTypes, TaskFields DEF WaveInv, UniqueKeys
  <2>3. CASE u = t
    <3>1. Dispatched(r, t) /\ shouldRun(t, results[r]) /\ t.kind # "condition"
      BY <2>1, <2>3 DEF LeftOver, Dispatched
    <3>2. \A d \in t.deps : results'[r][d.key] = results[r][d.key]
      BY <1>5, <3>1 DEF Dispatched
    <3>3. shouldRun(t, results'[r])
      BY <3>1, <3>2, ShouldRunReadsDependencies
    <3>4. Dispatched(r, t)'
      BY <1>2, <1>3, <1>5, <3>1, <3>3 DEF Dispatched
    <3> QED BY <2>3, <3>4
  <2>4. CASE u # t /\ Dispatched(r, u)
    BY <1>2, <1>3, <1>5, <2>2, <2>4, DispatchedKeeps
  <2>5. CASE u # t /\ LeftOver(r, u)
    BY <1>2, <1>3, <2>2, <2>5 DEF LeftOver
  <2> QED BY <2>1, <2>3, <2>4, <2>5
<1>9. UniqueKeys(loaded'[r])
  BY <1>2 DEF WaveInv
<1> QED BY <1>6, <1>7, <1>8, <1>9 DEF WaveInv

(***************************************************************************)
(* What the dispatch loop writes, key by key.                              *)
(***************************************************************************)
LEMMA DispatchRows ==
    ASSUME TypeOK, NEW r \in Ids, WaveInv(r), Dispatch(r)
    PROVE  /\ \A t \in Ready(r) : results'[r][t.key] = Decided(t, results[r])
           /\ \A k \in Keys \ KeysOf(Ready(r)) : results'[r][k] = results[r][k]
<1> DEFINE f == [k \in Keys |-> IF \E t \in Ready(r) : t.key = k
                    THEN Decided(CHOOSE t \in Ready(r) : t.key = k, results[r])
                    ELSE results[r][k]]
<1>1. results'[r] = f
  BY RunTypes DEF Dispatch, Decide
<1>2. Ready(r) \subseteq loaded[r] /\ \A t \in Ready(r) : t.key \in Keys
  BY RunTypes, TaskFields DEF Ready, WaveInv, Placed
<1>3. ASSUME NEW t \in Ready(r) PROVE (CHOOSE u \in Ready(r) : u.key = t.key) = t
  BY <1>2 DEF WaveInv, UniqueKeys
<1>4. \A t \in Ready(r) : f[t.key] = Decided(t, results[r])
  BY <1>2, <1>3
<1>5. \A k \in Keys \ KeysOf(Ready(r)) : f[k] = results[r][k]
  BY DEF KeysOf
<1> HIDE DEF f
<1> QED BY <1>1, <1>4, <1>5

(***************************************************************************)
(* A task whose dependencies have all been recorded before the last wave   *)
(* ended is not blocked.                                                   *)
(***************************************************************************)
LEMMA ReadyIsNotBlocked ==
    ASSUME TypeOK, NEW r \in Ids, WaveInv(r), pc[r] = "dispatch", NEW t \in Ready(r)
    PROVE  t \notin Blocked(loaded[r])
<1>1. flight[r] = {} /\ remaining[r] # {}
  BY DEF WaveInv, Barrier
<1>2. SUFFICES ASSUME t \in Blocked(loaded[r]) PROVE FALSE
  OBVIOUS
<1>3. PICK d \in t.deps : \/ \A u \in loaded[r] : u.key # d.key
                          \/ \E u \in Blocked(loaded[r]) : u.key = d.key
  BY <1>2, BlockedIsLargest DEF Blocking
<1>4. d.key \in Recorded(results[r])
  BY DEF Ready, depsSatisfied
<1>5. PICK v \in loaded[r] \ remaining[r] : v.key = d.key
  BY <1>1, <1>4 DEF WaveInv, Placed, KeysOf
<1>6. PICK u \in Blocked(loaded[r]) : u.key = d.key
  BY <1>3, <1>5
<1>7. u \in loaded[r] /\ u = v
  BY <1>5, <1>6, BlockedIsLargest DEF WaveInv, UniqueKeys
<1>8. ~LeftOver(r, v)
  BY <1>1 DEF LeftOver
<1>9. v \notin Blocked(loaded[r])
  BY <1>5, <1>8 DEF WaveInv, Decisions, Dispatched
<1> QED BY <1>6, <1>7, <1>9

(***************************************************************************)
(* A dispatched wave.                                                      *)
(***************************************************************************)
LEMMA DispatchWave ==
    ASSUME TypeOK, NEW r \in Ids, WaveInv(r), Dispatch(r)
    PROVE  WaveInv(r)'
<1>1. flight[r] = {} /\ pc[r] = "dispatch"
  BY DEF WaveInv, Barrier, Dispatch
<1>2. /\ loaded' = loaded /\ pc'[r] = "wave"
      /\ remaining'[r] = remaining[r] \ Ready(r) /\ flight'[r] = Spawned(r)
  BY RunTypes DEF Dispatch, Goto
<1>3. /\ \A t \in Ready(r) : results'[r][t.key] = Decided(t, results[r])
      /\ \A k \in Keys \ KeysOf(Ready(r)) : results'[r][k] = results[r][k]
  BY DispatchRows
<1>4. /\ Ready(r) \subseteq remaining[r] /\ remaining[r] \subseteq loaded[r]
      /\ Spawned(r) \subseteq Ready(r)
  BY DEF Ready, Spawned, WaveInv, Placed
<1>5. \A t \in loaded[r] : t.key \in Keys
  BY RunTypes, TaskFields
<1>6. ASSUME NEW t \in Ready(r)
      PROVE  /\ Decided(t, results[r]) # ZeroRow <=> t \notin Spawned(r)
             /\ t \notin Spawned(r) =>
                   /\ Decided(t, results[r]).result = "SKIPPED" <=> ~shouldRun(t, results[r])
                   /\ shouldRun(t, results[r]) /\ t.kind = "condition" =>
                         Decided(t, results[r]) = ConditionRow(evalCondition(t.cond))
  BY DEF Decided, Spawned, Row, ConditionRow, ZeroRow
<1>7. \A k \in Recorded(results[r]) : k \notin KeysOf(Ready(r))
  <2> SUFFICES ASSUME NEW t \in Ready(r), t.key \in Recorded(results[r]) PROVE FALSE
    BY DEF KeysOf
  <2> QED BY <1>4, RowsArePlaced
<1>8. Recorded(results'[r]) = Recorded(results[r]) \cup KeysOf(Ready(r) \ Spawned(r))
  <2>1. ASSUME NEW k \in Keys
        PROVE  k \in Recorded(results'[r]) <=>
                  k \in Recorded(results[r]) \/ k \in KeysOf(Ready(r) \ Spawned(r))
    <3>1. CASE k \in KeysOf(Ready(r))
      <4>1. PICK t \in Ready(r) : t.key = k
        BY <3>1 DEF KeysOf
      <4>2. k \in KeysOf(Ready(r) \ Spawned(r)) <=> t \notin Spawned(r)
        BY <1>4, <4>1 DEF KeysOf, WaveInv, UniqueKeys
      <4>3. k \in Recorded(results'[r]) <=> t \notin Spawned(r)
        BY <1>3, <1>6, <4>1 DEF Recorded
      <4> QED BY <1>7, <3>1, <4>2, <4>3
    <3>2. CASE k \notin KeysOf(Ready(r))
      <4>1. k \notin KeysOf(Ready(r) \ Spawned(r))
        BY <3>2 DEF KeysOf
      <4>2. results'[r][k] = results[r][k]
        BY <1>3, <3>2
      <4> QED BY <4>1, <4>2 DEF Recorded
    <3> QED BY <3>1, <3>2
  <2>2. \A k \in KeysOf(Ready(r) \ Spawned(r)) : k \in Keys
    BY <1>4, <1>5 DEF KeysOf
  <2>3. Recorded(results'[r]) \subseteq Keys /\ Recorded(results[r]) \subseteq Keys
    BY DEF Recorded
  <2> QED BY <2>1, <2>2, <2>3
<1>9. \A k \in Recorded(results[r]) :
         results'[r][k] = results[r][k] /\ k \in Recorded(results'[r])
  <2>1. Recorded(results[r]) \subseteq Keys
    BY DEF Recorded
  <2> QED BY <1>3, <1>7, <1>8, <2>1
<1>10. Placed(r)'
  <2>1. loaded[r] \ (remaining'[r] \cup flight'[r]) =
           (loaded[r] \ (remaining[r] \cup flight[r])) \cup (Ready(r) \ Spawned(r))
    BY <1>1, <1>2, <1>4
  <2>2. Recorded(results'[r]) = KeysOf(loaded[r] \ (remaining'[r] \cup flight'[r]))
    BY <1>8, <2>1 DEF KeysOf, WaveInv, Placed
  <2> QED BY <1>2, <1>4, <2>2 DEF Placed
<1>11. Decisions(r)'
  <2> SUFFICES ASSUME NEW u \in loaded[r] \ remaining'[r] PROVE Dispatched(r, u)'
    BY <1>2 DEF Decisions
  <2>1. CASE u \in Ready(r)
    <3>1. u \notin Blocked(loaded'[r])
      BY <1>1, <1>2, <2>1, ReadyIsNotBlocked
    <3>2. \A d \in u.deps : d.key \in Recorded(results[r])
      BY <2>1 DEF Ready, depsSatisfied
    <3>3. shouldRun(u, results'[r]) <=> shouldRun(u, results[r])
      BY <1>9, <3>2, ShouldRunReadsDependencies
    <3>4. u \in Spawned(r) => shouldRun(u, results[r]) /\ u.kind # "condition"
      BY DEF Spawned
    <3>5. results'[r][u.key] = Decided(u, results[r])
      BY <1>3, <2>1
    <3> QED BY <1>2, <1>6, <1>9, <2>1, <3>1, <3>2, <3>3, <3>4, <3>5 DEF Dispatched
  <2>2. CASE u \notin Ready(r)
    <3>1. u \in loaded[r] \ remaining[r]
      BY <1>2, <2>2
    <3>2. Dispatched(r, u)
      BY <1>1, <3>1 DEF WaveInv, Decisions, LeftOver, Barrier
    <3>3. u \notin flight[r] /\ u \notin flight'[r]
      BY <1>1, <1>2, <1>4, <2>2
    <3>4. u.key \in Recorded(results[r])
      BY <1>1, <3>1, RowsArePlaced
    <3> QED BY <1>2, <1>9, <3>2, <3>3, <3>4, DispatchedKeeps
  <2> QED BY <2>1, <2>2
<1>12. UniqueKeys(loaded'[r]) /\ Empty(r)' /\ Barrier(r)'
  BY <1>2 DEF WaveInv, Empty, Barrier
<1> QED BY <1>10, <1>11, <1>12 DEF WaveInv

(***************************************************************************)
(* What is never ready is skipped: it is a blocking set of the graph.      *)
(***************************************************************************)
LEMMA SkipWave ==
    ASSUME TypeOK, NEW r \in Ids, WaveInv(r), SkipTheRest(r)
    PROVE  WaveInv(r)'
<1>1. flight[r] = {} /\ remaining[r] # {} /\ pc[r] = "dispatch" /\ Ready(r) = {}
  BY DEF WaveInv, Barrier, SkipTheRest
<1>2. /\ loaded' = loaded /\ pc'[r] = "wave" /\ flight' = flight
      /\ remaining'[r] = {}
  BY RunTypes DEF SkipTheRest, Goto
<1>3. \A k \in Keys : results'[r][k] =
         IF k \in KeysOf(remaining[r]) THEN Row("SKIPPED") ELSE results[r][k]
  BY RunTypes DEF SkipTheRest, KeysOf
<1>4. Row("SKIPPED") # ZeroRow /\ Row("SKIPPED").result = "SKIPPED"
  BY DEF Row, ZeroRow
<1>5. remaining[r] \subseteq loaded[r] /\ \A t \in loaded[r] : t.key \in Keys
  BY RunTypes, TaskFields DEF WaveInv, Placed
<1>6. \A k \in Recorded(results[r]) : k \in Keys /\ k \notin KeysOf(remaining[r])
  <2>1. ASSUME NEW t \in remaining[r], t.key \in Recorded(results[r]) PROVE FALSE
    BY <1>5, <2>1, RowsArePlaced
  <2> QED BY <2>1 DEF KeysOf, Recorded
<1>7. Recorded(results'[r]) = Recorded(results[r]) \cup KeysOf(remaining[r])
  <2>1. \A k \in Keys : k \in Recorded(results'[r]) <=>
           k \in Recorded(results[r]) \/ k \in KeysOf(remaining[r])
    BY <1>3, <1>4 DEF Recorded
  <2>2. KeysOf(remaining[r]) \subseteq Keys
    BY <1>5 DEF KeysOf
  <2> QED BY <2>1, <2>2 DEF Recorded
<1>8. \A k \in Recorded(results[r]) :
         results'[r][k] = results[r][k] /\ k \in Recorded(results'[r])
  BY <1>3, <1>6, <1>7
<1>9. remaining[r] \subseteq Blocked(loaded[r])
  <2> SUFFICES ASSUME NEW t \in remaining[r]
               PROVE  \E d \in t.deps : \/ \A u \in loaded[r] : u.key # d.key
                                        \/ \E u \in remaining[r] : u.key = d.key
    BY <1>5, BlockedIsLargest DEF Blocking
  <2>1. PICK d \in t.deps : d.key \notin Recorded(results[r])
    BY <1>1 DEF Ready, depsSatisfied
  <2>2. ASSUME NEW u \in loaded[r], u.key = d.key PROVE u \in remaining[r]
    BY <1>1, <2>1, <2>2, RowsArePlaced
  <2> QED BY <2>2
<1>10. Placed(r)'
  BY <1>1, <1>2, <1>5, <1>7 DEF Placed, WaveInv, KeysOf
<1>11. Decisions(r)'
  <2> SUFFICES ASSUME NEW u \in loaded[r] PROVE (Dispatched(r, u) \/ LeftOver(r, u))'
    BY <1>2 DEF Decisions
  <2>1. CASE u \in remaining[r]
    <3>1. results'[r][u.key].result = "SKIPPED"
      BY <1>3, <1>4, <1>5, <2>1 DEF KeysOf
    <3>2. u \in Blocked(loaded'[r])
      BY <1>2, <1>9, <2>1
    <3> QED BY <1>1, <1>2, <3>1, <3>2 DEF LeftOver
  <2>2. CASE u \notin remaining[r]
    <3>1. Dispatched(r, u)
      BY <1>1, <2>2 DEF WaveInv, Decisions, LeftOver
    <3>2. u.key \in Recorded(results[r])
      BY <1>1, <2>2, RowsArePlaced
    <3> QED BY <1>1, <1>2, <1>8, <3>1, <3>2, DispatchedKeeps
  <2> QED BY <2>1, <2>2
<1>12. UniqueKeys(loaded'[r]) /\ Empty(r)' /\ Barrier(r)'
  BY <1>1, <1>2 DEF WaveInv, Empty, Barrier
<1> QED BY <1>10, <1>11, <1>12 DEF WaveInv

(***************************************************************************)
(* Reading the tasks, the first time and again for the rows.               *)
(***************************************************************************)
LEMMA SeesTasksWave ==
    ASSUME TypeOK, NEW r \in Ids, WaveInv(r), NEW ts \in Seq(Task), SeesTasks(r, ts)
    PROVE  WaveInv(r)'
<1>1. CASE pc[r] = "load"
  <2>1. /\ loaded'[r] = byKey(ts) /\ remaining'[r] = byKey(ts)
        /\ flight' = flight /\ results' = results /\ pc'[r] = "wave"
    BY <1>1, RunTypes DEF SeesTasks, Goto
  <2>2. flight[r] = {} /\ Recorded(results[r]) = {}
    BY <1>1 DEF WaveInv, Empty, Recorded
  <2>3. UniqueKeys(loaded'[r])
    BY <2>1, ByKeyUnique
  <2>4. Placed(r)' /\ Decisions(r)'
    BY <2>1, <2>2 DEF Placed, Decisions, KeysOf
  <2>5. Empty(r)' /\ Barrier(r)'
    BY <2>1 DEF Empty, Barrier
  <2> QED BY <2>3, <2>4, <2>5 DEF WaveInv
<1>2. CASE pc[r] = "reread"
  <2>1. Idle(r) /\ pc'[r] = "publish"
    BY <1>2, RunTypes DEF SeesTasks, Goto, Idle
  <2>2. Empty(r)' /\ Barrier(r)'
    BY <1>2, <2>1 DEF WaveInv, Empty, Barrier, Idle
  <2> QED BY <2>1, <2>2, WaveUntouched
<1> QED BY <1>1, <1>2 DEF SeesTasks

(***************************************************************************)
(* A step moves the tasks of one run only.                                 *)
(***************************************************************************)
LEMMA OneRunAtATime ==
    ASSUME Waves, NEW r \in Ids, WaveInv(r)',
           \A q \in Ids \ {r} : Idle(q) /\ pc'[q] = pc[q]
    PROVE  Waves'
<1> SUFFICES ASSUME NEW q \in Ids PROVE WaveInv(q)'
  BY DEF Waves
<1>1. CASE q = r
  BY <1>1
<1>2. CASE q # r
  BY <1>2, WaveStays DEF Waves
<1> QED BY <1>1, <1>2

(***************************************************************************)
(* A step that leaves every executor where it is, with its tasks.          *)
(***************************************************************************)
LEMMA NoRunMoves ==
    ASSUME Waves, UNCHANGED <<pc, loaded, remaining, flight, results>>
    PROVE  Waves'
<1> SUFFICES ASSUME NEW q \in Ids PROVE WaveInv(q)'
  BY DEF Waves
<1> QED BY WaveStays DEF Waves, Idle

(***************************************************************************)
(* A step of an executor to another place, tasks untouched.                *)
(***************************************************************************)
LEMMA OnlyTheExecutorMoves ==
    ASSUME TypeOK, Waves, NEW r \in Ids, NEW l, Goto(r, l),
           UNCHANGED <<loaded, remaining, flight, results>>,
           Empty(r)', Barrier(r)'
    PROVE  Waves'
<1>1. Idle(r) /\ WaveInv(r)
  BY DEF Waves, Idle
<1>2. WaveInv(r)'
  BY <1>1, WaveUntouched
<1>3. \A q \in Ids \ {r} : Idle(q) /\ pc'[q] = pc[q]
  BY RunTypes DEF Goto, Idle
<1> QED BY <1>2, <1>3, OneRunAtATime

(***************************************************************************)
(* A new run has an executor that has read nothing.                        *)
(***************************************************************************)
LEMMA NewRunWave ==
    ASSUME IndInv, Waves, NEW j, NEW d, NEW parent, NewRun(j, d, parent)
    PROVE  Waves'
<1>1. nextID + 1 \in Ids /\ pc[nextID + 1] = "none"
  <2>1. nextID \in 0..MaxID /\ nextID < MaxID
    BY DEF NewRun, IndInv, TypeOK, StoreType
  <2>2. nextID + 1 \in Ids /\ nextID + 1 > nextID
    BY <2>1, Bounds, NextIdInRange
  <2> QED BY <2>2 DEF IndInv, RecordFollowsExecutor, InStep
<1>2. WaveInv(nextID + 1) /\ pc'[nextID + 1] = "start"
  BY <1>1, RunTypes DEF Waves, NewRun, IndInv
<1>3. UNCHANGED <<loaded, remaining, flight, results>> /\ Goto(nextID + 1, "start")
  BY DEF NewRun, Goto
<1>4. \A n \in Ids : n = nextID + 1 => Empty(n)' /\ Barrier(n)'
  BY <1>1, <1>2, <1>3 DEF WaveInv, Empty, Barrier
<1>5. \A n \in Ids : n = nextID + 1 => Waves'
  BY <1>3, <1>4, OnlyTheExecutorMoves DEF IndInv
<1> QED BY <1>1, <1>5

(***************************************************************************)
(* A goroutine's row, whatever the kind of its task.                       *)
(***************************************************************************)
LEMMA FinishWaves ==
    ASSUME TypeOK, Waves, NEW r \in Ids, NEW t \in flight[r], NEW row \in TaskRun,
           row # ZeroRow, row.result # "SKIPPED", FinishTask(r, t, row)
    PROVE  Waves'
<1>1. WaveInv(r)'
  BY FinishWave DEF Waves
<1>2. \A q \in Ids \ {r} : Idle(q) /\ pc'[q] = pc[q]
  BY RunTypes DEF FinishTask, Idle
<1> QED BY <1>1, <1>2, OneRunAtATime

(***************************************************************************)
(* The handlers keep the waves: they move no task, except that a reset may *)
(* be seen halfway by an executor that is reading the list.                *)
(***************************************************************************)
LEMMA ClientWaves ==
    ASSUME IndInv, Waves, Client PROVE Waves'
<1>1. ASSUME NEW ts \in CreateLists, jobsCreate(ts) PROVE Waves'
  BY <1>1, NoRunMoves DEF jobsCreate, locals
<1>2. ASSUME NEW j \in jobs, NEW ts \in ResetLists, jobsReset(j, ts) PROVE Waves'
  BY <1>2, NoRunMoves DEF jobsReset, locals
<1>3. ASSUME NEW j \in jobs, NEW ts \in ResetLists, NEW r \in Ids,
             ResetDuringRead(j, ts, r)
      PROVE  Waves'
  <2>1. ts \in Seq(Task) /\ tasks[j] \in Seq(Task)
    BY ListsAreTasks DEF IndInv, TypeOK, StoreType
  <2>2. PICK seen \in TornReads(tasks[j], ts) : SeesTasks(r, seen)
    BY <1>3 DEF ResetDuringRead
  <2>3. WaveInv(r)'
    BY <2>1, <2>2, TornReadsType, SeesTasksWave DEF Waves, IndInv
  <2>4. \A q \in Ids \ {r} : Idle(q) /\ pc'[q] = pc[q]
    BY <2>2, RunTypes DEF SeesTasks, Goto, Idle, IndInv
  <2> QED BY <2>3, <2>4, OneRunAtATime
<1>4. ASSUME NEW j \in jobs, jobsDelete(j) PROVE Waves'
  BY <1>4, NoRunMoves DEF jobsDelete, locals
<1>5. ASSUME NEW j \in jobs, jobsRunNow(j) PROVE Waves'
  BY <1>5, NewRunWave DEF jobsRunNow
<1>6. ASSUME NEW r \in Ids, jobsRunsCancel(r) PROVE Waves'
  BY <1>6, NoRunMoves DEF jobsRunsCancel, locals
<1> QED BY <1>1, <1>2, <1>3, <1>4, <1>5, <1>6 DEF Client

(***************************************************************************)
(* The executor keeps the waves.                                           *)
(***************************************************************************)
LEMMA ExecutorWaves ==
    ASSUME IndInv, Waves, NEW r \in Ids, Executor(r) PROVE Waves'
<1>0. TypeOK /\ WaveInv(r) /\ Empty(r) /\ Barrier(r)
  BY DEF IndInv, Waves, WaveInv
<1>1. ASSUME NEW l, Goto(r, l) PROVE pc'[r] = l
  BY <1>0, <1>1, RunTypes DEF Goto
<1>2. CASE StartRun(r)
  <2>1. PICK l \in {"load", "noengine"} : Goto(r, l)
    BY <1>2 DEF StartRun
  <2>2. pc[r] = "start" /\ UNCHANGED <<loaded, remaining, flight, results>> /\ pc'[r] = l
    BY <1>1, <1>2, <2>1 DEF StartRun
  <2>3. Empty(r)' /\ Barrier(r)'
    BY <1>0, <2>2 DEF Empty, Barrier
  <2> QED BY <1>0, <2>1, <2>2, <2>3, OnlyTheExecutorMoves
<1>3. CASE FailWithoutEngine(r)
  <2>1. /\ pc[r] = "noengine" /\ UNCHANGED <<loaded, remaining, flight, results>>
        /\ pc'[r] = "returned" /\ Goto(r, "returned")
    BY <1>1, <1>3 DEF FailWithoutEngine
  <2>2. Empty(r)' /\ Barrier(r)'
    BY <1>0, <2>1 DEF Empty, Barrier
  <2> QED BY <1>0, <2>1, <2>2, OnlyTheExecutorMoves
<1>4. CASE ReadTasks(r)
  <2>1. runs[r].job \in Ids
    BY <1>4 DEF IndInv, RecordFollowsExecutor, InStep, ReadTasks
  <2>2. tasks[runs[r].job] \in Seq(Task)
    BY <1>0, <2>1 DEF TypeOK, StoreType
  <2>3. SeesTasks(r, tasks[runs[r].job])
    BY <1>4 DEF ReadTasks
  <2>4. WaveInv(r)'
    BY <1>0, <2>2, <2>3, SeesTasksWave
  <2>5. \A q \in Ids \ {r} : Idle(q) /\ pc'[q] = pc[q]
    BY <1>0, <2>3, RunTypes DEF SeesTasks, Goto, Idle
  <2> QED BY <2>4, <2>5, OneRunAtATime
<1>5. CASE CheckCancelled(r)
  <2>1. PICK l \in {"returned", "dispatch"} : Goto(r, l)
    BY <1>5 DEF CheckCancelled
  <2>2. /\ flight[r] = {} /\ remaining[r] # {} /\ pc'[r] = l
        /\ UNCHANGED <<loaded, remaining, flight, results>>
    BY <1>1, <1>5, <2>1 DEF CheckCancelled
  <2>3. Empty(r)' /\ Barrier(r)'
    BY <2>2 DEF Empty, Barrier
  <2> QED BY <1>0, <2>1, <2>2, <2>3, OnlyTheExecutorMoves
<1>6. CASE WavesDone(r)
  <2>1. /\ flight[r] = {} /\ remaining[r] = {} /\ pc'[r] = "reread" /\ Goto(r, "reread")
        /\ UNCHANGED <<loaded, remaining, flight, results>>
    BY <1>1, <1>6 DEF WavesDone
  <2>2. Empty(r)' /\ Barrier(r)'
    BY <2>1 DEF Empty, Barrier
  <2> QED BY <1>0, <2>1, <2>2, OnlyTheExecutorMoves
<1>7. CASE Dispatch(r)
  <2>1. WaveInv(r)'
    BY <1>0, <1>7, DispatchWave
  <2>2. \A q \in Ids \ {r} : Idle(q) /\ pc'[q] = pc[q]
    BY <1>0, <1>7, RunTypes DEF Dispatch, Decide, Goto, Idle
  <2> QED BY <2>1, <2>2, OneRunAtATime
<1>8. CASE SkipTheRest(r)
  <2>1. WaveInv(r)'
    BY <1>0, <1>8, SkipWave
  <2>2. \A q \in Ids \ {r} : Idle(q) /\ pc'[q] = pc[q]
    BY <1>0, <1>8, RunTypes DEF SkipTheRest, Goto, Idle
  <2> QED BY <2>1, <2>2, OneRunAtATime
<1>9. CASE Publish(r)
  <2>1. /\ pc[r] = "publish" /\ UNCHANGED <<loaded, remaining, flight, results>>
        /\ pc'[r] = "returned" /\ Goto(r, "returned")
    BY <1>1, <1>9 DEF Publish
  <2>2. Empty(r)' /\ Barrier(r)'
    BY <1>0, <2>1 DEF Empty, Barrier
  <2> QED BY <1>0, <2>1, <2>2, OnlyTheExecutorMoves
<1> QED
  BY <1>2, <1>3, <1>4, <1>5, <1>6, <1>7, <1>8, <1>9 DEF Executor

(***************************************************************************)
(* The task goroutines keep the waves.  The row of a child run is a real   *)
(* one, because a run whose executor has returned has its result.          *)
(***************************************************************************)
LEMMA TaskStepWaves ==
    ASSUME IndInv, Waves, NEW r \in Ids, NEW t \in flight[r], TaskStep(r, t) PROVE Waves'
<1>0. TypeOK
  BY DEF IndInv
<1>1. ASSUME NEW res \in {"SUCCESS", "FAILED", "CANCELED"}
      PROVE  /\ Row(res) \in TaskRun /\ Row(res) # ZeroRow /\ Row(res).result # "SKIPPED"
             /\ \A c \in Nat : /\ ChildRow(res, c) \in TaskRun /\ ChildRow(res, c) # ZeroRow
                               /\ ChildRow(res, c).result # "SKIPPED"
  BY RowType DEF Row, ChildRow, ZeroRow
<1>2. ASSUME NEW res \in {"SUCCESS", "FAILED"}, EngineAnswers(r, t, res) PROVE Waves'
  BY <1>0, <1>1, <1>2, FinishWaves DEF EngineAnswers
<1>3. CASE RunJobRefused(r, t)
  BY <1>0, <1>1, <1>3, FinishWaves DEF RunJobRefused
<1>4. CASE RunJobStarts(r, t)
  BY <1>4, NewRunWave DEF RunJobStarts
<1>5. ASSUME NEW c \in Ids, RunJobEnds(r, t, c) PROVE Waves'
  <2>1. runs[c].result \in {"SUCCESS", "FAILED", "CANCELED"}
    BY <1>0, <1>5 DEF RunJobEnds, IndInv, RecordFollowsExecutor, InStep, TypeOK, RunsType, Run
  <2>2. c \in Nat
    BY IdsInRange
  <2> QED BY <1>0, <1>1, <1>5, <2>1, <2>2, FinishWaves DEF RunJobEnds
<1>6. ASSUME NEW i \in 1..t.inputs, IterationStarts(r, t, i) PROVE Waves'
  BY <1>6, NoRunMoves DEF IterationStarts
<1>7. ASSUME NEW i \in 1..t.inputs, NEW res \in {"SUCCESS", "FAILED"},
             IterationEnds(r, t, i, res)
      PROVE  Waves'
  BY <1>7, NoRunMoves DEF IterationEnds
<1>8. CASE ForEachEnds(r, t)
  BY <1>0, <1>1, <1>8, FinishWaves DEF ForEachEnds
<1> QED
  BY <1>2, <1>3, <1>4, <1>5, <1>6, <1>7, <1>8 DEF TaskStep

(***************************************************************************)
(* The invariant of the waves is inductive, with the one of the records.   *)
(***************************************************************************)
LEMMA WavesInit == Init => Waves
<1> SUFFICES ASSUME Init, NEW r \in Ids PROVE WaveInv(r)
  BY DEF Waves
<1>1. Empty(r) /\ Barrier(r) /\ UniqueKeys(loaded[r]) /\ Decisions(r)
  BY DEF Init, Empty, Barrier, UniqueKeys, Decisions
<1>2. Placed(r)
  BY DEF Init, Placed, Recorded, KeysOf
<1> QED BY <1>1, <1>2 DEF WaveInv

(***************************************************************************)
(* Every step of the runner keeps it.                                      *)
(***************************************************************************)
LEMMA WavesNext == IndInv /\ Waves /\ [Next]_vars => Waves'
<1> SUFFICES ASSUME IndInv, Waves, [Next]_vars PROVE Waves'
  OBVIOUS
<1>1. CASE UNCHANGED vars
  BY <1>1, NoRunMoves DEF vars
<1> QED BY <1>1, ClientWaves, ExecutorWaves, TaskStepWaves DEF Next

(***************************************************************************)
(* No task is lost between two waves and none is dispatched twice.         *)
(***************************************************************************)
THEOREM TasksAreNeverLost == Spec => []EveryTaskInOnePlace
<1>1. ASSUME IndInv, Waves PROVE EveryTaskInOnePlace
  <2> SUFFICES ASSUME NEW r \in Ids
               PROVE  /\ KeysOf(remaining[r]) \cup KeysOf(flight[r])
                            \cup Recorded(results[r]) = KeysOf(loaded[r])
                      /\ KeysOf(remaining[r]) \cap KeysOf(flight[r]) = {}
                      /\ Recorded(results[r]) \cap
                            (KeysOf(remaining[r]) \cup KeysOf(flight[r])) = {}
    BY DEF EveryTaskInOnePlace
  <2>1. Placed(r) /\ UniqueKeys(loaded[r])
    BY <1>1 DEF Waves, WaveInv
  <2> QED BY <2>1 DEF Placed, UniqueKeys, KeysOf
<1> QED BY <1>1, IndInvInit, IndInvNext, WavesInit, WavesNext, PTL DEF Spec

(***************************************************************************)
(* No task runs beside a task it depends on, in any interleaving of the    *)
(* goroutines of a wave.                                                   *)
(***************************************************************************)
THEOREM TasksWaitForTheirDependencies == Spec => []DependenciesEndFirst
<1>1. ASSUME IndInv, Waves PROVE DependenciesEndFirst
  <2> SUFFICES ASSUME NEW r \in Ids, NEW t \in flight[r], NEW d \in t.deps
               PROVE  /\ d.key \in Recorded(results[r])
                      /\ d.key \notin KeysOf(remaining[r] \cup flight[r])
    BY DEF DependenciesEndFirst
  <2>1. Placed(r) /\ UniqueKeys(loaded[r]) /\ Dispatched(r, t)
    BY <1>1 DEF Waves, WaveInv, Placed, Decisions, LeftOver
  <2>2. d.key \in Recorded(results[r])
    BY <2>1 DEF Dispatched
  <2> QED BY <2>1, <2>2 DEF Placed, UniqueKeys, KeysOf
<1> QED BY <1>1, IndInvInit, IndInvNext, WavesInit, WavesNext, PTL DEF Spec

(***************************************************************************)
(* The rows an executor collects are those of the graph: the wave loop of  *)
(* executeRun computes the reference semantics, for every graph, cyclic or *)
(* with dangling edges, and every order in which goroutines end.           *)
(***************************************************************************)
THEOREM WavesAreTheGraph == Spec => []WavesComputeTheGraph
<1>1. ASSUME IndInv, Waves PROVE WavesComputeTheGraph
  <2> SUFFICES ASSUME NEW r \in Ids, pc[r] \in {"reread", "publish"}, NEW t \in loaded[r]
               PROVE  LET runsIt == t \notin Blocked(loaded[r]) /\ shouldRun(t, results[r])
                      IN  /\ results[r][t.key] # ZeroRow
                          /\ (results[r][t.key].result = "SKIPPED") = ~runsIt
                          /\ runsIt /\ t.kind = "condition" =>
                                results[r][t.key] = ConditionRow(evalCondition(t.cond))
    BY DEF WavesComputeTheGraph, VerdictOf
  <2>1. flight[r] = {} /\ remaining[r] = {}
    BY <1>1 DEF Waves, WaveInv, Barrier
  <2>2. results[r][t.key] # ZeroRow
    BY <1>1, <2>1, RowsArePlaced DEF IndInv, Waves, Recorded
  <2>3. CASE Dispatched(r, t)
    BY <2>1, <2>2, <2>3 DEF Dispatched
  <2>4. CASE LeftOver(r, t)
    BY <2>2, <2>4 DEF LeftOver
  <2> QED BY <1>1, <2>1, <2>3, <2>4 DEF Waves, WaveInv, Decisions
<1> QED BY <1>1, IndInvInit, IndInvNext, WavesInit, WavesNext, PTL DEF Spec

-------------------------------------------------------------------------------
(***************************************************************************)
(* The iterations of for_each tasks.                                       *)
(***************************************************************************)

\* Every iteration of t has ended, and its row says whether one failed.
Ended(r, t) ==
    /\ Len(iters[r][t.key]) = t.inputs
    /\ \A i \in 1..t.inputs : iters[r][t.key][i] \in {"SUCCESS", "FAILED"}
    /\ results[r][t.key].result = "FAILED" <=>
          \E i \in 1..t.inputs : iters[r][t.key][i] = "FAILED"

\* One slot of the list per input, and no more running than the semaphore holds.
Within(r, t) ==
    /\ Len(iters[r][t.key]) = t.inputs
    /\ Cardinality(IterAt(r, t, "running")) <= Limit(t)

LoopInv(r) ==
    \A t \in loaded[r] : t.kind = "for_each" =>
        /\ t \in flight[r] => Within(r, t)
        /\ results[r][t.key].result \in {"SUCCESS", "FAILED"} => Ended(r, t)

Loops == \A r \in Ids : LoopInv(r)

(***************************************************************************)
(* The iterations in one state are finitely many.                          *)
(***************************************************************************)
LEMMA IterationsAreFinite ==
    ASSUME TypeOK, NEW r \in Ids, NEW t \in Task, NEW s
    PROVE  /\ IsFiniteSet(IterAt(r, t, s))
           /\ Cardinality(IterAt(r, t, s)) \in Nat
           /\ IterAt(r, t, s) \subseteq 1..Len(iters[r][t.key])
           /\ iters[r][t.key] \in Seq(IterState)
<1>1. t.key \in Keys /\ iters[r][t.key] \in Seq(IterState)
  BY RunTypes, TaskFields
<1>2. IterAt(r, t, s) \in SUBSET (1..Len(iters[r][t.key]))
  BY <1>1 DEF IterAt
<1>3. IsFiniteSet(1..Len(iters[r][t.key]))
  <2>1. 1 \in Int /\ Len(iters[r][t.key]) \in Int
    BY <1>1
  <2> QED BY <2>1, FS_Interval
<1>4. IsFiniteSet(IterAt(r, t, s))
  BY <1>2, <1>3, FS_Subset
<1> QED BY <1>1, <1>2, <1>4, FS_CardinalityType

(***************************************************************************)
(* The semaphore has room for nobody at worst, and never more than the     *)
(* concurrency, or one where none is given.                                *)
(***************************************************************************)
LEMMA LimitBounds ==
    ASSUME NEW t \in Task
    PROVE  /\ Limit(t) \in Nat
           /\ Limit(t) <= IF t.concurrency <= 0 THEN 1 ELSE t.concurrency
<1>1. t.inputs \in Nat /\ t.concurrency \in Int
  BY DEF Task
<1> QED BY <1>1 DEF Limit

(***************************************************************************)
(* A task with the same place, row and iterations keeps what is known.     *)
(***************************************************************************)
LEMMA LoopTaskKeeps ==
    ASSUME NEW r, NEW u, iters'[r][u.key] = iters[r][u.key],
           results'[r][u.key] = results[r][u.key]
    PROVE  /\ Within(r, u) => Within(r, u)'
           /\ Ended(r, u) => Ended(r, u)'
  BY DEF Within, Ended, IterAt

(***************************************************************************)
(* A run whose tasks nobody touches keeps its loops.                       *)
(***************************************************************************)
LEMMA LoopUntouched ==
    ASSUME NEW q \in Ids, LoopInv(q), Idle(q), iters'[q] = iters[q]
    PROVE  LoopInv(q)'
<1> SUFFICES ASSUME NEW t \in loaded[q], t.kind = "for_each"
             PROVE  /\ t \in flight[q] => Within(q, t)'
                    /\ results[q][t.key].result \in {"SUCCESS", "FAILED"} => Ended(q, t)'
  BY DEF LoopInv, Idle
<1> QED BY LoopTaskKeeps DEF LoopInv, Idle

(***************************************************************************)
(* A step moves the iterations of one run only.                            *)
(***************************************************************************)
LEMMA OneLoopAtATime ==
    ASSUME Loops, NEW r \in Ids, LoopInv(r)',
           \A q \in Ids \ {r} : Idle(q) /\ iters'[q] = iters[q]
    PROVE  Loops'
<1> SUFFICES ASSUME NEW q \in Ids PROVE LoopInv(q)'
  BY DEF Loops
<1>1. CASE q = r
  BY <1>1
<1>2. CASE q # r
  BY <1>2, LoopUntouched DEF Loops
<1> QED BY <1>1, <1>2

(***************************************************************************)
(* A step that moves none.                                                 *)
(***************************************************************************)
LEMMA NoLoopMoves ==
    ASSUME Loops, UNCHANGED <<loaded, remaining, flight, results, iters>>
    PROVE  Loops'
<1> SUFFICES ASSUME NEW q \in Ids PROVE LoopInv(q)'
  BY DEF Loops
<1> QED BY LoopUntouched DEF Loops, Idle

(***************************************************************************)
(* Reading the list: a freshly loaded task neither runs nor has a row.     *)
(***************************************************************************)
LEMMA SeesTasksLoops ==
    ASSUME TypeOK, Waves, Loops, NEW r \in Ids, NEW ts \in Seq(Task), SeesTasks(r, ts)
    PROVE  Loops'
<1>1. \A q \in Ids \ {r} : Idle(q) /\ iters'[q] = iters[q]
  BY RunTypes DEF SeesTasks, Idle
<1>2. CASE pc[r] = "load"
  <2>1. flight'[r] = {} /\ results'[r] = [k \in Keys |-> ZeroRow] /\ loaded'[r] = byKey(ts)
    BY <1>2, RunTypes DEF SeesTasks, Waves, WaveInv, Empty
  <2>2. \A t \in byKey(ts) : results'[r][t.key].result = ""
    <3>1. ZeroRow.result = ""
      BY DEF ZeroRow, Row
    <3>2. \A t \in byKey(ts) : t.key \in Keys
      BY ByKeyType, TaskFields
    <3> QED BY <2>1, <3>1, <3>2
  <2>3. LoopInv(r)'
    BY <2>1, <2>2 DEF LoopInv
  <2> QED BY <1>1, <2>3, OneLoopAtATime
<1>3. CASE pc[r] = "reread"
  BY <1>3, NoLoopMoves DEF SeesTasks
<1> QED BY <1>2, <1>3 DEF SeesTasks

(***************************************************************************)
(* A dispatched for_each task has one waiting iteration per input; the     *)
(* iterations of the others do not change.                                 *)
(***************************************************************************)
LEMMA DispatchLoops ==
    ASSUME TypeOK, Waves, Loops, NEW r \in Ids, Dispatch(r) PROVE Loops'
<1>1. \A q \in Ids \ {r} : Idle(q) /\ iters'[q] = iters[q]
  BY RunTypes DEF Dispatch, Decide, Idle
<1>2. LoopInv(r)'
  <2> SUFFICES ASSUME NEW t \in loaded[r], t.kind = "for_each"
               PROVE  /\ t \in Spawned(r) => Within(r, t)'
                      /\ results'[r][t.key].result \in {"SUCCESS", "FAILED"} => Ended(r, t)'
    BY RunTypes DEF LoopInv, Dispatch
  <2>1. t \in Task /\ t.key \in Keys /\ t.inputs \in Nat
    BY RunTypes, TaskFields
  <2>2. UniqueKeys(loaded[r]) /\ Ready(r) \subseteq loaded[r] /\ Spawned(r) \subseteq Ready(r)
    BY DEF Waves, WaveInv, Placed, Ready, Spawned
  <2>3. iters'[r][t.key] = Inputs(r, t.key)
    BY <2>1, RunTypes DEF Dispatch
  <2>4. ASSUME t \in Spawned(r) PROVE Within(r, t)'
    <3>1. { u \in Spawned(r) : u.key = t.key /\ u.kind = "for_each" } = {t}
      BY <2>2, <2>4 DEF UniqueKeys
    <3>2. iters'[r][t.key] = [i \in 1..t.inputs |-> "waiting"]
      BY <2>3, <3>1 DEF Inputs
    <3>3. Len(iters'[r][t.key]) = t.inputs
      BY <2>1, <3>2
    <3>4. IterAt(r, t, "running")' = {}
      BY <3>2 DEF IterAt
    <3>5. 0 <= Limit(t)
      BY <2>1, LimitBounds
    <3> QED BY <3>3, <3>4, <3>5, FS_EmptySet DEF Within
  <2>5. ASSUME results'[r][t.key].result \in {"SUCCESS", "FAILED"} PROVE Ended(r, t)'
    <3>1. t \notin Ready(r)
      <4>1. SUFFICES ASSUME t \in Ready(r) PROVE FALSE
        OBVIOUS
      <4>2. results'[r][t.key] = Decided(t, results[r])
        BY <4>1, DispatchRows DEF Waves
      <4>3. Decided(t, results[r]) = Row("SKIPPED") \/ Decided(t, results[r]) = ZeroRow
        BY DEF Decided
      <4>4. Row("SKIPPED").result = "SKIPPED" /\ ZeroRow.result = ""
        BY DEF Row, ZeroRow
      <4> QED BY <2>5, <4>2, <4>3, <4>4
    <3>2. results'[r][t.key] = results[r][t.key]
      <4>1. t.key \notin KeysOf(Ready(r))
        BY <2>2, <3>1 DEF KeysOf, UniqueKeys
      <4> QED BY <2>1, <4>1, DispatchRows DEF Waves
    <3>3. { u \in Spawned(r) : u.key = t.key /\ u.kind = "for_each" } = {}
      BY <2>2, <3>1 DEF UniqueKeys
    <3>4. iters'[r][t.key] = iters[r][t.key]
      BY <2>3, <3>3 DEF Inputs
    <3> QED BY <2>5, <3>2, <3>4, LoopTaskKeeps DEF Loops, LoopInv
  <2> QED BY <2>4, <2>5
<1> QED BY <1>1, <1>2, OneLoopAtATime

(***************************************************************************)
(* Skipping what is left touches no loop.                                  *)
(***************************************************************************)
LEMMA SkipLoops ==
    ASSUME TypeOK, Waves, Loops, NEW r \in Ids, SkipTheRest(r) PROVE Loops'
<1>1. \A q \in Ids \ {r} : Idle(q) /\ iters'[q] = iters[q]
  BY RunTypes DEF SkipTheRest, Idle
<1>2. LoopInv(r)'
  <2>1. flight[r] = {} /\ flight' = flight /\ loaded' = loaded /\ iters' = iters
    BY DEF Waves, WaveInv, Barrier, SkipTheRest
  <2> SUFFICES ASSUME NEW t \in loaded[r], t.kind = "for_each",
                      results'[r][t.key].result \in {"SUCCESS", "FAILED"}
               PROVE  Ended(r, t)'
    BY <2>1 DEF LoopInv
  <2>2. t.key \in Keys
    BY RunTypes, TaskFields
  <2>3. results'[r][t.key] = results[r][t.key]
    BY <2>2, RunTypes DEF SkipTheRest, Row
  <2> QED BY <2>1, <2>3, LoopTaskKeeps DEF Loops, LoopInv
<1> QED BY <1>1, <1>2, OneLoopAtATime

(***************************************************************************)
(* A goroutine's row: right for a for_each task if its iterations say so,  *)
(* and nothing to the others.                                              *)
(***************************************************************************)
LEMMA FinishLoops ==
    ASSUME TypeOK, Waves, Loops, NEW r \in Ids, NEW t \in flight[r], NEW row \in TaskRun,
           FinishTask(r, t, row), t.kind = "for_each" => Ended(r, t)'
    PROVE  Loops'
<1>1. \A q \in Ids \ {r} : Idle(q) /\ iters'[q] = iters[q]
  BY RunTypes DEF FinishTask, Idle
<1>2. t \in loaded[r] /\ UniqueKeys(loaded[r]) /\ t.key \in Keys
  BY RunTypes, TaskFields DEF Waves, WaveInv, Placed
<1>3. /\ loaded' = loaded /\ iters' = iters /\ flight'[r] = flight[r] \ {t}
      /\ \A k \in Keys \ {t.key} : results'[r][k] = results[r][k]
  BY <1>2, RunTypes DEF FinishTask
<1>4. LoopInv(r)'
  <2> SUFFICES ASSUME NEW u \in loaded[r], u.kind = "for_each"
               PROVE  /\ u \in flight'[r] => Within(r, u)'
                      /\ results'[r][u.key].result \in {"SUCCESS", "FAILED"} => Ended(r, u)'
    BY <1>3 DEF LoopInv
  <2>1. CASE u = t
    BY <1>3, <2>1
  <2>2. CASE u # t
    <3>1. u.key \in Keys \ {t.key}
      BY <1>2, <2>2, RunTypes, TaskFields DEF UniqueKeys
    <3> QED BY <1>3, <3>1, LoopTaskKeeps DEF Loops, LoopInv
  <2> QED BY <2>1, <2>2
<1> QED BY <1>1, <1>4, OneLoopAtATime

(***************************************************************************)
(* One iteration of a for_each task moves: the list keeps its length, and  *)
(* the other tasks theirs.                                                 *)
(***************************************************************************)
LEMMA IterationLoops ==
    ASSUME TypeOK, Waves, Loops, NEW r \in Ids, NEW t \in flight[r], t.kind = "for_each",
           NEW i, NEW s, NEW s2, i \in IterAt(r, t, s),
           iters' = [iters EXCEPT ![r][t.key][i] = s2],
           UNCHANGED <<pc, list, loaded, remaining, results, flight>>,
           Cardinality(IterAt(r, t, "running")') <= Limit(t)
    PROVE  Loops'
<1>1. t \in loaded[r] /\ UniqueKeys(loaded[r]) /\ t \in Task /\ t.key \in Keys
  BY RunTypes, TaskFields DEF Waves, WaveInv, Placed
<1> DEFINE e == [iters[r][t.key] EXCEPT ![i] = s2]
           f == [iters[r] EXCEPT ![t.key] = e]
<1>2. iters' = [iters EXCEPT ![r] = f]
  OBVIOUS
<1>3. DOMAIN e = DOMAIN iters[r][t.key] /\ iters[r][t.key] \in Seq(IterState)
  BY <1>1, IterationsAreFinite
<1> HIDE DEF e
<1>4. /\ iters'[r][t.key] = e /\ \A k \in Keys \ {t.key} : iters'[r][k] = iters[r][k]
      /\ \A q \in Ids \ {r} : iters'[q] = iters[q]
  BY <1>1, <1>2, RunTypes
<1>5. \A q \in Ids \ {r} : Idle(q) /\ iters'[q] = iters[q]
  BY <1>4 DEF Idle
<1>6. LoopInv(r)'
  <2> SUFFICES ASSUME NEW u \in loaded[r], u.kind = "for_each"
               PROVE  /\ u \in flight[r] => Within(r, u)'
                      /\ results[r][u.key].result \in {"SUCCESS", "FAILED"} => Ended(r, u)'
    BY DEF LoopInv
  <2>1. CASE u = t
    <3>1. Len(iters'[r][t.key]) = t.inputs
      <4>1. Len(iters[r][t.key]) = t.inputs
        BY <1>1 DEF Loops, LoopInv, Within
      <4>2. e \in Seq(IterState \cup {s2})
        BY <1>1, <1>3, ExceptSeq DEF e, IterAt
      <4>3. Len(e) = Len(iters[r][t.key])
        BY <1>3, <4>2
      <4> QED BY <1>4, <4>1, <4>3
    <3>2. results[r][t.key] = ZeroRow
      BY <1>1, RowsArePlaced DEF Waves, Recorded
    <3>3. ZeroRow.result = ""
      BY DEF ZeroRow, Row
    <3> QED BY <2>1, <3>1, <3>2, <3>3 DEF Within
  <2>2. CASE u # t
    <3>1. u.key \in Keys \ {t.key}
      BY <1>1, <2>2, RunTypes, TaskFields DEF UniqueKeys
    <3> QED BY <1>4, <3>1, LoopTaskKeeps DEF Loops, LoopInv
  <2> QED BY <2>1, <2>2
<1> QED BY <1>5, <1>6, OneLoopAtATime

(***************************************************************************)
(* The iterations that run after one of them has moved.                    *)
(***************************************************************************)
LEMMA RunningAfter ==
    ASSUME TypeOK, NEW r \in Ids, NEW t \in Task, NEW i, NEW s, NEW s2,
           i \in IterAt(r, t, s), iters' = [iters EXCEPT ![r][t.key][i] = s2]
    PROVE  IterAt(r, t, "running")' =
              IF s2 = "running" THEN IterAt(r, t, "running") \cup {i}
              ELSE IterAt(r, t, "running") \ {i}
<1>1. t.key \in Keys /\ iters[r][t.key] \in Seq(IterState)
  BY TaskFields, IterationsAreFinite
<1> DEFINE e == [iters[r][t.key] EXCEPT ![i] = s2]
           f == [iters[r] EXCEPT ![t.key] = e]
<1>2. iters' = [iters EXCEPT ![r] = f]
  OBVIOUS
<1>3. /\ DOMAIN e = DOMAIN iters[r][t.key] /\ e[i] = s2 /\ i \in DOMAIN e
      /\ \A n \in DOMAIN e \ {i} : e[n] = iters[r][t.key][n]
  BY <1>1 DEF IterAt
<1> HIDE DEF e
<1>4. iters'[r][t.key] = e
  BY <1>1, <1>2, RunTypes
<1> QED BY <1>3, <1>4 DEF IterAt

(***************************************************************************)
(* One element more or less.                                               *)
(***************************************************************************)
LEMMA OneMoreOrLess ==
    ASSUME NEW S, IsFiniteSet(S), NEW i, NEW n \in Nat
    PROVE  /\ Cardinality(S) < n => Cardinality(S \cup {i}) <= n
           /\ Cardinality(S) <= n => Cardinality(S \ {i}) <= n
<1>1. Cardinality(S) \in Nat
  BY FS_CardinalityType
<1>2. \/ Cardinality(S \cup {i}) = Cardinality(S)
      \/ Cardinality(S \cup {i}) = Cardinality(S) + 1
  BY FS_AddElement
<1>3. S \ {i} \in SUBSET S
  OBVIOUS
<1>4. IsFiniteSet(S \ {i}) /\ Cardinality(S \ {i}) <= Cardinality(S)
  BY <1>3, FS_Subset
<1>5. Cardinality(S \ {i}) \in Nat
  BY <1>4, FS_CardinalityType
<1> QED BY <1>1, <1>2, <1>4, <1>5

(***************************************************************************)
(* The goroutines keep the loops: an iteration starts when the semaphore   *)
(* has room, and a for_each row is written when all have ended.            *)
(***************************************************************************)
LEMMA TaskStepLoops ==
    ASSUME IndInv, Waves, Loops, NEW r \in Ids, NEW t \in flight[r], TaskStep(r, t)
    PROVE  Loops'
<1>0. TypeOK /\ t \in Task /\ t \in loaded[r] /\ t.key \in Keys /\ t.inputs \in Nat
  BY RunTypes, TaskFields DEF IndInv, Waves, WaveInv, Placed
<1>1. t.kind = "for_each" => Within(r, t)
  BY <1>0 DEF Loops, LoopInv
<1>2. ASSUME NEW res \in {"SUCCESS", "FAILED"}, EngineAnswers(r, t, res) PROVE Loops'
  <2>1. t.kind # "for_each" /\ FinishTask(r, t, Row(res)) /\ Row(res) \in TaskRun
    BY <1>2, RowType DEF EngineAnswers
  <2> QED BY <1>0, <2>1, FinishLoops
<1>3. CASE RunJobRefused(r, t)
  <2>1. t.kind # "for_each" /\ FinishTask(r, t, Row("FAILED")) /\ Row("FAILED") \in TaskRun
    BY <1>3, RowType DEF RunJobRefused
  <2> QED BY <1>0, <2>1, FinishLoops
<1>4. CASE RunJobStarts(r, t)
  BY <1>4, NoLoopMoves DEF RunJobStarts, NewRun
<1>5. ASSUME NEW c \in Ids, RunJobEnds(r, t, c) PROVE Loops'
  <2>1. t.kind # "for_each" /\ FinishTask(r, t, ChildRow(runs[c].result, c))
    BY <1>5 DEF RunJobEnds
  <2>2. ChildRow(runs[c].result, c) \in TaskRun
    BY <1>0, RowType, IdsInRange DEF TypeOK, RunsType, Run
  <2> QED BY <1>0, <2>1, <2>2, FinishLoops
<1>6. ASSUME NEW i \in 1..t.inputs, IterationStarts(r, t, i) PROVE Loops'
  <2>1. /\ t.kind = "for_each" /\ i \in IterAt(r, t, "waiting")
        /\ iters' = [iters EXCEPT ![r][t.key][i] = "running"]
        /\ UNCHANGED <<pc, list, loaded, remaining, results, flight>>
        /\ Cardinality(IterAt(r, t, "running")) < Limit(t)
    BY <1>6 DEF IterationStarts
  <2>2. IterAt(r, t, "running")' = IterAt(r, t, "running") \cup {i}
    BY <1>0, <2>1, RunningAfter
  <2>3. IsFiniteSet(IterAt(r, t, "running")) /\ Limit(t) \in Nat
    BY <1>0, IterationsAreFinite, LimitBounds
  <2>4. Cardinality(IterAt(r, t, "running") \cup {i}) <= Limit(t)
    BY <2>1, <2>3, OneMoreOrLess
  <2>5. Cardinality(IterAt(r, t, "running")') <= Limit(t)
    BY <2>2, <2>4
  <2> QED BY <1>0, <2>1, <2>5, IterationLoops
<1>7. ASSUME NEW i \in 1..t.inputs, NEW res \in {"SUCCESS", "FAILED"},
             IterationEnds(r, t, i, res)
      PROVE  Loops'
  <2>1. /\ t.kind = "for_each" /\ i \in IterAt(r, t, "running")
        /\ iters' = [iters EXCEPT ![r][t.key][i] = res]
        /\ UNCHANGED <<pc, list, loaded, remaining, results, flight>>
    BY <1>7 DEF IterationEnds
  <2>2. IterAt(r, t, "running")' = IterAt(r, t, "running") \ {i}
    BY <1>0, <2>1, RunningAfter
  <2>3. IsFiniteSet(IterAt(r, t, "running")) /\ Limit(t) \in Nat
    BY <1>0, IterationsAreFinite, LimitBounds
  <2>4. Cardinality(IterAt(r, t, "running") \ {i}) <= Limit(t)
    BY <1>1, <2>1, <2>3, OneMoreOrLess DEF Within
  <2>5. Cardinality(IterAt(r, t, "running")') <= Limit(t)
    BY <2>2, <2>4
  <2> QED BY <1>0, <2>1, <2>5, IterationLoops
<1>8. CASE ForEachEnds(r, t)
  <2> DEFINE res == IF IterAt(r, t, "FAILED") = {} THEN "SUCCESS" ELSE "FAILED"
  <2>1. /\ t.kind = "for_each" /\ FinishTask(r, t, Row(res)) /\ Row(res) \in TaskRun
        /\ IterAt(r, t, "waiting") = {} /\ IterAt(r, t, "running") = {}
    BY <1>8, RowType DEF ForEachEnds
  <2>2. iters' = iters /\ results'[r][t.key] = Row(res) /\ Row(res).result = res
    BY <1>0, <2>1, RunTypes DEF FinishTask, Row
  <2>3. iters[r][t.key] \in Seq(IterState) /\ Len(iters[r][t.key]) = t.inputs
    BY <1>0, <1>1, <2>1, IterationsAreFinite DEF Within
  <2>4. /\ DOMAIN iters[r][t.key] = 1..t.inputs
        /\ \A i \in 1..t.inputs : iters[r][t.key][i] \in IterState
    BY <2>3
  <2>5. \A i \in 1..t.inputs : iters[r][t.key][i] \in {"SUCCESS", "FAILED"}
    BY <2>1, <2>4 DEF IterAt, IterState
  <2>6. res = "FAILED" <=> \E i \in 1..t.inputs : iters[r][t.key][i] = "FAILED"
    BY <2>4 DEF IterAt
  <2> HIDE DEF res
  <2>7. Ended(r, t)'
    BY <2>2, <2>3, <2>5, <2>6 DEF Ended
  <2> QED BY <1>0, <2>1, <2>7, FinishLoops
<1> QED
  BY <1>2, <1>3, <1>4, <1>5, <1>6, <1>7, <1>8 DEF TaskStep

(***************************************************************************)
(* The invariant of the loops is inductive, with the ones before it.       *)
(***************************************************************************)
LEMMA LoopsNext == IndInv /\ Waves /\ Loops /\ [Next]_vars => Loops'
<1> SUFFICES ASSUME IndInv, Waves, Loops, [Next]_vars PROVE Loops'
  OBVIOUS
<1>0. TypeOK
  BY DEF IndInv
<1>1. CASE Client
  <2>1. ASSUME NEW j \in jobs, NEW ts \in ResetLists, NEW r \in Ids,
               ResetDuringRead(j, ts, r)
        PROVE  Loops'
    <3>1. ts \in Seq(Task) /\ tasks[j] \in Seq(Task)
      BY <1>0, ListsAreTasks DEF TypeOK, StoreType
    <3>2. PICK seen \in TornReads(tasks[j], ts) : SeesTasks(r, seen)
      BY <2>1 DEF ResetDuringRead
    <3> QED BY <1>0, <3>1, <3>2, TornReadsType, SeesTasksLoops
  <2>2. CASE UNCHANGED <<loaded, remaining, flight, results, iters>>
    BY <2>2, NoLoopMoves
  <2> QED BY <1>1, <2>1, <2>2 DEF Client, jobsCreate, jobsReset, jobsDelete, jobsRunNow,
                                  jobsRunsCancel, NewRun, locals
<1>2. ASSUME NEW r \in Ids, Executor(r) PROVE Loops'
  <2>1. CASE ReadTasks(r)
    <3>1. runs[r].job \in Ids
      BY <2>1 DEF IndInv, RecordFollowsExecutor, InStep, ReadTasks
    <3>2. tasks[runs[r].job] \in Seq(Task) /\ SeesTasks(r, tasks[runs[r].job])
      BY <1>0, <2>1, <3>1 DEF TypeOK, StoreType, ReadTasks
    <3> QED BY <1>0, <3>2, SeesTasksLoops
  <2>2. CASE Dispatch(r)
    BY <1>0, <2>2, DispatchLoops
  <2>3. CASE SkipTheRest(r)
    BY <1>0, <2>3, SkipLoops
  <2>4. CASE UNCHANGED <<loaded, remaining, flight, results, iters>>
    BY <2>4, NoLoopMoves
  <2> QED BY <1>2, <2>1, <2>2, <2>3, <2>4
          DEF Executor, StartRun, FailWithoutEngine, CheckCancelled, WavesDone, Publish
<1>3. ASSUME NEW r \in Ids, NEW t \in flight[r], TaskStep(r, t) PROVE Loops'
  BY <1>3, TaskStepLoops
<1>4. CASE UNCHANGED vars
  BY <1>4, NoLoopMoves DEF vars
<1> QED BY <1>1, <1>2, <1>3, <1>4 DEF Next

(***************************************************************************)
(* runForEachTask never runs more iterations at once than its concurrency, *)
(* loses none of them and fails exactly when one of them did.              *)
(***************************************************************************)
THEOREM ForEachCountsWithinItsLimit == Spec => []ForEachIsBoundedAndCounted
<1>1. Init => Loops
  BY DEF Init, Loops, LoopInv
<1>2. ASSUME IndInv, Waves, Loops PROVE ForEachIsBoundedAndCounted
  <2>1. ForEachWithinItsConcurrency
    <3> SUFFICES ASSUME NEW r \in Ids, NEW t \in flight[r], t.kind = "for_each"
                 PROVE  Cardinality(IterAt(r, t, "running")) <=
                           IF t.concurrency <= 0 THEN 1 ELSE t.concurrency
      BY DEF ForEachWithinItsConcurrency
    <3>1. t \in loaded[r] /\ t \in Task
      BY <1>2, RunTypes DEF IndInv, Waves, WaveInv, Placed
    <3>2. Cardinality(IterAt(r, t, "running")) <= Limit(t)
      BY <1>2, <3>1 DEF Loops, LoopInv, Within
    <3>3. Cardinality(IterAt(r, t, "running")) \in Nat /\ t.concurrency \in Int
      BY <1>2, <3>1, IterationsAreFinite DEF IndInv, Task
    <3> QED BY <3>1, <3>2, <3>3, LimitBounds
  <2>2. ForEachCountsEveryInput
    BY <1>2 DEF ForEachCountsEveryInput, Loops, LoopInv, Ended
  <2> QED BY <2>1, <2>2 DEF ForEachIsBoundedAndCounted
<1> QED BY <1>1, <1>2, IndInvInit, IndInvNext, WavesInit, WavesNext, LoopsNext, PTL DEF Spec

-------------------------------------------------------------------------------
(***************************************************************************)
(* The child runs of run_job tasks.                                        *)
(***************************************************************************)

(***************************************************************************)
(* Of a run started for a task one knows that the task was dispatched, and *)
(* that it still waits or has reported the run's result.                   *)
(***************************************************************************)
WaitsOrReports(p, t, c) ==
    \/ t \in flight[p]
    \/ pc[c] = "returned" /\ results[p][t.key] = ChildRow(runs[c].result, c)

Claimed(c) ==
    /\ c > nextID => caller[c] = Handler
    /\ caller[c] # Handler =>
          /\ caller[c].run \in Ids
          /\ \E t \in loaded[caller[c].run] \ remaining[caller[c].run] :
                /\ t.key = caller[c].key /\ t.kind = "run_job"
                /\ WaitsOrReports(caller[c].run, t, c)

\* A task has one child run.
OneCaller == \A c, e \in Ids : caller[c] = caller[e] /\ caller[c] # Handler => c = e

ChildInv == OneCaller /\ \A c \in Ids : Claimed(c)

(***************************************************************************)
(* A run whose executor has returned is over: neither moves again.         *)
(***************************************************************************)
LEMMA ReturnedIsFinal ==
    ASSUME IndInv, [Next]_vars, NEW c \in Ids, pc[c] = "returned"
    PROVE  pc'[c] = "returned" /\ runs'[c] = runs[c]
<1>0. /\ pc \in [Ids -> Locations] /\ runs \in [Ids -> Run] /\ nextID \in 0..MaxID
      /\ runs[c].life = "TERMINATED" /\ InStep(c)
  BY DEF IndInv, TypeOK, ControlType, RunsType, StoreType, RecordFollowsExecutor, InStep
<1>1. runs'[c] = runs[c]
  <2>1. CASE runs' = runs
    BY <2>1
  <2>2. ASSUME NEW r \in Ids, RecordStep(r) PROVE runs'[c] = runs[c]
    BY <1>0, <2>2 DEF RecordStep, Changes
  <2> QED BY <2>1, <2>2, StepOfRecords
<1> SUFFICES pc'[c] = "returned"
  BY <1>1
<1>2. ASSUME NEW j, NEW d, NEW parent, NewRun(j, d, parent) PROVE pc'[c] = "returned"
  <2>1. c # nextID + 1
    <3>1. SUFFICES ASSUME c = nextID + 1 PROVE FALSE
      OBVIOUS
    <3>2. c > nextID
      BY <1>0, <3>1, Bounds
    <3> QED BY <1>0, <3>2 DEF InStep
  <2> QED BY <1>0, <1>2, <2>1 DEF NewRun
<1>3. CASE Client
  <2>1. ASSUME NEW j \in jobs, jobsRunNow(j) PROVE pc'[c] = "returned"
    BY <1>2, <2>1 DEF jobsRunNow
  <2>2. ASSUME NEW j \in jobs, NEW ts \in ResetLists, NEW r \in Ids, ResetDuringRead(j, ts, r)
        PROVE  pc'[c] = "returned"
    BY <1>0, <2>2 DEF ResetDuringRead, SeesTasks, Goto
  <2>3. CASE pc' = pc
    BY <2>3
  <2> QED BY <1>3, <2>1, <2>2, <2>3
          DEF Client, jobsCreate, jobsReset, jobsDelete, jobsRunsCancel, locals
<1>4. ASSUME NEW r \in Ids, Executor(r) PROVE pc'[c] = "returned"
  <2>1. r # c /\ \E l : Goto(r, l)
    BY <1>4 DEF Executor, StartRun, FailWithoutEngine, ReadTasks, SeesTasks, CheckCancelled,
                WavesDone, Dispatch, SkipTheRest, Publish
  <2> QED BY <1>0, <2>1 DEF Goto
<1>5. ASSUME NEW r \in Ids, NEW t \in flight[r], TaskStep(r, t) PROVE pc'[c] = "returned"
  <2>1. CASE RunJobStarts(r, t)
    BY <1>2, <2>1 DEF RunJobStarts
  <2>2. CASE ~RunJobStarts(r, t)
    <3>1. pc' = pc
      BY <1>5, <2>2 DEF TaskStep, EngineAnswers, RunJobRefused, RunJobEnds, IterationStarts,
                        IterationEnds, ForEachEnds, FinishTask
    <3> QED BY <3>1
  <2> QED BY <2>1, <2>2
<1>6. CASE UNCHANGED vars
  BY <1>6 DEF vars
<1> QED BY <1>3, <1>4, <1>5, <1>6 DEF Next

\* A dispatched task of p stays where it is, with the row it has.
TaskStays(p, t) ==
    /\ t \in loaded'[p] \ remaining'[p]
    /\ t \in flight'[p] <=> t \in flight[p]
    /\ t \notin flight[p] => results'[p][t.key] = results[p][t.key]

(***************************************************************************)
(* A dispatched task stays where it is until its own goroutine ends.       *)
(***************************************************************************)
LEMMA DispatchedTasksStay ==
    ASSUME IndInv, Waves, [Next]_vars, NEW p \in Ids, NEW t \in loaded[p] \ remaining[p]
    PROVE  \/ TaskStays(p, t)
           \/ /\ t \in flight[p] /\ TaskStep(p, t)
              /\ \E row \in TaskRun : FinishTask(p, t, row)
<1>0. /\ TypeOK /\ WaveInv(p) /\ t.key \in Keys
      /\ pc[p] \notin {"none", "start", "noengine", "load"}
  BY RunTypes, TaskFields DEF IndInv, Waves, WaveInv, Empty
<1>1. ASSUME UNCHANGED <<loaded, remaining, flight, results>> PROVE TaskStays(p, t)
  BY <1>1 DEF TaskStays
<1>2. ASSUME NEW r \in Ids, NEW ts, SeesTasks(r, ts) PROVE TaskStays(p, t)
  BY <1>0, <1>2, RunTypes DEF SeesTasks, TaskStays
<1>3. CASE Client
  <2>1. ASSUME NEW j \in jobs, NEW ts \in ResetLists, NEW r \in Ids, ResetDuringRead(j, ts, r)
        PROVE  TaskStays(p, t)
    BY <1>2, <2>1 DEF ResetDuringRead
  <2>2. CASE UNCHANGED <<loaded, remaining, flight, results>>
    BY <1>1, <2>2
  <2> QED BY <1>3, <2>1, <2>2
          DEF Client, jobsCreate, jobsReset, jobsDelete, jobsRunNow, jobsRunsCancel, NewRun, locals
<1>4. ASSUME NEW r \in Ids, Executor(r) PROVE TaskStays(p, t)
  <2>1. CASE ReadTasks(r)
    BY <1>2, <2>1 DEF ReadTasks
  <2>2. CASE Dispatch(r)
    <3>1. CASE r = p
      <4>1. /\ loaded' = loaded /\ remaining'[p] = remaining[p] \ Ready(p)
            /\ flight'[p] = Spawned(p) /\ flight[p] = {}
        BY <1>0, <2>2, <3>1, RunTypes DEF Dispatch, WaveInv, Barrier
      <4>2. t \notin Ready(p) /\ t \notin Spawned(p)
        BY DEF Spawned, Ready
      <4>3. t.key \notin KeysOf(Ready(p))
        BY <1>0, <4>2 DEF KeysOf, Ready, WaveInv, UniqueKeys, Placed
      <4>4. results'[p][t.key] = results[p][t.key]
        BY <1>0, <2>2, <3>1, <4>3, DispatchRows
      <4> QED BY <4>1, <4>2, <4>4 DEF TaskStays
    <3>2. CASE r # p
      BY <1>0, <2>2, <3>2, RunTypes DEF Dispatch, Decide, TaskStays
    <3> QED BY <3>1, <3>2
  <2>3. CASE SkipTheRest(r)
    <3>1. CASE r = p
      <4>1. loaded' = loaded /\ remaining'[p] = {} /\ flight' = flight
        BY <1>0, <2>3, <3>1, RunTypes DEF SkipTheRest
      <4>2. ~\E u \in remaining[p] : u.key = t.key
        BY <1>0 DEF WaveInv, UniqueKeys, Placed
      <4>3. results'[p][t.key] = results[p][t.key]
        BY <1>0, <2>3, <3>1, <4>2, RunTypes DEF SkipTheRest
      <4> QED BY <4>1, <4>3 DEF TaskStays
    <3>2. CASE r # p
      BY <1>0, <2>3, <3>2, RunTypes DEF SkipTheRest, TaskStays
    <3> QED BY <3>1, <3>2
  <2>4. CASE UNCHANGED <<loaded, remaining, flight, results>>
    BY <1>1, <2>4
  <2> QED BY <1>4, <2>1, <2>2, <2>3, <2>4
          DEF Executor, StartRun, FailWithoutEngine, CheckCancelled, WavesDone, Publish
<1>5. ASSUME NEW r \in Ids, NEW u \in flight[r], TaskStep(r, u)
      PROVE  TaskStays(p, t) \/ (r = p /\ u = t /\ \E row \in TaskRun : FinishTask(p, t, row))
  <2>1. ASSUME NEW row, FinishTask(r, u, row), r # p \/ u # t PROVE TaskStays(p, t)
    <3>1. CASE r # p
      BY <1>0, <2>1, <3>1, RunTypes DEF FinishTask, TaskStays
    <3>2. CASE r = p /\ u # t
      <4>1. u.key \in Keys /\ u.key # t.key
        BY <1>0, <3>2, RunTypes, TaskFields DEF WaveInv, UniqueKeys, Placed
      <4> QED BY <1>0, <2>1, <3>2, <4>1, RunTypes DEF FinishTask, TaskStays
    <3> QED BY <2>1, <3>1, <3>2
  <2>2. CASE \E row \in TaskRun : FinishTask(r, u, row)
    BY <2>1, <2>2
  <2>3. CASE UNCHANGED <<loaded, remaining, flight, results>>
    BY <1>1, <2>3
  <2>4. \/ \E row \in TaskRun : FinishTask(r, u, row)
        \/ UNCHANGED <<loaded, remaining, flight, results>>
    <3>1. \A res \in {"SUCCESS", "FAILED"} : Row(res) \in TaskRun
      BY RowType
    <3>2. \A c \in Ids : ChildRow(runs[c].result, c) \in TaskRun
      BY <1>0, RowType, IdsInRange DEF TypeOK, RunsType, Run
    <3> QED BY <1>5, <3>1, <3>2
            DEF TaskStep, EngineAnswers, RunJobRefused, RunJobStarts, NewRun, RunJobEnds,
                IterationStarts, IterationEnds, ForEachEnds
  <2> QED BY <2>2, <2>3, <2>4
<1>6. CASE UNCHANGED vars
  BY <1>1, <1>6 DEF vars
<1> QED BY <1>3, <1>4, <1>5, <1>6 DEF Next

(***************************************************************************)
(* What is known of a child run stays true, as long as it keeps its caller.*)
(***************************************************************************)
LEMMA ClaimedKeeps ==
    ASSUME IndInv, Waves, ChildInv, [Next]_vars, NEW c \in Ids, caller'[c] = caller[c],
           c > nextID' => c > nextID
    PROVE  Claimed(c)'
<1>0. Claimed(c)
  BY DEF ChildInv
<1> SUFFICES ASSUME caller[c] # Handler
             PROVE  \E t \in loaded'[caller[c].run] \ remaining'[caller[c].run] :
                       /\ t.key = caller[c].key /\ t.kind = "run_job"
                       /\ WaitsOrReports(caller[c].run, t, c)'
  BY <1>0 DEF Claimed
<1> DEFINE p == caller[c].run
<1>1. p \in Ids
  BY <1>0 DEF Claimed
<1>2. PICK t \in loaded[p] \ remaining[p] :
         t.key = caller[c].key /\ t.kind = "run_job" /\ WaitsOrReports(p, t, c)
  BY <1>0 DEF Claimed
<1>3. Child(p, t, c)
  <2>1. caller[c] = [run |-> caller[c].run, key |-> caller[c].key]
    BY DEF IndInv, TypeOK, ControlType
  <2> QED BY <1>2, <2>1 DEF Child
<1>4. ASSUME NEW q \in Ids, q = p PROVE t \in loaded'[q] \ remaining'[q] /\ WaitsOrReports(q, t, c)'
  <2>1. CASE TaskStays(q, t)
    <3>1. CASE t \in flight[q]
      BY <2>1, <3>1 DEF TaskStays, WaitsOrReports
    <3>2. CASE t \notin flight[q]
      <4>1. pc[c] = "returned" /\ results[q][t.key] = ChildRow(runs[c].result, c)
        BY <1>2, <1>4, <3>2 DEF WaitsOrReports
      <4>2. pc'[c] = "returned" /\ runs'[c] = runs[c]
        BY <4>1, ReturnedIsFinal
      <4> QED BY <2>1, <3>2, <4>1, <4>2 DEF TaskStays, WaitsOrReports
    <3> QED BY <3>1, <3>2
  <2>2. ASSUME t \in flight[q], TaskStep(q, t), NEW row \in TaskRun, FinishTask(q, t, row)
        PROVE  t \in loaded'[q] \ remaining'[q] /\ WaitsOrReports(q, t, c)'
    <3>1. t \in loaded'[q] \ remaining'[q] /\ t \notin flight'[q] /\ t.key \in Keys
      BY <1>2, <1>4, <2>2, RunTypes, TaskFields DEF FinishTask, IndInv
    <3>2. Called(q, t)
      BY <1>3, <1>4 DEF Called
    <3>3. PICK e \in Ids : RunJobEnds(q, t, e)
      <4>1. ~RunJobRefused(q, t) /\ ~RunJobStarts(q, t)
        BY <3>2 DEF RunJobRefused, RunJobStarts
      <4> QED BY <1>2, <2>2, <4>1
              DEF TaskStep, EngineAnswers, IterationStarts, IterationEnds, ForEachEnds
    <3>4. e = c
      BY <1>3, <1>4, <3>3 DEF RunJobEnds, Child, ChildInv, OneCaller
    <3>5. /\ pc[c] = "returned" /\ pc' = pc /\ runs' = runs
          /\ results' = [results EXCEPT ![q][t.key] = ChildRow(runs[c].result, c)]
      BY <3>3, <3>4 DEF RunJobEnds, FinishTask, store
    <3>6. results'[q][t.key] = ChildRow(runs'[c].result, c)
      BY <3>1, <3>5, RunTypes DEF IndInv
    <3> QED BY <3>1, <3>5, <3>6 DEF WaitsOrReports
  <2> QED BY <1>2, <1>4, <2>1, <2>2, DispatchedTasksStay
<1>5. t \in loaded'[p] \ remaining'[p] /\ WaitsOrReports(p, t, c)'
  BY <1>1, <1>4 DEF WaitsOrReports
<1> QED BY <1>2, <1>5 DEF WaitsOrReports

(***************************************************************************)
(* Where no run is started the callers stay.                               *)
(***************************************************************************)
LEMMA CallersStay ==
    ASSUME IndInv, Waves, ChildInv, [Next]_vars, caller' = caller,
           nextID' = nextID \/ nextID' = nextID + 1
    PROVE  ChildInv'
<1>1. OneCaller'
  BY DEF ChildInv, OneCaller
<1>2. ASSUME NEW c \in Ids PROVE Claimed(c)'
  <2>1. c \in Nat /\ nextID \in Nat
    BY IdsInRange, Bounds DEF IndInv, TypeOK, StoreType
  <2>2. c > nextID' => c > nextID
    BY <2>1
  <2> QED BY <2>2, ClaimedKeeps
<1> QED BY <1>1, <1>2 DEF ChildInv

(***************************************************************************)
(* A new run was nobody's child before, and is the first of its caller.    *)
(***************************************************************************)
LEMMA NewRunChild ==
    ASSUME IndInv, Waves, ChildInv, [Next]_vars, NEW j, NEW d, NEW parent,
           NewRun(j, d, parent),
           \/ parent = Handler
           \/ /\ parent.run \in Ids /\ \A c \in Ids : caller[c] # parent
              /\ \E t \in flight[parent.run] : t.key = parent.key /\ t.kind = "run_job"
    PROVE  ChildInv'
<1> DEFINE n == nextID + 1
<1>1. /\ n \in Ids /\ nextID' = n /\ nextID \in Nat /\ n > nextID
      /\ caller' = [caller EXCEPT ![n] = parent]
  <2>1. nextID \in 0..MaxID /\ nextID < MaxID
    BY DEF NewRun, IndInv, TypeOK, StoreType
  <2>2. nextID + 1 \in Ids /\ nextID \in Nat /\ nextID + 1 > nextID
    BY <2>1, Bounds, NextIdInRange
  <2> QED BY <2>2 DEF NewRun
<1> HIDE DEF n
<1>2. caller'[n] = parent /\ caller[n] = Handler /\ \A c \in Ids \ {n} : caller'[c] = caller[c]
  BY <1>1 DEF IndInv, TypeOK, ControlType, ChildInv, Claimed
<1>3. OneCaller'
  <2> SUFFICES ASSUME NEW c \in Ids, NEW e \in Ids, caller'[c] = caller'[e],
                      caller'[c] # Handler, c # e
               PROVE  FALSE
    BY DEF OneCaller
  <2>1. CASE c # n /\ e # n
    BY <1>2, <2>1 DEF ChildInv, OneCaller
  <2>2. CASE c = n \/ e = n
    <3>1. parent # Handler /\ \E x \in Ids : caller[x] = parent
      BY <1>2, <2>2
    <3> QED BY <3>1
  <2> QED BY <2>1, <2>2
<1>4. ASSUME NEW c \in Ids PROVE Claimed(c)'
  <2>1. CASE c = n
    <3>1. ~(c > nextID')
      <4>1. n \in Nat /\ c = nextID'
        BY <1>1, <2>1, IdsInRange
      <4> QED BY <1>1, <4>1
    <3>2. CASE parent = Handler
      BY <1>2, <2>1, <3>1, <3>2 DEF Claimed
    <3>3. CASE parent # Handler
      <4>1. /\ parent.run \in Ids
            /\ \E t \in flight[parent.run] : t.key = parent.key /\ t.kind = "run_job"
        BY <3>3
      <4>2. UNCHANGED <<loaded, remaining, flight>>
        BY DEF NewRun
      <4>3. \E t \in loaded'[parent.run] \ remaining'[parent.run] :
               t.key = parent.key /\ t.kind = "run_job" /\ t \in flight'[parent.run]
        BY <4>1, <4>2 DEF Waves, WaveInv, Placed
      <4> QED BY <1>2, <2>1, <3>1, <4>1, <4>3 DEF Claimed, WaitsOrReports
    <3> QED BY <3>2, <3>3
  <2>2. CASE c # n
    <3>1. c \in Nat
      BY IdsInRange
    <3>2. c > nextID' => c > nextID
      BY <1>1, <3>1
    <3> QED BY <1>2, <2>2, <3>2, ClaimedKeeps
  <2> QED BY <2>1, <2>2
<1> QED BY <1>3, <1>4 DEF ChildInv

(***************************************************************************)
(* The invariant of the child runs is inductive, with the ones before it.  *)
(***************************************************************************)
LEMMA ChildrenNext == IndInv /\ Waves /\ ChildInv /\ [Next]_vars => ChildInv'
<1> SUFFICES ASSUME IndInv, Waves, ChildInv, [Next]_vars PROVE ChildInv'
  OBVIOUS
<1>1. ASSUME NEW j \in jobs, jobsRunNow(j) PROVE ChildInv'
  BY <1>1, NewRunChild DEF jobsRunNow
<1>2. ASSUME NEW r \in Ids, NEW t \in flight[r], RunJobStarts(r, t) PROVE ChildInv'
  <2> DEFINE parent == [run |-> r, key |-> t.key]
  <2>1. parent.run = r /\ parent.key = t.key
    OBVIOUS
  <2>2. /\ NewRun(t.job, depth[r] + 1, parent) /\ t.kind = "run_job"
        /\ \A c \in Ids : caller[c] # parent
    BY <1>2 DEF RunJobStarts, Called, Child
  <2> HIDE DEF parent
  <2>3. \E u \in flight[parent.run] : u.key = parent.key /\ u.kind = "run_job"
    BY <2>1, <2>2
  <2> QED BY <2>1, <2>2, <2>3, NewRunChild
<1>3. CASE caller' = caller /\ (nextID' = nextID \/ nextID' = nextID + 1)
  BY <1>3, CallersStay
<1>4. CASE Client
  BY <1>1, <1>3, <1>4
     DEF Client, jobsCreate, jobsReset, ResetDuringRead, SeesTasks, jobsDelete, jobsRunsCancel,
         locals, frame
<1>5. ASSUME NEW r \in Ids, Executor(r) PROVE ChildInv'
  BY <1>3, <1>5
     DEF Executor, StartRun, FailWithoutEngine, ReadTasks, SeesTasks, CheckCancelled,
         WavesDone, Dispatch, SkipTheRest, Publish, store, frame
<1>6. ASSUME NEW r \in Ids, NEW t \in flight[r], TaskStep(r, t) PROVE ChildInv'
  BY <1>2, <1>3, <1>6
     DEF TaskStep, EngineAnswers, RunJobRefused, RunJobEnds, IterationStarts, IterationEnds,
         ForEachEnds, store, frame
<1>7. CASE UNCHANGED vars
  BY <1>3, <1>7 DEF vars
<1> QED BY <1>4, <1>5, <1>6, <1>7 DEF Next

(***************************************************************************)
(* runJobTask is synchronous whatever is cancelled meanwhile: a parent     *)
(* waits for the child runs it started, has one for each task, and reports *)
(* the result the child's record was left with.                            *)
(***************************************************************************)
THEOREM ChildrenAreReported == Spec => []ParentsReportTheirChildren
<1>1. Init => ChildInv
  BY DEF Init, ChildInv, OneCaller, Claimed
<1>2. ASSUME IndInv, Waves, ChildInv PROVE ParentsReportTheirChildren
  <2>1. ChildrenAreWaitedFor
    <3> SUFFICES ASSUME NEW c \in Ids, Active(c), caller[c] # Handler
                 PROVE  /\ \E t \in flight[caller[c].run] : Child(caller[c].run, t, c)
                        /\ \A e \in Ids : caller[e] = caller[c] => e = c
      BY DEF ChildrenAreWaitedFor
    <3>1. PICK t \in flight[caller[c].run] : t.key = caller[c].key
      BY <1>2 DEF ChildInv, Claimed, WaitsOrReports, Active
    <3>2. caller[c] = [run |-> caller[c].run, key |-> caller[c].key]
      BY <1>2 DEF IndInv, TypeOK, ControlType
    <3>3. Child(caller[c].run, t, c)
      BY <3>1, <3>2 DEF Child
    <3>4. \A e \in Ids : caller[e] = caller[c] => e = c
      BY <1>2 DEF ChildInv, OneCaller
    <3> QED BY <3>1, <3>3, <3>4
  <2>2. ChildOutcomeIsTheTasks
    <3> SUFFICES ASSUME NEW r \in Ids, NEW c \in Ids, NEW t \in loaded[r],
                        Child(r, t, c), t \notin flight[r]
                 PROVE  /\ pc[c] = "returned"
                        /\ results[r][t.key].child = c
                        /\ results[r][t.key].result = runs[c].result
      BY DEF ChildOutcomeIsTheTasks
    <3>1. caller[c].run = r /\ caller[c].key = t.key
      BY DEF Child
    <3>2. caller[c] # Handler
      <4>1. Handler.run = 0 /\ r # 0
        BY DEF Handler, Ids
      <4> QED BY <3>1, <4>1
    <3>3. PICK u \in loaded[r] \ remaining[r] : u.key = t.key /\ WaitsOrReports(r, u, c)
      BY <1>2, <3>1, <3>2 DEF ChildInv, Claimed
    <3>4. u = t
      BY <1>2, <3>3 DEF Waves, WaveInv, UniqueKeys
    <3>5. pc[c] = "returned" /\ results[r][t.key] = ChildRow(runs[c].result, c)
      BY <3>3, <3>4 DEF WaitsOrReports
    <3>6. /\ ChildRow(runs[c].result, c).child = c
          /\ ChildRow(runs[c].result, c).result = runs[c].result
      BY DEF ChildRow
    <3> QED BY <3>4, <3>3, <3>5, <3>6
  <2> QED BY <2>1, <2>2 DEF ParentsReportTheirChildren
<1> QED BY <1>1, <1>2, IndInvInit, IndInvNext, WavesInit, WavesNext, ChildrenNext, PTL DEF Spec

-------------------------------------------------------------------------------
(***************************************************************************)
(* The rows a run publishes, where no job is reset: what a reset during a  *)
(* run can make of them is shown by a run of the model.                    *)
(***************************************************************************)

(***************************************************************************)
(* Every key of a list is the key of a task of the map: some task of the   *)
(* list is the last one with that key.                                     *)
(***************************************************************************)
LEMMA ByKeyCovers ==
    ASSUME NEW ts \in Seq(Task), NEW i \in DOMAIN ts
    PROVE  \E t \in byKey(ts) : t.key = ts[i].key
<1> DEFINE D == { n \in DOMAIN ts : ts[n].key = ts[i].key }
           Later(n) == { m \in D : m > n }
           T == { Later(n) : n \in D }
<1>1. D \in SUBSET (1..Len(ts)) /\ i \in D /\ \A n \in D : n \in Int
  OBVIOUS
<1>2. IsFiniteSet(D)
  <2>1. 1 \in Int /\ Len(ts) \in Int
    OBVIOUS
  <2> QED BY <1>1, <2>1, FS_Interval, FS_Subset
<1>3. T \in SUBSET (SUBSET D) /\ T # {}
  BY <1>1
<1>4. \A n, m \in D : m > n =>
         /\ Later(m) \subseteq Later(n) /\ Later(m) # Later(n)
         /\ Later(m) \in T /\ Later(n) \in T
  BY <1>1
<1>5. \A n \in D : (\A m \in D : ~(m > n)) => \A m \in D : m <= n
  BY <1>1
<1>6. \A n \in D : n \in DOMAIN ts /\ ts[n].key = ts[i].key
  OBVIOUS
<1>7. \A m \in DOMAIN ts : ts[m].key = ts[i].key => m \in D
  OBVIOUS
<1>8. \A x \in T : \E n \in D : x = Later(n)
  OBVIOUS
<1> HIDE DEF D, Later, T
<1>9. IsWellFoundedOn(StrictSubsetOrdering(D), FiniteSubsetsOf(D))
  BY FS_StrictSubsetOrderingWellFounded
<1>10. T \subseteq FiniteSubsetsOf(D)
  BY <1>2, <1>3, FS_Subset DEF FiniteSubsetsOf
<1>11. PICK x \in T : \A y \in T : ~(<<y, x>> \in StrictSubsetOrdering(D))
  BY <1>3, <1>9, <1>10, WFMin
<1>12. PICK n \in D : x = Later(n)
  BY <1>8
<1>13. \A m \in D : ~(m > n)
  <2> SUFFICES ASSUME NEW m \in D, m > n PROVE FALSE
    OBVIOUS
  <2>1. Later(m) \subseteq x /\ Later(m) # x /\ Later(m) \in T /\ x \in T
    BY <1>4, <1>12
  <2>2. Later(m) \in SUBSET D /\ x \in SUBSET D
    BY <1>3, <2>1
  <2> DEFINE pair == <<Later(m), x>>
  <2>3. pair \in (SUBSET D) \X (SUBSET D) /\ pair[1] = Later(m) /\ pair[2] = x
    BY <2>2
  <2> HIDE DEF pair
  <2>4. pair \in StrictSubsetOrdering(D)
    BY <2>1, <2>3 DEF StrictSubsetOrdering
  <2>5. <<Later(m), x>> \in StrictSubsetOrdering(D)
    BY <2>4 DEF pair
  <2> QED BY <1>11, <2>1, <2>5
<1>14. ts[n] \in byKey(ts)
  BY <1>5, <1>6, <1>7, <1>13 DEF byKey
<1> QED BY <1>6, <1>14

\* What a run has read of its job is what the job holds.
SameList(r) ==
    /\ runs[r].job <= nextID
    /\ Loaded(r) => loaded[r] = byKey(tasks[runs[r].job])
    /\ pc[r] = "publish" => list[r] = tasks[runs[r].job]

\* A SUCCESS stands for tasks that were all decided and did not fail.
Earned(r) ==
    runs[r].result = "SUCCESS" =>
        /\ \A t \in loaded[r] : results[r][t.key].result # "FAILED"
        /\ \A i \in DOMAIN runs[r].tasks : runs[r].tasks[i] # ZeroRow

ListInv == (\A j \in jobs : j <= nextID) /\ \A r \in Ids : SameList(r) /\ Earned(r)

(***************************************************************************)
(* Nothing that was handed out is changed where no job is reset: a run     *)
(* keeps its job, and the job its tasks.                                   *)
(***************************************************************************)
LEMMA JobsStay ==
    ASSUME IndInv, ListInv, ResetLists = {}, [Next]_vars, NEW q \in Ids, pc[q] # "none"
    PROVE  runs'[q].job = runs[q].job /\ tasks'[runs[q].job] = tasks[runs[q].job]
<1>0. /\ runs \in [Ids -> Run] /\ nextID \in Nat /\ tasks \in [Ids -> Seq(Task)]
      /\ InStep(q) /\ runs[q].job \in Ids /\ runs[q].job \in Nat /\ runs[q].job <= nextID
      /\ q \in Nat
  <2>1. runs \in [Ids -> Run] /\ nextID \in 0..MaxID /\ tasks \in [Ids -> Seq(Task)] /\ InStep(q)
    BY DEF IndInv, TypeOK, RunsType, StoreType, RecordFollowsExecutor
  <2>2. nextID \in Nat
    BY <2>1, Bounds
  <2>3. runs[q].job \in Ids
    BY <2>1 DEF InStep
  <2>4. runs[q].job <= nextID
    BY DEF ListInv, SameList
  <2> QED BY <2>1, <2>2, <2>3, <2>4, IdsInRange
<1>1. ASSUME NEW r \in Ids, NEW life, NEW res, NEW rows,
             \/ runs' = runs
             \/ runs' = [runs EXCEPT ![r] = Record(r, life, res, rows)]
      PROVE  runs'[q].job = runs[q].job
  <2>1. Record(r, life, res, rows).job = runs[r].job
    BY DEF Record
  <2> QED BY <1>0, <1>1, <2>1
<1>2. ASSUME NEW j, NEW d, NEW parent, NewRun(j, d, parent)
      PROVE  runs'[q] = runs[q] /\ tasks' = tasks
  <2>1. q # nextID + 1
    <3>1. ~(q > nextID)
      BY <1>0 DEF InStep
    <3> QED BY <1>0, <3>1
  <2> QED BY <1>0, <1>2, <2>1 DEF NewRun
<1>3. CASE UNCHANGED <<runs, tasks>>
  BY <1>3
<1>4. CASE Client
  <2>1. ASSUME NEW ts \in CreateLists, jobsCreate(ts)
        PROVE  runs' = runs /\ tasks'[runs[q].job] = tasks[runs[q].job]
    <3>1. runs[q].job # nextID + 1
      BY <1>0
    <3> QED BY <1>0, <2>1, <3>1 DEF jobsCreate
  <2>2. ASSUME NEW r \in Ids, jobsRunsCancel(r)
        PROVE  runs'[q].job = runs[q].job /\ tasks' = tasks
    BY <1>1, <2>2 DEF jobsRunsCancel, CancelRun
  <2>3. ASSUME NEW j \in jobs, jobsRunNow(j) PROVE runs'[q] = runs[q] /\ tasks' = tasks
    BY <1>2, <2>3 DEF jobsRunNow
  <2>4. ASSUME NEW j \in jobs, jobsDelete(j) PROVE UNCHANGED <<runs, tasks>>
    BY <2>4 DEF jobsDelete
  <2> QED BY <1>4, <2>1, <2>2, <2>3, <2>4 DEF Client
<1>5. ASSUME NEW r \in Ids, Executor(r)
      PROVE  runs'[q].job = runs[q].job /\ tasks' = tasks
  <2>1. tasks' = tasks
    BY <1>5 DEF Executor, StartRun, FailWithoutEngine, ReadTasks, CheckCancelled,
                WavesDone, Dispatch, SkipTheRest, Publish, store
  <2>2. CASE runs' = runs
    BY <2>1, <2>2
  <2>3. ASSUME NEW life, NEW res, NEW rows, UpdateRun(r, Record(r, life, res, rows))
        PROVE  runs'[q].job = runs[q].job
    BY <1>1, <2>3 DEF UpdateRun
  <2>4. \/ runs' = runs
        \/ \E life, res, rows : UpdateRun(r, Record(r, life, res, rows))
    BY <1>5 DEF Executor, StartRun, FailWithoutEngine, ReadTasks, CheckCancelled,
                WavesDone, Dispatch, SkipTheRest, Publish, store
  <2> QED BY <2>1, <2>2, <2>3, <2>4
<1>6. ASSUME NEW r \in Ids, NEW t \in flight[r], TaskStep(r, t)
      PROVE  runs'[q] = runs[q] /\ tasks' = tasks
  <2>1. CASE RunJobStarts(r, t)
    BY <1>2, <2>1 DEF RunJobStarts
  <2>2. CASE ~RunJobStarts(r, t)
    BY <1>6, <2>2 DEF TaskStep, EngineAnswers, RunJobRefused, RunJobEnds, IterationStarts,
                IterationEnds, ForEachEnds, store
  <2> QED BY <2>1, <2>2
<1>7. CASE UNCHANGED vars
  BY <1>7 DEF vars
<1> QED BY <1>4, <1>5, <1>6, <1>7 DEF Next

(***************************************************************************)
(* What an executor has read changes only where it reads.                  *)
(***************************************************************************)
LEMMA ReadsOnly ==
    ASSUME IndInv, ResetLists = {}, [Next]_vars, NEW q \in Ids
    PROVE  \/ SeesTasks(q, tasks[runs[q].job])
           \/ /\ loaded'[q] = loaded[q] /\ list'[q] = list[q]
              /\ Loaded(q)' => Loaded(q)
              /\ pc'[q] = "publish" => pc[q] = "publish"
<1>0. pc \in [Ids -> Locations] /\ list \in [Ids -> Seq(Task)] /\ loaded \in [Ids -> SUBSET Task]
  BY DEF IndInv, TypeOK, ControlType, TasksType
<1>1. CASE UNCHANGED <<pc, list, loaded>>
  BY <1>1 DEF Loaded
<1>2. ASSUME NEW j, NEW d, NEW parent, NewRun(j, d, parent)
      PROVE  /\ loaded'[q] = loaded[q] /\ list'[q] = list[q]
             /\ Loaded(q)' => Loaded(q)
             /\ pc'[q] = "publish" => pc[q] = "publish"
  <2>1. pc' = [pc EXCEPT ![nextID + 1] = "start"] /\ list' = list /\ loaded' = loaded
    BY <1>2 DEF NewRun
  <2>2. pc'[q] = pc[q] \/ pc'[q] = "start"
    BY <1>0, <2>1
  <2> QED BY <2>1, <2>2 DEF Loaded
<1>3. CASE Client
  <2>1. ASSUME NEW j \in jobs, jobsRunNow(j) PROVE \E d, parent : NewRun(j, d, parent)
    BY <2>1 DEF jobsRunNow
  <2> QED BY <1>1, <1>2, <1>3, <2>1
          DEF Client, jobsCreate, jobsDelete, jobsRunsCancel, locals
<1>4. ASSUME NEW r \in Ids, Executor(r)
      PROVE  \/ SeesTasks(q, tasks[runs[q].job])
             \/ /\ loaded'[q] = loaded[q] /\ list'[q] = list[q]
                /\ Loaded(q)' => Loaded(q)
                /\ pc'[q] = "publish" => pc[q] = "publish"
  <2>1. CASE ReadTasks(r)
    <3>1. SeesTasks(r, tasks[runs[r].job])
      BY <2>1 DEF ReadTasks
    <3>2. CASE r = q
      BY <3>1, <3>2
    <3>3. CASE r # q
      <4>1. pc'[q] = pc[q] /\ loaded'[q] = loaded[q] /\ list'[q] = list[q]
        BY <1>0, <3>1, <3>3 DEF SeesTasks, Goto
      <4> QED BY <4>1 DEF Loaded
    <3> QED BY <3>2, <3>3
  <2>2. CASE ~ReadTasks(r)
    <3>1. /\ list' = list /\ loaded' = loaded
          /\ \/ pc[r] \in {"start", "noengine", "publish"} /\ \E l \in {"load", "noengine", "returned"} : Goto(r, l)
             \/ pc[r] \in {"wave", "dispatch"} /\ \E l \in {"returned", "dispatch", "reread", "wave"} : Goto(r, l)
      BY <1>4, <2>2 DEF Executor, StartRun, FailWithoutEngine, CheckCancelled,
                        WavesDone, Dispatch, SkipTheRest, Publish
    <3>2. PICK l : /\ Goto(r, l)
                   /\ l \in {"load", "noengine", "returned"} \/ (pc[r] \in {"wave", "dispatch"} /\ l # "publish")
      BY <3>1
    <3>3. pc'[q] = IF q = r THEN l ELSE pc[q]
      BY <1>0, <3>2 DEF Goto
    <3> QED BY <3>1, <3>2, <3>3 DEF Loaded
  <2> QED BY <2>1, <2>2
<1>5. ASSUME NEW r \in Ids, NEW t \in flight[r], TaskStep(r, t)
      PROVE  /\ loaded'[q] = loaded[q] /\ list'[q] = list[q]
             /\ Loaded(q)' => Loaded(q)
             /\ pc'[q] = "publish" => pc[q] = "publish"
  <2>1. CASE RunJobStarts(r, t)
    BY <1>2, <2>1 DEF RunJobStarts
  <2>2. CASE ~RunJobStarts(r, t)
    <3>1. UNCHANGED <<pc, list, loaded>>
      BY <1>5, <2>2 DEF TaskStep, EngineAnswers, RunJobRefused, RunJobEnds, IterationStarts,
                IterationEnds, ForEachEnds, FinishTask
    <3> QED BY <3>1 DEF Loaded
  <2> QED BY <2>1, <2>2
<1>6. CASE UNCHANGED vars
  BY <1>1, <1>6 DEF vars
<1> QED BY <1>3, <1>4, <1>5, <1>6 DEF Next

(***************************************************************************)
(* Only an executor's own last publish makes a run a SUCCESS.              *)
(***************************************************************************)
LEMMA SuccessIsPublished ==
    ASSUME IndInv, [Next]_vars, NEW q \in Ids, pc[q] # "returned",
           runs'[q].result = "SUCCESS"
    PROVE  Publish(q)
<1>0. runs \in [Ids -> Run] /\ runs[q].result # "SUCCESS"
  <2>1. runs \in [Ids -> Run] /\ InStep(q) /\ pc[q] \in Locations
    BY DEF IndInv, TypeOK, RunsType, ControlType, RecordFollowsExecutor
  <2>2. NoRun.result = ""
    BY DEF NoRun
  <2>3. CASE pc[q] = "none"
    BY <2>1, <2>2, <2>3 DEF InStep
  <2>4. CASE pc[q] # "none"
    BY <2>1, <2>4 DEF InStep, Active, Stopped
  <2> QED BY <2>3, <2>4
<1>1. runs' # runs
  BY <1>0
<1>2. ASSUME NEW r \in Ids, NEW life, NEW res, NEW rows, res # "SUCCESS",
             \/ runs' = runs
             \/ runs' = [runs EXCEPT ![r] = Record(r, life, res, rows)]
      PROVE  FALSE
  <2>1. Record(r, life, res, rows).result = res
    BY DEF Record
  <2> QED BY <1>0, <1>2, <2>1
<1>3. ASSUME NEW j, NEW d, NEW parent, NewRun(j, d, parent) PROVE FALSE
  <2> DEFINE rec == [job |-> j, life |-> "PENDING", result |-> "", tasks |-> <<>>]
  <2>1. rec.result = "" /\ runs' = [runs EXCEPT ![nextID + 1] = rec]
    BY <1>3 DEF NewRun
  <2> HIDE DEF rec
  <2> QED BY <1>0, <2>1
<1>4. CASE Client
  <2>1. ASSUME NEW r \in Ids, jobsRunsCancel(r) PROVE FALSE
    BY <1>2, <2>1 DEF jobsRunsCancel, CancelRun
  <2>2. ASSUME NEW j \in jobs, jobsRunNow(j) PROVE FALSE
    BY <1>3, <2>2 DEF jobsRunNow
  <2> QED BY <1>1, <1>4, <2>1, <2>2 DEF Client, jobsCreate, jobsReset, ResetDuringRead, jobsDelete
<1>5. ASSUME NEW r \in Ids, Executor(r) PROVE Publish(q)
  <2>1. CASE StartRun(r)
    <3>1. \/ runs' = runs
          \/ runs' = [runs EXCEPT ![r] = Record(r, "RUNNING", "", <<>>)]
      BY <2>1 DEF StartRun, UpdateRun
    <3>2. "" # "SUCCESS"
      OBVIOUS
    <3> QED BY <1>2, <3>1, <3>2
  <2>2. CASE FailWithoutEngine(r)
    <3>1. UpdateRun(r, Record(r, "TERMINATED", "FAILED", <<>>))
      BY <2>2 DEF FailWithoutEngine
    <3> QED BY <1>2, <3>1 DEF UpdateRun
  <2>3. CASE Publish(r)
    <3>1. CASE r = q
      BY <2>3, <3>1
    <3>2. CASE r # q
      <4>1. runs'[q] = runs[q]
        BY <1>0, <2>3, <3>2 DEF Publish, UpdateRun
      <4> QED BY <1>0, <4>1
    <3> QED BY <3>1, <3>2
  <2> QED BY <1>1, <1>5, <2>1, <2>2, <2>3
          DEF Executor, ReadTasks, CheckCancelled, WavesDone, Dispatch, SkipTheRest, store
<1>6. ASSUME NEW r \in Ids, NEW t \in flight[r], TaskStep(r, t) PROVE FALSE
  <2>1. CASE RunJobStarts(r, t)
    BY <1>3, <2>1 DEF RunJobStarts
  <2>2. CASE ~RunJobStarts(r, t)
    BY <1>1, <1>6, <2>2 DEF TaskStep, EngineAnswers, RunJobRefused, RunJobEnds,
                IterationStarts, IterationEnds, ForEachEnds, store
  <2> QED BY <2>1, <2>2
<1>7. CASE UNCHANGED vars
  BY <1>1, <1>7 DEF vars
<1> QED BY <1>4, <1>5, <1>6, <1>7 DEF Next

(***************************************************************************)
(* The rows of a run whose executor has returned are never written again.  *)
(***************************************************************************)
LEMMA ResultsStay ==
    ASSUME IndInv, Waves, [Next]_vars, NEW q \in Ids, pc[q] = "returned"
    PROVE  results'[q] = results[q]
<1>0. flight[q] = {} /\ results \in [Ids -> [Keys -> TaskRun]]
  BY RunTypes DEF Waves, WaveInv, Barrier, IndInv
<1>1. CASE results' = results
  BY <1>1
<1>2. CASE Client
  BY <1>1, <1>2
     DEF Client, jobsCreate, jobsReset, ResetDuringRead, SeesTasks, jobsDelete, jobsRunNow,
         jobsRunsCancel, NewRun, locals
<1>3. ASSUME NEW r \in Ids, Executor(r) PROVE results'[q] = results[q]
  <2>1. CASE Dispatch(r)
    BY <1>0, <2>1 DEF Dispatch, Decide
  <2>2. CASE SkipTheRest(r)
    BY <1>0, <2>2 DEF SkipTheRest
  <2> QED BY <1>1, <1>3, <2>1, <2>2
          DEF Executor, StartRun, FailWithoutEngine, ReadTasks, SeesTasks, CheckCancelled,
              WavesDone, Publish
<1>4. ASSUME NEW r \in Ids, NEW t \in flight[r], TaskStep(r, t) PROVE results'[q] = results[q]
  <2>1. r # q
    BY <1>0, <1>4
  <2>2. ASSUME NEW row, FinishTask(r, t, row) PROVE results'[q] = results[q]
    BY <1>0, <2>1, <2>2 DEF FinishTask
  <2> QED BY <1>1, <1>4, <2>2
          DEF TaskStep, EngineAnswers, RunJobRefused, RunJobStarts, NewRun, RunJobEnds,
              IterationStarts, IterationEnds, ForEachEnds
<1>5. CASE UNCHANGED vars
  BY <1>1, <1>5 DEF vars
<1> QED BY <1>2, <1>3, <1>4, <1>5 DEF Next

(***************************************************************************)
(* The last publish of an executor that sees the list it loaded.           *)
(***************************************************************************)
LEMMA PublishIsEarned ==
    ASSUME IndInv, Waves, NEW q \in Ids, SameList(q), Publish(q) PROVE Earned(q)'
<1> SUFFICES ASSUME runs'[q].result = "SUCCESS"
             PROVE  /\ \A t \in loaded[q] : results[q][t.key].result # "FAILED"
                    /\ \A i \in DOMAIN runs'[q].tasks : runs'[q].tasks[i] # ZeroRow
  BY DEF Earned, Publish
<1>1. /\ pc[q] = "publish" /\ list[q] = tasks[runs[q].job] /\ loaded[q] = byKey(list[q])
      /\ list[q] \in Seq(Task) /\ runs \in [Ids -> Run]
  BY DEF Publish, SameList, Loaded, IndInv, TypeOK, TasksType, RunsType
<1>2. ~Cancelled(q)
  <2>1. Cancelled(q) => runs'[q].result = "CANCELED"
    BY DEF Publish, UpdateRun, Cancelled
  <2> QED BY <2>1
<1>3. /\ \A i \in DOMAIN Rows(q) : Rows(q)[i].result # "FAILED"
      /\ runs'[q].tasks = Rows(q)
  <2> DEFINE verdict == IF \E i \in DOMAIN Rows(q) : Rows(q)[i].result = "FAILED"
                        THEN "FAILED" ELSE "SUCCESS"
  <2>1. runs'[q] = Record(q, "TERMINATED", verdict, Rows(q))
    BY <1>1, <1>2 DEF Publish, UpdateRun
  <2>2. /\ Record(q, "TERMINATED", verdict, Rows(q)).result = verdict
        /\ Record(q, "TERMINATED", verdict, Rows(q)).tasks = Rows(q)
    BY DEF Record
  <2>3. verdict = "SUCCESS" /\ runs'[q].tasks = Rows(q)
    BY <2>1, <2>2
  <2> QED BY <2>3
<1>4. /\ DOMAIN Rows(q) = DOMAIN list[q]
      /\ \A i \in DOMAIN list[q] : Rows(q)[i] = results[q][list[q][i].key]
  BY DEF Rows
<1>5. ASSUME NEW t \in loaded[q] PROVE results[q][t.key].result # "FAILED"
  <2>1. PICK n \in DOMAIN list[q] : t = list[q][n]
    BY <1>1 DEF byKey
  <2> QED BY <1>3, <1>4, <2>1
<1>6. ASSUME NEW i \in DOMAIN list[q] PROVE results[q][list[q][i].key] # ZeroRow
  <2>1. PICK t \in loaded[q] : t.key = list[q][i].key
    BY <1>1, ByKeyCovers
  <2>2. t \notin remaining[q] \cup flight[q]
    BY <1>1 DEF Waves, WaveInv, Barrier
  <2>3. t.key \in Recorded(results[q])
    BY <2>2, RowsArePlaced DEF IndInv, Waves
  <2> QED BY <2>1, <2>3 DEF Recorded
<1> QED BY <1>3, <1>4, <1>5, <1>6

(***************************************************************************)
(* Create and NewRun hand out the next id; nothing else touches the        *)
(* counter, and only Create adds a job.                                    *)
(***************************************************************************)
LEMMA HandedOut ==
    ASSUME [Next]_vars
    PROVE  /\ nextID' = nextID \/ nextID' = nextID + 1
           /\ jobs' \subseteq jobs \/ (nextID' = nextID + 1 /\ jobs' = jobs \cup {nextID'})
<1>1. CASE UNCHANGED <<nextID, jobs>>
  BY <1>1
<1>2. ASSUME NEW j, NEW d, NEW parent, NewRun(j, d, parent)
      PROVE  nextID' = nextID + 1 /\ jobs' = jobs
  BY <1>2 DEF NewRun
<1>3. CASE Client
  <2>1. ASSUME NEW ts \in CreateLists, jobsCreate(ts)
        PROVE  nextID' = nextID + 1 /\ jobs' = jobs \cup {nextID'}
    BY <2>1 DEF jobsCreate
  <2>2. ASSUME NEW j \in jobs, jobsDelete(j) PROVE nextID' = nextID /\ jobs' \subseteq jobs
    BY <2>2 DEF jobsDelete
  <2>3. ASSUME NEW j \in jobs, jobsRunNow(j) PROVE nextID' = nextID + 1 /\ jobs' = jobs
    BY <1>2, <2>3 DEF jobsRunNow
  <2> QED BY <1>1, <1>3, <2>1, <2>2, <2>3
          DEF Client, jobsReset, ResetDuringRead, jobsRunsCancel
<1>4. ASSUME NEW r \in Ids, Executor(r) PROVE UNCHANGED <<nextID, jobs>>
  BY <1>4 DEF Executor, StartRun, FailWithoutEngine, ReadTasks, CheckCancelled, WavesDone,
              Dispatch, SkipTheRest, Publish, store
<1>5. ASSUME NEW r \in Ids, NEW t \in flight[r], TaskStep(r, t)
      PROVE  jobs' = jobs /\ (nextID' = nextID \/ nextID' = nextID + 1)
  <2>1. CASE RunJobStarts(r, t)
    BY <1>2, <2>1 DEF RunJobStarts
  <2>2. CASE ~RunJobStarts(r, t)
    BY <1>5, <2>2 DEF TaskStep, EngineAnswers, RunJobRefused, RunJobEnds, IterationStarts,
                IterationEnds, ForEachEnds, store
  <2> QED BY <2>1, <2>2
<1>6. CASE UNCHANGED vars
  BY <1>1, <1>6 DEF vars
<1> QED BY <1>3, <1>4, <1>5, <1>6 DEF Next

(***************************************************************************)
(* The invariant of the published rows is inductive where no job is reset. *)
(***************************************************************************)
LEMMA ListsNext ==
    ASSUME ResetLists = {} PROVE IndInv /\ Waves /\ ListInv /\ [Next]_vars => ListInv'
<1> SUFFICES ASSUME IndInv, Waves, ListInv, [Next]_vars PROVE ListInv'
  OBVIOUS
<1>0. nextID \in Nat /\ jobs \subseteq Ids
  BY Bounds DEF IndInv, TypeOK, StoreType
<1>1. /\ nextID' = nextID \/ nextID' = nextID + 1
      /\ jobs' \subseteq jobs \/ (nextID' = nextID + 1 /\ jobs' = jobs \cup {nextID'})
  BY HandedOut
<1>2. \A j \in jobs' : j <= nextID'
  <2>1. \A j \in jobs : j \in Nat /\ j <= nextID
    BY <1>0, IdsInRange DEF ListInv
  <2> QED BY <1>0, <1>1, <2>1
<1>3. ASSUME NEW q \in Ids PROVE SameList(q)'
  <2>1. CASE pc[q] = "none"
    <3>1. ASSUME NEW j \in jobs, NEW d, NEW parent, NewRun(j, d, parent) PROVE SameList(q)'
      <4> DEFINE rec == [job |-> j, life |-> "PENDING", result |-> "", tasks |-> <<>>]
      <4>1. /\ rec.job = j /\ runs' = [runs EXCEPT ![nextID + 1] = rec]
            /\ pc' = [pc EXCEPT ![nextID + 1] = "start"] /\ nextID' = nextID + 1
        BY <3>1 DEF NewRun
      <4> HIDE DEF rec
      <4>2. runs \in [Ids -> Run] /\ pc \in [Ids -> Locations] /\ runs[q].job \in Nat
        <5>1. runs[q].job \in 0..MaxID
          BY DEF IndInv, TypeOK, RunsType, Run
        <5>2. runs[q].job \in Nat
          BY <5>1, Bounds
        <5> QED BY <5>2 DEF IndInv, TypeOK, RunsType, ControlType
      <4>3. pc'[q] \in {"none", "start"} /\ runs'[q].job \in {runs[q].job, j}
        BY <2>1, <4>1, <4>2
      <4>4. j \in Nat /\ j <= nextID /\ runs[q].job <= nextID
        BY <1>0, IdsInRange DEF ListInv, SameList
      <4>5. runs'[q].job <= nextID'
        BY <1>0, <4>1, <4>2, <4>3, <4>4
      <4> QED BY <4>3, <4>5 DEF SameList, Loaded
    <3>2. CASE pc'[q] = "none"
      <4>1. runs'[q] = NoRun /\ NoRun.job = 0
        <5>1. InStep(q)'
          BY IndInvNext DEF IndInv, RecordFollowsExecutor
        <5> QED BY <3>2, <5>1 DEF InStep, NoRun
      <4>2. runs'[q].job <= nextID'
        BY <1>0, <1>1, <4>1
      <4> QED BY <3>2, <4>2 DEF SameList, Loaded
    <3>3. \/ pc'[q] = "none"
          \/ \E j \in jobs : \E d, parent : NewRun(j, d, parent)
      <4>1. pc \in [Ids -> Locations] /\ flight[q] = {}
        BY <2>1, RunTypes DEF IndInv, Waves, WaveInv, Empty
      <4>2. ASSUME NEW r \in Ids, Executor(r) PROVE pc'[q] = "none"
        <5>1. r # q /\ \E l : Goto(r, l)
          BY <2>1, <4>2 DEF Executor, StartRun, FailWithoutEngine, ReadTasks, SeesTasks,
                CheckCancelled, WavesDone, Dispatch, SkipTheRest, Publish
        <5> QED BY <2>1, <4>1, <5>1 DEF Goto
      <4>3. ASSUME NEW r \in Ids, NEW t \in flight[r], TaskStep(r, t)
            PROVE  pc' = pc \/ \E j \in jobs : \E d, parent : NewRun(j, d, parent)
        BY <4>3 DEF TaskStep, EngineAnswers, RunJobRefused, RunJobStarts, RunJobEnds,
                    IterationStarts, IterationEnds, ForEachEnds, FinishTask
      <4>4. CASE Client
        BY <2>1, <4>4 DEF Client, jobsCreate, jobsDelete, jobsRunNow, jobsRunsCancel, locals
      <4>5. CASE UNCHANGED vars
        BY <2>1, <4>5 DEF vars
      <4> QED BY <2>1, <4>2, <4>3, <4>4, <4>5 DEF Next
    <3> QED BY <3>1, <3>2, <3>3
  <2>2. CASE pc[q] # "none"
    <3>1. runs'[q].job = runs[q].job /\ tasks'[runs[q].job] = tasks[runs[q].job]
      BY <2>2, JobsStay
    <3>2. SameList(q) /\ runs[q].job \in Nat
      <4>1. runs[q].job \in 0..MaxID
        BY DEF IndInv, TypeOK, RunsType, Run
      <4> QED BY <4>1, Bounds DEF ListInv
    <3>3. runs'[q].job <= nextID'
      BY <1>0, <1>1, <3>1, <3>2 DEF SameList
    <3>4. (Loaded(q)' => loaded'[q] = byKey(tasks[runs[q].job]))
            /\ (pc'[q] = "publish" => list'[q] = tasks[runs[q].job])
      <4>1. CASE SeesTasks(q, tasks[runs[q].job])
        <5>1. list'[q] = tasks[runs[q].job]
          BY <4>1 DEF SeesTasks, IndInv, TypeOK, TasksType
        <5>2. loaded'[q] = byKey(tasks[runs[q].job])
          BY <3>2, <4>1 DEF SeesTasks, IndInv, TypeOK, TasksType, SameList, Loaded
        <5> QED BY <5>1, <5>2
      <4>2. CASE ~SeesTasks(q, tasks[runs[q].job])
        BY <3>2, <4>2, ReadsOnly DEF SameList
      <4> QED BY <4>1, <4>2
    <3> QED BY <3>1, <3>3, <3>4 DEF SameList
  <2> QED BY <2>1, <2>2
<1>4. ASSUME NEW q \in Ids PROVE Earned(q)'
  <2>1. CASE pc[q] = "returned"
    <3>1. runs'[q] = runs[q] /\ results'[q] = results[q]
      BY <2>1, ReturnedIsFinal, ResultsStay
    <3>2. loaded'[q] = loaded[q]
      BY <2>1, ReadsOnly DEF SeesTasks
    <3> QED BY <3>1, <3>2 DEF ListInv, Earned
  <2>2. CASE pc[q] # "returned" /\ runs'[q].result = "SUCCESS"
    BY <2>2, SuccessIsPublished, PublishIsEarned DEF ListInv
  <2>3. CASE runs'[q].result # "SUCCESS"
    BY <2>3 DEF Earned
  <2> QED BY <2>1, <2>2, <2>3
<1> QED BY <1>2, <1>3, <1>4 DEF ListInv

(***************************************************************************)
(* As long as no job is reset, a run says SUCCESS only if none of its tasks*)
(* failed and each of them was decided.  With resets the code does not     *)
(* keep this.                                                              *)
(***************************************************************************)
THEOREM SuccessIsEarnedWithoutResets ==
    ASSUME ResetLists = {} PROVE Spec => []SuccessIsEarned
<1>1. Init => ListInv
  <2> SUFFICES ASSUME Init PROVE ListInv
    OBVIOUS
  <2>1. NoRun.job = 0 /\ NoRun.result = ""
    BY DEF NoRun
  <2>2. ASSUME NEW r \in Ids PROVE runs[r] = NoRun /\ pc[r] = "none" /\ nextID = 0
    BY DEF Init
  <2>3. \A j \in jobs : j <= nextID
    BY DEF Init
  <2>4. ASSUME NEW r \in Ids PROVE SameList(r) /\ Earned(r)
    <3>1. runs[r].job = 0 /\ runs[r].result = "" /\ pc[r] = "none" /\ nextID = 0
      BY <2>1, <2>2
    <3>2. runs[r].job <= nextID
      <4>1. 0 <= 0
        OBVIOUS
      <4> QED BY <3>1, <4>1, Zenon
    <3> QED BY <3>1, <3>2 DEF SameList, Earned, Loaded
  <2> QED BY <2>3, <2>4 DEF ListInv
<1>2. ListInv => SuccessIsEarned
  BY DEF ListInv, Earned, SuccessIsEarned
<1>3. IndInv /\ Waves /\ ListInv /\ [Next]_vars => ListInv'
  BY ListsNext
<1> QED BY <1>1, <1>2, <1>3, IndInvInit, IndInvNext, WavesInit, WavesNext, PTL DEF Spec

-------------------------------------------------------------------------------
(***************************************************************************)
(* Cancelling.                                                             *)
(***************************************************************************)

\* Cancelled while no wave was about to be dispatched.
Halted(r) == Cancelled(r) /\ pc[r] # "dispatch"

(***************************************************************************)
(* A halted run stays halted: the record stays cancelled, and the executor *)
(* that comes to its loop head returns.                                    *)
(***************************************************************************)
LEMMA HaltedStays ==
    ASSUME NEW r \in Ids PROVE IndInv /\ Halted(r) /\ [Next]_vars => Halted(r)'
<1> SUFFICES ASSUME IndInv, Halted(r), [Next]_vars PROVE Halted(r)'
  OBVIOUS
<1>0. /\ pc \in [Ids -> Locations] /\ runs \in [Ids -> Run]
      /\ Cancelled(r) /\ pc[r] # "dispatch" /\ runs[r].life = "TERMINATED"
  <2>1. InStep(r) /\ pc \in [Ids -> Locations] /\ runs \in [Ids -> Run]
    BY DEF IndInv, TypeOK, ControlType, RunsType, RecordFollowsExecutor
  <2>2. NoRun.result # "CANCELED"
    BY DEF NoRun
  <2> QED BY <2>1, <2>2 DEF Halted, Cancelled, InStep, Active, Stopped
<1>1. Cancelled(r)'
  <2>1. CASE runs' = runs
    BY <1>0, <2>1 DEF Cancelled
  <2>2. ASSUME NEW q \in Ids, RecordStep(q) PROVE runs'[r] = runs[r]
    BY <1>0, <2>2 DEF RecordStep, Changes
  <2> QED BY <1>0, <2>1, <2>2, StepOfRecords DEF Cancelled
<1>2. ASSUME NEW q \in Ids, NEW l, Goto(q, l), l # "dispatch" \/ q # r
      PROVE  pc'[r] # "dispatch"
  BY <1>0, <1>2 DEF Goto
<1>3. ASSUME NEW j, NEW d, NEW parent, NewRun(j, d, parent) PROVE pc'[r] # "dispatch"
  BY <1>0, <1>3 DEF NewRun
<1>4. CASE pc' = pc
  BY <1>0, <1>1, <1>4 DEF Halted
<1>5. CASE Client
  <2>1. ASSUME NEW j \in jobs, jobsRunNow(j) PROVE pc'[r] # "dispatch"
    BY <1>3, <2>1 DEF jobsRunNow
  <2>2. ASSUME NEW j \in jobs, NEW ts \in ResetLists, NEW q \in Ids, ResetDuringRead(j, ts, q)
        PROVE  pc'[r] # "dispatch"
    BY <1>2, <2>2 DEF ResetDuringRead, SeesTasks
  <2> QED BY <1>1, <1>4, <1>5, <2>1, <2>2
          DEF Halted, Client, jobsCreate, jobsReset, jobsDelete, jobsRunsCancel, locals
<1>6. ASSUME NEW q \in Ids, Executor(q) PROVE Halted(r)'
  <2>1. CASE CheckCancelled(q)
    BY <1>0, <1>1, <1>2, <2>1 DEF CheckCancelled, Halted
  <2>2. CASE ~CheckCancelled(q)
    <3>1. CASE StartRun(q)
      <4>1. Goto(q, IF attached THEN "load" ELSE "noengine")
        BY <3>1 DEF StartRun
      <4> QED BY <1>1, <1>2, <4>1 DEF Halted
    <3>2. CASE FailWithoutEngine(q) \/ Publish(q)
      <4>1. Goto(q, "returned")
        BY <3>2 DEF FailWithoutEngine, Publish
      <4> QED BY <1>1, <1>2, <4>1 DEF Halted
    <3>3. CASE ReadTasks(q)
      <4>1. Goto(q, "wave") \/ Goto(q, "publish")
        BY <3>3 DEF ReadTasks, SeesTasks
      <4> QED BY <1>1, <1>2, <4>1 DEF Halted
    <3>4. CASE WavesDone(q)
      <4>1. Goto(q, "reread")
        BY <3>4 DEF WavesDone
      <4> QED BY <1>1, <1>2, <4>1 DEF Halted
    <3>5. CASE Dispatch(q) \/ SkipTheRest(q)
      <4>1. Goto(q, "wave")
        BY <3>5 DEF Dispatch, SkipTheRest
      <4> QED BY <1>1, <1>2, <4>1 DEF Halted
    <3> QED BY <1>6, <2>2, <3>1, <3>2, <3>3, <3>4, <3>5 DEF Executor
  <2> QED BY <2>1, <2>2
<1>7. ASSUME NEW q \in Ids, NEW t \in flight[q], TaskStep(q, t) PROVE Halted(r)'
  <2>1. CASE RunJobStarts(q, t)
    BY <1>1, <1>3, <2>1 DEF RunJobStarts, Halted
  <2>2. CASE ~RunJobStarts(q, t)
    BY <1>4, <1>7, <2>2 DEF TaskStep, EngineAnswers, RunJobRefused, RunJobEnds,
                IterationStarts, IterationEnds, ForEachEnds, FinishTask
  <2> QED BY <2>1, <2>2
<1>8. CASE UNCHANGED vars
  BY <1>4, <1>8 DEF vars
<1> QED BY <1>5, <1>6, <1>7, <1>8 DEF Next

(***************************************************************************)
(* A cancel that is stored before an executor passes its loop head stops   *)
(* every later wave of that run.                                           *)
(***************************************************************************)
THEOREM CancelIsObeyed == Spec => CancelStopsLaterWaves
<1> SUFFICES ASSUME NEW r \in Ids
             PROVE  Spec => [](Cancelled(r) /\ pc[r] \in {"start", "load", "wave"}
                                 => [](pc[r] # "dispatch"))
  BY DEF CancelStopsLaterWaves
<1>1. Cancelled(r) /\ pc[r] \in {"start", "load", "wave"} => Halted(r)
  BY DEF Halted
<1>2. Halted(r) => pc[r] # "dispatch"
  BY DEF Halted
<1>3. IndInv /\ Halted(r) /\ [Next]_vars => Halted(r)'
  BY HaltedStays
<1> QED BY <1>1, <1>2, <1>3, IndInvInit, IndInvNext, PTL DEF Spec
===============================================================================
