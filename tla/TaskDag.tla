------------------------------- MODULE TaskDag -------------------------------
(***************************************************************************)
(* The task graph of a Jobs 2.2 definition: the records parseTask builds   *)
(* (internal/store/jobs.go, internal/server/jobs.go) and the pure          *)
(* functions executeRun decides with: depsSatisfied, shouldRun and         *)
(* evalCondition.  Blocked and VerdictOf are the reference definitions the *)
(* wave loop of JobRuns is checked against.                                *)
(***************************************************************************)
EXTENDS Integers, Sequences, FiniteSets

CONSTANT Keys              \* task keys a client may use

RunIfs == {"ALL_SUCCESS", "ALL_DONE", "AT_LEAST_ONE_SUCCESS", "ALL_FAILED",
           "AT_LEAST_ONE_FAILED", "NONE_FAILED"}

Outcomes == {"", "true", "false"}

(***************************************************************************)
(* An operand is its text and what strconv.ParseFloat makes of the trimmed *)
(* text: <<>> when it is not a number.                                     *)
(***************************************************************************)
Operand == [text : STRING, num : Seq(Int)]

conditionOps == {"EQUAL_TO", "NOT_EQUAL", "GREATER_THAN",
                 "GREATER_THAN_OR_EQUAL", "LESS_THAN", "LESS_THAN_OR_EQUAL"}

Condition == [op : conditionOps, left : Operand, right : Operand]

Dependency == [key : Keys, outcome : Outcomes]

(***************************************************************************)
(* One node of the DAG.  "code" stands for notebook, python, sql and dbt   *)
(* tasks: all of them end in one Spark.Run whose answer is SUCCESS or      *)
(* FAILED.  cond, job, inputs and concurrency matter to their own kind     *)
(* only; inputs is the number of decoded for_each inputs.                  *)
(***************************************************************************)
Task == [key : Keys, deps : SUBSET Dependency, runIf : RunIfs,
         kind : {"code", "condition", "run_job", "for_each"},
         cond : Condition, job : Nat, inputs : Nat, concurrency : Int]

TaskList == { ts \in Seq(Task) : ts # <<>> }

(***************************************************************************)
(* store.TaskRun; ZeroRow is Go's zero value, what a missing map key       *)
(* reads as.                                                               *)
(***************************************************************************)
TaskRun == [result : {"", "SUCCESS", "FAILED", "SKIPPED", "CANCELED"},
            outcome : Outcomes, child : Nat]

Row(res)         == [result |-> res, outcome |-> "", child |-> 0]
ConditionRow(o)  == [result |-> "SUCCESS", outcome |-> o, child |-> 0]
ChildRow(res, c) == [result |-> res, outcome |-> "", child |-> c]
ZeroRow          == Row("")

(***************************************************************************)
(* remaining[t.Key] = t for every element in order: of two tasks with one  *)
(* key the later one stays.                                                *)
(***************************************************************************)
byKey(ts) ==
    { ts[i] : i \in { n \in DOMAIN ts :
                        \A m \in DOMAIN ts : ts[m].key = ts[n].key => m <= n } }

Recorded(done) == { k \in Keys : done[k] # ZeroRow }

depsSatisfied_SomeDep(t, done) ==
    t.deps = {} \/ \E d \in t.deps : d.key \in Recorded(done)

depsSatisfied(t, done) == \A d \in t.deps : d.key \in Recorded(done)

runIfHolds(t, done) ==
    LET Is(d, s) == done[d.key].result = s
    IN  CASE t.runIf = "ALL_DONE" -> TRUE
          [] t.runIf = "AT_LEAST_ONE_SUCCESS" -> \E d \in t.deps : Is(d, "SUCCESS")
          [] t.runIf = "ALL_FAILED" -> \A d \in t.deps : Is(d, "FAILED")
          [] t.runIf = "AT_LEAST_ONE_FAILED" -> \E d \in t.deps : Is(d, "FAILED")
          [] t.runIf = "NONE_FAILED" -> \A d \in t.deps : ~Is(d, "FAILED")
          [] OTHER -> \A d \in t.deps : Is(d, "SUCCESS")

(***************************************************************************)
(* The edge outcomes are tested before run_if, as in the code.             *)
(***************************************************************************)
shouldRun(t, done) ==
    \/ t.deps = {}
    \/ /\ \A d \in t.deps : d.outcome # "" => done[d.key].outcome = d.outcome
       /\ runIfHolds(t, done)

Truth(b) == IF b THEN "true" ELSE "false"

(***************************************************************************)
(* == and != compare the texts, the four orderings compare the numbers; an *)
(* operand that is not a number orders as false.                           *)
(***************************************************************************)
evalCondition(c) ==
    IF c.op \in {"EQUAL_TO", "NOT_EQUAL"}
    THEN Truth((c.op = "EQUAL_TO") = (c.left.text = c.right.text))
    ELSE LET l == c.left.num
             r == c.right.num
         IN  Truth(/\ l # <<>> /\ r # <<>>
                   /\ \/ c.op = "GREATER_THAN"          /\ l[1] >  r[1]
                      \/ c.op = "GREATER_THAN_OR_EQUAL" /\ l[1] >= r[1]
                      \/ c.op = "LESS_THAN"             /\ l[1] <  r[1]
                      \/ c.op = "LESS_THAN_OR_EQUAL"    /\ l[1] <= r[1])

(***************************************************************************)
(* Reference semantics, with no waves in it.  Blocked(T) is the largest    *)
(* set of tasks each of which waits on an unknown key or on another        *)
(* blocked task: the cycles, the dangling edges and all that follows them. *)
(***************************************************************************)
Blocked(T) ==
    UNION { U \in SUBSET T :
              \A t \in U : \E d \in t.deps :
                 \/ \A u \in T : u.key # d.key
                 \/ \E u \in U : u.key = d.key }

(***************************************************************************)
(* The final rows agree with the graph: a task is skipped exactly when it  *)
(* is blocked or its final dependencies say it should not run, and a       *)
(* condition that ran carries its outcome.                                 *)
(***************************************************************************)
VerdictOf(T, done) ==
    \A t \in T :
        LET runs == t \notin Blocked(T) /\ shouldRun(t, done)
        IN  /\ done[t.key] # ZeroRow
            /\ (done[t.key].result = "SKIPPED") = ~runs
            /\ runs /\ t.kind = "condition" =>
                  done[t.key] = ConditionRow(evalCondition(t.cond))
===============================================================================
