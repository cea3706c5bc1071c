------------------------------ MODULE MCJobRuns ------------------------------
(***************************************************************************)
(* Small instances of JobRuns.                                             *)
(***************************************************************************)
EXTENDS JobRunsProps

Num(n, s) == [text |-> s, num |-> <<n>>]
NaN == [text |-> "x", num |-> <<>>]

Cond(o, l, r) == [op |-> o, left |-> l, right |-> r]
NoCond == Cond("EQUAL_TO", NaN, NaN)

On(k)       == [key |-> k, outcome |-> ""]
Branch(k, o) == [key |-> k, outcome |-> o]

Code(k, deps, runif) ==
    [key |-> k, deps |-> deps, runIf |-> runif, kind |-> "code", cond |-> NoCond,
     job |-> 0, inputs |-> 0, concurrency |-> 0]
IfElse(k, deps, c) == [Code(k, deps, "ALL_SUCCESS") EXCEPT !.kind = "condition", !.cond = c]
CallJob(k, deps, j) == [Code(k, deps, "ALL_SUCCESS") EXCEPT !.kind = "run_job", !.job = j]
Loop(k, n, c) ==
    [Code(k, {}, "ALL_SUCCESS") EXCEPT !.kind = "for_each", !.inputs = n, !.concurrency = c]

\* Every graph of three tasks a, b, c over these edges and run_ifs: chains,
\* forks, joins, both arms of an if/else, dangling keys, self loops, cycles.
FirstTasks ==
    { Code("a", {}, "ALL_SUCCESS"), Code("a", {On("c")}, "ALL_SUCCESS"),
      IfElse("a", {}, Cond("GREATER_THAN_OR_EQUAL", Num(12, "12.0"), Num(12, "12"))),
      IfElse("a", {}, Cond("EQUAL_TO", Num(12, "12.0"), Num(12, "12"))) }
SecondTasks ==
    { Code("b", deps, ri) : ri \in {"ALL_SUCCESS", "AT_LEAST_ONE_FAILED"},
        deps \in { {}, {On("a")}, {Branch("a", "true")}, {On("c")}, {On("b")} } }
ThirdTasks ==
    { Code("c", deps, ri) : ri \in RunIfs,
        deps \in { {}, {On("a"), On("b")}, {Branch("a", "false")},
                   {Branch("a", "false"), On("b")}, {On("z"), On("b")} } }
Graphs == { <<x, y, z>> : x \in FirstTasks, y \in SecondTasks, z \in ThirdTasks }

\* A two-wave job, and one that runs job 1: itself, when it is job 1.
CalledJob  == << Code("a", {}, "ALL_SUCCESS"), Code("b", {On("a")}, "ALL_DONE") >>
CallerJob  == << CallJob("a", {}, 1), Code("b", {On("a")}, "NONE_FAILED") >>
NestedLists == { CalledJob, CallerJob }

\* Two lists of different lengths to reset between, one with a repeated key.
ShortList == << Code("a", {}, "ALL_SUCCESS") >>
LongList  == << Code("b", {}, "ALL_SUCCESS"), Code("b", {On("a")}, "ALL_DONE"),
                Code("a", {}, "ALL_SUCCESS") >>
ResetPair == { ShortList, LongList }
ResetList == { LongList }

LoopLists == { << Loop("a", 3, 0), Loop("b", 2, 2) >>, << Loop("a", 3, 2), Loop("b", 2, 5) >> }

GraphsAndLoops == Graphs \cup LoopLists
===============================================================================
