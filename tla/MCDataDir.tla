------------------------------- MODULE MCDataDir -------------------------------
(***************************************************************************)
(* Small instances of DataDir.  Each behaviour has clients of one store:   *)
(* the stores meet only in the start, which runs through all of them.      *)
(***************************************************************************)
EXTENDS DataDir

OneStore == {{"tokens"}, {"secrets"}, {"groups"}, {"experiments"}, {"runs"}, {"registry"},
             {"dbfs"}, {"workspace"}, {"policies"}}

\* Every kind of rule for each of the two attributes, and two that hold the
\* version that is left out.
SomeDefinitions ==
    LET free  == [type |-> "unlimited"]
        other == [type |-> "fixed", value |-> "other"]
    IN {[version |-> other, workers |-> free],
        [version |-> [type |-> "forbidden"], workers |-> free],
        [version |-> [type |-> "range"], workers |-> free],
        [version |-> [type |-> "allowlist", values |-> {"other"}], workers |-> free],
        [version |-> [type |-> "allowlist", values |-> {"unset", "other"}], workers |-> free],
        [version |-> [type |-> "fixed", value |-> "unset"], workers |-> free],
        [version |-> free, workers |-> [type |-> "fixed", value |-> 1]],
        [version |-> free, workers |-> [type |-> "forbidden"]],
        [version |-> free, workers |-> [type |-> "range", min |-> 1, max |-> 2]],
        [version |-> other, workers |-> [type |-> "allowlist", values |-> {0, 2}]]}

\* A bound of the instance: MLflow's persist is refused only while memory has
\* nothing that is not on disk, so that one refused write at a time is ahead of
\* it.  Batches that are refused half way, which do not persist, are not bounded.
BatchRefused ==
    \E r \in RunId, vs \in BoundedSeq(ParamValues, 2) :
       \/ LogBatchRefusesParam(r, vs)
       \/ \E n \in RunNames \cup {NoName}, ps \in BoundedSeq(Point, 1) :
             LogBatchRefusesKey(r, vs, n, ps)

OneWriteAhead ==
    proc = "up" /\ proc' = "up" /\ ml # mlFile /\ ml' # ml
    => mlFile' # mlFile \/ ml' = mlFile' \/ BatchRefused
================================================================================
