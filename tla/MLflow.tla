--------------------------------- MODULE MLflow --------------------------------
(***************************************************************************)
(* The MLflow tracking store and model registry (store/mlflow.go behind    *)
(* server/mlflow.go).  Every operation changes the store's maps under its  *)
(* mutex and then persists all of them; a persist that fails is told to    *)
(* the client and leaves the maps changed.                                 *)
(*                                                                         *)
(* Times, statuses, descriptions, users and other tags than the run's name *)
(* are left out; a run has one parameter key and one metric key.           *)
(***************************************************************************)
EXTENDS Files, Naturals, Sequences, FiniteSets, SequencesExt

CONSTANTS ExpNames, ModelNames, RunNames,
          ParamValues,
          MaxExps,       \* bound on the experiment ids given out
          MaxRuns,       \* bound on the tracking runs
          MaxMetrics,    \* bound on the points of a run's metric
          MaxVersions,   \* bound on the versions of a model
          NoName         \* a run without a name, a tag or a parameter that is not set

ASSUME MLflowAssumption ==
    /\ {MaxExps, MaxRuns, MaxMetrics, MaxVersions} \subseteq Nat
    /\ NoName \notin RunNames \cup ParamValues
    /\ ExpNames # {}
    /\ IsFiniteSet(ModelNames)

VARIABLES
    ml,         \* what the process holds
    mlFile,     \* mlflow/state.json, which is read as an empty store when it is
                \* not there
    givenIds,   \* ids of experiments a client was told were created
    logged,     \* the parameter a client was told was logged, of each run
    careless    \* models of which a client moved a version without archiving

mlVars == <<ml, mlFile, givenIds, logged, careless>>

ExpId  == 1..MaxExps
RunId  == 1..MaxRuns
Stages == {"None", "Staging", "Production", "Archived"}
Point  == [value : 1..2, timestamp : 1..2]

NoExp   == [name |-> NoName, lifecycle |-> "none"]
NoMLRun == [exp |-> 0, lifecycle |-> "none", name |-> NoName, tag |-> NoName,
            param |-> NoName, metrics |-> <<>>]
Experiment == [name : ExpNames, lifecycle : {"active", "deleted"}]
MLRun   == [exp : ExpId, lifecycle : {"active", "deleted"},
            name : RunNames \cup {NoName}, tag : RunNames \cup {NoName},
            param : ParamValues \cup {NoName}, metrics : BoundedSeq(Point, MaxMetrics)]
Version == [name : ModelNames, version : 1..MaxVersions, stage : Stages]

EmptyML == [nextExp |-> 0, exps |-> [i \in ExpId |-> NoExp], runs |-> [r \in RunId |-> NoMLRun],
            models |-> {}, versions |-> [n \in ModelNames |-> <<>>]]

IsML(m) ==
    /\ m.nextExp \in 0..MaxExps
    /\ \A i \in ExpId : m.exps[i] \in Experiment \cup {NoExp}
    /\ \A r \in RunId : m.runs[r] \in MLRun \cup {NoMLRun}
    /\ m.models \subseteq ModelNames
    /\ \A n \in ModelNames : /\ Len(m.versions[n]) <= MaxVersions
                             /\ Range(m.versions[n]) \subseteq Version

MLTypeOK ==
    /\ IsML(ml)
    /\ IsML(mlFile)
    /\ givenIds \subseteq ExpId
    /\ logged \in [RunId -> ParamValues \cup {NoName}]
    /\ careless \subseteq ModelNames

MLInit ==
    /\ ml = EmptyML /\ mlFile = EmptyML
    /\ givenIds = {} /\ logged = [r \in RunId |-> NoName] /\ careless = {}

--------------------------------------------------------------------------------
(* The file                                                                    *)

\* persistLocked writes the versions model by model, in an order that Go's map
\* chooses: the versions named n of the file, and how many of them come up to one.
RowsNamed(vs, n) ==
    {p \in UNION {{k} \X (DOMAIN vs[k]) : k \in ModelNames} : vs[p[1]][p[2]].name = n}
RowsUpTo(rows, place, p) ==
    {q \in rows : \/ place[q[1]] < place[p[1]]
                  \/ q[1] = p[1] /\ q[2] <= p[2]}

\* openMLflow appends each to the model of the name in its row.
Appended(vs, n, place) ==
    LET rows == RowsNamed(vs, n)
    IN [i \in 1..Cardinality(rows) |->
           LET p == CHOOSE q \in rows : Cardinality(RowsUpTo(rows, place, q)) = i
           IN vs[p[1]][p[2]]]

openMLflow ==
    /\ \E place \in Injection(ModelNames, 1..Cardinality(ModelNames)) :
          ml' = [mlFile EXCEPT !.versions =
                    [n \in ModelNames |-> Appended(mlFile.versions, n, place)]]
    /\ UNCHANGED <<mlFile, givenIds, logged, careless>>

StoredNextExp(m) == m.nextExp

\* The outcomes of persistLocked with m in memory.
persistML(m) == WriteAndRename(mlFile, [m EXCEPT !.nextExp = StoredNextExp(m)])

\* An operation that leaves m, and persists it.
Ends(m, o) == proc = "up" /\ ml' = m /\ mlFile' = o.file /\ ServedOn(o)
Changes(m) ==
    /\ \E o \in persistML(m) : Ends(m, o)
    /\ UNCHANGED <<givenIds, logged, careless>>

\* One that is refused with m in memory, before it persists.
Refuses(m) ==
    /\ proc = "up"
    /\ ml' = m
    /\ UNCHANGED <<proc, mlFile, givenIds, logged, careless>>

--------------------------------------------------------------------------------
(* Experiments                                                                 *)

Active(i) == ml.exps[i].lifecycle = "active"
NameTaken(n, but) == \E i \in ExpId \ but : Active(i) /\ ml.exps[i].name = n

CreateExperiment(n) ==
    LET i == ml.nextExp + 1
        m == [ml EXCEPT !.nextExp = i, !.exps[i] = [name |-> n, lifecycle |-> "active"]]
    IN /\ i \in ExpId
       /\ ~NameTaken(n, {})
       /\ \E o \in persistML(m) :
             /\ Ends(m, o)
             /\ givenIds' = IF o.end = "ok" THEN givenIds \cup {i} ELSE givenIds
       /\ UNCHANGED <<logged, careless>>

\* The lifecycle of the experiment is not looked at.
UpdateExperiment(i, n) ==
    /\ ml.exps[i] # NoExp
    /\ ~NameTaken(n, {i})
    /\ Changes([ml EXCEPT !.exps[i].name = n])

DeleteExperiment(i) ==
    /\ ml.exps[i] # NoExp
    /\ Changes([ml EXCEPT !.exps[i].lifecycle = "deleted"])

MayRestore_Always(i) == TRUE
MayRestore(i) == ~NameTaken(ml.exps[i].name, {i})

RestoreExperiment(i) ==
    /\ ml.exps[i] # NoExp
    /\ MayRestore(i)
    /\ Changes([ml EXCEPT !.exps[i].lifecycle = "active"])

--------------------------------------------------------------------------------
(* Runs                                                                        *)

\* The name of a run is its name and the value of its mlflow.runName tag.
Named(run, n) == [run EXCEPT !.name = n, !.tag = n]

CreateRun(r, i, n) ==
    /\ ml.runs[r] = NoMLRun
    /\ Active(i)
    /\ LET run == [NoMLRun EXCEPT !.exp = i, !.lifecycle = "active"]
       IN Changes([ml EXCEPT !.runs[r] = Named(run, n)])

IsRun(r) == ml.runs[r] # NoMLRun
SetRun(r, run) == [ml EXCEPT !.runs[r] = run]

\* The status, and the name if there is one.
UpdateRun(r, n) ==
    /\ IsRun(r)
    /\ Changes(SetRun(r, IF n = NoName THEN ml.runs[r] ELSE Named(ml.runs[r], n)))

DeleteRun(r)  == IsRun(r) /\ Changes([ml EXCEPT !.runs[r].lifecycle = "deleted"])
RestoreRun(r) == IsRun(r) /\ Changes([ml EXCEPT !.runs[r].lifecycle = "active"])

\* SetTag of mlflow.runName renames the run, DeleteTag leaves its name.
SetTag(r, n) == IsRun(r) /\ Changes(SetRun(r, Named(ml.runs[r], n)))
DeleteTag(r) ==
    /\ IsRun(r)
    /\ ml.runs[r].tag # NoName
    /\ Changes([ml EXCEPT !.runs[r].tag = NoName])

LogMetric(r, p) ==
    /\ IsRun(r)
    /\ Len(ml.runs[r].metrics) < MaxMetrics
    /\ Changes([ml EXCEPT !.runs[r].metrics = Append(@, p)])

ParamMayBe_Any(run, v) == TRUE
ParamMayBe(run, v) == run.param \in {NoName, v}

LogParam(r, v) ==
    LET m == [ml EXCEPT !.runs[r].param = v]
    IN /\ IsRun(r)
       /\ ParamMayBe(ml.runs[r], v)
       /\ \E o \in persistML(m) :
             /\ Ends(m, o)
             /\ logged' = IF o.end = "ok" THEN [logged EXCEPT ![r] = v] ELSE logged
       /\ UNCHANGED <<givenIds, careless>>

\* LogBatch: the parameters vs, in order, then the run name tag n and a point.
\* What came before an item that is refused stays.
BatchTag(run, n) == IF n = NoName THEN run ELSE Named(run, n)
Logged(r, vs) == [ml.runs[r] EXCEPT !.param = IF vs = <<>> \/ @ # NoName THEN @ ELSE vs[1]]

LogBatchRefusesParam(r, vs) ==
    /\ IsRun(r)
    /\ \E i \in DOMAIN vs : vs[i] # Logged(r, vs).param
    /\ Refuses(SetRun(r, Logged(r, vs)))

Batched(r, vs, n, ps) == [BatchTag(Logged(r, vs), n) EXCEPT !.metrics = @ \o ps]

\* A parameter, a tag or, after the points ps, a metric without a key.
LogBatchRefusesKey(r, vs, n, ps) ==
    /\ IsRun(r)
    /\ \A i \in DOMAIN vs : vs[i] = Logged(r, vs).param
    /\ Len(Batched(r, vs, n, ps).metrics) <= MaxMetrics
    /\ Refuses(SetRun(r, Batched(r, vs, n, ps)))

LogBatch(r, vs, n, ps) ==
    LET m == SetRun(r, Batched(r, vs, n, ps))
    IN /\ IsRun(r)
       /\ \A i \in DOMAIN vs : vs[i] = Logged(r, vs).param
       /\ Len(Batched(r, vs, n, ps).metrics) <= MaxMetrics
       /\ \E o \in persistML(m) :
             /\ Ends(m, o)
             /\ logged' = IF o.end = "ok" /\ vs # <<>> THEN [logged EXCEPT ![r] = vs[1]]
                          ELSE logged
       /\ UNCHANGED <<givenIds, careless>>

\* LatestMetrics, for the one key.
Better(new, cur) ==
    \/ new.timestamp > cur.timestamp
    \/ new.timestamp = cur.timestamp /\ new.value > cur.value
Latest(best, p) == IF best = <<>> \/ Better(p, best[1]) THEN <<p>> ELSE best
LatestMetrics(ps) ==
    LET upTo[k \in 0..Len(ps)] == IF k = 0 THEN <<>> ELSE Latest(upTo[k - 1], ps[k])
    IN upTo[Len(ps)]

--------------------------------------------------------------------------------
(* The model registry                                                          *)

CreateModel(n) ==
    /\ n \notin ml.models
    /\ Changes([ml EXCEPT !.models = @ \cup {n}])

RenamedRows_OldName(vs, n) == vs
RenamedRows(vs, n) == [i \in DOMAIN vs |-> [vs[i] EXCEPT !.name = n]]

\* To its own name or a free one, with its versions.
RenameModel(n, to) ==
    LET rows == RenamedRows(ml.versions[n], to)
        m    == [ml EXCEPT !.models = (@ \ {n}) \cup {to},
                           !.versions = [@ EXCEPT ![n] = <<>>, ![to] = rows]]
    IN /\ n \in ml.models
       /\ to \notin ml.models \ {n}
       /\ \E o \in persistML(m) : Ends(m, o)
       /\ careless' = IF n \in careless THEN careless \cup {to} ELSE careless
       /\ UNCHANGED <<givenIds, logged>>

DeleteModel(n) ==
    /\ n \in ml.models
    /\ Changes([ml EXCEPT !.models = @ \ {n}, !.versions[n] = <<>>])

\* Descriptions: what is new is that the rest is persisted again.
UpdateModel(n) == n \in ml.models /\ Changes(ml)
UpdateModelVersion(n, v) == n \in ml.models /\ v \in DOMAIN ml.versions[n] /\ Changes(ml)

CreateModelVersion(n) ==
    LET v == Len(ml.versions[n]) + 1
    IN /\ n \in ml.models
       /\ v <= MaxVersions
       /\ Changes([ml EXCEPT !.versions[n] =
                     Append(@, [name |-> n, version |-> v, stage |-> "None"])])

ArchiveFrom(s) == {s}

\* The version that is moved keeps its stage s, the others in s are archived.
Archived(vs, v, s) ==
    [i \in DOMAIN vs |-> IF i # v /\ vs[i].stage \in ArchiveFrom(s)
                         THEN [vs[i] EXCEPT !.stage = "Archived"] ELSE vs[i]]

TransitionStage(n, v, s, archive) ==
    LET vs == IF archive THEN Archived(ml.versions[n], v, s) ELSE ml.versions[n]
        m  == [ml EXCEPT !.versions[n] = [vs EXCEPT ![v].stage = s]]
    IN /\ n \in ml.models
       /\ v \in DOMAIN ml.versions[n]
       /\ archive => s \in {"Staging", "Production"}
       /\ \E o \in persistML(m) : Ends(m, o)
       /\ careless' = IF archive THEN careless ELSE careless \cup {n}
       /\ UNCHANGED <<givenIds, logged>>

--------------------------------------------------------------------------------
(* Requests                                                                    *)

ExperimentRequest ==
    \/ \E n \in ExpNames : CreateExperiment(n)
    \/ \E i \in ExpId, n \in ExpNames : UpdateExperiment(i, n)
    \/ \E i \in ExpId : DeleteExperiment(i) \/ RestoreExperiment(i)

RunRequest ==
    \/ \E r \in RunId, i \in ExpId, n \in RunNames \cup {NoName} : CreateRun(r, i, n)
    \/ \E r \in RunId, n \in RunNames \cup {NoName} : UpdateRun(r, n)
    \/ \E r \in RunId : DeleteRun(r) \/ RestoreRun(r) \/ DeleteTag(r)
    \/ \E r \in RunId, n \in RunNames : SetTag(r, n)

LogRequest ==
    \E r \in RunId :
       \/ \E p \in Point : LogMetric(r, p)
       \/ \E v \in ParamValues : LogParam(r, v)
       \/ \E vs \in BoundedSeq(ParamValues, 2) :
             \/ LogBatchRefusesParam(r, vs)
             \/ \E n \in RunNames \cup {NoName}, ps \in BoundedSeq(Point, 1) :
                   LogBatchRefusesKey(r, vs, n, ps) \/ LogBatch(r, vs, n, ps)

RegistryRequest ==
    \E n \in ModelNames :
       \/ CreateModel(n)
       \/ \E to \in ModelNames : RenameModel(n, to)
       \/ DeleteModel(n)
       \/ UpdateModel(n)
       \/ CreateModelVersion(n)
       \/ \E v \in 1..MaxVersions : UpdateModelVersion(n, v)
       \/ \E v \in 1..MaxVersions, s \in Stages, archive \in BOOLEAN :
             TransitionStage(n, v, s, archive)

--------------------------------------------------------------------------------
(* Properties                                                                  *)

\* Two active experiments never have the same name, in memory or on disk, through
\* renames of deleted experiments, restores and restarts on an older file.
ActiveExperimentsDiffer ==
    \A m \in {ml, mlFile} : \A i, j \in ExpId :
        /\ m.exps[i].lifecycle = "active" /\ m.exps[j].lifecycle = "active"
        /\ m.exps[i].name = m.exps[j].name
        => i = j

\* The next experiment gets an id that no client was given for another one,
\* also after a restart.
NextExperimentIsFresh == proc = "up" => \A i \in givenIds : i <= ml.nextExp

\* Neither names in use nor ids ever stand for two experiments.
ExperimentsStayApart == ActiveExperimentsDiffer /\ NextExperimentIsFresh

\* A parameter a client was told was logged keeps that value: no later call, no
\* batch that is refused half way and no restart changes it.
ConfirmedParamsHold ==
    proc = "up" => \A r \in RunId : logged[r] # NoName => ml.runs[r].param = logged[r]

\* Whichever of the four operations set it, and through batches that are refused
\* after it, a run's mlflow.runName tag is the run's name.
RunNameIsItsTag ==
    \A r \in RunId : ml.runs[r].tag \in {ml.runs[r].name, NoName}

\* The one point LatestMetrics reports is one that was logged, and no logged
\* point is later, or as late with a greater value.
LatestMetricsAreLatest ==
    \A r \in RunId : LET ps == ml.runs[r].metrics IN
        ps # <<>> => \E p \in Range(ps) :
            /\ LatestMetrics(ps) = <<p>>
            /\ \A q \in Range(ps) : \/ q.timestamp < p.timestamp
                                    \/ q.timestamp = p.timestamp /\ q.value <= p.value

\* A run reads back as it was written: its parameter, its name and its metric.
TrackedRunsReadBack == ConfirmedParamsHold /\ RunNameIsItsTag /\ LatestMetricsAreLatest

\* The versions of a registered model are numbered from 1 and carry its name,
\* and no name has versions without a model, through renames, deletes and
\* restarts that find each version's model by the name in its row.
VersionsFollowTheirModel ==
    proc = "up" => \A n \in ModelNames :
        /\ ml.versions[n] # <<>> => n \in ml.models
        /\ \A i \in DOMAIN ml.versions[n] :
              ml.versions[n][i].name = n /\ ml.versions[n][i].version = i

\* When the clients always archive what is in a stage, a model has at most one
\* version in Staging and one in Production.
OneVersionPerStage ==
    \A n \in ModelNames \ careless : \A s \in {"Staging", "Production"} :
        Cardinality({i \in DOMAIN ml.versions[n] : ml.versions[n][i].stage = s}) <= 1

\* The registry is consistent: versions belong to their model, and clients that
\* archive have one of them in a stage.
RegistryIsConsistent == VersionsFollowTheirModel /\ OneVersionPerStage
================================================================================
