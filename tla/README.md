# TLA+ models of the Databricks emulator

This directory holds TLA+ models of the emulator's server (`src/internal`), the
TLC configurations that check them on small instances, and theorems about them
with TLAPS proofs. The models are translated from the Go source; each
definition's source lines are in `PROJECT.json` under `map`.

- [The system](#the-system)
- [Modules](#modules)
- [How the models read the code](#how-the-models-read-the-code)
- [Runs](#runs)
- [What the code does not keep](#what-the-code-does-not-keep)
- [Proofs](#proofs)
- [Not modelled](#not-modelled)
- [Plan](#plan)

## The system

One Go process serves the Databricks REST API, a HiveServer2 Thrift endpoint, an
MCP endpoint and a few reverse proxies. `net/http` runs each request on its own
goroutine. State is in `internal/store`: one struct per API with a mutex and
maps, held in memory or in files under the data directory. Work that needs
computation goes to one attached Spark engine over HTTP (`internal/spark`);
catalog calls go to an optional Unity Catalog server (`internal/uc`). Whether an
engine is attached is settled when the process starts.

Handlers interact only through the store, and three habits of the code make that
hard to get right:

- a store call is atomic, but a handler is several of them with an engine call
  of up to five minutes in between, so what it checked can be gone when it acts;
- many store getters return the pointer the map holds. The handler then reads and
  writes the shared object with no lock, beside every other handler that has it;
- the file-backed stores change their maps first and write the whole file after,
  under one lock. Identity, groups and workspace objects are written in place;
  secrets, git, policies and MLflow go through a temporary file and a rename. When
  the write fails only `Groups.Create` takes the change back: elsewhere memory is
  ahead of the disk until the next write, and some deletes drop the error.

| component | state | operations | what is hard | what makes it correct |
|---|---|---|---|---|
| jobs runner | jobs, runs, one shared id counter; per run the executor's locals | create, reset, delete, run-now, cancel; `executeRun` and its task goroutines | a publish against a cancel; waves of goroutines; child runs; a reset under a running executor; termination | a run ends, once, and keeps what it said; its rows are those of its graph; a parent waits for and reports its children |
| task graph | none: pure functions | `depsSatisfied`, `shouldRun`, `evalCondition` | cycles, dangling edges, both arms of an if/else, joins after a skip | the wave loop computes what the graph says, whatever the order |
| HiveServer2 handles | sessions and operations with last-seen times | open, close, execute, metadata, fetch, close operation; reaping inside other calls | a session that goes away during its own statement; ceilings; equal times | bounded tables; a result leaves only for a stated reason; the oldest goes first |
| clusters, contexts, commands | cluster handles, contexts, commands, their states | create, start, delete; create and destroy a context; execute and cancel a command | the engine call between two store calls; two starts at once; a late answer | nothing waits for an answer nobody brings; an ended command keeps its status |
| SQL warehouses, statements | warehouses, statements, history | create, delete, start, stop; execute; list history | unlocked writes to the shared statement; a warehouse stopped or deleted under it; failure after success; pages that shift | each statement ends and is recorded once, as it ended; paging misses nothing |
| saved queries | queries, ACTIVE or TRASHED | create, update, trash | check-then-act on names; an update in several writes beside a trash | ACTIVE queries share a name only where two were being named at once; trashed stays trashed |
| MCP endpoint | none | executes SQL statements | as statements | as statements |
| identity | users, service principals, tokens, seed files | seed, create and delete tokens | a crash between files; a persist that fails after the memory changed | after a restart the tokens that work are those the client was told of |
| authentication, OIDC | keys fetched from the issuer | verify | key refresh | order of checks |
| secrets | scopes and keys, in memory and on disk | create, put, delete | a failing persist, a restart | memory and disk agree |
| git credentials and repos | repos, credentials, working trees | reserve, clone, finish, drop, update, delete | deletes, failing git calls, removals that stop half way and crashes between the steps | a repo a client was told of has its tree; a tree without a record, or with a token, is one something that failed left behind |
| groups | a directory in one file | create, delete, list by pages | a file written in place; a create taken back; pages that shift | ids and names stay apart; paging sees everything |
| cluster policies | definitions in one file | create, edit, delete; the check of a new cluster | the policy edited after it was read; defaults filled in after the check | a new cluster is compliant, but for a version it left out |
| workspace | objects of two files | import, export, mkdirs, delete | two writes per object; look before put | object and metadata agree |
| DBFS | files, upload handles | put, delete, move; create, add-block, close | two uploads of one path; a stale handle after a restart | an upload is its blocks |
| MLflow | experiments, runs, metrics, models and versions | the tracking and registry API | batches refused half way; renames and restores; restarts | names, ids, parameters and versions stay consistent |
| SQL shim, proxies, routing, TLS, configuration, generated Thrift | none of their own | | | |

## Modules

| module | what it is | code |
|---|---|---|
| `TaskDag` | tasks, rows and the pure functions of the runner, and the reference semantics `Blocked` and `VerdictOf` | `server/jobs.go`, `store/jobs.go` |
| `JobRuns` (extends `TaskDag`) | the job store, its handlers, `executeRun`, `runTask`, `runJobTask`, `runForEachTask` | `server/jobs.go`, `store/jobs.go` |
| `RunLifecycle` | abstract specification: what a client that polls a run is promised | |
| `JobRunsProps` | properties of `JobRuns` and the refinement mapping to `RunLifecycle` | |
| `JobRunsProofs` | theorems about the records of runs | |
| `JobRunsTaskProofs` (extends it) | theorems about waves, loops, child runs and results | |
| `HS2Sessions` | HiveServer2 handle tables | `hs2/service.go`, `hs2/metadata.go` |
| `HS2Proofs` | theorems about `HS2Sessions` | |
| `CommandExec` | clusters, contexts and commands | `server/clusters.go`, `server/commands.go` and their stores |
| `CommandExecProofs` | theorems about `CommandExec` | |
| `SqlStore` | warehouses, statements, history, saved queries | `server/sql.go`, `server/queries.go`, `store/sql.go` |
| `SqlStoreProofs` | theorems about `SqlStore` | |
| `Files` | what a write may do to a file and to the process | `os.WriteFile`, `os.Rename` as the stores use them |
| `IdentityStore`, `SecretStore`, `GroupStore`, `MLflow`, `DBFS`, `WorkspaceStore`, `PolicyStore` (extend `Files`) | one store each, in memory and on disk | `store/*.go`, `server/*.go` of the same names |
| `DataDir` (composes the seven) | a process on its data directory: start, requests, crash, start again | `store/store.go`, `store/identity.go` |
| `DataDirProofs` | theorems about `DataDir`: identity, secrets, groups, workspace, policies | |
| `FileStoreProofs` | theorems about `DataDir`: DBFS and MLflow | |
| `Repos` (extends `Files`) | git credentials, repos and their working trees | `server/git.go`, `store/git.go`, `gitcmd/gitcmd.go`, `server/workspace.go` |
| `ReposProofs` | theorems about `Repos` | |
| `MCJobRuns`, `MCHS2`, `MCExec`, `MCSql`, `MCDataDir`, `MCRepos` | the small instances TLC checks | |

**JobRuns.** `nextID`, `jobs`, `tasks` and `runs` are the store. `tasks[j]` belongs
to the Job object and outlives its deletion from the map, because executors hold
the pointer. For each run `pc`, `list`, `loaded`, `remaining`, `results`, `flight`
and `iters` are the locals of `executeRun` and of its goroutines; `depth` and
`caller` are its arguments. `flight` is what `wg.Wait` waits for. One wave is
`CheckCancelled`, `Dispatch`, then a step of each task goroutine in any order;
`SkipTheRest` is the branch for a graph in which nothing is ready. The dispatch
loop decides skips and conditions itself, so they are part of `Dispatch`; that is
one step because the goroutines it starts meanwhile write only rows of tasks of
the same wave, which no decision of that wave reads. `StartRun`, `Publish` and
`FailWithoutEngine` go through `UpdateRun`, which drops a publish to a cancelled
run. A run is created and handed to its executor in one step (`jobsRunNow`,
`RunJobStarts`): the job looked up just before by `Get` may be deleted in between,
which the model covers by deleting it just after, since the executor keeps the
pointer either way.

**HS2Sessions.** One action per Thrift call that returns under one lock, two for
the calls that release it while the engine works (`ExecuteStatement`,
`StatementEnds`; `MetadataCall`, `finishMeta`). `reapLocked` is part of every
action whose code calls it, as a relation, since Go's map order decides between
handles with equal times.

**CommandExec and SqlStore.** A handler in flight is a member of `Calls` with a
location `at[c]` and the object `obj[c]` it works for. A step is one store call, one
unlocked write through a shared pointer, or an answer of the engine or the
catalog. In `SqlStore` a step `Settle` stands for the write of the status and the
`UpdateStatement` that puts the same pointer back; the write of `SUCCEEDED` before a
table is registered is its own step, as readers can see it. The ids of one counter
are shared by warehouses, statements and queries, as in the code. Two ghost variables
record what a property about names has to know of the past: `taken[c]` are the queries
that were given the name handler `c` found free, between that check and its write, and
`rivals[q]` those that were given the name of query `q` in that window.

**DataDir.** `proc` is where the process is: not running, at a step of
`ensureSeeded`, opening the stores, or up. Each store has its memory, its file and
ghost variables for what clients were told (`issued`, `deleted`, `revoked`; `told`;
`named`; `givenIds`, `logged`, `careless`; `alone`; `damaged`). A store persists under
its lock, so an operation and its write are one action, with the write's outcome
chosen in it: `WriteFile` can be made, refused with the file old or torn, or be
the last thing the process does, and `WriteAndRename` the same without the torn
file. Memory means nothing while the process is down; `Open` overwrites it
with what each store reads. What a handler looks at before it calls the store is a
step of its own (`LookAtScope`, `LookForObject`, `enforcePolicy`), and so is every
page and every block a client sends. `dir` and `inode` of `DBFS` are paths and
files as the operating system has them: an upload handle keeps the file it opened,
whatever happens to the path.

**Repos.** A handler in flight is a member of `Calls` with the step it is at; each store
call, git command and removal is one step. `tree[p]` is what is on disk at a
path: nothing, a partial clone or a clone, the token in its origin, and objects
that clients imported there. A partial clone
holds the token already: git writes the URL it clones from to `.git/config` before it
fetches. A removal (`os.RemoveAll`, also inside `Workspace.Delete`) goes through a tree
bit by bit (`RemovePart`), and at any of them it may fail, with the error dropped by
the clean-up and by `reposDelete` (`Remove`), or told to the client by `workspaceDelete`
(`workspaceDeletePart`). `promised` are the repos a client was told exist and nobody
asked to delete; `left` are the paths where a call that ended left something behind: a
crash, a removal or a set-url that failed, a delete during the clone. The properties
exempt those paths, until a removal goes through there.

## How the models read the code

- **Data.** Code tasks (notebook, python, SQL, dbt) are one answer, `SUCCESS` or
  `FAILED`. A condition's operand is its text and the number `ParseFloat` makes of
  it, if any. An unknown `run_if` behaves as `ALL_SUCCESS`, the default branch of the
  code, so `RunIfs` lists the known ones. A task record is one `parseTask` accepts:
  a `for_each` has at least one input, and its inner task is neither `for_each` nor
  `run_job` (jobs.go:320-324, 1028), which is why an iteration is one answer. Of a saved query
  the name is kept; a display name is what the client asked for and the suffix
  `ResolveDisplayName` appended, and what clients ask for has no such suffix.
  Of the file-backed stores: a token and a client secret are the number of the
  random value drawn; a group is its display name; an MLflow run has one parameter
  key, one metric key and, of the tags, `mlflow.runName`; an uploaded block is the
  upload it belongs to; the content of a workspace object is the kind it was
  imported as; a policy has a rule for a name and a rule for a number, and a name that is
  left out is the empty string (`"unset"`), which a rule may hold like any other, as
  `ValidateDefinition` looks at no value; a repo is its
  path and credential, without commits and branches.
  The rows of `mlflow/state.json` that one start reads come model by model in any order of
  the names, as `persistLocked` ranges over a Go map; a start then appends each row
  to the model it names.
- **Engine.** Whether one is attached never changes: `JobRuns` and `CommandExec` choose
  `attached` in `Init`, `SqlStore` has the constant `Attached`. An engine call ends
  with any of its answers after any delay.
- **Data races.** `job.Tasks` is read with no lock while `jobs/reset` stores a new
  slice. `ReadTasks` reads either list; `ResetDuringRead` reads a header made of
  one array and the other length. A length longer than its array would read past
  the array and is not modelled. Each unlocked string write is a step of its own.
- **Bounds.** `MaxID`, `MaxJobID`, `MaxRunNowID`, `MaxCluster`, `MaxWarehouse`,
  `MaxSession`, `MaxOp`, `MaxTime`, `MaxSuffix`, `MaxTokens`, `MaxSecrets`, `MaxGroups`,
  `MaxExps`, `MaxRuns`, `MaxMetrics`, `MaxVersions`, `MaxInodes`, `MaxBlocks`, `MaxPolicies`,
  `MaxWorkers` and `MaxRepo` bound what the code leaves unbounded or bounds higher
  (999 suffixes, `maxRunJobDepth` 5, the TTL of 1800 seconds, 512 sessions, 2048
  operations). Three bounds of `DataDir` are conditions: in one behaviour the
  clients use one store (`Workloads`), since the stores share nothing but the
  start; a start fails or is cut short only where the clients use tokens (`StartMayFail`), as
  only the identity writes while it starts; and, in the instance TLC checks, a persist of
  MLflow is refused only while memory has nothing that is not on disk (the action
  constraint `OneWriteAhead` of `MCDataDir`), so one refused write at a time is ahead of
  it. The module has no such bound, and neither have the proofs.
- **Deadlock** is not checked: clients may stop sending requests, and every
  execution stops when the ids of the instance are used up.
- **Fairness.** Weak fairness of every executor, of the task goroutines of every
  run, and of every handler in flight. The Go scheduler runs every runnable
  goroutine, no goroutine here waits on a client, and an engine call ends within
  the HTTP client's five-minute timeout (`internal/spark/spark.go:90`). No fairness is assumed
  of clients, of the clock, or of a restart.

## Runs

All runs are in `PROJECT.json`. State counts are distinct states.

| run | bounds | states | shows |
|---|---|---|---|
| `graph` | one job, one run, 1,200 graphs over three keys and one that no task has, and two pairs of loops | 121,000 | `WavesComputeTheGraph`: the rows at the end are those of the graph, evaluated on final results with no waves in the definition. `DependenciesEndFirst`, `SuccessIsEarned`, `ForEachIsBoundedAndCounted` |
| `nested` | two jobs, three runs or more, nesting bound 2 | 110,000 | the record follows the executor, ended runs keep their record, parents wait for their children and report them, the life cycle is implemented |
| `live` | one job, up to three runs deep, resets | 11,600 | every run ends, a stored cancel stops later waves, no task is lost or dispatched twice |
| `reap` | two sessions over time, three operations, two calls, ceilings 1 and 2 | 64,000 | ceilings hold for sessions and statement results; results leave for a reason; sessions take their results; the oldest is evicted |
| `exec` | one cluster, four contexts and commands, two handlers | 159,000 | nothing is abandoned, commands follow the probe, ended commands keep their status, everything settles, no handle stays without an engine |
| `sql` | one warehouse, two statements or three queries, two handlers that both do either, pages of one, an engine | 566,000 | the history tells the outcome, names are shared by rivals only, paging misses nothing, trashed stays trashed, every statement ends |
| `datadir` | three tokens; two scopes, one key, two values; three groups in pages of one; three experiments; one run with two points; two models of two versions; two uploads of two blocks; one object, two imports; one policy of ten definitions | 710,000 | through failed and torn writes, crashes at every step and restarts: tokens that were issued work and revoked ones do not come back; the seeded secrets are ones the server accepts; a confirmed secret holds and none is kept of a vault; group ids and names stay apart and paging sees all; only files written in place refuse a start; the names, ids, parameters, metrics, versions and stages of MLflow; an upload is its blocks; metadata follows bytes; new clusters comply, but for a version they left out |
| `repos` | one path, one credential, two ids, two handlers, removals bit by bit, crashes | 2,800,000 | no two repos share a path; a repo a client was told of has its record and its tree; a refused create leaves no tree, and no token stays, but where a crash, a removal or a set-url failed |
| `v_cancel`, `v_reset`, `v_exec_cancel`, `v_token` | | | a sentence of the repository the code does not keep; see below |

Why the bounds are enough. Three tasks are the smallest graph with a join, a fork,
both arms of a condition and a cycle, and the fourth key makes an edge dangle. Two
jobs and a nesting bound of two give a parent, a child, a grandchild and the
refusal. In `live` the bound on ids leaves room for every child run, so no
goroutine is stuck for lack of an id. Ceilings of one and two are reached, passed
and reached again with three operations, and a TTL of one second expires within
the four instants. Two handlers are the fewest that interleave, and no
property of `CommandExec` or `SqlStore` relates more than two; one warehouse that
can be started, stopped and deleted is all a statement reads. One suffix and three
queries reach a clash, its resolution and the end of the suffixes. In `datadir` three
tokens are the seeded one, one of a second seeding and an issued one, and two client secrets two
seedings; three groups give a page before, at and after a delete, and an
id after a create that was taken back; three experiments give two of one name, one
of them deleted, and a restore between them; two versions are one to move and one to archive; two uploads of two
blocks overlap on a path or take turns. In `repos` two handlers on one path are
the conflict there is: every step of a handler reads and writes its own path
only, except the delete of the folder above, which is an action.

In `sql` both handlers may create and rename queries at once. Two of them can find one
name free and both take it, since the check and the write are two critical sections
(`store/sql.go:261`, `server/queries.go:47`); the run reaches that.
`OnlyRivalsShareAName` says that it is the only way: two ACTIVE queries share a name
only where one was given it in the window of the other's. It names the queries, so
another race, or one long over, excuses nothing. The run has an engine attached;
without one every statement is refused at its check, which `StatementRefused` allows
in any case.

`NothingIsAbandoned` and its relatives are about a process that keeps running:
these stores are in memory only, so nothing survives a restart.

Some properties are conjunctions of named parts about one subject (`TokensAreAsTold`,
`GroupsStayApart`, `ExperimentsStayApart`, `TrackedRunsReadBack`, `RegistryIsConsistent`,
`RecordsAndTreesAgree`, `CeilingsHold`, `ForEachIsBoundedAndCounted`,
`ParentsReportTheirChildren`); the parts are stated and commented one by one.
Every module has a `TypeOK`. Those of `JobRuns`, `CommandExec`, `HS2Sessions`, `SqlStore`
and `Repos` are theorems of their own, and what the proofs about `DataDir` need of its
stores' types is part of their invariants, so no run lists one.

Several properties of `datadir` and `repos` say what they do not cover, because the code
does not keep it there: a token whose deletion was not written, an object whose two
writes were cut short, an upload over one that is still open, the version of a cluster
that named none under a rule that a missing version meets, a tree whose removal
failed. Each exemption is as narrow as TLC lets it be and is
listed among the hazards.

## What the code does not keep

Each violation run states what a doc, a comment or a test says and shows a
behaviour of the model that breaks it.

- `v_cancel`: a cancelled run's child run goes on dispatching waves.
- `v_reset`: a run whose job is reset while it runs can report SUCCESS with rows
  of tasks that never ran, or without the row of the task that failed.
- `v_exec_cancel`: the engine's answer overwrites a cancelled command.
- `v_token`: an update of a repo puts the token into the origin and restores it in a
  deferred call under the same context; when that call fails, the token stays in the
  working tree.

Met while modelling, in the models, and without a run of their own:

- condition tasks are said to need no engine; a run of condition tasks alone fails
  without one (`server/jobs.go`, `FailWithoutEngine`);
- metadata calls store HiveServer2 operations and never reap, so the ceiling on
  operations is passed (`hs2/metadata.go:41`); a metadata result is born with a last-seen
  time of zero, so the next reap takes it; a statement whose session goes away while the
  engine runs stores a result that no session owns (`hs2/service.go:308`); fetching a
  result keeps the operation alive and not its session (`service.go:88`);
- commands are executed on a context whose cluster was deleted
  (`server/commands.go:104`); a command can be created in a context that was destroyed
  since the check (`commands.go:112`); two starts of one cluster can leave it RUNNING
  with the other's failure message (`clusters.go:175`);
- a reader can see a statement SUCCEEDED and later FAILED (`sql.go:178`); an update of a
  saved query that ends in 404 keeps what it had written (`queries.go:145`);
- `DeletePAT` drops the error of its persist, so a token the client was told is gone
  is back after a restart (`store/identity.go:148`); a torn `identity.json` or groups
  file refuses every later start (`identity.go:82`, `store/groups.go:85`);
- a workspace object whose second write fails has the metadata of its predecessor
  (`store/workspace.go:89`);
- the number of a DBFS handle is given out again after a restart, so a client that kept
  one writes into another's upload (`store/dbfs.go`);
- a `LogBatch` that is refused half way keeps the items before (`store/mlflow.go`);
- a page of groups shifts when a group before it is deleted
  (`server/scim_groups.go`);
- a policy that forbids the Spark version, fixes it to the empty string or allows the
  empty string admits a cluster that names none, which then gets the emulator's and is
  not compliant (`server/clusters.go:60`);
- two creates, or a create and a rename, at once can give two ACTIVE queries one
  display name (`store/sql.go:261`);
- the errors of `os.RemoveAll` and `Workspace.Delete` are dropped (`server/git.go:171`,
  `178`, `277`): after a removal that failed half way a refused create, or a delete the
  client was told is done, leaves a tree without a record, and a clone that was killed
  leaves its token in it;
- the clean-up of a refused create drops the record before it removes the path, so a
  create in between loses its tree (`server/git.go:170`); two updates of one repo
  restore each other's token; a comment says a repo whose credential is gone fails its
  next update (`store/git.go:241`), which falls back to another credential.

## Proofs

The theorems hold for every value of the constants that satisfies the assumption of
the module, and for any number of handlers in flight. TLC evaluates each assumption
on the runs of its module. Of the 40 properties of the passing runs 37 are
stated by a theorem, `SuccessIsEarned` under the condition that no client resets a job
(with resets it is false, as `v_reset` shows); the three that are only model-checked are liveness.

What the assumptions say, beyond that bounds are numbers:

- `JobsAssumption`: clients' ids are within `MaxID`, and task lists are lists `parseTask`
  accepts. `HS2Assumption`: both ceilings are at least one, and time zero, which
  a metadata result is born with, is past the TTL. `SqlAssumption`: the page size is not zero,
  and `Attached` is a truth value. `PolicyAssumption`: the definitions clients use are ones
  `ValidateDefinition` accepts.
- `ReposAssumption` and `DBFSAssumption`: the handlers and the uploads are finitely many,
  as they are in a process; both proofs count them. `MLflowAssumption`: so are the names of
  models, which a Go map holds.
- Values that stand for something else are no ordinary values: `Absent` and `Torn` are not
  the content of a file (nor `Absent` a path), `NoName` is not a name, `NoValue` not a secret,
  `NoGroup` not a display name.

**JobRunsProofs.** The inductive invariant is
`IndInv == TypeOK /\ RecordFollowsExecutor`. That a TERMINATED record never changes
is not inductive by itself: a publish overwrites whatever is there unless the run
was cancelled, so the proof needs to know that while an executor is active its run
is open or cancelled, and that it publishes its end once. `RecordFollowsExecutor`
says so for every place the executor can be at, and that ids above `nextID` are
unused, so a new run overwrites nothing. `StepOfRecords` then says what any step
does to any record, from which both finality and the refinement follow: each step
of the runner is one step of `RunLifecycle`, or leaves every status alone.

**JobRunsTaskProofs.** Four invariants on top of `IndInv`, each about one run at a time.

- `Waves`: a task remains, is in flight or has its row (`Placed`); no goroutine
  survives `wg.Wait` (`Barrier`); and each task that left `remaining` either was dispatched
  with all its dependencies recorded, and its row is what the graph says, or was left
  over (`Decisions`). The step to the reference semantics is that the tasks no wave
  can reach, those `remaining` when nothing is ready, are exactly `Blocked`: `Blocked` is the
  union of all sets that block themselves, so what remains is one of them and no
  dispatched task is in any. `WavesAreTheGraph`, `TasksAreNeverLost` and
  `TasksWaitForTheirDependencies` follow. No induction over waves is needed.
- `Loops`: while a loop is in flight its slots are its inputs and no more run than the
  semaphore admits; afterwards its row is the count of them (`ForEachCountsWithinItsLimit`).
- `ChildInv`: a run started for a task has that task still waiting, or its row already is
  the child's result, and no task has two. `ChildrenAreReported` needs it together with
  `RecordFollowsExecutor`: a cancelled child is TERMINATED long before its executor returns.
- `ListInv`: without resets the list read at the start is the list read at the end, so each
  row that is shown belongs to a task that was loaded and decided. That is the premise
  of `SuccessIsEarnedWithoutResets`; with resets the statement is false, which is
  what `v_reset` shows.

`CancelIsObeyed` is a temporal statement that needs no fairness: a run that is cancelled and
not already dispatching stays so (`HaltedStays`), since an executor looks at its record each time
it comes to the loop head and the record never becomes open again.

**HS2Proofs.** `HS2Inv` is `TypeOK` and that a stored result or a call in flight belongs to a
handle handed out before (`OwnersAreKnown`): a session opened now cannot own an old
result. `Reaping` describes once what `reapLocked` may leave: idle sessions and operations
leave, then one more if a table is full, each with its reason; the other theorems
read it off for each action that calls it. The ceiling of the results follows from
removing one whenever the table is full before one is added.

**CommandExecProofs.** `ExecTypeCorrect`, `NothingIsEverAbandoned`,
`CommandsAlwaysFollowTheProbe` and `EndedCommandsAreNotRelabelled`. The inductive
invariant `ExecInv` adds to the properties
themselves that ids not handed out are in nobody's hands (`FreshIds`), that a stored
command names a context (`CommandsHaveContexts`) and that a command has one handler
that will finish it, which does not find it ended (`OneFinisher`). Without the last
one a second answer could relabel an ended command; without the first, a context
created now could be one that a handler already works on.

**SqlStoreProofs.** `HistoryIsTrue` needs that each statement in flight has one handler, is not in
the history, and has the status of the place its handler is at (`StatementInv`); a
second handler could record it again or change it after. `TrashIsFinal` follows from what
an update may write. `PagesShowEverything` is `DueIsAhead`: what the client has not been shown is
behind its offset, and entries put in front only push it further. `RivalsAloneShareNames`
is `NamesInv`, for any number of handlers: beside the property, that every ACTIVE query
with the name a handler is about to write was given it after that handler's check
(`NamesAreWatched`). The check makes that true, `GiveName` keeps it, and at the write what
is watched becomes the new query's `rivals`. Ids come from one counter for warehouses, statements
and queries, so `SqlInv` says of each that it is not past it.

**ReposProofs.** One invariant for all three properties, because each leans on the others. A create owns
the record it reserved, alone, and the record is on disk
(`OwnersHoldTheirRecord`); a repo a client was told of is on disk as in memory and cloned
(`PromisesAreKept`); a create that cloned still has its clone unless the path was
taken away (`ClonesAreThere`). A tree without a promise has a record that survives a
restart, or a handler that will remove it (`TreesAreTended`), and a token has a handler
that strips it or removes the tree, also while it is still cloning (`TokensAreTended`). A removal
that goes on keeps both (`PartRemoved`), one that is through leaves nothing to tend
(`AllRemoved`), and one that fails puts its path into `left` (`LeaveBehindRecords`). A
restart is where it matters that memory and file agree. `Room` counts the creates under way, which is why the
handlers must be finitely many.

**DataDirProofs and FileStoreProofs.** Each store has an invariant of its own over `Spec` of the whole
process, and one lemma that says what a step may do to that store (`IdentitySteps`,
`GroupSteps` and so on), so a step of another store is one case. They differ in what memory and disk owe
each other:

- tokens: memory and disk may each be ahead, so the invariant says of both what
  was promised, and that no number is drawn twice (`TokensAreTold`, `TokensAreCounted`);
- seeding: how far each step of `ensureSeeded` has come and what the files on disk say
  of it (`SeedInv`), from which any start either finds nothing, or finishes what an
  earlier one began, or finds it done. From it `StartsFailForTornFiles` too;
- secrets: only a scope that keeps its own values has any, on both sides, since a put
  may store under a scope of another backend than the one it looked at;
- groups: a directory and what was given out fit together (`Fits`), in memory and in the file,
  as a create that failed gives its number back only in memory. A client that pages is
  still to see only groups at or after its `startIndex` (`PagerInv`): the places of a list are
  1 to its length (`Positions`), so a page is full unless the list ends in it (`FullPages`), a group
  that is created comes after all others, and one that is deleted excuses the client;
- policies: what was checked complies as it is, and what is stored does with the version it
  was checked with, or with the emulator's in the place of a missing one (`ClusterFits`);
- DBFS: a path has its own file, a handle one owner, and nobody else has a handle on the
  file of an upload that is alone (`AloneIsWhole`); numbers of handles are counted
  against the uploads that began, as a restart starts them again;
- MLflow: the store in memory and the one on disk each hold what was told (`Holds`), because a
  restart may go back to the file after any number of refused writes. So does the registry
  (`RegistryInv`): the versions of a model stand in the order of their numbers with
  its name in each row, hence a start that reads the rows of all models in any order
  rebuilds what was written (`AppendedAgain`).

What `LatestMetrics` returns for a list of any length is an induction over the list. It is made
by way of a least counterexample (`LeastNumber`, from the library's `WFMin`): first
that the loop defines a function (`LoopRuns`), then what its value is (`LatestMetricIsBest`).

**Only model-checked.**

- Liveness: `EveryRunEnds`, `EverythingSettles` and `EveryStatementEnds`, which need
  fairness.

## Not modelled

- Column encoding and framing of HiveServer2 results, the SQL shim's rewriting, the
  script of a dbt task: text with no state.
- Reverse proxies, routing, configuration, TLS: wiring.
- Generated Thrift code: 33,142 of the implementation's 46,296 lines are
  `hs2/cliservice/cli_service.go`, written by the Thrift compiler. They serialise
  records and hold no logic of the emulator, so most lines of the implementation
  stand outside any model; of the others the map covers about a third.
- What is inside the engine. Its sessions are shared by name: two runs whose tasks
  have one key use one session.
- Authentication and OIDC: a key pair made at start and checks of one request
  against the identity, which is modelled. Signatures are cryptography.
- Workspace objects whose own path ends in `.wsmeta.json`, the suffix of the files that
  hold metadata, and repos below the path of another repo: a removal or an import of
  the one would be seen in the other.
- Directories of the workspace and of DBFS beyond the parents of working trees, reads
  and exports, the searches and filters of MLflow: they change nothing, or are paths
  built from text.

## Plan

Done, in this order: `TaskDag`, `JobRuns` with `RunLifecycle`, `HS2Sessions`,
`CommandExec`, `SqlStore`, and the proofs about `JobRuns` and `CommandExec`; then `Files`
with the seven file-backed stores, `DataDir`, and `Repos`; then the proofs about tasks,
HiveServer2, SQL, repos and the stores of `DataDir`, up to the paging of groups, the model
registry and the latest metric.

Next:

1. Facts about the reference definitions of `TaskDag`: that the blocked tasks of a graph are
   themselves a blocked set, and that the rows `VerdictOf` accepts are unique.
2. The types of the stores of `DataDir` that no proof needed, as one invariant.

Runs stay few: a new component brings one passing run, and questions about one
instance share it.
