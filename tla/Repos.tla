--------------------------------- MODULE Repos ---------------------------------
(***************************************************************************)
(* Git credentials and repos (store/git.go, server/git.go) on the          *)
(* workspace tree (store/workspace.go), with the git commands in between   *)
(* (gitcmd).  A handler holds no lock across its steps: each call of the   *)
(* store, each git command and each removal is a step of its own, and      *)
(* other handlers and a crash come between them.                           *)
(*                                                                         *)
(* Commits, branches and URLs are left out: a working tree is absent,      *)
(* partly cloned or cloned, its origin holds the token of a credential or  *)
(* none, and it holds objects imported by clients or not.  Every git       *)
(* command may fail; the end of the handler's context (gitOpTimeout, or    *)
(* the client gone) is one of the reasons.  A removal goes through the     *)
(* tree bit by bit and may fail at any of them.                            *)
(***************************************************************************)
EXTENDS Files, Naturals, FiniteSets

CONSTANTS Calls,     \* handlers that may be in flight at once
          Paths,     \* workspace paths of repos, all under one folder
          MaxRepo,   \* bound on the repo ids given out
          Creds      \* ids a git credential may get

ASSUME ReposAssumption ==
    /\ IsFiniteSet(Calls)
    /\ MaxRepo \in Nat
    /\ Creds \subseteq Nat \ {0}
    /\ Absent \notin Paths

VARIABLES
    repos,      \* Git.repos, the record under each id
    nextRepo,   \* Git.nextRepo
    creds,      \* Git.credentials: "none", "plain" or "default" under each id
    gitFile,    \* git/state.json
    tree,       \* what is on disk at each path
    call,       \* the handlers
    promised,   \* repos a client was told exist, and asked nobody to delete
    left        \* paths at which a call left something behind: a crash, a removal
                \* that failed, an origin that was not put back, a clone whose path
                \* was deleted meanwhile

stores  == <<repos, nextRepo, creds, gitFile>>
ghosts  == <<promised, left>>
vars    == <<proc, stores, tree, call, ghosts>>

Id      == 1..MaxRepo
Cred    == {0} \cup Creds          \* 0: no credential
NoRepo  == [path |-> Absent, cred |-> 0]
Repo    == [path : Paths, cred : Cred]
Contents == [repos : [Id -> Repo \cup {NoRepo}], nextRepo : 0..MaxRepo,
             creds : [Creds -> {"none", "plain", "default"}]]

NoTree == [git |-> "none", origin |-> 0, user |-> FALSE]
Tree   == [git : {"none", "partial", "clone"}, origin : Cred, user : BOOLEAN]
Exists(p) == tree[p] # NoTree

CreateSteps == {"reserve", "clone", "cloning", "strip", "head", "finish", "drop",
                "dropOnly", "remove"}
UpdateSteps == {"getOrigin", "setOrigin", "fetch", "fetched", "failed", "updateHead",
                "updateFinish"}
DeleteSteps == {"removeTree", "dropPath"}

\* A handler: the path and repo it works for, the credential it uses, the
\* origin an update found, and whether the path was taken away while a create
\* was under way.
Idle == [at |-> "idle", path |-> Absent, repo |-> 0, cred |-> 0, origin |-> 0,
         touched |-> FALSE]
NewCall(s, p, i, k) ==
    [at |-> s, path |-> p, repo |-> i, cred |-> k, origin |-> 0, touched |-> FALSE]
Call == [at : CreateSteps \cup UpdateSteps \cup DeleteSteps, path : Paths, repo : 0..MaxRepo,
         cred : Cred, origin : Cred, touched : BOOLEAN]

TypeOK ==
    /\ proc \in {"down", "up"}
    /\ repos \in [Id -> Repo \cup {NoRepo}]
    /\ nextRepo \in 0..MaxRepo
    /\ creds \in [Creds -> {"none", "plain", "default"}]
    /\ gitFile \in Contents
    /\ tree \in [Paths -> Tree]
    /\ call \in [Calls -> Call \cup {Idle}]
    /\ promised \subseteq Id
    /\ left \subseteq Paths

NoContents == [repos |-> [i \in Id |-> NoRepo], nextRepo |-> 0,
               creds |-> [k \in Creds |-> "none"]]

Init ==
    /\ proc = "up"
    /\ repos = NoContents.repos /\ nextRepo = 0 /\ creds = NoContents.creds
    /\ gitFile = NoContents
    /\ tree = [p \in Paths |-> NoTree]
    /\ call = [c \in Calls |-> Idle]
    /\ promised = {} /\ left = {}

MovedTo(c, s) == [call EXCEPT ![c].at = s]
Ended(c)    == [call EXCEPT ![c] = Idle]
Goto(c, s)  == call' = MovedTo(c, s)
Return(c)   == call' = Ended(c)
At(c, s)    == proc = "up" /\ call[c].at = s

persistGit(r, n, k) ==
    WriteAndRename(gitFile, [repos |-> r, nextRepo |-> n, creds |-> k])
ReposAt(p) == {i \in Id : repos[i].path = p}

\* What is at the paths ps is taken away: no promise about it is kept, and none
\* is made by the creates at work there.  cs are the calls otherwise.
TakeAway(ps, cs) ==
    /\ promised' = promised \ {i \in Id : repos[i].path \in ps}
    /\ call' = [c \in Calls |-> IF cs[c].path \in ps /\ cs[c].at \in CreateSteps
                                THEN [cs[c] EXCEPT !.touched = TRUE] ELSE cs[c]]

\* What there may be of tree t while it is being removed.
Remains(t) ==
    {s \in Tree \ {NoTree} :
        /\ s.git \in {"none", "partial", t.git} /\ (t.git = "none" => s.git = "none")
        /\ s.origin \in {0, t.origin} /\ (s.git = "none" => s.origin = 0)
        /\ s.user => t.user}

RemovePart(p) ==
    /\ \E t \in Remains(tree[p]) : tree' = [tree EXCEPT ![p] = t]
    /\ UNCHANGED left
RemoveAll(p) ==
    /\ tree' = [tree EXCEPT ![p] = NoTree]
    /\ left' = left \ {p}

\* A call ends without more ado: what is at p is left behind.
LeaveBehind(p) == left' = IF Exists(p) THEN left \cup {p} ELSE left

--------------------------------------------------------------------------------
(* Credentials                                                                 *)

\* A credential whose persist failed is refused and stays in memory; a removal
\* that failed is confirmed.
SetCredential(k, from, to) ==
    /\ proc = "up"
    /\ creds[k] \in from
    /\ creds' = [creds EXCEPT ![k] = to]
    /\ \E o \in persistGit(repos, nextRepo, creds') : gitFile' = o.file /\ ServedOn(o)
    /\ UNCHANGED <<repos, nextRepo, tree, call, ghosts>>

gitCredentialsCreate(k, to) == SetCredential(k, {"none"}, to)
gitCredentialsUpdate(k, to) == SetCredential(k, {"plain", "default"} \ {to}, to)
gitCredentialsDelete(k)     == SetCredential(k, {"plain", "default"}, "none")

\* The credentials a request that names k, or none with 0, may be given; the
\* order in which a map is ranged over decides.  Empty: the request is refused.
CredentialFor(k) ==
    LET all      == {j \in Creds : creds[j] # "none"}
        defaults == {j \in Creds : creds[j] = "default"}
    IN IF k # 0 THEN {k} \cap all
       ELSE IF defaults # {} THEN defaults
       ELSE IF all # {} THEN all ELSE {0}

--------------------------------------------------------------------------------
(* reposCreate                                                                 *)

Reserving == {c \in Calls : call[c].at = "reserve"}

\* os.Stat, then CredentialFor.
reposCreate(c, p, k) ==
    /\ At(c, "idle")
    /\ nextRepo + Cardinality(Reserving) < MaxRepo
    /\ ~Exists(p)
    /\ \E j \in CredentialFor(k) :
          call' = [call EXCEPT ![c] = NewCall("reserve", p, 0, j)]
    /\ UNCHANGED <<proc, stores, tree, ghosts>>

PathIsTaken_FinishedOnly(p) == ReposAt(p) \cap promised # {}
PathIsTaken(p) == ReposAt(p) # {}

\* A repo whose persist failed is refused and stays in memory, at its path.
ReserveRepo(c) ==
    /\ At(c, "reserve")
    /\ ~PathIsTaken(call[c].path)
    /\ nextRepo' = nextRepo + 1
    /\ repos' = [repos EXCEPT ![nextRepo + 1] = [path |-> call[c].path, cred |-> call[c].cred]]
    /\ \E o \in persistGit(repos', nextRepo + 1, creds) :
          /\ gitFile' = o.file
          /\ ServedOn(o)
          /\ IF o.end = "ok"
             THEN call' = [call EXCEPT ![c].at = "clone", ![c].repo = nextRepo + 1]
             ELSE Return(c)
    /\ UNCHANGED <<creds, tree, ghosts>>

ReserveFails(c) ==
    /\ At(c, "reserve")
    /\ PathIsTaken(call[c].path)
    /\ Return(c)
    /\ UNCHANGED <<proc, stores, tree, ghosts>>

\* MkdirAll of the parent may fail; git clone refuses a path that exists.  It
\* writes the URL with the credential to .git/config before it fetches.
StartClone(c) ==
    LET p == call[c].path
    IN /\ At(c, "clone")
       /\ \/ Goto(c, "dropOnly") /\ UNCHANGED tree
          \/ Exists(p) /\ Goto(c, "drop") /\ UNCHANGED tree
          \/ /\ ~Exists(p)
             /\ Goto(c, "cloning")
             /\ tree' = [tree EXCEPT ![p].git = "partial", ![p].origin = call[c].cred]
       /\ UNCHANGED <<proc, stores, ghosts>>

\* A clone fails when its directory is removed under it; one that fails leaves
\* what it has, or removes the directory, or a part of it, whosever it is by now.
Clone(c) ==
    LET p == call[c].path
    IN /\ At(c, "cloning")
       /\ \/ /\ tree[p].git # "none"
             /\ tree' = [tree EXCEPT ![p].git = "clone"]
             /\ Goto(c, IF call[c].cred # 0 THEN "strip" ELSE "head")
             /\ UNCHANGED ghosts
          \/ Goto(c, "drop") /\ UNCHANGED <<tree, ghosts>>
          \/ /\ RemoveAll(p) \/ RemovePart(p)
             /\ TakeAway({p}, MovedTo(c, "drop"))
       /\ UNCHANGED <<proc, stores>>

\* git remote set-url, which needs the tree.
StripToken(c) ==
    LET p == call[c].path
    IN /\ At(c, "strip")
       /\ \/ /\ tree[p].git = "clone"
             /\ tree' = [tree EXCEPT ![p].origin = 0]
             /\ Goto(c, "head")
          \/ Goto(c, "drop") /\ UNCHANGED tree
       /\ UNCHANGED <<proc, stores, ghosts>>

CloneHead(c) ==
    /\ At(c, "head")
    /\ \/ tree[call[c].path].git = "clone" /\ Goto(c, "finish")
       \/ Goto(c, "drop")
    /\ UNCHANGED <<proc, stores, tree, ghosts>>

\* The outcomes of FinishRepo(i): none when the record is gone.
FinishRepo(i) == IF repos[i] = NoRepo THEN {} ELSE persistGit(repos, nextRepo, creds)

\* When the record is gone or the persist fails, the client is told the repo
\* vanished and the tree stays.
FinishCreate(c) ==
    LET i == call[c].repo
        p == call[c].path
    IN /\ At(c, "finish")
       /\ \/ /\ FinishRepo(i) = {}
             /\ LeaveBehind(p)
             /\ UNCHANGED <<proc, gitFile, promised>>
          \/ \E o \in FinishRepo(i) :
                /\ gitFile' = o.file
                /\ ServedOn(o)
                /\ promised' = IF o.end = "ok" /\ ~call[c].touched
                               THEN promised \cup {i} ELSE promised
                /\ UNCHANGED left
       /\ Return(c)
       /\ UNCHANGED <<repos, nextRepo, creds, tree>>

--------------------------------------------------------------------------------
(* Dropping                                                                    *)

\* The error of the persist is dropped.
Drop(ids) ==
    /\ repos' = [i \in Id |-> IF i \in ids THEN NoRepo ELSE repos[i]]
    /\ IF repos' = repos
       THEN UNCHANGED <<proc, gitFile>>
       ELSE \E o \in persistGit(repos', nextRepo, creds) : gitFile' = o.file /\ ServedOn(o)
    /\ UNCHANGED <<nextRepo, creds>>

Own_ByPath(c) == ReposAt(call[c].path)
Own(c) == {call[c].repo}

AfterDrop(c) == IF call[c].at = "drop" THEN Goto(c, "remove") ELSE Return(c)

\* The clean-up of a create that was refused: its record first ...
CleanUpRecord(c) ==
    /\ At(c, "drop") \/ At(c, "dropOnly")
    /\ Drop(Own(c))
    /\ AfterDrop(c)
    /\ UNCHANGED <<tree, ghosts>>

\* A removal by handler c whose error is dropped: it takes a part and goes on,
\* or it is through, or it fails with what is there by now.
Remove(c) ==
    LET p == call[c].path
    IN /\ \/ RemovePart(p) /\ TakeAway({p}, call)
          \/ RemoveAll(p) /\ TakeAway({p}, Ended(c))
          \/ LeaveBehind(p) /\ Return(c) /\ UNCHANGED <<tree, promised>>
       /\ UNCHANGED <<proc, stores>>

\* ... then os.RemoveAll of whatever is at the path by now.
CleanUpTree(c) == At(c, "remove") /\ Remove(c)

Deleting(c, s, p) == [call EXCEPT ![c] = NewCall(s, p, 0, 0)]

\* reposDelete: the record, and then the tree at its path.
reposDelete(c, i) ==
    LET p == repos[i].path
    IN /\ At(c, "idle")
       /\ repos[i] # NoRepo
       /\ Drop({i})
       /\ TakeAway({p}, Deleting(c, "removeTree", p))
       /\ UNCHANGED <<tree, left>>

RemoveTree(c) == At(c, "removeTree") /\ Remove(c)

\* workspaceDelete of a repo's path: the tree, and then the record there.
workspaceDelete(c, p) ==
    /\ At(c, "idle")
    /\ Exists(p)
    /\ RemoveAll(p)
    /\ TakeAway({p}, Deleting(c, "dropPath", p))
    /\ UNCHANGED <<proc, stores>>

DropRepoByPath(c) ==
    LET p == call[c].path
    IN /\ At(c, "dropPath")
       /\ Drop(ReposAt(p))
       /\ TakeAway({p}, Ended(c))
       /\ left' = IF tree[p].git # "none" THEN left \cup {p} ELSE left
       /\ UNCHANGED tree

\* workspaceDelete of the folder above takes every tree and drops no record.
workspaceDeleteFolder ==
    /\ proc = "up"
    /\ \E p \in Paths : Exists(p)
    /\ tree' = [p \in Paths |-> NoTree]
    /\ TakeAway(Paths, call)
    /\ left' = {}
    /\ UNCHANGED <<proc, stores>>

\* Either delete on its way through a tree.  One that fails there is refused, and
\* the record of the path stays.
workspaceDeletePart(p) ==
    /\ proc = "up"
    /\ RemovePart(p)
    /\ TakeAway({p}, call)
    /\ UNCHANGED <<proc, stores>>

\* Put of an object below the path makes the directories it needs.
workspaceImport(p) ==
    /\ proc = "up"
    /\ tree' = [tree EXCEPT ![p].user = TRUE]
    /\ UNCHANGED <<proc, stores, call, ghosts>>

--------------------------------------------------------------------------------
(* reposUpdate                                                                 *)

\* GetRepo and CredentialFor: the credential of the request, not of the repo.
reposUpdate(c, i, k) ==
    /\ At(c, "idle")
    /\ repos[i] # NoRepo
    /\ \E j \in CredentialFor(k) :
          call' = [call EXCEPT ![c] = NewCall("getOrigin", repos[i].path, i, j)]
    /\ UNCHANGED <<proc, stores, tree, ghosts>>

\* The origin is changed, and has to be put back, when the credential is not in it.
ChangesOrigin(c) == call[c].cred \notin {0, call[c].origin}

GetOrigin(c) ==
    LET p == call[c].path
    IN /\ At(c, "getOrigin")
       /\ \/ /\ tree[p].git = "clone"
             /\ call' = [call EXCEPT ![c].at = "setOrigin", ![c].origin = tree[p].origin]
          \/ Return(c)
       /\ UNCHANGED <<proc, stores, tree, ghosts>>

SetOrigin(c) ==
    LET p == call[c].path
    IN /\ At(c, "setOrigin")
       /\ \/ ~ChangesOrigin(c) /\ Goto(c, "fetch") /\ UNCHANGED tree
          \/ /\ ChangesOrigin(c) /\ tree[p].git = "clone"
             /\ tree' = [tree EXCEPT ![p].origin = call[c].cred]
             /\ Goto(c, "fetch")
          \/ ChangesOrigin(c) /\ Return(c) /\ UNCHANGED tree
       /\ UNCHANGED <<proc, stores, ghosts>>

\* fetch, and checkout or merge.
Fetch(c) ==
    /\ At(c, "fetch")
    /\ \/ tree[call[c].path].git = "clone" /\ Goto(c, "fetched")
       \/ Goto(c, "failed")
    /\ UNCHANGED <<proc, stores, tree, ghosts>>

RestoreOn_Success == {"fetched"}
RestoreOn == {"fetched", "failed"}

\* The deferred set-url: it runs under the same context, and its error is dropped.
RestoreOrigin(c) ==
    LET p == call[c].path
    IN /\ At(c, "fetched") \/ At(c, "failed")
       /\ IF ChangesOrigin(c) /\ call[c].at \in RestoreOn
          THEN \/ /\ tree[p].git = "clone"
                  /\ tree' = [tree EXCEPT ![p].origin = call[c].origin]
                  /\ left' = IF call[c].origin # 0 THEN left \cup {p} ELSE left
               \/ LeaveBehind(p) /\ UNCHANGED tree
          ELSE UNCHANGED <<tree, left>>
       /\ IF call[c].at = "fetched" THEN Goto(c, "updateHead") ELSE Return(c)
       /\ UNCHANGED <<proc, stores, promised>>

UpdateHead(c) ==
    /\ At(c, "updateHead")
    /\ \/ tree[call[c].path].git = "clone" /\ Goto(c, "updateFinish")
       \/ Return(c)
    /\ UNCHANGED <<proc, stores, tree, ghosts>>

FinishUpdate(c) ==
    /\ At(c, "updateFinish")
    /\ \/ FinishRepo(call[c].repo) = {} /\ UNCHANGED <<proc, gitFile>>
       \/ \E o \in FinishRepo(call[c].repo) : gitFile' = o.file /\ ServedOn(o)
    /\ Return(c)
    /\ UNCHANGED <<repos, nextRepo, creds, tree, ghosts>>

--------------------------------------------------------------------------------
(* The rest of the world                                                       *)

InFlight(p) == \E c \in Calls : call[c].path = p

Crash ==
    /\ proc = "up"
    /\ proc' = "down"
    /\ UNCHANGED <<stores, tree, call, ghosts>>

\* openGit.  What was in flight is not taken up again.
Start ==
    /\ proc = "down"
    /\ proc' = "up"
    /\ repos' = gitFile.repos /\ nextRepo' = gitFile.nextRepo /\ creds' = gitFile.creds
    /\ call' = [c \in Calls |-> Idle]
    /\ left' = left \cup {p \in Paths : InFlight(p) /\ Exists(p)}
    /\ UNCHANGED <<gitFile, tree, promised>>

Step(c) ==
    \/ ReserveRepo(c) \/ ReserveFails(c) \/ StartClone(c) \/ Clone(c) \/ StripToken(c)
    \/ CloneHead(c) \/ FinishCreate(c) \/ CleanUpRecord(c) \/ CleanUpTree(c)
    \/ RemoveTree(c) \/ DropRepoByPath(c)
    \/ GetOrigin(c) \/ SetOrigin(c) \/ Fetch(c) \/ RestoreOrigin(c)
    \/ UpdateHead(c) \/ FinishUpdate(c)

Request(c) ==
    \/ \E p \in Paths, k \in Cred : reposCreate(c, p, k)
    \/ \E i \in Id, k \in Cred : reposUpdate(c, i, k)
    \/ \E i \in Id : reposDelete(c, i)
    \/ \E p \in Paths : workspaceDelete(c, p)

CredentialRequest ==
    \E k \in Creds :
       \/ \E to \in {"plain", "default"} :
             gitCredentialsCreate(k, to) \/ gitCredentialsUpdate(k, to)
       \/ gitCredentialsDelete(k)

Next ==
    \/ \E c \in Calls : Request(c) \/ Step(c)
    \/ CredentialRequest
    \/ workspaceDeleteFolder
    \/ \E p \in Paths : workspaceDeletePart(p) \/ workspaceImport(p)
    \/ Crash \/ Start

Spec == Init /\ [][Next]_vars

--------------------------------------------------------------------------------
(* Properties                                                                  *)

\* Two repos never have one path, in memory or on disk, whichever handlers race
\* for it and whatever failed or crashed before.
PathsDiffer ==
    \A r \in {repos, gitFile.repos} : \A i, j \in Id :
        r[i].path = r[j].path /\ r[i] # NoRepo => i = j

\* A repo a client was told about has its record and its working tree until
\* somebody asks to delete them, or the clean-up of a refused create of the same
\* path (CleanUpTree, which gives the path free before it removes it) takes the
\* tree.
PromisesHold ==
    proc = "up" => \A i \in promised : /\ repos[i] # NoRepo
                                       /\ tree[repos[i].path].git = "clone"

\* A refused create and a delete leave no working tree behind, unless they are
\* hindered: a tree without a record has a handler at work on its path, or was
\* left by a crash, by a removal that failed and whose error was dropped, or by a
\* delete that took its record during the clone.
NoStrayClone ==
    proc = "up" => \A p \in Paths :
        tree[p].git # "none" /\ ReposAt(p) = {} => InFlight(p) \/ p \in left

\* Records and working trees agree, in both directions.
RecordsAndTreesAgree == PromisesHold /\ NoStrayClone

\* A token is in a working tree, or in what a failed clone left of one, only
\* while a handler works there, or after a crash, a removal that failed, a set-url
\* that failed, or a set-url to the origin another update had put its token in.
TokensAreStripped ==
    proc = "up" => \A p \in Paths : tree[p].origin # 0 => InFlight(p) \/ p \in left

--------------------------------------------------------------------------------
(* What the code's own words promise                                           *)

\* gitcmd.Clone: credentials are stripped "so the working tree does not keep the
\* token", of a repo its client was told about, in a process that does not crash.
TreesKeepNoToken ==
    proc = "up" => \A i \in promised : tree[repos[i].path].origin # 0 => InFlight(repos[i].path)
================================================================================
