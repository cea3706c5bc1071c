------------------------------ MODULE ReposProofs ------------------------------
(***************************************************************************)
(* Proofs about Repos, for any number of handlers in flight, of paths,     *)
(* repos and credentials.                                                  *)
(***************************************************************************)
EXTENDS Repos, FiniteSetTheorems, TLAPS

Steps == CreateSteps \cup UpdateSteps \cup DeleteSteps
CallsType == call \in [Calls -> Call \cup {Idle}]
StoresType ==
    /\ repos \in [Id -> Repo \cup {NoRepo}]
    /\ nextRepo \in 0..MaxRepo
    /\ creds \in [Creds -> {"none", "plain", "default"}]
    /\ gitFile \in Contents

(***************************************************************************)
(* The inductive invariant.  The bound on repo ids is kept by counting the *)
(* creates that have yet to reserve one.                                   *)
(***************************************************************************)
Room == nextRepo + Cardinality(Reserving) <= MaxRepo

\* A record's id was given out, in memory and on disk.
IdsAreCounted ==
    /\ gitFile.nextRepo <= nextRepo
    /\ \A i \in Id : /\ repos[i] # NoRepo => i <= nextRepo
                     /\ gitFile.repos[i] # NoRepo => i <= gitFile.nextRepo

\* A create between its reservation and its end owns the record it reserved,
\* alone; the record is on disk, unless it was dropped.
Owns(c) == call[c].at \in CreateSteps \ {"reserve"}
OwnersHoldTheirRecord ==
    \A c \in Calls : Owns(c) =>
        /\ call[c].repo \in Id /\ call[c].repo <= nextRepo
        /\ call[c].repo \notin promised
        /\ repos[call[c].repo] # NoRepo =>
              /\ repos[call[c].repo].path = call[c].path
              /\ gitFile.repos[call[c].repo] = repos[call[c].repo]
        /\ \A d \in Calls : Owns(d) /\ call[d].repo = call[c].repo => d = c

\* A promised repo is on disk as it is in memory, and it is cloned.
PromisesAreKept ==
    \A i \in promised : /\ repos[i] # NoRepo
                        /\ gitFile.repos[i] = repos[i]
                        /\ tree[repos[i].path].git = "clone"

\* A create that cloned has its clone, unless the path was taken away.
ClonesAreThere ==
    \A c \in Calls : call[c].at \in {"strip", "head", "finish"} /\ ~call[c].touched
                        => tree[call[c].path].git = "clone"

\* A working tree has a record that survives a restart and no create can drop,
\* or a handler that will remove the tree or end with such a record.
Vouched(p) ==
    \E i \in Id : /\ repos[i].path = p /\ gitFile.repos[i] = repos[i]
                 /\ \A c \in Calls : Owns(c) => call[c].repo # i
Tends(c, p) ==
    /\ call[c].path = p
    /\ call[c].at \in {"cloning", "strip", "head", "finish", "drop", "remove", "removeTree"}
TreesAreTended ==
    \A p \in Paths : tree[p].git # "none" =>
        p \in left \/ Vouched(p) \/ \E c \in Calls : Tends(c, p)

\* An origin with a token has a handler that will strip it or remove the tree.
Strips(c, p) ==
    /\ call[c].path = p
    /\ \/ call[c].at \in {"strip", "drop", "remove", "removeTree"}
       \/ call[c].at = "cloning" /\ call[c].cred # 0
       \/ call[c].at \in {"fetch", "fetched", "failed"} /\ ChangesOrigin(c)
TokensAreTended ==
    \A p \in Paths : tree[p].origin # 0 => p \in left \/ \E c \in Calls : Strips(c, p)

\* Neither a working tree nor a token is there.
Gone(p) == tree[p].git = "none" /\ tree[p].origin = 0

ReposInv ==
    /\ TypeOK
    /\ Room
    /\ PathsDiffer
    /\ IdsAreCounted
    /\ OwnersHoldTheirRecord
    /\ PromisesAreKept
    /\ ClonesAreThere
    /\ TreesAreTended
    /\ TokensAreTended

--------------------------------------------------------------------------------
(* What the steps of a handler do to the calls                                 *)

(***************************************************************************)
(* The fields of a call, and of none.                                      *)
(***************************************************************************)
LEMMA CallFields ==
    ASSUME CallsType, NEW c \in Calls
    PROVE  /\ call[c].at = "idle" => call[c] = Idle
           /\ call[c].at # "idle" => /\ call[c] \in Call
                                     /\ call[c].at \in Steps
                                     /\ call[c].path \in Paths
                                     /\ call[c].repo \in 0..MaxRepo
           /\ call[c].cred \in Cred /\ call[c].origin \in Cred
           /\ call[c].touched \in BOOLEAN
<1>1. call[c] \in Call \/ call[c] = Idle
  BY DEF CallsType
<1>2. CASE call[c] \in Call
  BY <1>2 DEF Call, Steps, CreateSteps, UpdateSteps, DeleteSteps
<1>3. CASE call[c] = Idle
  BY <1>3 DEF Idle, Cred
<1> QED BY <1>1, <1>2, <1>3

(***************************************************************************)
(* A handler that goes on keeps everything but its place; nobody else      *)
(* moves.                                                                  *)
(***************************************************************************)
LEMMA GotoMoves ==
    ASSUME CallsType, NEW c \in Calls, call[c].at # "idle", NEW s \in Steps, Goto(c, s)
    PROVE  /\ CallsType'
           /\ call'[c].at = s
           /\ call'[c].path = call[c].path /\ call'[c].repo = call[c].repo
           /\ call'[c].cred = call[c].cred /\ call'[c].origin = call[c].origin
           /\ call'[c].touched = call[c].touched
           /\ \A d \in Calls : d # c => call'[d] = call[d]
<1>1. call[c] \in Call
  BY CallFields
<1>2. [call[c] EXCEPT !.at = s] \in Call
  BY <1>1 DEF Call, Steps
<1>3. call'[c] = [call[c] EXCEPT !.at = s] /\ \A d \in Calls : d # c => call'[d] = call[d]
  BY DEF Goto, MovedTo, CallsType
<1>4. CallsType'
  BY <1>2, <1>3 DEF Goto, MovedTo, CallsType
<1> QED BY <1>1, <1>3, <1>4 DEF Call

(***************************************************************************)
(* A handler that returns is idle; nobody else moves.                      *)
(***************************************************************************)
LEMMA ReturnMoves ==
    ASSUME CallsType, NEW c \in Calls, Return(c)
    PROVE  /\ CallsType'
           /\ call'[c] = Idle
           /\ \A d \in Calls : d # c => call'[d] = call[d]
  BY DEF Return, Ended, CallsType

(***************************************************************************)
(* Taking what is at some paths away moves no call; it only marks creates. *)
(***************************************************************************)
LEMMA TakeAwayMoves ==
    ASSUME NEW ps, NEW cs \in [Calls -> Call \cup {Idle}], TakeAway(ps, cs)
    PROVE  /\ CallsType'
           /\ \A d \in Calls :
                 /\ call'[d].at = cs[d].at
                 /\ call'[d].path = cs[d].path /\ call'[d].repo = cs[d].repo
                 /\ call'[d].cred = cs[d].cred /\ call'[d].origin = cs[d].origin
                 /\ ~call'[d].touched =>
                       ~cs[d].touched /\ ~(cs[d].path \in ps /\ cs[d].at \in CreateSteps)
<1> DEFINE new(d) == IF cs[d].path \in ps /\ cs[d].at \in CreateSteps
                     THEN [cs[d] EXCEPT !.touched = TRUE] ELSE cs[d]
<1>1. call' = [d \in Calls |-> new(d)]
  BY DEF TakeAway
<1>2. ASSUME NEW d \in Calls
      PROVE  /\ new(d) \in Call \cup {Idle}
             /\ new(d).at = cs[d].at
             /\ new(d).path = cs[d].path /\ new(d).repo = cs[d].repo
             /\ new(d).cred = cs[d].cred /\ new(d).origin = cs[d].origin
             /\ ~new(d).touched =>
                   ~cs[d].touched /\ ~(cs[d].path \in ps /\ cs[d].at \in CreateSteps)
  <2>1. CASE cs[d] \in Call
    BY <2>1 DEF Call
  <2>2. CASE cs[d] = Idle
    <3>1. cs[d].at \notin CreateSteps
      BY <2>2 DEF Idle, CreateSteps
    <3>2. new(d) = cs[d]
      BY <3>1
    <3> QED BY <2>2, <3>1, <3>2 DEF Idle
  <2> QED BY <2>1, <2>2
<1> QED BY <1>1, <1>2 DEF CallsType

(***************************************************************************)
(* A clone that starts changes what there is of a tree, at one path.       *)
(***************************************************************************)
LEMMA GitSet ==
    ASSUME tree \in [Paths -> Tree], NEW p \in Paths, NEW g \in {"none", "partial", "clone"},
           tree' = [tree EXCEPT ![p].git = g]
    PROVE  /\ tree' \in [Paths -> Tree]
           /\ tree'[p].git = g /\ tree'[p].origin = tree[p].origin
           /\ \A q \in Paths : q # p => tree'[q] = tree[q]
<1> DEFINE t == [tree[p] EXCEPT !.git = g]
<1>1. t \in Tree /\ t.git = g /\ t.origin = tree[p].origin
  BY DEF Tree
<1>2. tree' = [tree EXCEPT ![p] = t]
  OBVIOUS
<1> QED BY <1>1, <1>2

(***************************************************************************)
(* git remote set-url changes the origin of one tree.                      *)
(***************************************************************************)
LEMMA OriginSet ==
    ASSUME tree \in [Paths -> Tree], NEW p \in Paths, NEW o \in Cred,
           tree' = [tree EXCEPT ![p].origin = o]
    PROVE  /\ tree' \in [Paths -> Tree]
           /\ tree'[p].git = tree[p].git /\ tree'[p].origin = o
           /\ \A q \in Paths : q # p => tree'[q] = tree[q]
<1> DEFINE t == [tree[p] EXCEPT !.origin = o]
<1>1. t \in Tree /\ t.git = tree[p].git /\ t.origin = o
  BY DEF Tree
<1>2. tree' = [tree EXCEPT ![p] = t]
  OBVIOUS
<1> QED BY <1>1, <1>2

(***************************************************************************)
(* A clone that starts writes its origin first.                            *)
(***************************************************************************)
LEMMA CloneSet ==
    ASSUME tree \in [Paths -> Tree], NEW p \in Paths, NEW o \in Cred,
           tree' = [tree EXCEPT ![p].git = "partial", ![p].origin = o]
    PROVE  /\ tree' \in [Paths -> Tree]
           /\ tree'[p].git = "partial" /\ tree'[p].origin = o
           /\ \A q \in Paths : q # p => tree'[q] = tree[q]
<1> DEFINE t == [tree[p] EXCEPT !.git = "partial", !.origin = o]
<1>1. t \in Tree /\ t.git = "partial" /\ t.origin = o
  BY DEF Tree
<1>2. tree' = [tree EXCEPT ![p] = t]
  OBVIOUS
<1> QED BY <1>1, <1>2

(***************************************************************************)
(* A removal makes nothing of what it leaves, and forgets only a path at   *)
(* which nothing is left.                                                  *)
(***************************************************************************)
LEMMA PartRemoved ==
    ASSUME tree \in [Paths -> Tree], left \subseteq Paths, NEW p \in Paths, RemovePart(p)
    PROVE  /\ tree' \in [Paths -> Tree] /\ left' = left
           /\ \A q \in Paths : /\ q # p => tree'[q] = tree[q]
                               /\ tree'[q].git # "none" => tree[q].git # "none"
                               /\ tree'[q].origin # 0 => tree[q].origin # 0
<1>1. PICK t \in Remains(tree[p]) : tree' = [tree EXCEPT ![p] = t]
  BY DEF RemovePart
<1>2. /\ t \in Tree
      /\ t.git # "none" => tree[p].git # "none"
      /\ t.origin # 0 => tree[p].origin # 0
  BY DEF Remains
<1>3. left' = left
  BY DEF RemovePart
<1> QED BY <1>1, <1>2, <1>3

LEMMA AllRemoved ==
    ASSUME tree \in [Paths -> Tree], left \subseteq Paths, NEW p \in Paths, RemoveAll(p)
    PROVE  /\ tree' \in [Paths -> Tree] /\ tree'[p].git = "none" /\ tree'[p].origin = 0
           /\ left' \subseteq Paths /\ \A q \in left : q \in left' \/ q = p
           /\ \A q \in Paths : /\ q # p => tree'[q] = tree[q]
                               /\ tree'[q].git # "none" => tree[q].git # "none"
                               /\ tree'[q].origin # 0 => tree[q].origin # 0
<1>1. NoTree \in Tree /\ NoTree.git = "none" /\ NoTree.origin = 0
  BY DEF NoTree, Tree, Cred
<1>2. tree' = [tree EXCEPT ![p] = NoTree] /\ left' = left \ {p}
  BY DEF RemoveAll
<1> HIDE DEF NoTree
<1> QED BY <1>1, <1>2

(***************************************************************************)
(* What a call leaves is recorded, unless there is nothing.                *)
(***************************************************************************)
LEMMA LeaveBehindRecords ==
    ASSUME left \subseteq Paths, NEW p \in Paths, LeaveBehind(p)
    PROVE  /\ left' \subseteq Paths /\ left \subseteq left'
           /\ p \in left' \/ Gone(p)
<1>1. NoTree.git = "none" /\ NoTree.origin = 0
  BY DEF NoTree
<1> QED BY <1>1 DEF LeaveBehind, Exists, Gone

(***************************************************************************)
(* An import changes neither.                                              *)
(***************************************************************************)
LEMMA UserSet ==
    ASSUME tree \in [Paths -> Tree], NEW p \in Paths, NEW u \in BOOLEAN,
           tree' = [tree EXCEPT ![p].user = u]
    PROVE  /\ tree' \in [Paths -> Tree]
           /\ tree'[p].git = tree[p].git /\ tree'[p].origin = tree[p].origin
           /\ \A q \in Paths : q # p => tree'[q] = tree[q]
<1> DEFINE t == [tree[p] EXCEPT !.user = u]
<1>1. t \in Tree /\ t.git = tree[p].git /\ t.origin = tree[p].origin
  BY DEF Tree
<1>2. tree' = [tree EXCEPT ![p] = t]
  OBVIOUS
<1> QED BY <1>1, <1>2

(***************************************************************************)
(* A request puts its handler at its first step.                           *)
(***************************************************************************)
LEMMA NewCallMoves ==
    ASSUME CallsType, NEW c \in Calls, NEW s \in Steps, NEW p \in Paths,
           NEW i \in 0..MaxRepo, NEW k \in Cred
    PROVE  LET cs == [call EXCEPT ![c] = NewCall(s, p, i, k)]
           IN /\ cs \in [Calls -> Call \cup {Idle}]
              /\ cs[c].at = s /\ cs[c].path = p
              /\ \A d \in Calls : d # c => cs[d] = call[d]
<1> DEFINE new == NewCall(s, p, i, k)
<1>1. new \in Call /\ new.at = s /\ new.path = p
  BY DEF NewCall, Call, Cred, Steps
<1> HIDE DEF new
<1>2. [call EXCEPT ![c] = NewCall(s, p, i, k)] = [call EXCEPT ![c] = new]
  BY DEF new
<1> QED BY <1>1, <1>2 DEF CallsType

--------------------------------------------------------------------------------
(* What a write leaves                                                         *)

(***************************************************************************)
(* The file is what it was or what memory is, and it is the latter when    *)
(* the write went well.                                                    *)
(***************************************************************************)
LEMMA PersistMoves ==
    ASSUME gitFile \in Contents, NEW r \in [Id -> Repo \cup {NoRepo}], NEW n \in 0..MaxRepo,
           NEW k \in [Creds -> {"none", "plain", "default"}],
           NEW o \in persistGit(r, n, k), gitFile' = o.file, ServedOn(o)
    PROVE  /\ gitFile' \in Contents
           /\ gitFile' = gitFile \/ (gitFile'.repos = r /\ gitFile'.nextRepo = n)
           /\ o.end = "ok" => gitFile'.repos = r /\ gitFile'.nextRepo = n
           /\ proc' \in {"down", "up"}
<1> DEFINE new == [repos |-> r, nextRepo |-> n, creds |-> k]
<1>1. new \in Contents /\ new.repos = r /\ new.nextRepo = n
  BY DEF Contents
<1>2. o.file \in {gitFile, new} /\ (o.end = "ok" => o.file = new)
  BY DEF persistGit, WriteAndRename
<1>3. proc' \in {"down", "up"}
  BY DEF ServedOn
<1> HIDE DEF new
<1> QED BY <1>1, <1>2, <1>3

(***************************************************************************)
(* Dropping records clears them in memory, in the file or not.             *)
(***************************************************************************)
LEMMA DropMoves ==
    ASSUME StoresType, proc = "up", NEW ids, Drop(ids)
    PROVE  /\ StoresType' /\ proc' \in {"down", "up"}
           /\ nextRepo' = nextRepo
           /\ \A i \in Id : repos'[i] = IF i \in ids THEN NoRepo ELSE repos[i]
           /\ gitFile' = gitFile \/ (gitFile'.repos = repos' /\ gitFile'.nextRepo = nextRepo)
<1>1. /\ repos' \in [Id -> Repo \cup {NoRepo}]
      /\ \A i \in Id : repos'[i] = IF i \in ids THEN NoRepo ELSE repos[i]
  BY DEF Drop, StoresType
<1>2. CASE UNCHANGED <<proc, gitFile>>
  BY <1>1, <1>2 DEF Drop, StoresType
<1>3. CASE \E o \in persistGit(repos', nextRepo, creds) : gitFile' = o.file /\ ServedOn(o)
  <2>1. PICK o \in persistGit(repos', nextRepo, creds) : gitFile' = o.file /\ ServedOn(o)
    BY <1>3
  <2>2. /\ gitFile' \in Contents /\ proc' \in {"down", "up"}
        /\ gitFile' = gitFile \/ (gitFile'.repos = repos' /\ gitFile'.nextRepo = nextRepo)
    BY <1>1, <2>1, PersistMoves DEF StoresType
  <2> QED BY <1>1, <2>2 DEF Drop, StoresType
<1> QED BY <1>2, <1>3 DEF Drop

--------------------------------------------------------------------------------
(* What most steps leave alone                                                 *)

\* Records are dropped at most, and the file follows memory or stays.
Shrinks ==
    /\ \A i \in Id : repos'[i] \in {repos[i], NoRepo}
    /\ gitFile' = gitFile \/ (gitFile'.repos = repos' /\ gitFile'.nextRepo = nextRepo)
    /\ nextRepo' = nextRepo

\* A call is a create with a record only where it was, for the same one.
KeepsRecord(d) ==
    Owns(d)' => /\ Owns(d)
                /\ call'[d].path = call[d].path /\ call'[d].repo = call[d].repo

(***************************************************************************)
(* Record ids are natural numbers and a record has a path.                 *)
(***************************************************************************)
LEMMA IdsAndRecords ==
    ASSUME StoresType
    PROVE  /\ Id \subseteq Nat /\ 0 \notin Id
           /\ nextRepo \in Nat
           /\ gitFile.repos \in [Id -> Repo \cup {NoRepo}] /\ gitFile.nextRepo \in 0..MaxRepo
           /\ \A i \in Id : repos[i] # NoRepo => repos[i].path \in Paths
           /\ \A i \in Id : repos[i].path \in Paths => repos[i] # NoRepo
           /\ \A i \in Id : gitFile.repos[i].path \in Paths => gitFile.repos[i] # NoRepo
  BY ReposAssumption DEF StoresType, Id, Contents, Repo, NoRepo

(***************************************************************************)
(* A step that only drops records keeps paths apart and ids counted.       *)
(***************************************************************************)
LEMMA QuietStores ==
    ASSUME ReposInv, StoresType', Shrinks
    PROVE  PathsDiffer' /\ IdsAreCounted'
<1>1. StoresType
  BY DEF ReposInv, TypeOK, StoresType
<1>2. \A i \in Id : repos'[i].path \in Paths \/ repos'[i] = NoRepo
  BY IdsAndRecords DEF StoresType, Repo
<1>3. Absent \notin Paths /\ NoRepo.path = Absent
  BY ReposAssumption DEF NoRepo
<1>4. \A i, j \in Id : repos'[i].path = repos'[j].path /\ repos'[i] # NoRepo => i = j
  BY <1>2, <1>3 DEF ReposInv, PathsDiffer, Shrinks
<1>5. PathsDiffer'
  BY <1>4 DEF ReposInv, PathsDiffer, Shrinks
<1>6. IdsAreCounted'
  BY <1>1, IdsAndRecords DEF ReposInv, IdsAreCounted, Shrinks
<1> QED BY <1>5, <1>6

(***************************************************************************)
(* Fewer creates with a reservation to make leave room for them.           *)
(***************************************************************************)
LEMMA QuietRoom ==
    ASSUME ReposInv, nextRepo' = nextRepo,
           \A d \in Calls : call'[d].at = "reserve" => call[d].at = "reserve"
    PROVE  Room'
<1>0. Reserving' \subseteq Reserving
  BY DEF Reserving
<1>1. IsFiniteSet(Reserving)
  BY ReposAssumption, FS_Subset DEF Reserving
<1>2. /\ Cardinality(Reserving') <= Cardinality(Reserving)
      /\ Cardinality(Reserving) \in Nat /\ Cardinality(Reserving') \in Nat
  BY <1>0, <1>1, FS_Subset, FS_CardinalityType
<1>3. nextRepo \in Nat /\ MaxRepo \in Nat
  BY ReposAssumption DEF ReposInv, TypeOK
<1> QED BY <1>2, <1>3 DEF ReposInv, Room

(***************************************************************************)
(* Creates keep the records they own in a step that only drops records.    *)
(***************************************************************************)
LEMMA QuietOwners ==
    ASSUME ReposInv, StoresType', Shrinks,
           \A d \in Calls : KeepsRecord(d),
           \A d \in Calls : Owns(d)' => call[d].repo \notin promised'
    PROVE  OwnersHoldTheirRecord'
<1> SUFFICES ASSUME NEW d \in Calls, Owns(d)'
             PROVE  /\ call'[d].repo \in Id /\ call'[d].repo <= nextRepo'
                    /\ call'[d].repo \notin promised'
                    /\ repos'[call'[d].repo] # NoRepo =>
                          /\ repos'[call'[d].repo].path = call'[d].path
                          /\ gitFile'.repos[call'[d].repo] = repos'[call'[d].repo]
                    /\ \A e \in Calls : Owns(e)' /\ call'[e].repo = call'[d].repo => e = d
  BY DEF OwnersHoldTheirRecord
<1>1. Owns(d) /\ call'[d].path = call[d].path /\ call'[d].repo = call[d].repo
  BY DEF KeepsRecord
<1>2. call[d].repo \in Id /\ call[d].repo <= nextRepo
  BY <1>1 DEF ReposInv, OwnersHoldTheirRecord
<1>3. repos'[call[d].repo] # NoRepo =>
          /\ repos'[call[d].repo].path = call[d].path
          /\ gitFile'.repos[call[d].repo] = repos'[call[d].repo]
  BY <1>1, <1>2 DEF ReposInv, OwnersHoldTheirRecord, Shrinks
<1>4. \A e \in Calls : Owns(e)' /\ call'[e].repo = call'[d].repo => e = d
  BY <1>1 DEF KeepsRecord, ReposInv, OwnersHoldTheirRecord
<1> QED BY <1>1, <1>2, <1>3, <1>4 DEF Shrinks

(***************************************************************************)
(* Promises are kept by a step that drops no record and no clone of one.   *)
(***************************************************************************)
LEMMA QuietPromises ==
    ASSUME ReposInv, Shrinks, promised' \subseteq promised,
           \A i \in promised' : /\ repos'[i] = repos[i]
                                /\ tree'[repos[i].path].git = tree[repos[i].path].git
    PROVE  PromisesAreKept'
  BY DEF ReposInv, TypeOK, PromisesAreKept, Shrinks

(***************************************************************************)
(* A working tree stays vouched for while its record is not dropped.       *)
(***************************************************************************)
LEMMA QuietVouched ==
    ASSUME ReposInv, Shrinks, \A d \in Calls : KeepsRecord(d),
           NEW p \in Paths, \A i \in Id : repos[i].path = p => repos'[i] = repos[i],
           Vouched(p)
    PROVE  Vouched(p)'
<1>1. PICK i \in Id : /\ repos[i].path = p /\ gitFile.repos[i] = repos[i]
                     /\ \A c \in Calls : Owns(c) => call[c].repo # i
  BY DEF Vouched
<1>2. repos'[i].path = p /\ gitFile'.repos[i] = repos'[i]
  BY <1>1 DEF Shrinks
<1>3. \A c \in Calls : Owns(c)' => call'[c].repo # i
  BY <1>1 DEF KeepsRecord
<1> QED BY <1>2, <1>3 DEF Vouched

(***************************************************************************)
(* A handler that moves, and works on the tree at its path without taking  *)
(* anything away, keeps the invariant: it still tends what it tended.      *)
(***************************************************************************)
LEMMA MoveKeeps ==
    ASSUME ReposInv, NEW c \in Calls,
           UNCHANGED <<proc, stores, promised>>,
           tree' \in [Paths -> Tree], CallsType', left' \subseteq Paths, Room',
           left \subseteq left',
           \A d \in Calls : d # c => call'[d] = call[d],
           KeepsRecord(c),
           \A q \in Paths :
              /\ tree[q].git = "clone" => tree'[q].git = "clone"
              /\ tree'[q].git # "none" => tree[q].git # "none" \/ Tends(c, q)'
              /\ tree'[q].origin # 0 => \/ Strips(c, q)' \/ q \in left'
                                        \/ tree[q].origin # 0 /\ ~Strips(c, q)
              /\ Tends(c, q) => Tends(c, q)',
           call'[c].at \in {"strip", "head", "finish"} /\ ~call'[c].touched
              => tree'[call'[c].path].git = "clone"
    PROVE  ReposInv'
<1> USE DEF ReposInv
<1>1. StoresType'
  BY DEF TypeOK, StoresType, stores
<1>2. Shrinks
  BY DEF TypeOK, Shrinks, stores
<1>3. \A d \in Calls : KeepsRecord(d)
  BY DEF KeepsRecord, Owns
<1>4. TypeOK'
  BY <1>1 DEF TypeOK, StoresType, CallsType
<1>5. PathsDiffer' /\ IdsAreCounted'
  BY <1>1, <1>2, QuietStores
<1>6. OwnersHoldTheirRecord'
  <2>1. \A d \in Calls : Owns(d)' => call[d].repo \notin promised'
    BY <1>3 DEF KeepsRecord, OwnersHoldTheirRecord
  <2> QED BY <1>1, <1>2, <1>3, <2>1, QuietOwners
<1>7. PromisesAreKept'
  <2> SUFFICES ASSUME NEW i \in promised
               PROVE  /\ repos[i] # NoRepo /\ gitFile.repos[i] = repos[i]
                      /\ tree'[repos[i].path].git = "clone"
    BY DEF PromisesAreKept, stores
  <2>1. /\ repos[i] # NoRepo /\ gitFile.repos[i] = repos[i]
        /\ tree[repos[i].path].git = "clone"
    BY DEF PromisesAreKept
  <2>2. repos[i].path \in Paths
    BY <2>1 DEF TypeOK, Repo
  <2> QED BY <2>1, <2>2
<1>8. ClonesAreThere'
  <2> SUFFICES ASSUME NEW d \in Calls, d # c,
                      call'[d].at \in {"strip", "head", "finish"}, ~call'[d].touched
               PROVE  tree'[call'[d].path].git = "clone"
    BY DEF ClonesAreThere
  <2>1. call[d].path \in Paths
    BY CallFields DEF TypeOK, CallsType
  <2> QED BY <2>1 DEF ClonesAreThere
<1>9. TreesAreTended'
  <2> SUFFICES ASSUME NEW q \in Paths, tree'[q].git # "none", q \notin left', ~Tends(c, q)'
               PROVE  Vouched(q)' \/ \E d \in Calls : Tends(d, q)'
    BY DEF TreesAreTended
  <2>1. tree[q].git # "none" /\ q \notin left /\ ~Tends(c, q)
    OBVIOUS
  <2>2. Vouched(q) \/ \E d \in Calls : Tends(d, q)
    BY <2>1 DEF TreesAreTended
  <2>3. CASE Vouched(q)
    BY <1>2, <1>3, <2>3, QuietVouched DEF stores
  <2>4. CASE \E d \in Calls : Tends(d, q)
    BY <2>1, <2>4 DEF Tends
  <2> QED BY <2>2, <2>3, <2>4
<1>10. TokensAreTended'
  <2> SUFFICES ASSUME NEW q \in Paths, tree'[q].origin # 0, q \notin left', ~Strips(c, q)'
               PROVE  \E d \in Calls : Strips(d, q)'
    BY DEF TokensAreTended
  <2>1. tree[q].origin # 0 /\ q \notin left /\ ~Strips(c, q)
    OBVIOUS
  <2>2. PICK d \in Calls : Strips(d, q)
    BY <2>1 DEF TokensAreTended
  <2> QED BY <2>1, <2>2 DEF Strips, ChangesOrigin
<1> QED BY <1>4, <1>5, <1>6, <1>7, <1>8, <1>9, <1>10

(***************************************************************************)
(* Taking the trees at some paths away, or parts of them, keeps the        *)
(* invariant, when the calls of other paths stay, no create gets further,  *)
(* and who tended a tree of which anything is left still does.             *)
(***************************************************************************)
LEMMA RemovalKeeps ==
    ASSUME ReposInv, NEW ps \in SUBSET Paths, NEW cs \in [Calls -> Call \cup {Idle}],
           UNCHANGED <<proc, stores>>, TakeAway(ps, cs),
           tree' \in [Paths -> Tree],
           \A q \in Paths : /\ q \notin ps => tree'[q] = tree[q]
                            /\ tree'[q].git # "none" => tree[q].git # "none"
                            /\ tree'[q].origin # 0 => tree[q].origin # 0,
           left' \subseteq Paths, \A q \in left : q \in left' \/ Gone(q)',
           \A d \in Calls :
              /\ \/ cs[d] = call[d]
                 \/ /\ cs[d].at \notin {"reserve", "strip", "head", "finish"}
                    /\ call[d].path \notin Paths \ ps
                    /\ \/ cs[d].at = "drop" /\ cs[d].path = call[d].path
                       \/ \A q \in Paths : q = call[d].path => Gone(q)'
              /\ cs[d].at \in CreateSteps \ {"reserve"} =>
                    Owns(d) /\ cs[d].path = call[d].path /\ cs[d].repo = call[d].repo
    PROVE  ReposInv'
<1> USE DEF ReposInv
<1>1. StoresType' /\ StoresType
  BY DEF TypeOK, StoresType, stores
<1>2. Shrinks
  BY DEF TypeOK, Shrinks, stores
<1>3. CallsType' /\ \A d \in Calls :
          /\ call'[d].at = cs[d].at
          /\ call'[d].path = cs[d].path /\ call'[d].repo = cs[d].repo
          /\ call'[d].cred = cs[d].cred /\ call'[d].origin = cs[d].origin
          /\ ~call'[d].touched =>
                ~cs[d].touched /\ ~(cs[d].path \in ps /\ cs[d].at \in CreateSteps)
  BY TakeAwayMoves
<1>4. \A d \in Calls : KeepsRecord(d)
  BY <1>3 DEF KeepsRecord, Owns
<1>5. promised' = promised \ {i \in Id : repos[i].path \in ps}
  BY DEF TakeAway
<1>7. TypeOK'
  BY <1>1, <1>3, <1>5 DEF TypeOK, StoresType, CallsType
<1>8. Room'
  BY <1>3, QuietRoom DEF stores
<1>9. PathsDiffer' /\ IdsAreCounted'
  BY <1>1, <1>2, QuietStores
<1>10. OwnersHoldTheirRecord'
  <2>1. \A d \in Calls : Owns(d)' => call[d].repo \notin promised'
    BY <1>4, <1>5 DEF KeepsRecord, OwnersHoldTheirRecord
  <2> QED BY <1>1, <1>2, <1>4, <2>1, QuietOwners
<1>11. PromisesAreKept'
  <2>1. \A i \in promised' : repos[i].path \in Paths \ ps
    BY <1>1, <1>5, IdsAndRecords DEF PromisesAreKept, TypeOK
  <2>2. \A i \in promised' : tree'[repos[i].path].git = tree[repos[i].path].git
    BY <2>1
  <2> QED BY <1>2, <1>5, <2>2, QuietPromises DEF stores
<1>12. ClonesAreThere'
  <2> SUFFICES ASSUME NEW d \in Calls,
                      call'[d].at \in {"strip", "head", "finish"}, ~call'[d].touched
               PROVE  tree'[call'[d].path].git = "clone"
    BY DEF ClonesAreThere
  <2>1. cs[d] = call[d] /\ call[d].path \notin ps /\ ~call[d].touched
    BY <1>3 DEF CreateSteps
  <2>2. call[d].path \in Paths
    BY <1>3, <2>1, CallFields DEF TypeOK, CallsType
  <2> QED BY <1>3, <2>1, <2>2 DEF ClonesAreThere
<1>13. TreesAreTended'
  <2> SUFFICES ASSUME NEW q \in Paths, tree'[q].git # "none", q \notin left'
               PROVE  Vouched(q)' \/ \E d \in Calls : Tends(d, q)'
    BY DEF TreesAreTended
  <2>1. tree[q].git # "none" /\ q \notin left
    BY DEF Gone
  <2>2. CASE Vouched(q)
    BY <1>2, <1>4, <2>2, QuietVouched DEF stores
  <2>3. CASE \E d \in Calls : Tends(d, q)
    <3>1. PICK d \in Calls : Tends(d, q)
      BY <2>3
    <3>2. cs[d] = call[d] \/ (cs[d].at = "drop" /\ cs[d].path = call[d].path)
      BY <3>1 DEF Tends, Gone
    <3> QED BY <1>3, <3>1, <3>2 DEF Tends
  <2> QED BY <2>1, <2>2, <2>3 DEF TreesAreTended
<1>14. TokensAreTended'
  <2> SUFFICES ASSUME NEW q \in Paths, tree'[q].origin # 0, q \notin left'
               PROVE  \E d \in Calls : Strips(d, q)'
    BY DEF TokensAreTended
  <2>1. tree[q].origin # 0 /\ q \notin left
    BY DEF Gone
  <2>2. PICK d \in Calls : Strips(d, q)
    BY <2>1 DEF TokensAreTended
  <2>3. cs[d] = call[d] \/ (cs[d].at = "drop" /\ cs[d].path = call[d].path)
    BY <2>2 DEF Strips, Gone
  <2> QED BY <1>3, <2>2, <2>3 DEF Strips, ChangesOrigin
<1> QED BY <1>7, <1>8, <1>9, <1>10, <1>11, <1>12, <1>13, <1>14

--------------------------------------------------------------------------------
(* The steps of a create                                                       *)

(***************************************************************************)
(* ReserveFails ends a call that owned nothing.                            *)
(***************************************************************************)
LEMMA ReserveFailsKeeps ==
    ASSUME ReposInv, NEW c \in Calls, ReserveFails(c)
    PROVE  ReposInv'
<1>1. /\ CallsType' /\ call'[c] = Idle
      /\ \A d \in Calls : d # c => call'[d] = call[d]
  BY ReturnMoves DEF ReserveFails, ReposInv, TypeOK, CallsType
<1>2. call[c].at = "reserve" /\ call'[c].at = "idle"
  BY <1>1 DEF ReserveFails, At, Idle
<1>3. Room'
  BY <1>1, <1>2, QuietRoom DEF ReserveFails, stores
<1>4. KeepsRecord(c) /\ \A q \in Paths : ~Tends(c, q) /\ ~Strips(c, q)
  BY <1>2 DEF KeepsRecord, Owns, CreateSteps, Tends, Strips
<1> QED BY <1>1, <1>2, <1>3, <1>4, MoveKeeps DEF ReserveFails, ReposInv, TypeOK, ghosts

(***************************************************************************)
(* StartClone: a clone starts where nothing is.                            *)
(***************************************************************************)
LEMMA StartCloneKeeps ==
    ASSUME ReposInv, NEW c \in Calls, StartClone(c)
    PROVE  ReposInv'
<1> DEFINE p == call[c].path
<1>1. PICK s \in {"dropOnly", "drop", "cloning"} :
         /\ Goto(c, s)
         /\ \/ s # "cloning" /\ UNCHANGED tree
            \/ /\ s = "cloning" /\ ~Exists(p)
               /\ tree' = [tree EXCEPT ![p].git = "partial", ![p].origin = call[c].cred]
  BY DEF StartClone
<1>2. call[c].at = "clone" /\ p \in Paths /\ call[c].cred \in Cred
  BY CallFields DEF StartClone, At, ReposInv, TypeOK, CallsType
<1>3. /\ CallsType' /\ call'[c].at = s
      /\ call'[c].path = p /\ call'[c].repo = call[c].repo /\ call'[c].cred = call[c].cred
      /\ \A d \in Calls : d # c => call'[d] = call[d]
  BY <1>1, <1>2, GotoMoves DEF ReposInv, TypeOK, CallsType, Steps, CreateSteps
<1>4. /\ tree' \in [Paths -> Tree]
      /\ \A q \in Paths : q # p \/ s # "cloning" => tree'[q] = tree[q]
      /\ s = "cloning" => tree'[p].origin = call[c].cred
  <2>1. CASE s # "cloning" /\ UNCHANGED tree
    BY <2>1 DEF ReposInv, TypeOK
  <2>2. CASE s = "cloning"
             /\ tree' = [tree EXCEPT ![p].git = "partial", ![p].origin = call[c].cred]
    BY <1>2, <2>2, CloneSet DEF ReposInv, TypeOK
  <2> QED BY <1>1, <2>1, <2>2
<1>5. s = "cloning" => tree[p].git = "none"
  <2>1. s = "cloning" => tree[p] = NoTree
    BY <1>1 DEF Exists
  <2> QED BY <2>1 DEF NoTree
<1>6. Room'
  BY <1>1, <1>3, QuietRoom DEF StartClone, stores
<1>7. /\ KeepsRecord(c) /\ \A q \in Paths : ~Tends(c, q) /\ ~Strips(c, q)
      /\ \A q \in Paths : q = p /\ s = "cloning" =>
            Tends(c, q)' /\ (call[c].cred # 0 => Strips(c, q)')
  BY <1>2, <1>3 DEF KeepsRecord, Owns, CreateSteps, Tends, Strips
<1>8. \A q \in Paths :
         /\ tree[q].git = "clone" => tree'[q].git = "clone"
         /\ tree'[q].git # "none" => tree[q].git # "none" \/ Tends(c, q)'
         /\ tree'[q].origin # 0 => Strips(c, q)' \/ (tree[q].origin # 0 /\ ~Strips(c, q))
  BY <1>4, <1>5, <1>7
<1> QED BY <1>1, <1>3, <1>4, <1>6, <1>7, <1>8, MoveKeeps
        DEF StartClone, ReposInv, TypeOK, ghosts

(***************************************************************************)
(* Clone: a clone that ends well is the create's own to strip or finish,   *)
(* one that fails is left or taken away, whosever it is.                   *)
(***************************************************************************)
LEMMA CloneKeeps ==
    ASSUME ReposInv, NEW c \in Calls, Clone(c)
    PROVE  ReposInv'
<1> DEFINE p == call[c].path
<1>1. /\ call[c].at = "cloning" /\ p \in Paths /\ call[c].cred \in Cred
      /\ call[c] \in Call /\ CallsType /\ tree \in [Paths -> Tree]
  BY CallFields DEF Clone, At, ReposInv, TypeOK, CallsType
<1>2. CASE /\ tree[p].git # "none"
           /\ tree' = [tree EXCEPT ![p].git = "clone"]
           /\ Goto(c, IF call[c].cred # 0 THEN "strip" ELSE "head")
           /\ UNCHANGED ghosts
  <2>1. PICK s \in {"strip", "head"} : Goto(c, s) /\ (s = "strip" <=> call[c].cred # 0)
    BY <1>2
  <2>2. /\ CallsType' /\ call'[c].at = s
        /\ call'[c].path = p /\ call'[c].repo = call[c].repo /\ call'[c].cred = call[c].cred
        /\ \A d \in Calls : d # c => call'[d] = call[d]
    BY <1>1, <2>1, GotoMoves DEF Steps, CreateSteps
  <2>3. /\ tree' \in [Paths -> Tree]
        /\ tree'[p].git = "clone" /\ tree'[p].origin = tree[p].origin
        /\ \A q \in Paths : q # p => tree'[q] = tree[q]
    BY <1>1, <1>2, GitSet
  <2>4. Room'
    BY <2>1, <2>2, QuietRoom DEF Clone, stores
  <2>5. /\ KeepsRecord(c)
        /\ \A q \in Paths : /\ Tends(c, q) => Tends(c, q)'
                            /\ Strips(c, q) => Strips(c, q)'
    BY <1>1, <2>1, <2>2 DEF KeepsRecord, Owns, CreateSteps, Tends, Strips
  <2>6. \A q \in Paths :
           /\ tree[q].git = "clone" => tree'[q].git = "clone"
           /\ tree'[q].git # "none" => tree[q].git # "none" \/ Tends(c, q)'
           /\ tree'[q].origin # 0 => Strips(c, q)' \/ (tree[q].origin # 0 /\ ~Strips(c, q))
    BY <1>2, <2>1, <2>3, <2>5
  <2> QED BY <1>2, <2>2, <2>3, <2>4, <2>5, <2>6, MoveKeeps DEF Clone, ReposInv, TypeOK, ghosts
<1>3. CASE Goto(c, "drop") /\ UNCHANGED <<tree, ghosts>>
  <2>1. /\ CallsType' /\ call'[c].at = "drop"
        /\ call'[c].path = p /\ call'[c].repo = call[c].repo /\ call'[c].cred = call[c].cred
        /\ \A d \in Calls : d # c => call'[d] = call[d]
    BY <1>1, <1>3, GotoMoves DEF Steps, CreateSteps
  <2>2. Room'
    BY <2>1, QuietRoom DEF Clone, stores
  <2>3. /\ KeepsRecord(c)
        /\ \A q \in Paths : (Strips(c, q) => Strips(c, q)') /\ (Tends(c, q) => Tends(c, q)')
    BY <1>1, <2>1 DEF KeepsRecord, Owns, CreateSteps, Tends, Strips
  <2> QED BY <1>3, <2>1, <2>2, <2>3, MoveKeeps DEF Clone, ReposInv, TypeOK, ghosts
<1>4. CASE (RemoveAll(p) \/ RemovePart(p)) /\ TakeAway({p}, MovedTo(c, "drop"))
  <2> DEFINE cs == MovedTo(c, "drop")
  <2>1. /\ cs \in [Calls -> Call \cup {Idle}]
        /\ cs[c].at = "drop" /\ cs[c].path = p /\ cs[c].repo = call[c].repo
        /\ \A d \in Calls : d # c => cs[d] = call[d]
    BY <1>1 DEF MovedTo, Call, CallsType, CreateSteps
  <2>2. /\ tree' \in [Paths -> Tree]
        /\ \A q \in Paths : /\ q \notin {p} => tree'[q] = tree[q]
                            /\ tree'[q].git # "none" => tree[q].git # "none"
                            /\ tree'[q].origin # 0 => tree[q].origin # 0
        /\ left' \subseteq Paths /\ \A q \in left : q \in left' \/ Gone(q)'
    <3>1. CASE RemoveAll(p)
      BY <1>1, <3>1, AllRemoved DEF ReposInv, TypeOK, Gone
    <3>2. CASE RemovePart(p)
      BY <1>1, <3>2, PartRemoved DEF ReposInv, TypeOK
    <3> QED BY <1>4, <3>1, <3>2
  <2>3. \A d \in Calls :
           /\ \/ cs[d] = call[d]
              \/ /\ cs[d].at \notin {"reserve", "strip", "head", "finish"}
                 /\ call[d].path \notin Paths \ {p}
                 /\ cs[d].at = "drop" /\ cs[d].path = call[d].path
           /\ cs[d].at \in CreateSteps \ {"reserve"} =>
                 Owns(d) /\ cs[d].path = call[d].path /\ cs[d].repo = call[d].repo
    BY <1>1, <2>1 DEF Owns, CreateSteps
  <2>4. TakeAway({p}, cs) /\ UNCHANGED <<proc, stores>> /\ {p} \in SUBSET Paths
    BY <1>1, <1>4 DEF Clone
  <2> HIDE DEF cs, p
  <2> QED BY <2>1, <2>2, <2>3, <2>4, RemovalKeeps
<1> QED BY <1>2, <1>3, <1>4 DEF Clone

(***************************************************************************)
(* StripToken: the token goes, or the create goes on to remove the tree.   *)
(***************************************************************************)
LEMMA StripTokenKeeps ==
    ASSUME ReposInv, NEW c \in Calls, StripToken(c)
    PROVE  ReposInv'
<1> DEFINE p == call[c].path
<1>1. /\ call[c].at = "strip" /\ p \in Paths /\ CallsType /\ tree \in [Paths -> Tree]
  BY CallFields DEF StripToken, At, ReposInv, TypeOK, CallsType
<1>2. PICK s \in {"head", "drop"} :
         /\ Goto(c, s)
         /\ \/ s = "head" /\ tree[p].git = "clone" /\ tree' = [tree EXCEPT ![p].origin = 0]
            \/ s = "drop" /\ UNCHANGED tree
  BY DEF StripToken
<1>3. /\ CallsType' /\ call'[c].at = s
      /\ call'[c].path = p /\ call'[c].repo = call[c].repo
      /\ \A d \in Calls : d # c => call'[d] = call[d]
  BY <1>1, <1>2, GotoMoves DEF Steps, CreateSteps
<1>4. /\ tree' \in [Paths -> Tree]
      /\ tree'[p].git = tree[p].git /\ (s = "head" => tree'[p].origin = 0)
      /\ \A q \in Paths : q # p \/ s = "drop" => tree'[q] = tree[q]
  <2>1. CASE s = "drop" /\ UNCHANGED tree
    BY <1>1, <2>1
  <2>2. CASE s = "head" /\ tree' = [tree EXCEPT ![p].origin = 0]
    <3>1. 0 \in Cred
      BY DEF Cred
    <3> QED BY <1>1, <2>2, <3>1, OriginSet
  <2> QED BY <1>2, <2>1, <2>2
<1>5. Room'
  BY <1>2, <1>3, QuietRoom DEF StripToken, stores
<1>6. /\ KeepsRecord(c) /\ \A q \in Paths : Tends(c, q) => Tends(c, q)'
      /\ \A q \in Paths : /\ Strips(c, q) <=> q = p
                          /\ q = p /\ s = "drop" => Strips(c, q)'
  BY <1>1, <1>2, <1>3 DEF KeepsRecord, Owns, CreateSteps, Tends, Strips
<1>7. \A q \in Paths :
         /\ tree'[q].git = tree[q].git
         /\ tree'[q].origin # 0 => Strips(c, q)' \/ (tree[q].origin # 0 /\ ~Strips(c, q))
  BY <1>2, <1>4, <1>6
<1> QED BY <1>2, <1>3, <1>4, <1>5, <1>6, <1>7, MoveKeeps
        DEF StripToken, ReposInv, TypeOK, ghosts

(***************************************************************************)
(* CloneHead: a create goes on to its end when the clone is there.         *)
(***************************************************************************)
LEMMA CloneHeadKeeps ==
    ASSUME ReposInv, NEW c \in Calls, CloneHead(c)
    PROVE  ReposInv'
<1>1. PICK s \in {"finish", "drop"} :
         Goto(c, s) /\ (s = "finish" => tree[call[c].path].git = "clone")
  BY DEF CloneHead
<1>2. call[c].at = "head"
  BY DEF CloneHead, At
<1>3. /\ CallsType' /\ call'[c].at = s
      /\ call'[c].path = call[c].path /\ call'[c].repo = call[c].repo
      /\ \A d \in Calls : d # c => call'[d] = call[d]
  BY <1>1, <1>2, GotoMoves DEF ReposInv, TypeOK, CallsType, Steps, CreateSteps
<1>4. Room'
  BY <1>1, <1>3, QuietRoom DEF CloneHead, stores
<1>5. KeepsRecord(c) /\ \A q \in Paths : ~Strips(c, q) /\ (Tends(c, q) => Tends(c, q)')
  BY <1>1, <1>2, <1>3 DEF KeepsRecord, Owns, CreateSteps, Tends, Strips
<1> QED BY <1>1, <1>3, <1>4, <1>5, MoveKeeps DEF CloneHead, ReposInv, TypeOK, ghosts

(***************************************************************************)
(* ReserveRepo: the path is free, the id is new, and the create owns the   *)
(* record when it is on disk.                                              *)
(***************************************************************************)
LEMMA ReserveRepoKeeps ==
    ASSUME ReposInv, NEW c \in Calls, ReserveRepo(c)
    PROVE  ReposInv'
<1> USE DEF ReposInv
<1> DEFINE p == call[c].path
           n == nextRepo + 1
           rec == [path |-> p, cred |-> call[c].cred]
<1>1. /\ call[c].at = "reserve" /\ p \in Paths /\ call[c].cred \in Cred
      /\ CallsType /\ StoresType /\ call[c] \in Call
  BY CallFields DEF ReserveRepo, At, TypeOK, CallsType, StoresType
<1>2. n \in Id /\ n \in 0..MaxRepo /\ nextRepo \in Nat
  <2>1. IsFiniteSet(Reserving)
    BY ReposAssumption, FS_Subset DEF Reserving
  <2>2. c \in Reserving
    BY <1>1 DEF Reserving
  <2>3. Cardinality(Reserving) \in Nat /\ Cardinality(Reserving) # 0
    BY <2>1, <2>2, FS_CardinalityType, FS_EmptySet
  <2> QED BY <2>3, ReposAssumption DEF Room, TypeOK, Id
<1>3. /\ repos' \in [Id -> Repo \cup {NoRepo}] /\ repos'[n] = rec
      /\ \A i \in Id : i # n => repos'[i] = repos[i]
      /\ nextRepo' = n
  BY <1>1, <1>2 DEF ReserveRepo, StoresType, Repo
<1>4. PICK o \in persistGit(repos', n, creds) :
         /\ gitFile' = o.file
         /\ ServedOn(o)
         /\ IF o.end = "ok"
            THEN call' = [call EXCEPT ![c].at = "clone", ![c].repo = n]
            ELSE Return(c)
  BY DEF ReserveRepo
<1>5. /\ gitFile' \in Contents /\ proc' \in {"down", "up"}
      /\ gitFile' = gitFile \/ (gitFile'.repos = repos' /\ gitFile'.nextRepo = n)
      /\ o.end = "ok" => gitFile'.repos = repos' /\ gitFile'.nextRepo = n
  BY <1>1, <1>2, <1>3, <1>4, PersistMoves DEF StoresType
<1>6. /\ CallsType'
      /\ \A d \in Calls : d # c => call'[d] = call[d]
      /\ \/ call'[c] = Idle
         \/ /\ gitFile'.repos = repos' /\ call'[c].at = "clone"
            /\ call'[c].path = p /\ call'[c].repo = n
  <2>1. CASE o.end = "ok"
    <3> DEFINE new == [call[c] EXCEPT !.at = "clone", !.repo = n]
    <3>1. call' = [call EXCEPT ![c] = new]
      BY <1>4, <2>1
    <3>2. new \in Call /\ new.at = "clone" /\ new.path = p /\ new.repo = n
      BY <1>1, <1>2 DEF Call, CreateSteps
    <3> HIDE DEF new
    <3> QED BY <1>1, <1>5, <2>1, <3>1, <3>2 DEF CallsType
  <2>2. CASE o.end # "ok"
    BY <1>1, <1>4, <2>2, ReturnMoves
  <2> QED BY <2>1, <2>2
<1>7. /\ repos[n] = NoRepo /\ gitFile.repos[n] = NoRepo
      /\ \A i \in Id : repos[i] # NoRepo => i <= nextRepo
      /\ gitFile.nextRepo <= nextRepo /\ gitFile.nextRepo \in Nat
      /\ \A i \in Id : gitFile.repos[i] # NoRepo => i <= gitFile.nextRepo
  BY <1>1, <1>2, IdsAndRecords DEF IdsAreCounted
<1>8. n \notin promised /\ \A d \in Calls : Owns(d) => call[d].repo # n /\ call[d].repo \in Id
  BY <1>2, <1>7 DEF PromisesAreKept, OwnersHoldTheirRecord
<1>9. ~Owns(c) /\ (Owns(c)' => call'[c].at = "clone")
      /\ \A d \in Calls : d # c => (Owns(d)' <=> Owns(d))
  BY <1>1, <1>6 DEF Owns, CreateSteps, Idle
<1>10. StoresType'
  BY <1>1, <1>2, <1>3, <1>5 DEF StoresType, ReserveRepo
<1>11. TypeOK'
  BY <1>5, <1>6, <1>10 DEF TypeOK, StoresType, CallsType, ReserveRepo, ghosts
<1>12. Room'
  <2>1. IsFiniteSet(Reserving) /\ c \in Reserving
    BY <1>1, ReposAssumption, FS_Subset DEF Reserving
  <2>2. Reserving' = Reserving \ {c}
    BY <1>6 DEF Reserving, Idle
  <2>3. Cardinality(Reserving') = Cardinality(Reserving) - 1
        /\ Cardinality(Reserving) \in Nat
    BY <2>1, <2>2, FS_RemoveElement, FS_CardinalityType
  <2> QED BY <1>2, <1>3, <2>3, ReposAssumption DEF Room
<1>13. PathsDiffer'
  <2>1. \A i \in Id : repos[i].path # p
    BY <1>1 DEF ReserveRepo, PathIsTaken, ReposAt
  <2>2. rec.path = p
    OBVIOUS
  <2>3. \A i, j \in Id : repos[i].path = repos[j].path /\ repos[i] # NoRepo => i = j
    BY DEF PathsDiffer
  <2>4. \A i, j \in Id : repos'[i].path = repos'[j].path /\ repos'[i] # NoRepo => i = j
    BY <1>3, <2>1, <2>2, <2>3
  <2> QED BY <1>5, <2>4 DEF PathsDiffer
<1>14. IdsAreCounted'
  <2>1. \A i \in Id : i \in Nat
    BY <1>1, IdsAndRecords
  <2>2. \A i \in Id : repos'[i] # NoRepo => i <= n
    BY <1>2, <1>3, <1>7, <2>1
  <2>3. CASE gitFile' = gitFile
    BY <1>2, <1>3, <1>7, <2>2, <2>3 DEF IdsAreCounted
  <2>4. CASE gitFile'.repos = repos' /\ gitFile'.nextRepo = n
    BY <1>2, <1>3, <2>2, <2>4 DEF IdsAreCounted
  <2> QED BY <1>5, <2>3, <2>4
<1>15. OwnersHoldTheirRecord'
  <2>1. promised' = promised
    BY DEF ReserveRepo, ghosts
  <2> SUFFICES ASSUME NEW d \in Calls, Owns(d)'
               PROVE  /\ call'[d].repo \in Id /\ call'[d].repo <= n
                      /\ call'[d].repo \notin promised
                      /\ repos'[call'[d].repo] # NoRepo =>
                            /\ repos'[call'[d].repo].path = call'[d].path
                            /\ gitFile'.repos[call'[d].repo] = repos'[call'[d].repo]
                      /\ \A e \in Calls : Owns(e)' /\ call'[e].repo = call'[d].repo => e = d
    BY <1>3, <2>1 DEF OwnersHoldTheirRecord
  <2>2. CASE d = c
    <3>1. call'[c].at = "clone" /\ call'[c].path = p /\ call'[c].repo = n
          /\ gitFile'.repos = repos'
      BY <1>6, <1>9, <2>2 DEF Idle
    <3>2. \A e \in Calls : Owns(e)' /\ call'[e].repo = n => e = c
      BY <1>6, <1>8, <1>9
    <3> QED BY <1>2, <1>3, <1>8, <2>2, <3>1, <3>2
  <2>3. CASE d # c
    <3>1. Owns(d) /\ call'[d] = call[d]
      BY <1>6, <1>9, <2>3
    <3>2. /\ call[d].repo \in Id /\ call[d].repo <= nextRepo /\ call[d].repo \notin promised
          /\ repos[call[d].repo] # NoRepo =>
                /\ repos[call[d].repo].path = call[d].path
                /\ gitFile.repos[call[d].repo] = repos[call[d].repo]
          /\ \A e \in Calls : Owns(e) /\ call[e].repo = call[d].repo => e = d
      BY <3>1 DEF OwnersHoldTheirRecord
    <3>3. call[d].repo # n /\ call[d].repo \in Nat
      BY <1>1, <1>8, <3>1, IdsAndRecords
    <3>4. repos'[call[d].repo] # NoRepo =>
             /\ repos'[call[d].repo].path = call[d].path
             /\ gitFile'.repos[call[d].repo] = repos'[call[d].repo]
      BY <1>3, <1>5, <3>2, <3>3
    <3>5. \A e \in Calls : Owns(e)' /\ call'[e].repo = call[d].repo => e = d
      BY <1>6, <1>9, <3>2, <3>3 DEF Idle
    <3> QED BY <1>2, <3>1, <3>2, <3>3, <3>4, <3>5
  <2> QED BY <2>2, <2>3
<1>16. PromisesAreKept'
  <2>1. \A i \in promised : i # n /\ i \in Id
    BY <1>8 DEF TypeOK
  <2> QED BY <1>3, <1>5, <2>1 DEF PromisesAreKept, ReserveRepo, ghosts
<1>17. ClonesAreThere'
  BY <1>6 DEF ClonesAreThere, ReserveRepo, Idle
<1>18. TreesAreTended'
  <2> SUFFICES ASSUME NEW q \in Paths, tree[q].git # "none", q \notin left
               PROVE  Vouched(q)' \/ \E d \in Calls : Tends(d, q)'
    BY DEF TreesAreTended, ReserveRepo, ghosts
  <2>1. CASE Vouched(q)
    <3>1. PICK i \in Id : /\ repos[i].path = q /\ gitFile.repos[i] = repos[i]
                          /\ \A d \in Calls : Owns(d) => call[d].repo # i
      BY <2>1 DEF Vouched
    <3>2. i # n
      BY <1>1, <1>7, <3>1, IdsAndRecords
    <3>3. repos'[i].path = q /\ gitFile'.repos[i] = repos'[i]
      BY <1>3, <1>5, <3>1, <3>2
    <3>4. \A d \in Calls : Owns(d)' => call'[d].repo # i
      BY <1>6, <1>9, <3>1, <3>2 DEF Idle
    <3> QED BY <3>3, <3>4 DEF Vouched
  <2>2. CASE \E d \in Calls : Tends(d, q)
    BY <1>1, <1>6, <2>2 DEF Tends
  <2> QED BY <2>1, <2>2 DEF TreesAreTended
<1>19. TokensAreTended'
  <2> SUFFICES ASSUME NEW q \in Paths, tree[q].origin # 0, q \notin left
               PROVE  \E d \in Calls : Strips(d, q)'
    BY DEF TokensAreTended, ReserveRepo, ghosts
  <2>1. PICK d \in Calls : Strips(d, q)
    BY DEF TokensAreTended
  <2> QED BY <1>1, <1>6, <2>1 DEF Strips, ChangesOrigin
<1> QED BY <1>11, <1>12, <1>13, <1>14, <1>15, <1>16, <1>17, <1>18, <1>19

(***************************************************************************)
(* A step on the stores that leaves the trees alone keeps the invariant    *)
(* when every tree that had a record or a handler still has one, or is     *)
(* known to be left behind.                                                *)
(***************************************************************************)
LEMMA StoreStepKeeps ==
    ASSUME ReposInv, proc' \in {"down", "up"}, StoresType', Shrinks, UNCHANGED tree, CallsType',
           left' \subseteq Paths, left \subseteq left',
           promised' \subseteq Id, PromisesAreKept',
           \A d \in Calls :
              /\ KeepsRecord(d)
              /\ Owns(d)' => call[d].repo \notin promised'
              /\ call'[d].at = "reserve" => call[d].at = "reserve"
              /\ call'[d].at \in {"strip", "head", "finish"} /\ ~call'[d].touched
                    => call[d].at = call'[d].at /\ call[d].path = call'[d].path /\ ~call[d].touched
              /\ \A q \in Paths :
                    /\ Tends(d, q) => Tends(d, q)' \/ Vouched(q)' \/ q \in left' \/ Gone(q)
                    /\ Strips(d, q) => Strips(d, q)' \/ q \in left' \/ Gone(q),
           \A q \in Paths : Vouched(q) /\ tree[q].git # "none" =>
              Vouched(q)' \/ q \in left' \/ \E d \in Calls : Tends(d, q)'
    PROVE  ReposInv'
<1> USE DEF ReposInv
<1>1. TypeOK'
  BY DEF TypeOK, StoresType, CallsType
<1>2. Room'
  BY QuietRoom DEF Shrinks
<1>3. PathsDiffer' /\ IdsAreCounted'
  BY QuietStores
<1>4. OwnersHoldTheirRecord'
  BY QuietOwners
<1>5. ClonesAreThere'
  BY DEF ClonesAreThere
<1>6. TreesAreTended'
  BY DEF TreesAreTended, Gone
<1>7. TokensAreTended'
  BY DEF TokensAreTended, Gone
<1> QED BY <1>1, <1>2, <1>3, <1>4, <1>5, <1>6, <1>7

(***************************************************************************)
(* FinishCreate: the clone is promised when its record is written and      *)
(* nobody took the path away; without a record the tree is left behind.    *)
(***************************************************************************)
LEMMA FinishCreateKeeps ==
    ASSUME ReposInv, NEW c \in Calls, FinishCreate(c)
    PROVE  ReposInv'
<1> USE DEF ReposInv
<1> DEFINE i == call[c].repo
           p == call[c].path
<1>1. /\ call[c].at = "finish" /\ p \in Paths /\ CallsType /\ StoresType
      /\ Owns(c) /\ i \in Id
  BY CallFields DEF FinishCreate, At, TypeOK, CallsType, StoresType, Owns, CreateSteps,
                    OwnersHoldTheirRecord
<1>2. CallsType' /\ call'[c] = Idle /\ \A d \in Calls : d # c => call'[d] = call[d]
  BY <1>1, ReturnMoves DEF FinishCreate
<1>3. \A d \in Calls :
         /\ KeepsRecord(d)
         /\ call'[d].at = "reserve" => call[d].at = "reserve"
         /\ call'[d].at \in {"strip", "head", "finish"} /\ ~call'[d].touched
                    => call[d].at = call'[d].at /\ call[d].path = call'[d].path /\ ~call[d].touched
         /\ \A q \in Paths :
               /\ Tends(d, q) => Tends(d, q)' \/ (d = c /\ q = p)
               /\ Strips(d, q) => Strips(d, q)'
  BY <1>1, <1>2 DEF KeepsRecord, Owns, CreateSteps, Idle, Tends, Strips, ChangesOrigin
<1>4. \A d \in Calls : Owns(d)' => d # c /\ call[d].repo # i /\ call[d].repo \notin promised
  BY <1>1, <1>2, <1>3 DEF KeepsRecord, OwnersHoldTheirRecord, Owns, CreateSteps, Idle
<1>5. CASE /\ FinishRepo(i) = {}
           /\ LeaveBehind(p)
           /\ UNCHANGED <<proc, gitFile, promised>>
  <2>1. Shrinks /\ StoresType'
    BY <1>1, <1>5 DEF Shrinks, StoresType, FinishCreate
  <2>2. PromisesAreKept'
    BY <1>5 DEF PromisesAreKept, FinishCreate
  <2>3. \A q \in Paths : Vouched(q) => Vouched(q)'
    BY <1>3, <2>1, QuietVouched DEF FinishCreate
  <2>4. /\ left' \subseteq Paths /\ left \subseteq left' /\ (p \in left' \/ Gone(p))
        /\ promised' \subseteq Id
        /\ proc' \in {"down", "up"} /\ UNCHANGED <<tree, promised>>
    BY <1>1, <1>5, LeaveBehindRecords DEF TypeOK, FinishCreate
  <2> HIDE DEF i, p
  <2> QED BY <1>2, <1>3, <1>4, <2>1, <2>2, <2>3, <2>4, StoreStepKeeps
<1>6. CASE \E o \in FinishRepo(i) :
              /\ gitFile' = o.file
              /\ ServedOn(o)
              /\ promised' = IF o.end = "ok" /\ ~call[c].touched
                             THEN promised \cup {i} ELSE promised
              /\ UNCHANGED left
  <2>1. PICK o \in FinishRepo(i) :
              /\ gitFile' = o.file
              /\ ServedOn(o)
              /\ promised' = IF o.end = "ok" /\ ~call[c].touched
                             THEN promised \cup {i} ELSE promised
              /\ UNCHANGED left
    BY <1>6
  <2>2. repos[i] # NoRepo /\ o \in persistGit(repos, nextRepo, creds)
    BY <2>1 DEF FinishRepo
  <2>3. /\ gitFile' \in Contents /\ proc' \in {"down", "up"}
        /\ gitFile' = gitFile \/ (gitFile'.repos = repos /\ gitFile'.nextRepo = nextRepo)
    BY <1>1, <2>1, <2>2, PersistMoves DEF StoresType
  <2>4. Shrinks /\ StoresType'
    BY <1>1, <2>3 DEF Shrinks, StoresType, FinishCreate
  <2>5. repos[i].path = p /\ gitFile.repos[i] = repos[i]
    BY <1>1, <2>2 DEF OwnersHoldTheirRecord
  <2>6. gitFile'.repos[i] = repos[i]
    BY <2>3, <2>5
  <2>7. promised' \subseteq promised \cup {i}
        /\ (i \in promised' => i \in promised \/ ~call[c].touched)
    BY <2>1
  <2>8. PromisesAreKept'
    <3> SUFFICES ASSUME NEW j \in promised'
                 PROVE  /\ repos[j] # NoRepo /\ gitFile'.repos[j] = repos[j]
                        /\ tree[repos[j].path].git = "clone"
      BY DEF PromisesAreKept, FinishCreate
    <3>1. CASE j \in promised
      BY <2>3, <3>1 DEF PromisesAreKept
    <3>2. CASE j = i /\ ~call[c].touched
      BY <1>1, <2>2, <2>5, <2>6, <3>2 DEF ClonesAreThere
    <3> QED BY <2>7, <3>1, <3>2
  <2>9. \A q \in Paths : (Vouched(q) => Vouched(q)') /\ (q = p => Vouched(q)')
    <3>1. \A q \in Paths : Vouched(q) => Vouched(q)'
      BY <1>3, <2>4, QuietVouched DEF FinishCreate
    <3>2. \A d \in Calls : Owns(d)' => call'[d].repo # i
      BY <1>2, <1>4
    <3> QED BY <1>1, <2>5, <2>6, <3>1, <3>2 DEF Vouched, FinishCreate
  <2>10. /\ left' \subseteq Paths /\ left \subseteq left' /\ promised' \subseteq Id
         /\ UNCHANGED tree
    BY <1>1, <2>1, <2>7 DEF TypeOK, FinishCreate
  <2>11. \A d \in Calls : Owns(d)' => call[d].repo \notin promised'
    BY <1>4, <2>7
  <2> HIDE DEF i, p
  <2> QED BY <1>2, <1>3, <2>3, <2>4, <2>8, <2>9, <2>10, <2>11, StoreStepKeeps
<1> QED BY <1>5, <1>6 DEF FinishCreate

--------------------------------------------------------------------------------
(* Dropping and removing                                                       *)

(***************************************************************************)
(* CleanUpRecord drops the record the create owns, which vouches for no    *)
(* tree.                                                                   *)
(***************************************************************************)
LEMMA CleanUpRecordKeeps ==
    ASSUME ReposInv, NEW c \in Calls, CleanUpRecord(c)
    PROVE  ReposInv'
<1> USE DEF ReposInv
<1> DEFINE i == call[c].repo
<1>1. /\ call[c].at \in {"drop", "dropOnly"} /\ proc = "up" /\ CallsType /\ StoresType
      /\ Owns(c) /\ i \in Id /\ i \notin promised
  BY DEF CleanUpRecord, At, TypeOK, CallsType, StoresType, Owns, CreateSteps,
         OwnersHoldTheirRecord
<1>2. /\ StoresType' /\ proc' \in {"down", "up"}
      /\ nextRepo' = nextRepo
      /\ \A j \in Id : repos'[j] = IF j \in {i} THEN NoRepo ELSE repos[j]
      /\ gitFile' = gitFile \/ (gitFile'.repos = repos' /\ gitFile'.nextRepo = nextRepo)
  BY <1>1, DropMoves DEF CleanUpRecord, Own
<1>3. /\ CallsType'
      /\ \A d \in Calls : d # c => call'[d] = call[d]
      /\ \/ call'[c] = Idle /\ call[c].at = "dropOnly"
         \/ /\ call'[c].at = "remove" /\ call[c].at = "drop"
            /\ call'[c].path = call[c].path /\ call'[c].repo = call[c].repo
  <2>1. CASE call[c].at = "drop"
    BY <1>1, <2>1, GotoMoves DEF CleanUpRecord, AfterDrop, Steps, CreateSteps
  <2>2. CASE call[c].at = "dropOnly"
    BY <1>1, <2>2, ReturnMoves DEF CleanUpRecord, AfterDrop
  <2> QED BY <1>1, <2>1, <2>2
<1>4. Shrinks
  BY <1>2 DEF Shrinks
<1>5. \A d \in Calls :
         /\ KeepsRecord(d)
         /\ call'[d].at = "reserve" => call[d].at = "reserve"
         /\ call'[d].at \in {"strip", "head", "finish"} /\ ~call'[d].touched
                    => call[d].at = call'[d].at /\ call[d].path = call'[d].path /\ ~call[d].touched
         /\ \A q \in Paths :
               /\ Tends(d, q) => Tends(d, q)'
               /\ Strips(d, q) => Strips(d, q)'
  BY <1>1, <1>3 DEF KeepsRecord, Owns, CreateSteps, Idle, Tends, Strips, ChangesOrigin
<1>6. \A d \in Calls : Owns(d)' => call[d].repo \notin promised'
  BY <1>5 DEF KeepsRecord, OwnersHoldTheirRecord, CleanUpRecord, ghosts
<1>7. PromisesAreKept'
  <2>1. promised' = promised /\ tree' = tree /\ promised \subseteq Id
    BY DEF CleanUpRecord, ghosts, TypeOK
  <2>2. \A j \in promised : repos'[j] = repos[j]
    BY <1>1, <1>2, <2>1
  <2> HIDE DEF i
  <2> QED BY <1>4, <2>1, <2>2, QuietPromises
<1>8. ASSUME NEW q \in Paths, Vouched(q)
      PROVE  Vouched(q)'
  <2>1. PICK j \in Id : /\ repos[j].path = q /\ gitFile.repos[j] = repos[j]
                        /\ \A d \in Calls : Owns(d) => call[d].repo # j
    BY <1>8 DEF Vouched
  <2>2. j # i
    BY <1>1, <2>1
  <2>3. repos'[j].path = q /\ gitFile'.repos[j] = repos'[j]
    BY <1>2, <2>1, <2>2
  <2>4. \A d \in Calls : Owns(d)' => call'[d].repo # j
    BY <1>5, <2>1 DEF KeepsRecord
  <2> QED BY <2>3, <2>4 DEF Vouched
<1>9. left' \subseteq Paths /\ left \subseteq left' /\ promised' \subseteq Id /\ UNCHANGED tree
  BY DEF TypeOK, CleanUpRecord, ghosts
<1> HIDE DEF i
<1> QED BY <1>2, <1>3, <1>4, <1>5, <1>6, <1>7, <1>8, <1>9, StoreStepKeeps

(***************************************************************************)
(* A removal takes a part and goes on, or takes all and ends.              *)
(***************************************************************************)
LEMMA RemovedKeeps ==
    ASSUME ReposInv, NEW c \in Calls, call[c].at \in {"remove", "removeTree"},
           \/ RemovePart(call[c].path) /\ TakeAway({call[c].path}, call)
           \/ RemoveAll(call[c].path) /\ TakeAway({call[c].path}, Ended(c)),
           UNCHANGED <<proc, stores>>
    PROVE  ReposInv'
<1> USE DEF ReposInv
<1> DEFINE p == call[c].path
<1>1. p \in Paths /\ {p} \in SUBSET Paths /\ CallsType
      /\ tree \in [Paths -> Tree] /\ left \subseteq Paths
  BY CallFields DEF TypeOK, CallsType
<1>2. CASE RemovePart(p) /\ TakeAway({p}, call)
  <2>1. /\ tree' \in [Paths -> Tree] /\ left' = left
        /\ \A q \in Paths : /\ q \notin {p} => tree'[q] = tree[q]
                            /\ tree'[q].git # "none" => tree[q].git # "none"
                            /\ tree'[q].origin # 0 => tree[q].origin # 0
    BY <1>1, <1>2, PartRemoved
  <2>2. \A d \in Calls : call[d].at \in CreateSteps \ {"reserve"} => Owns(d)
    BY DEF Owns
  <2> HIDE DEF p
  <2> QED BY <1>1, <1>2, <2>1, <2>2, RemovalKeeps DEF CallsType
<1>3. CASE RemoveAll(p) /\ TakeAway({p}, Ended(c))
  <2> DEFINE cs == Ended(c)
  <2>1. /\ cs \in [Calls -> Call \cup {Idle}] /\ cs[c] = Idle
        /\ \A d \in Calls : d # c => cs[d] = call[d]
    BY <1>1 DEF Ended, CallsType
  <2>2. /\ tree' \in [Paths -> Tree] /\ tree'[p].git = "none" /\ tree'[p].origin = 0
        /\ \A q \in Paths : /\ q \notin {p} => tree'[q] = tree[q]
                            /\ tree'[q].git # "none" => tree[q].git # "none"
                            /\ tree'[q].origin # 0 => tree[q].origin # 0
        /\ left' \subseteq Paths /\ \A q \in left : q \in left' \/ q = p
    BY <1>1, <1>3, AllRemoved
  <2>3. (\A q \in left : q \in left' \/ Gone(q)')
        /\ \A q \in Paths : q = p => Gone(q)'
    BY <2>2 DEF Gone
  <2>4. \A d \in Calls :
           /\ \/ cs[d] = call[d]
              \/ /\ cs[d].at \notin {"reserve", "strip", "head", "finish"}
                 /\ call[d].path \notin Paths \ {p}
                 /\ \A q \in Paths : q = call[d].path => Gone(q)'
           /\ cs[d].at \in CreateSteps \ {"reserve"} =>
                 Owns(d) /\ cs[d].path = call[d].path /\ cs[d].repo = call[d].repo
    BY <2>1, <2>3 DEF Owns, Idle, CreateSteps
  <2> HIDE DEF cs, p
  <2> QED BY <1>1, <1>3, <2>1, <2>2, <2>3, <2>4, RemovalKeeps DEF cs
<1> QED BY <1>2, <1>3

(***************************************************************************)
(* CleanUpTree and RemoveTree: what a failing removal leaves is recorded.  *)
(***************************************************************************)
LEMMA RemoveKeeps ==
    ASSUME ReposInv, NEW c \in Calls, CleanUpTree(c) \/ RemoveTree(c)
    PROVE  ReposInv'
<1> USE DEF ReposInv
<1> DEFINE p == call[c].path
<1>1. /\ call[c].at \in {"remove", "removeTree"} /\ Remove(c) /\ p \in Paths
      /\ CallsType /\ StoresType
  BY CallFields DEF CleanUpTree, RemoveTree, At, TypeOK, CallsType, StoresType
<1>2. UNCHANGED <<proc, stores>>
  BY <1>1 DEF Remove
<1>3. CASE LeaveBehind(p) /\ Return(c) /\ UNCHANGED <<tree, promised>>
  <2>1. CallsType' /\ call'[c] = Idle /\ \A d \in Calls : d # c => call'[d] = call[d]
    BY <1>1, <1>3, ReturnMoves
  <2>2. left' \subseteq Paths /\ left \subseteq left' /\ (p \in left' \/ Gone(p))
    BY <1>1, <1>3, LeaveBehindRecords DEF TypeOK
  <2>3. Shrinks /\ StoresType' /\ proc' \in {"down", "up"} /\ promised' \subseteq Id
    BY <1>1, <1>2, <1>3 DEF Shrinks, StoresType, stores, TypeOK
  <2>4. \A d \in Calls :
           /\ KeepsRecord(d)
           /\ call'[d].at = "reserve" => call[d].at = "reserve"
           /\ call'[d].at \in {"strip", "head", "finish"} /\ ~call'[d].touched
                    => call[d].at = call'[d].at /\ call[d].path = call'[d].path /\ ~call[d].touched
           /\ \A q \in Paths :
                 /\ Tends(d, q) => Tends(d, q)' \/ q = p
                 /\ Strips(d, q) => Strips(d, q)' \/ q = p
    BY <1>1, <2>1 DEF KeepsRecord, Owns, CreateSteps, Idle, Tends, Strips, ChangesOrigin
  <2>5. \A d \in Calls : Owns(d)' => call[d].repo \notin promised'
    BY <1>3, <2>4 DEF KeepsRecord, OwnersHoldTheirRecord
  <2>6. PromisesAreKept'
    BY <1>2, <1>3 DEF PromisesAreKept, stores
  <2>7. \A q \in Paths : Vouched(q) => Vouched(q)'
    BY <1>2, <2>3, <2>4, QuietVouched DEF stores
  <2> HIDE DEF p
  <2> QED BY <1>3, <2>1, <2>2, <2>3, <2>4, <2>5, <2>6, <2>7, StoreStepKeeps
<1> QED BY <1>1, <1>2, <1>3, RemovedKeeps DEF Remove

(***************************************************************************)
(* The state a handler that deletes starts in.                             *)
(***************************************************************************)
LEMMA DeletingMoves ==
    ASSUME CallsType, NEW c \in Calls, NEW s \in DeleteSteps, NEW p \in Paths
    PROVE  /\ Deleting(c, s, p) \in [Calls -> Call \cup {Idle}]
           /\ Deleting(c, s, p)[c].at = s /\ Deleting(c, s, p)[c].path = p
           /\ \A d \in Calls : d # c => Deleting(c, s, p)[d] = call[d]
<1>1. Deleting(c, s, p) = [call EXCEPT ![c] = NewCall(s, p, 0, 0)]
  BY DEF Deleting
<1>2. 0 \in 0..MaxRepo /\ 0 \in Cred /\ s \in Steps
  BY ReposAssumption DEF Cred, Steps
<1> QED BY <1>1, <1>2, NewCallMoves

(***************************************************************************)
(* workspaceDelete takes the tree away, and goes on to its record.         *)
(***************************************************************************)
LEMMA workspaceDeleteKeeps ==
    ASSUME ReposInv, NEW c \in Calls, NEW p \in Paths, workspaceDelete(c, p)
    PROVE  ReposInv'
<1> USE DEF ReposInv
<1> DEFINE cs == Deleting(c, "dropPath", p)
<1>1. call[c] = Idle /\ CallsType
  BY CallFields DEF workspaceDelete, At, TypeOK, CallsType
<1>2. /\ cs \in [Calls -> Call \cup {Idle}] /\ cs[c].at = "dropPath" /\ cs[c].path = p
      /\ \A d \in Calls : d # c => cs[d] = call[d]
  BY <1>1, DeletingMoves DEF DeleteSteps
<1>3. /\ tree' \in [Paths -> Tree] /\ tree'[p].git = "none" /\ tree'[p].origin = 0
      /\ \A q \in Paths : /\ q \notin {p} => tree'[q] = tree[q]
                          /\ tree'[q].git # "none" => tree[q].git # "none"
                          /\ tree'[q].origin # 0 => tree[q].origin # 0
      /\ left' \subseteq Paths /\ \A q \in left : q \in left' \/ q = p
  BY AllRemoved DEF workspaceDelete, TypeOK
<1>5. \A q \in left : q \in left' \/ Gone(q)'
  BY <1>3 DEF Gone
<1>6. TakeAway({p}, cs) /\ UNCHANGED <<proc, stores>> /\ {p} \in SUBSET Paths
  BY DEF workspaceDelete
<1>4. \A d \in Calls :
         /\ \/ cs[d] = call[d]
            \/ /\ cs[d].at \notin {"reserve", "strip", "head", "finish"}
               /\ call[d].path \notin Paths
         /\ cs[d].at \in CreateSteps \ {"reserve"} =>
               Owns(d) /\ cs[d].path = call[d].path /\ cs[d].repo = call[d].repo
  BY <1>1, <1>2, ReposAssumption DEF Owns, Idle, CreateSteps
<1> HIDE DEF cs
<1> QED BY <1>2, <1>3, <1>4, <1>5, <1>6, RemovalKeeps

(***************************************************************************)
(* workspaceDelete of the folder takes every tree away and moves no call.  *)
(***************************************************************************)
LEMMA workspaceDeleteFolderKeeps ==
    ASSUME ReposInv, workspaceDeleteFolder
    PROVE  ReposInv'
<1> USE DEF ReposInv
<1>1. TakeAway(Paths, call) /\ UNCHANGED <<proc, stores>>
  BY DEF workspaceDeleteFolder
<1>2. /\ tree' \in [Paths -> Tree] /\ \A q \in Paths : Gone(q)'
      /\ left' = {} /\ left \subseteq Paths /\ call \in [Calls -> Call \cup {Idle}]
  BY DEF workspaceDeleteFolder, TypeOK, NoTree, Tree, Cred, Gone
<1>3. \A d \in Calls : call[d].at \in CreateSteps \ {"reserve"} => Owns(d)
  BY DEF Owns
<1> QED BY <1>1, <1>2, <1>3, RemovalKeeps DEF Gone

(***************************************************************************)
(* Either delete on its way moves no call.                                 *)
(***************************************************************************)
LEMMA workspaceDeletePartKeeps ==
    ASSUME ReposInv, NEW p \in Paths, workspaceDeletePart(p)
    PROVE  ReposInv'
<1> USE DEF ReposInv
<1>1. /\ tree' \in [Paths -> Tree] /\ left' = left
      /\ \A q \in Paths : /\ q \notin {p} => tree'[q] = tree[q]
                          /\ tree'[q].git # "none" => tree[q].git # "none"
                          /\ tree'[q].origin # 0 => tree[q].origin # 0
  BY PartRemoved DEF workspaceDeletePart, TypeOK
<1>2. TakeAway({p}, call) /\ UNCHANGED <<proc, stores>> /\ {p} \in SUBSET Paths
  BY DEF workspaceDeletePart
<1>3. /\ call \in [Calls -> Call \cup {Idle}] /\ left \subseteq Paths
      /\ \A d \in Calls : call[d].at \in CreateSteps \ {"reserve"} => Owns(d)
  BY DEF Owns, TypeOK
<1> QED BY <1>1, <1>2, <1>3, RemovalKeeps

(***************************************************************************)
(* reposDelete: the tree whose record it drops is the handler's to remove. *)
(***************************************************************************)
LEMMA reposDeleteKeeps ==
    ASSUME ReposInv, NEW c \in Calls, NEW i \in Id, reposDelete(c, i)
    PROVE  ReposInv'
<1> USE DEF ReposInv
<1> DEFINE p == repos[i].path
           cs == Deleting(c, "removeTree", p)
<1>1. /\ call[c] = Idle /\ proc = "up" /\ CallsType /\ StoresType /\ p \in Paths
  BY CallFields, IdsAndRecords DEF reposDelete, At, TypeOK, CallsType, StoresType
<1>2. /\ StoresType' /\ proc' \in {"down", "up"}
      /\ nextRepo' = nextRepo
      /\ \A j \in Id : repos'[j] = IF j \in {i} THEN NoRepo ELSE repos[j]
      /\ gitFile' = gitFile \/ (gitFile'.repos = repos' /\ gitFile'.nextRepo = nextRepo)
  BY <1>1, DropMoves DEF reposDelete
<1>3. Shrinks
  BY <1>2 DEF Shrinks
<1>4. /\ cs \in [Calls -> Call \cup {Idle}] /\ cs[c].at = "removeTree" /\ cs[c].path = p
      /\ \A d \in Calls : d # c => cs[d] = call[d]
  BY <1>1, DeletingMoves DEF DeleteSteps
<1>5. /\ promised' = promised \ {j \in Id : repos[j].path \in {p}}
      /\ TakeAway({p}, cs)
  BY DEF reposDelete, TakeAway
<1>6. CallsType' /\ \A d \in Calls :
          /\ call'[d].at = cs[d].at
          /\ call'[d].path = cs[d].path /\ call'[d].repo = cs[d].repo
          /\ call'[d].cred = cs[d].cred /\ call'[d].origin = cs[d].origin
          /\ ~call'[d].touched =>
                ~cs[d].touched /\ ~(cs[d].path \in {p} /\ cs[d].at \in CreateSteps)
  <2> HIDE DEF cs
  <2> QED BY <1>4, <1>5, TakeAwayMoves
<1> HIDE DEF cs
<1>7. \A d \in Calls :
         /\ KeepsRecord(d)
         /\ call'[d].at = "reserve" => call[d].at = "reserve"
         /\ call'[d].at \in {"strip", "head", "finish"} /\ ~call'[d].touched
                    => call[d].at = call'[d].at /\ call[d].path = call'[d].path /\ ~call[d].touched
         /\ \A q \in Paths :
               /\ Tends(d, q) => Tends(d, q)'
               /\ Strips(d, q) => Strips(d, q)'
  BY <1>1, <1>4, <1>6 DEF KeepsRecord, Owns, CreateSteps, Idle, Tends, Strips, ChangesOrigin
<1>8. \A d \in Calls : Owns(d)' => call[d].repo \notin promised'
  BY <1>5, <1>7 DEF KeepsRecord, OwnersHoldTheirRecord
<1>9. PromisesAreKept'
  <2>1. promised' \subseteq promised /\ i \notin promised' /\ promised \subseteq Id
    BY <1>5 DEF TypeOK
  <2>2. \A j \in promised' : repos'[j] = repos[j]
    BY <1>2, <2>1
  <2>3. UNCHANGED tree
    BY DEF reposDelete
  <2> QED BY <1>3, <2>1, <2>2, <2>3, QuietPromises
<1>10. ASSUME NEW q \in Paths, Vouched(q)
       PROVE  Vouched(q)' \/ \E d \in Calls : Tends(d, q)'
  <2>1. CASE q = p
    BY <1>4, <1>6, <2>1 DEF Tends
  <2>2. CASE q # p
    <3>1. \A j \in Id : repos[j].path = q => repos'[j] = repos[j]
      BY <1>2, <2>2
    <3> QED BY <1>3, <1>7, <1>10, <3>1, QuietVouched
  <2> QED BY <2>1, <2>2
<1>11. left' \subseteq Paths /\ left \subseteq left' /\ promised' \subseteq Id /\ UNCHANGED tree
  BY <1>5 DEF TypeOK, reposDelete
<1> HIDE DEF p
<1> QED BY <1>2, <1>3, <1>6, <1>7, <1>8, <1>9, <1>10, <1>11, StoreStepKeeps

(***************************************************************************)
(* DropRepoByPath: a clone that came to the path meanwhile is left behind. *)
(***************************************************************************)
LEMMA DropRepoByPathKeeps ==
    ASSUME ReposInv, NEW c \in Calls, DropRepoByPath(c)
    PROVE  ReposInv'
<1> USE DEF ReposInv
<1> DEFINE p == call[c].path
           cs == Ended(c)
<1>1. /\ call[c].at = "dropPath" /\ proc = "up" /\ CallsType /\ StoresType /\ p \in Paths
  BY CallFields DEF DropRepoByPath, At, TypeOK, CallsType, StoresType
<1>2. /\ StoresType' /\ proc' \in {"down", "up"}
      /\ nextRepo' = nextRepo
      /\ \A j \in Id : repos'[j] = IF j \in ReposAt(p) THEN NoRepo ELSE repos[j]
      /\ gitFile' = gitFile \/ (gitFile'.repos = repos' /\ gitFile'.nextRepo = nextRepo)
  BY <1>1, DropMoves DEF DropRepoByPath
<1>3. Shrinks
  BY <1>2 DEF Shrinks
<1>4. /\ cs \in [Calls -> Call \cup {Idle}] /\ cs[c] = Idle
      /\ \A d \in Calls : d # c => cs[d] = call[d]
  BY <1>1 DEF Ended, CallsType
<1>5. /\ promised' = promised \ {j \in Id : repos[j].path \in {p}}
      /\ TakeAway({p}, cs)
  BY DEF DropRepoByPath, TakeAway
<1>6. CallsType' /\ \A d \in Calls :
          /\ call'[d].at = cs[d].at
          /\ call'[d].path = cs[d].path /\ call'[d].repo = cs[d].repo
          /\ call'[d].cred = cs[d].cred /\ call'[d].origin = cs[d].origin
          /\ ~call'[d].touched =>
                ~cs[d].touched /\ ~(cs[d].path \in {p} /\ cs[d].at \in CreateSteps)
  <2> HIDE DEF cs
  <2> QED BY <1>4, <1>5, TakeAwayMoves
<1> HIDE DEF cs
<1>7. \A d \in Calls :
         /\ KeepsRecord(d)
         /\ call'[d].at = "reserve" => call[d].at = "reserve"
         /\ call'[d].at \in {"strip", "head", "finish"} /\ ~call'[d].touched
                    => call[d].at = call'[d].at /\ call[d].path = call'[d].path /\ ~call[d].touched
         /\ \A q \in Paths :
               /\ Tends(d, q) => Tends(d, q)'
               /\ Strips(d, q) => Strips(d, q)'
  BY <1>1, <1>4, <1>6 DEF KeepsRecord, Owns, CreateSteps, Idle, Tends, Strips, ChangesOrigin
<1>8. \A d \in Calls : Owns(d)' => call[d].repo \notin promised'
  BY <1>5, <1>7 DEF KeepsRecord, OwnersHoldTheirRecord
<1>9. PromisesAreKept'
  <2>1. promised' \subseteq promised /\ promised \subseteq Id
        /\ \A j \in promised' : j \notin ReposAt(p)
    BY <1>5 DEF TypeOK, ReposAt
  <2>2. \A j \in promised' : repos'[j] = repos[j]
    BY <1>2, <2>1
  <2>3. UNCHANGED tree
    BY DEF DropRepoByPath
  <2> QED BY <1>3, <2>1, <2>2, <2>3, QuietPromises
<1>10. ASSUME NEW q \in Paths, Vouched(q), tree[q].git # "none"
       PROVE  Vouched(q)' \/ q \in left'
  <2>1. CASE q = p
    BY <1>10, <2>1 DEF DropRepoByPath
  <2>2. CASE q # p
    <3>1. \A j \in Id : repos[j].path = q => repos'[j] = repos[j]
      BY <1>2, <2>2 DEF ReposAt
    <3> QED BY <1>3, <1>7, <1>10, <3>1, QuietVouched
  <2> QED BY <2>1, <2>2
<1>11. left' \subseteq Paths /\ left \subseteq left' /\ promised' \subseteq Id /\ UNCHANGED tree
  BY <1>1, <1>5 DEF TypeOK, DropRepoByPath
<1> HIDE DEF p
<1> QED BY <1>2, <1>3, <1>6, <1>7, <1>8, <1>9, <1>10, <1>11, StoreStepKeeps

(***************************************************************************)
(* workspaceImport puts objects into a tree, and is no git command.        *)
(***************************************************************************)
LEMMA workspaceImportKeeps ==
    ASSUME ReposInv, NEW p \in Paths, workspaceImport(p)
    PROVE  ReposInv'
<1> USE DEF ReposInv
<1>1. /\ tree' \in [Paths -> Tree]
      /\ \A q \in Paths : tree'[q].git = tree[q].git /\ tree'[q].origin = tree[q].origin
  BY UserSet DEF workspaceImport, TypeOK
<1>2. UNCHANGED <<proc, repos, nextRepo, creds, gitFile, call, promised, left>>
  BY DEF workspaceImport, stores, ghosts
<1>3. TypeOK'
  BY <1>1, <1>2 DEF TypeOK
<1>4. Room' /\ PathsDiffer' /\ IdsAreCounted' /\ OwnersHoldTheirRecord'
  BY <1>2 DEF Room, Reserving, PathsDiffer, IdsAreCounted, OwnersHoldTheirRecord, Owns
<1>5. PromisesAreKept'
  <2>1. \A i \in promised : repos[i].path \in Paths
    BY DEF PromisesAreKept, TypeOK, Repo
  <2> QED BY <1>1, <1>2, <2>1 DEF PromisesAreKept
<1>6. ClonesAreThere'
  <2>1. \A c \in Calls : call[c].at \in {"strip", "head", "finish"} => call[c].path \in Paths
    BY CallFields DEF TypeOK, CallsType
  <2> QED BY <1>1, <1>2, <2>1 DEF ClonesAreThere
<1>7. TreesAreTended'
  BY <1>1, <1>2 DEF TreesAreTended, Vouched, Tends, Owns
<1>8. TokensAreTended'
  BY <1>1, <1>2 DEF TokensAreTended, Strips, ChangesOrigin
<1> QED BY <1>3, <1>4, <1>5, <1>6, <1>7, <1>8

--------------------------------------------------------------------------------
(* The steps of an update                                                      *)

(***************************************************************************)
(* Fetch, GetOrigin and UpdateHead only move the handler.                  *)
(***************************************************************************)
LEMMA UpdateMovesKeep ==
    ASSUME ReposInv, NEW c \in Calls, GetOrigin(c) \/ Fetch(c) \/ UpdateHead(c)
    PROVE  ReposInv'
<1> USE DEF ReposInv
<1>1. /\ CallsType /\ call[c].at \in {"getOrigin", "fetch", "updateHead"}
      /\ UNCHANGED <<proc, stores, tree, ghosts>>
  BY DEF GetOrigin, Fetch, UpdateHead, At, TypeOK, CallsType
<1>2. /\ CallsType'
      /\ \A d \in Calls : d # c => call'[d] = call[d]
      /\ \/ call'[c] = Idle /\ call[c].at # "fetch"
         \/ call'[c].at \in {"setOrigin", "updateFinish"} /\ call[c].at # "fetch"
         \/ /\ call'[c].at \in {"fetched", "failed"}
            /\ call'[c].path = call[c].path
            /\ call'[c].cred = call[c].cred /\ call'[c].origin = call[c].origin
  <2>1. CASE GetOrigin(c)
    <3>1. CASE Return(c)
      BY <1>1, <2>1, <3>1, ReturnMoves DEF GetOrigin, At
    <3>2. CASE call' = [call EXCEPT ![c].at = "setOrigin",
                                    ![c].origin = tree[call[c].path].origin]
      <4> DEFINE new == [call[c] EXCEPT !.at = "setOrigin", !.origin = tree[call[c].path].origin]
      <4>1. call' = [call EXCEPT ![c] = new]
        BY <3>2
      <4>2. call[c] \in Call /\ call[c].path \in Paths
        BY <1>1, CallFields
      <4>3. tree[call[c].path] \in Tree
        BY <4>2 DEF TypeOK
      <4>4. new \in Call /\ new.at = "setOrigin"
        BY <4>2, <4>3 DEF Call, UpdateSteps, Tree
      <4> HIDE DEF new
      <4> QED BY <1>1, <2>1, <4>1, <4>4 DEF CallsType, GetOrigin, At
    <3> QED BY <2>1, <3>1, <3>2 DEF GetOrigin
  <2>2. CASE Fetch(c)
    BY <1>1, <2>2, GotoMoves DEF Fetch, Steps, UpdateSteps
  <2>3. CASE UpdateHead(c)
    BY <1>1, <2>3, GotoMoves, ReturnMoves DEF UpdateHead, At, Steps, UpdateSteps
  <2> QED BY <2>1, <2>2, <2>3
<1>3. Room'
  BY <1>1, <1>2, QuietRoom DEF stores, Idle
<1>4. /\ KeepsRecord(c)
      /\ \A q \in Paths : ~Tends(c, q) /\ (Strips(c, q) => Strips(c, q)')
  BY <1>1, <1>2 DEF KeepsRecord, Owns, CreateSteps, Idle, Tends, Strips, ChangesOrigin
<1> QED BY <1>1, <1>2, <1>3, <1>4, MoveKeeps DEF TypeOK, ghosts, Idle

(***************************************************************************)
(* SetOrigin: the handler that puts a token in has to take it out.         *)
(***************************************************************************)
LEMMA SetOriginKeeps ==
    ASSUME ReposInv, NEW c \in Calls, SetOrigin(c)
    PROVE  ReposInv'
<1> USE DEF ReposInv
<1> DEFINE p == call[c].path
<1>1. /\ CallsType /\ call[c].at = "setOrigin" /\ p \in Paths /\ call[c].cred \in Cred
      /\ tree \in [Paths -> Tree]
  BY CallFields DEF SetOrigin, At, TypeOK, CallsType
<1>2. /\ CallsType'
      /\ \A d \in Calls : d # c => call'[d] = call[d]
      /\ \/ call'[c] = Idle /\ UNCHANGED tree
         \/ /\ call'[c].at = "fetch" /\ call'[c].path = p
            /\ call'[c].cred = call[c].cred /\ call'[c].origin = call[c].origin
            /\ \/ UNCHANGED tree
               \/ ChangesOrigin(c) /\ tree' = [tree EXCEPT ![p].origin = call[c].cred]
  <2>1. CASE Return(c) /\ UNCHANGED tree
    BY <1>1, <2>1, ReturnMoves
  <2>2. CASE /\ Goto(c, "fetch")
             /\ \/ UNCHANGED tree
                \/ ChangesOrigin(c) /\ tree' = [tree EXCEPT ![p].origin = call[c].cred]
    BY <1>1, <2>2, GotoMoves DEF Steps, UpdateSteps
  <2> QED BY <2>1, <2>2 DEF SetOrigin
<1>3. /\ tree' \in [Paths -> Tree]
      /\ \A q \in Paths : /\ tree'[q].git = tree[q].git
                          /\ q # p => tree'[q] = tree[q]
      /\ UNCHANGED tree \/ (call'[c].at = "fetch" /\ ChangesOrigin(c))
  BY <1>1, <1>2, OriginSet
<1>4. Room'
  BY <1>2, QuietRoom DEF SetOrigin, stores, Idle
<1>5. /\ KeepsRecord(c)
      /\ \A q \in Paths : ~Tends(c, q) /\ ~Strips(c, q)
      /\ \A q \in Paths : call'[c].at = "fetch" /\ ChangesOrigin(c) /\ q = p => Strips(c, q)'
  BY <1>1, <1>2 DEF KeepsRecord, Owns, CreateSteps, Idle, Tends, Strips, ChangesOrigin
<1>6. \A q \in Paths :
         tree'[q].origin # 0 => Strips(c, q)' \/ (tree[q].origin # 0 /\ ~Strips(c, q))
  BY <1>3, <1>5
<1> QED BY <1>2, <1>3, <1>4, <1>5, <1>6, MoveKeeps DEF SetOrigin, TypeOK, ghosts, Idle

(***************************************************************************)
(* RestoreOrigin: the token is out, or the path is known to be left.       *)
(***************************************************************************)
LEMMA RestoreOriginKeeps ==
    ASSUME ReposInv, NEW c \in Calls, RestoreOrigin(c)
    PROVE  ReposInv'
<1> USE DEF ReposInv
<1> DEFINE p == call[c].path
<1>1. /\ CallsType /\ call[c].at \in {"fetched", "failed"} /\ p \in Paths
      /\ call[c].origin \in Cred /\ tree \in [Paths -> Tree]
  BY CallFields DEF RestoreOrigin, At, TypeOK, CallsType
<1>2. /\ CallsType'
      /\ \A d \in Calls : d # c => call'[d] = call[d]
      /\ call'[c] = Idle \/ call'[c].at = "updateHead"
  <2>1. CASE call[c].at = "fetched"
    BY <1>1, <2>1, GotoMoves DEF RestoreOrigin, Steps, UpdateSteps
  <2>2. CASE call[c].at = "failed"
    BY <1>1, <2>2, ReturnMoves DEF RestoreOrigin
  <2> QED BY <1>1, <2>1, <2>2
<1>3. /\ tree' \in [Paths -> Tree] /\ left' \subseteq Paths /\ left \subseteq left'
      /\ \A q \in Paths : /\ tree'[q].git = tree[q].git
                          /\ q # p \/ ~ChangesOrigin(c) => tree'[q] = tree[q]
      /\ ChangesOrigin(c) => p \in left' \/ tree'[p].origin = 0
  <2>1. CASE ~ChangesOrigin(c)
    BY <1>1, <2>1 DEF RestoreOrigin, TypeOK
  <2>2. CASE ChangesOrigin(c)
    <3>1. \/ /\ tree' = [tree EXCEPT ![p].origin = call[c].origin]
             /\ left' = IF call[c].origin # 0 THEN left \cup {p} ELSE left
          \/ LeaveBehind(p) /\ UNCHANGED tree
      BY <1>1, <2>2 DEF RestoreOrigin, RestoreOn
    <3>2. CASE /\ tree' = [tree EXCEPT ![p].origin = call[c].origin]
               /\ left' = IF call[c].origin # 0 THEN left \cup {p} ELSE left
      <4>1. /\ tree' \in [Paths -> Tree]
            /\ tree'[p].git = tree[p].git /\ tree'[p].origin = call[c].origin
            /\ \A q \in Paths : q # p => tree'[q] = tree[q]
        BY <1>1, <3>2, OriginSet
      <4> QED BY <1>1, <2>2, <3>2, <4>1 DEF TypeOK
    <3>3. CASE LeaveBehind(p) /\ UNCHANGED tree
      BY <1>1, <2>2, <3>3, LeaveBehindRecords DEF TypeOK, Gone
    <3> QED BY <3>1, <3>2, <3>3
  <2> QED BY <2>1, <2>2
<1>4. Room'
  BY <1>2, QuietRoom DEF RestoreOrigin, stores, Idle
<1>5. /\ KeepsRecord(c)
      /\ \A q \in Paths : ~Tends(c, q) /\ (Strips(c, q) => ChangesOrigin(c) /\ q = p)
  BY <1>1, <1>2 DEF KeepsRecord, Owns, CreateSteps, Idle, Tends, Strips
<1>6. \A q \in Paths :
         tree'[q].origin # 0 => q \in left' \/ (tree[q].origin # 0 /\ ~Strips(c, q))
  BY <1>3, <1>5
<1> QED BY <1>2, <1>3, <1>4, <1>5, <1>6, MoveKeeps DEF RestoreOrigin, TypeOK, Idle

--------------------------------------------------------------------------------
(* Requests, and the rest of the world                                         *)

(***************************************************************************)
(* reposCreate: there is room for the reservation it will make.            *)
(***************************************************************************)
LEMMA reposCreateKeeps ==
    ASSUME ReposInv, NEW c \in Calls, NEW p \in Paths, NEW k \in Cred, reposCreate(c, p, k)
    PROVE  ReposInv'
<1> USE DEF ReposInv
<1>1. call[c] = Idle /\ CallsType
  BY CallFields DEF reposCreate, At, TypeOK, CallsType
<1>2. PICK j \in CredentialFor(k) : call' = [call EXCEPT ![c] = NewCall("reserve", p, 0, j)]
  BY DEF reposCreate
<1>3. j \in Cred /\ 0 \in 0..MaxRepo /\ "reserve" \in Steps
  BY <1>2, ReposAssumption DEF CredentialFor, Cred, Steps, CreateSteps
<1>4. /\ CallsType' /\ call'[c].at = "reserve"
      /\ \A d \in Calls : d # c => call'[d] = call[d]
  BY <1>1, <1>2, <1>3, NewCallMoves DEF CallsType
<1>5. Room'
  <2>1. Reserving' = Reserving \cup {c} /\ IsFiniteSet(Reserving) /\ c \notin Reserving
    BY <1>1, <1>4, ReposAssumption, FS_Subset DEF Reserving, Idle
  <2>2. Cardinality(Reserving') = Cardinality(Reserving) + 1 /\ Cardinality(Reserving) \in Nat
    BY <2>1, FS_AddElement, FS_CardinalityType
  <2> QED BY <2>2, ReposAssumption DEF Room, reposCreate, stores, TypeOK
<1>6. KeepsRecord(c) /\ \A q \in Paths : ~Tends(c, q) /\ ~Strips(c, q)
  BY <1>1, <1>4 DEF KeepsRecord, Owns, Idle, Tends, Strips
<1> QED BY <1>4, <1>5, <1>6, MoveKeeps DEF reposCreate, TypeOK, ghosts

(***************************************************************************)
(* reposUpdate starts at a repo's path.                                    *)
(***************************************************************************)
LEMMA reposUpdateKeeps ==
    ASSUME ReposInv, NEW c \in Calls, NEW i \in Id, NEW k \in Cred, reposUpdate(c, i, k)
    PROVE  ReposInv'
<1> USE DEF ReposInv
<1>1. call[c] = Idle /\ CallsType /\ repos[i].path \in Paths
  BY CallFields, IdsAndRecords DEF reposUpdate, At, TypeOK, CallsType, StoresType
<1>2. PICK j \in CredentialFor(k) :
         call' = [call EXCEPT ![c] = NewCall("getOrigin", repos[i].path, i, j)]
  BY DEF reposUpdate
<1>3. j \in Cred /\ i \in 0..MaxRepo /\ "getOrigin" \in Steps
  BY <1>2, ReposAssumption DEF CredentialFor, Cred, Steps, UpdateSteps, Id
<1>4. /\ CallsType' /\ call'[c].at = "getOrigin"
      /\ \A d \in Calls : d # c => call'[d] = call[d]
  BY <1>1, <1>2, <1>3, NewCallMoves DEF CallsType
<1>5. Room'
  BY <1>4, QuietRoom DEF reposUpdate, stores
<1>6. KeepsRecord(c) /\ \A q \in Paths : ~Tends(c, q) /\ ~Strips(c, q)
  BY <1>1, <1>4 DEF KeepsRecord, Owns, CreateSteps, Idle, Tends, Strips
<1> QED BY <1>4, <1>5, <1>6, MoveKeeps DEF reposUpdate, TypeOK, ghosts

(***************************************************************************)
(* A step that writes what memory is, and ends at most one update, keeps   *)
(* the invariant.                                                          *)
(***************************************************************************)
LEMMA RewriteKeeps ==
    ASSUME ReposInv, proc' \in {"down", "up"}, StoresType', CallsType',
           gitFile' = gitFile \/ (gitFile'.repos = repos' /\ gitFile'.nextRepo = nextRepo),
           UNCHANGED <<repos, nextRepo, tree, promised, left>>,
           \A d \in Calls : call'[d] = call[d] \/ (call'[d] = Idle /\ call[d].at = "updateFinish")
    PROVE  ReposInv'
<1> USE DEF ReposInv
<1>1. Shrinks
  BY DEF Shrinks
<1>2. \A d \in Calls :
         /\ KeepsRecord(d)
         /\ call'[d].at = "reserve" => call[d].at = "reserve"
         /\ call'[d].at \in {"strip", "head", "finish"} /\ ~call'[d].touched
                    => call[d].at = call'[d].at /\ call[d].path = call'[d].path /\ ~call[d].touched
         /\ \A q \in Paths :
               /\ Tends(d, q) => Tends(d, q)'
               /\ Strips(d, q) => Strips(d, q)'
  BY DEF KeepsRecord, Owns, CreateSteps, Idle, Tends, Strips, ChangesOrigin
<1>3. \A d \in Calls : Owns(d)' => call[d].repo \notin promised'
  BY <1>2 DEF KeepsRecord, OwnersHoldTheirRecord
<1>4. PromisesAreKept'
  BY <1>1, QuietPromises
<1>5. \A q \in Paths : Vouched(q) => Vouched(q)'
  BY <1>1, <1>2, QuietVouched
<1>6. left' \subseteq Paths /\ left \subseteq left' /\ promised' \subseteq Id
  BY DEF TypeOK
<1> QED BY <1>1, <1>2, <1>3, <1>4, <1>5, <1>6, StoreStepKeeps

(***************************************************************************)
(* FinishUpdate writes the record, when it is there.                       *)
(***************************************************************************)
LEMMA FinishUpdateKeeps ==
    ASSUME ReposInv, NEW c \in Calls, FinishUpdate(c)
    PROVE  ReposInv'
<1> USE DEF ReposInv
<1>1. CallsType /\ StoresType /\ call[c].at = "updateFinish"
  BY DEF TypeOK, CallsType, StoresType, FinishUpdate, At
<1>2. CallsType' /\ call'[c] = Idle /\ \A d \in Calls : d # c => call'[d] = call[d]
  BY <1>1, ReturnMoves DEF FinishUpdate
<1>3. /\ gitFile' \in Contents /\ proc' \in {"down", "up"}
      /\ gitFile' = gitFile \/ (gitFile'.repos = repos /\ gitFile'.nextRepo = nextRepo)
  <2>1. CASE UNCHANGED <<proc, gitFile>>
    BY <2>1 DEF TypeOK
  <2>2. CASE \E o \in FinishRepo(call[c].repo) : gitFile' = o.file /\ ServedOn(o)
    <3>1. PICK o \in persistGit(repos, nextRepo, creds) : gitFile' = o.file /\ ServedOn(o)
      BY <2>2 DEF FinishRepo
    <3> QED BY <1>1, <3>1, PersistMoves DEF StoresType
  <2> QED BY <2>1, <2>2 DEF FinishUpdate
<1>4. StoresType' /\ UNCHANGED <<repos, nextRepo, tree, promised, left>>
  BY <1>1, <1>3 DEF StoresType, FinishUpdate, ghosts
<1> QED BY <1>1, <1>2, <1>3, <1>4, RewriteKeeps

(***************************************************************************)
(* The requests about credentials write the records with them.             *)
(***************************************************************************)
LEMMA SetCredentialKeeps ==
    ASSUME ReposInv, NEW k \in Creds, NEW from, NEW to \in {"none", "plain", "default"},
           SetCredential(k, from, to)
    PROVE  ReposInv'
<1> USE DEF ReposInv
<1>1. StoresType
  BY DEF TypeOK, StoresType
<1>2. creds' \in [Creds -> {"none", "plain", "default"}]
  BY DEF SetCredential, TypeOK
<1>3. PICK o \in persistGit(repos, nextRepo, creds') : gitFile' = o.file /\ ServedOn(o)
  BY DEF SetCredential
<1>4. /\ gitFile' \in Contents /\ proc' \in {"down", "up"}
      /\ gitFile' = gitFile \/ (gitFile'.repos = repos /\ gitFile'.nextRepo = nextRepo)
  BY <1>1, <1>2, <1>3, PersistMoves DEF StoresType
<1>5. /\ StoresType' /\ CallsType' /\ UNCHANGED <<repos, nextRepo, tree, promised, left>>
      /\ call' = call
  BY <1>1, <1>2, <1>4 DEF StoresType, SetCredential, ghosts, TypeOK, CallsType
<1> QED BY <1>4, <1>5, RewriteKeeps

(***************************************************************************)
(* A crash changes nothing the invariant is about.                         *)
(***************************************************************************)
LEMMA CrashKeeps ==
    ASSUME ReposInv, Crash
    PROVE  ReposInv'
  BY RewriteKeeps DEF ReposInv, Crash, TypeOK, StoresType, CallsType, stores, ghosts

(***************************************************************************)
(* Start: what is on disk satisfies what memory did, and the trees of      *)
(* calls that were cut off are known to be left.                           *)
(***************************************************************************)
LEMMA StartKeeps ==
    ASSUME ReposInv, Start
    PROVE  ReposInv'
<1> USE DEF ReposInv
<1>1. /\ StoresType /\ repos' = gitFile.repos /\ nextRepo' = gitFile.nextRepo
      /\ UNCHANGED <<gitFile, tree, promised>>
      /\ \A c \in Calls : call'[c] = Idle
  BY DEF Start, TypeOK, StoresType
<1>2. StoresType' /\ TypeOK'
  BY <1>1 DEF Start, TypeOK, StoresType, Contents
<1>3. Room'
  <2>1. Reserving' = {}
    BY <1>1 DEF Reserving, Idle
  <2> QED BY <1>2, <2>1, FS_EmptySet, ReposAssumption DEF Room, StoresType
<1>4. PathsDiffer' /\ IdsAreCounted'
  BY <1>1, IdsAndRecords DEF PathsDiffer, IdsAreCounted
<1>5. \A c \in Calls : ~Owns(c)' /\ call'[c].at = "idle"
  BY <1>1 DEF Owns, CreateSteps, Idle
<1>6. OwnersHoldTheirRecord' /\ ClonesAreThere'
  BY <1>5 DEF OwnersHoldTheirRecord, ClonesAreThere
<1>7. PromisesAreKept'
  BY <1>1 DEF PromisesAreKept
<1>8. NoTree.git = "none" /\ NoTree.origin = 0
  BY DEF NoTree
<1>9. TreesAreTended'
  <2> SUFFICES ASSUME NEW q \in Paths, tree[q].git # "none", q \notin left'
               PROVE  Vouched(q)'
    BY <1>1 DEF TreesAreTended
  <2>1. ~InFlight(q) /\ q \notin left
    BY <1>8 DEF Start, Exists
  <2>2. Vouched(q)
    BY <2>1 DEF TreesAreTended, Tends, InFlight
  <2> QED BY <1>1, <1>5, <2>2 DEF Vouched
<1>10. TokensAreTended'
  <2> SUFFICES ASSUME NEW q \in Paths, tree[q].origin # 0
               PROVE  q \in left'
    BY <1>1 DEF TokensAreTended
  <2>1. InFlight(q) \/ q \in left
    BY DEF TokensAreTended, Strips, InFlight
  <2> QED BY <1>8, <2>1 DEF Start, Exists
<1> QED BY <1>2, <1>3, <1>4, <1>6, <1>7, <1>9, <1>10

--------------------------------------------------------------------------------
(* The theorems                                                                *)

(***************************************************************************)
(* The invariant holds initially.                                          *)
(***************************************************************************)
LEMMA ReposInvInit == Init => ReposInv
<1> SUFFICES ASSUME Init PROVE ReposInv
  OBVIOUS
<1>1. /\ \A i \in Id : repos[i] = NoRepo /\ gitFile.repos[i] = NoRepo
      /\ nextRepo = 0 /\ gitFile.nextRepo = 0
      /\ \A p \in Paths : tree[p] = NoTree
      /\ \A c \in Calls : call[c] = Idle /\ call[c].at = "idle"
      /\ promised = {} /\ left = {}
  BY DEF Init, NoContents, Idle
<1>2. NoTree \in Tree /\ NoTree.git = "none" /\ NoTree.origin = 0
  BY DEF NoTree, Tree, Cred
<1>3. TypeOK
  <2>1. NoContents \in Contents
    BY ReposAssumption DEF NoContents, Contents
  <2>2. /\ repos \in [Id -> Repo \cup {NoRepo}]
        /\ creds \in [Creds -> {"none", "plain", "default"}] /\ gitFile \in Contents
    BY <2>1 DEF Init, NoContents
  <2> QED BY <1>2, <2>2, ReposAssumption DEF Init, TypeOK
<1>4. Room
  <2>1. Reserving = {}
    BY <1>1 DEF Reserving
  <2> QED BY <1>1, <2>1, FS_EmptySet, ReposAssumption DEF Room
<1>5. PathsDiffer /\ IdsAreCounted
  BY <1>1 DEF PathsDiffer, IdsAreCounted
<1>6. OwnersHoldTheirRecord /\ ClonesAreThere /\ PromisesAreKept
  BY <1>1 DEF OwnersHoldTheirRecord, ClonesAreThere, PromisesAreKept, Owns, CreateSteps
<1>7. TreesAreTended /\ TokensAreTended
  BY <1>1, <1>2 DEF TreesAreTended, TokensAreTended
<1> QED BY <1>3, <1>4, <1>5, <1>6, <1>7 DEF ReposInv

(***************************************************************************)
(* Every step keeps it.                                                    *)
(***************************************************************************)
LEMMA ReposInvNext == ReposInv /\ [Next]_vars => ReposInv'
<1> SUFFICES ASSUME ReposInv, [Next]_vars PROVE ReposInv'
  OBVIOUS
<1>1. ASSUME NEW c \in Calls, Request(c) PROVE ReposInv'
  BY <1>1, reposCreateKeeps, reposUpdateKeeps, reposDeleteKeeps, workspaceDeleteKeeps
     DEF Request
<1>2. ASSUME NEW c \in Calls, Step(c) PROVE ReposInv'
  BY <1>2, ReserveRepoKeeps, ReserveFailsKeeps, StartCloneKeeps, CloneKeeps, StripTokenKeeps,
     CloneHeadKeeps, FinishCreateKeeps, CleanUpRecordKeeps, RemoveKeeps,
     DropRepoByPathKeeps, UpdateMovesKeep, SetOriginKeeps, RestoreOriginKeeps, FinishUpdateKeeps
     DEF Step
<1>3. CASE CredentialRequest
  BY <1>3, SetCredentialKeeps DEF CredentialRequest, gitCredentialsCreate,
     gitCredentialsUpdate, gitCredentialsDelete
<1>4. ASSUME NEW p \in Paths, workspaceDeletePart(p) \/ workspaceImport(p) PROVE ReposInv'
  BY <1>4, workspaceDeletePartKeeps, workspaceImportKeeps
<1>5. CASE UNCHANGED vars
  BY <1>5, RewriteKeeps DEF vars, stores, ghosts, ReposInv, TypeOK, StoresType, CallsType
<1> QED BY <1>1, <1>2, <1>3, <1>4, <1>5, workspaceDeleteFolderKeeps, CrashKeeps, StartKeeps
        DEF Next

(***************************************************************************)
(* The invariant is an invariant.                                          *)
(***************************************************************************)
LEMMA ReposInvariant == Spec => []ReposInv
  BY ReposInvInit, ReposInvNext, PTL DEF Spec

(***************************************************************************)
(* Every variable keeps its type; repo ids stay within the bound.          *)
(***************************************************************************)
THEOREM TypeCorrect == Spec => []TypeOK
<1>1. ReposInv => TypeOK
  BY DEF ReposInv
<1> QED BY <1>1, ReposInvariant, PTL

(***************************************************************************)
(* Two repos never have one path, in memory or in git/state.json, whatever *)
(* handlers race for it and whatever failed or crashed before              *)
(* (Git.ReserveRepo checks and reserves under one lock).                   *)
(***************************************************************************)
THEOREM PathsStayApart == Spec => []PathsDiffer
<1>1. ReposInv => PathsDiffer
  BY DEF ReposInv
<1> QED BY <1>1, ReposInvariant, PTL

(***************************************************************************)
(* A repo a client was told of has its record and its clone until somebody *)
(* takes them away, across crashes; a tree without a record has a handler  *)
(* at work on it, or was left by a crash, by a removal that failed and     *)
(* whose error was dropped (_ = os.RemoveAll), or by a delete that took    *)
(* its record during the clone.                                            *)
(***************************************************************************)
THEOREM RecordsFollowTrees == Spec => []RecordsAndTreesAgree
<1>1. ReposInv => PromisesHold
  BY DEF ReposInv, PromisesAreKept, PromisesHold
<1>2. ReposInv => NoStrayClone
  <2> SUFFICES ASSUME ReposInv, NEW p \in Paths, tree[p].git # "none", ReposAt(p) = {}
               PROVE  InFlight(p) \/ p \in left
    BY DEF NoStrayClone
  <2>1. ~Vouched(p)
    BY DEF Vouched, ReposAt
  <2> QED BY <2>1 DEF ReposInv, TreesAreTended, Tends, InFlight
<1>3. ReposInv => RecordsAndTreesAgree
  BY <1>1, <1>2 DEF RecordsAndTreesAgree
<1> QED BY <1>3, ReposInvariant, PTL

(***************************************************************************)
(* A token is in a working tree, or in what a failed clone left of one,    *)
(* only while a handler works there, or where a crash, a removal or a      *)
(* set-url that failed, or a set-url to another update's origin left it    *)
(* (gitcmd.Clone, gitcmd.Update, reposCreate's clean-up).                  *)
(***************************************************************************)
THEOREM TokensLeaveTrees == Spec => []TokensAreStripped
<1>1. ReposInv => TokensAreStripped
  BY DEF ReposInv, TokensAreTended, Strips, TokensAreStripped, InFlight
<1> QED BY <1>1, ReposInvariant, PTL
================================================================================
