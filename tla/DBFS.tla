---------------------------------- MODULE DBFS ---------------------------------
(***************************************************************************)
(* DBFS and the Files API (store/dbfs.go, server/dbfs.go): whole-file      *)
(* puts and chunked uploads through handles, on the host's files.  A       *)
(* handle is an open file: it keeps its file when the path is deleted,     *)
(* moved or written over, and it keeps its offset when the file is         *)
(* truncated.  Handles live in memory and their numbers begin again at     *)
(* every start; the clients keep theirs.                                   *)
(*                                                                         *)
(* A file is the sequence of the blocks in it, each by its writer.         *)
(* Directories are left out.                                               *)
(***************************************************************************)
EXTENDS Files, Naturals, Sequences, FiniteSets

CONSTANTS DPaths,       \* paths of files
          Uploads,      \* chunked uploads, each begun once
          MaxInodes,    \* bound on the files that exist, or are open, at once
          MaxBlocks     \* bound on the blocks of an upload

ASSUME DBFSAssumption ==
    /\ MaxInodes \in Nat
    /\ MaxBlocks \in Nat
    /\ IsFiniteSet(Uploads)
    /\ {"none", "closed"} \cap Uploads = {}
    /\ Absent \notin DPaths

VARIABLES
    dir,        \* the file at each path, 0 for none
    inode,      \* what is in each file
    handles,    \* DBFS.handles: the file and the offset of each open handle, and
                \* the upload that was given its number
    upload      \* what the client of each upload knows, and whether nobody else
                \* wrote, moved or deleted what it uploads

dbfsVars == <<dir, inode, handles, upload>>

Inode    == 1..MaxInodes
HandleId == 1..Cardinality(Uploads)
Whole    == "put"                \* the block of a whole-file put
Hole     == "hole"               \* what an offset past the end leaves behind
NoHandle == [inode |-> 0, offset |-> 0, by |-> "none"]
NotBegun == [at |-> "new", path |-> Absent, handle |-> 0, blocks |-> 0, alone |-> TRUE]

DBFSTypeOK ==
    /\ dir \in [DPaths -> {0} \cup Inode]
    /\ \A i \in Inode : \A k \in DOMAIN inode[i] : inode[i][k] \in Uploads \cup {Whole, Hole, Torn}
    /\ handles \in [HandleId -> [inode : {0} \cup Inode, offset : 0..MaxBlocks,
                                 by : Uploads \cup {"none", "closed"}]]
    /\ \A u \in Uploads :
          upload[u] = NotBegun
          \/ upload[u] \in [at : {"open", "closed"}, path : DPaths, handle : HandleId,
                            blocks : 0..MaxBlocks, alone : BOOLEAN]

DBFSInit ==
    /\ dir = [p \in DPaths |-> 0]
    /\ inode = [i \in Inode |-> <<>>]
    /\ handles = [h \in HandleId |-> NoHandle]
    /\ upload = [u \in Uploads |-> NotBegun]

\* A file goes when no path and no handle names it.
InUse(d, hs) == {d[p] : p \in DPaths} \cup {hs[h].inode : h \in HandleId}
Kept(d, hs, contents) == [i \in Inode |-> IF i \in InUse(d, hs) THEN contents[i] ELSE <<>>]

\* openDBFS: no handles, and their numbers from 1.
openDBFS ==
    /\ handles' = [h \in HandleId |-> NoHandle]
    /\ inode' = Kept(dir, handles', inode)
    /\ UNCHANGED <<dir, upload>>

NextHandle == Cardinality({h \in HandleId : handles[h] # NoHandle}) + 1

\* The file a write to p goes to: the one that is there, or a new one.
FileFor(p) ==
    LET new == Inode \ InUse(dir, handles)
    IN IF dir[p] # 0 THEN {dir[p]} ELSE {i \in new : \A j \in new : i <= j}

\* The uploads after somebody else got at those of us, or at the paths ps.
Spoiled(us) ==
    [u \in Uploads |-> IF u \in us THEN [upload[u] EXCEPT !.alone = FALSE, !.blocks = 0]
                       ELSE upload[u]]
Disturbed(ps) == Spoiled({u \in Uploads : upload[u].path \in ps})

--------------------------------------------------------------------------------
(* Whole files                                                                 *)

\* Put, of DBFS and of the Files API.
dbfsPut(p) ==
    /\ proc = "up"
    /\ \E i \in FileFor(p) : \E o \in WriteFile(IF dir[p] = 0 THEN Absent ELSE inode[i], <<Whole>>) :
          /\ dir' = IF o.file = Absent THEN dir ELSE [dir EXCEPT ![p] = i]
          /\ inode' = CASE o.file = Absent -> inode
                        [] o.file = Torn   -> [inode EXCEPT ![i] = <<Torn>>]
                        [] OTHER           -> [inode EXCEPT ![i] = o.file]
          /\ ServedOn(o)
    /\ upload' = Disturbed({p})
    /\ UNCHANGED handles

dbfsDelete(p) ==
    /\ proc = "up"
    /\ dir[p] # 0
    /\ dir' = [dir EXCEPT ![p] = 0]
    /\ inode' = Kept(dir', handles, inode)
    /\ upload' = Disturbed({p})
    /\ UNCHANGED <<proc, handles>>

\* os.Rename, which replaces what is at the destination.
dbfsMove(p, q) ==
    /\ proc = "up"
    /\ dir[p] # 0
    /\ dir' = [dir EXCEPT ![p] = 0, ![q] = dir[p]]
    /\ inode' = Kept(dir', handles, inode)
    /\ upload' = Disturbed({p, q})
    /\ UNCHANGED <<proc, handles>>

--------------------------------------------------------------------------------
(* Chunked uploads                                                             *)

MayCreate_Always(p, overwrite) == TRUE
MayCreate(p, overwrite) == overwrite \/ dir[p] = 0

\* CreateHandle: os.Create truncates what is there.
dbfsCreate(u, p, overwrite) ==
    /\ proc = "up"
    /\ upload[u] = NotBegun
    /\ MayCreate(p, overwrite)
    /\ \E i \in FileFor(p) :
          /\ dir' = [dir EXCEPT ![p] = i]
          /\ inode' = [inode EXCEPT ![i] = <<>>]
          /\ handles' = [handles EXCEPT ![NextHandle] = [inode |-> i, offset |-> 0, by |-> u]]
          /\ upload' = [(IF overwrite THEN Disturbed({p}) ELSE upload) EXCEPT ![u] =
                           [at |-> "open", path |-> p, handle |-> NextHandle, blocks |-> 0,
                            alone |-> \A h \in HandleId : handles[h].inode # i]]
    /\ UNCHANGED proc

\* A write of the block b at an offset, which need not be the end of s.
WriteAt(s, offset, b) ==
    [k \in 1..(IF offset < Len(s) THEN Len(s) ELSE offset + 1) |->
        IF k = offset + 1 THEN b ELSE IF k <= Len(s) THEN s[k] ELSE Hole]

IsOpen(u) == upload[u].at = "open" /\ handles[upload[u].handle].inode # 0

\* AddBlock with the number the client of u holds, which after a restart may be
\* that of another upload.  A write that fails may have written a part, and one
\* that was made may not be answered.
dbfsAddBlock(u) ==
    LET h == upload[u].handle
        add(b)  == /\ inode' = [inode EXCEPT ![handles[h].inode] =
                                  WriteAt(@, handles[h].offset, b)]
                   /\ handles' = [handles EXCEPT ![h].offset = @ + 1]
        spoil   == upload' = Spoiled({u, handles[h].by})
        counted == IF upload[u].alone /\ handles[h].by = u
                   THEN upload' = [upload EXCEPT ![u].blocks = @ + 1] ELSE spoil
    IN /\ proc = "up"
       /\ IsOpen(u)
       /\ handles[h].offset < MaxBlocks
       /\ \/ add(u) /\ counted /\ UNCHANGED proc
          \/ add(Torn) /\ spoil /\ UNCHANGED proc
          \/ add(u) /\ spoil /\ proc' = "down"
       /\ UNCHANGED dir

\* CloseHandle: the number is not given out again.
Closed == [NoHandle EXCEPT !.by = "closed"]

dbfsClose(u) ==
    /\ proc = "up"
    /\ IsOpen(u)
    /\ handles' = [handles EXCEPT ![upload[u].handle] = Closed]
    /\ inode' = Kept(dir, handles', inode)
    /\ upload' = [upload EXCEPT ![u].at = "closed"]
    /\ UNCHANGED <<proc, dir>>

DBFSRequest ==
    \/ \E p \in DPaths : dbfsPut(p) \/ dbfsDelete(p)
    \/ \E p, q \in DPaths : dbfsMove(p, q)
    \/ \E u \in Uploads :
          \/ \E p \in DPaths, overwrite \in BOOLEAN : dbfsCreate(u, p, overwrite)
          \/ dbfsAddBlock(u)
          \/ dbfsClose(u)

--------------------------------------------------------------------------------
(* Properties                                                                  *)

\* The file of an upload is the blocks its client was told were written, in
\* order and nothing else, however the other uploads interleave with it and
\* whatever crashes: unless somebody put, moved, deleted or asked to overwrite
\* the path, it overwrote an upload that was still open, a write failed, or a
\* client kept a handle from before a restart that is this upload's by now.
UploadsAreWhole ==
    \A u \in Uploads : upload[u].at # "new" /\ upload[u].alone =>
        /\ dir[upload[u].path] # 0
        /\ inode[dir[upload[u].path]] = [k \in 1..upload[u].blocks |-> u]
================================================================================
