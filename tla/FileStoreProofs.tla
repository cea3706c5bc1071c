---------------------------- MODULE FileStoreProofs ----------------------------
(***************************************************************************)
(* Proofs about the two stores of DataDir whose data the clients build up  *)
(* over many requests: chunked uploads (DBFS) and tracking runs (MLflow).  *)
(***************************************************************************)
EXTENDS DataDir, FiniteSetTheorems, WellFoundedInduction, TLAPS

--------------------------------------------------------------------------------
(* Uploads                                                                     *)

UploadRecord == [at : {"open", "closed"}, path : DPaths, handle : HandleId,
                 blocks : 0..MaxBlocks, alone : BOOLEAN]

Begun == {u \in Uploads : upload[u] # NotBegun}
Alone == {u \in Begun : upload[u].alone}
FileOf(u) == dir[upload[u].path]

DBFSTyped ==
    /\ dir \in [DPaths -> {0} \cup Inode]
    /\ inode = [i \in Inode |-> inode[i]]
    /\ handles \in [HandleId -> [inode : {0} \cup Inode, offset : 0..MaxBlocks,
                                 by : Uploads \cup {"none", "closed"}]]
    /\ upload \in [Uploads -> UploadRecord \cup {NotBegun}]

\* A file has one path.
PathsNameOneFile == \A p, q \in DPaths : dir[p] = dir[q] /\ dir[p] # 0 => p = q

\* The numbers of handles are given out in order, one to an upload that began.
HandlesAreCounted ==
    \E n \in 0..Cardinality(Begun) : \A h \in HandleId : handles[h] # NoHandle <=> h <= n

\* A handle belongs to one upload that began.
HandlesAreOwned ==
    /\ \A h \in HandleId : handles[h].inode # 0 => handles[h].by \in Uploads
    /\ \A h \in HandleId : handles[h].by \in Uploads => handles[h].by \in Begun
    /\ \A h, g \in HandleId : handles[h].by \in Uploads /\ handles[h].by = handles[g].by => h = g

\* Nobody else has a handle on the file of an upload that is alone; its own
\* handle is at the end of that file.
AloneIsWhole(u) ==
    /\ FileOf(u) # 0
    /\ inode[FileOf(u)] = [k \in 1..upload[u].blocks |-> u]
    /\ \A h \in HandleId : handles[h].inode = FileOf(u) =>
          handles[h].by = u /\ handles[h].offset = upload[u].blocks
    /\ \A h \in HandleId : handles[h].by = u /\ handles[h].inode # 0 =>
          handles[h].inode = FileOf(u)

DBFSInv ==
    /\ DBFSTyped
    /\ PathsNameOneFile
    /\ HandlesAreCounted
    /\ HandlesAreOwned
    /\ \A u \in Alone : AloneIsWhole(u)

(***************************************************************************)
(* What spoiling some uploads that began changes.                          *)
(***************************************************************************)
LEMMA SpoiledUploads ==
    ASSUME DBFSTyped, NEW us \in SUBSET Begun
    PROVE  /\ Spoiled(us) \in [Uploads -> UploadRecord \cup {NotBegun}]
           /\ \A u \in Uploads : Spoiled(us)[u] # NotBegun <=> u \in Begun
           /\ \A u \in Uploads \ us : Spoiled(us)[u] = upload[u]
           /\ \A u \in us : ~Spoiled(us)[u].alone
<1>1. ASSUME NEW r \in UploadRecord
      PROVE  /\ [r EXCEPT !.alone = FALSE, !.blocks = 0] \in UploadRecord
             /\ ~[r EXCEPT !.alone = FALSE, !.blocks = 0].alone
  <2>1. [r EXCEPT !.alone = FALSE, !.blocks = 0] = [[r EXCEPT !.alone = FALSE] EXCEPT !.blocks = 0]
    OBVIOUS
  <2>2. [r EXCEPT !.alone = FALSE] \in UploadRecord /\ ~[r EXCEPT !.alone = FALSE].alone
    BY DEF UploadRecord
  <2>3. ASSUME NEW q \in UploadRecord, ~q.alone
        PROVE  [q EXCEPT !.blocks = 0] \in UploadRecord /\ ~[q EXCEPT !.blocks = 0].alone
    BY <2>3, DBFSAssumption DEF UploadRecord
  <2> QED BY <2>1, <2>2, <2>3
<1>2. NotBegun \notin UploadRecord
  BY DEF NotBegun, UploadRecord
<1>3. /\ us \subseteq Uploads /\ upload \in [Uploads -> UploadRecord \cup {NotBegun}]
      /\ \A u \in us : upload[u] \in UploadRecord
  BY DEF DBFSTyped, Begun
<1>4. /\ \A u \in us : Spoiled(us)[u] = [upload[u] EXCEPT !.alone = FALSE, !.blocks = 0]
      /\ \A u \in Uploads \ us : Spoiled(us)[u] = upload[u]
  BY <1>3 DEF Spoiled
<1>5. \A u \in us : Spoiled(us)[u] \in UploadRecord /\ ~Spoiled(us)[u].alone
  BY <1>1, <1>3, <1>4
<1>6. Spoiled(us) = [u \in Uploads |-> Spoiled(us)[u]]
  BY DEF Spoiled
<1>7. \A u \in Uploads : Spoiled(us)[u] \in UploadRecord \cup {NotBegun}
  BY <1>3, <1>4, <1>5
<1>8. \A u \in Uploads : Spoiled(us)[u] # NotBegun <=> u \in Begun
  BY <1>2, <1>3, <1>4, <1>5 DEF Begun
<1> HIDE DEF Spoiled
<1>9. Spoiled(us) \in [Uploads -> UploadRecord \cup {NotBegun}]
  BY <1>6, <1>7
<1> QED BY <1>4, <1>5, <1>8, <1>9

LEMMA DisturbedUploads ==
    ASSUME DBFSTyped, NEW ps \in SUBSET DPaths
    PROVE  {u \in Uploads : upload[u].path \in ps} \subseteq Begun
BY DBFSAssumption DEF Begun, NotBegun

(***************************************************************************)
(* Files that are in use keep what is in them.                             *)
(***************************************************************************)
LEMMA KeptFiles ==
    ASSUME NEW d \in [DPaths -> {0} \cup Inode], NEW hs, NEW contents
    PROVE  /\ Kept(d, hs, contents) = [i \in Inode |-> Kept(d, hs, contents)[i]]
           /\ \A p \in DPaths : d[p] # 0 => Kept(d, hs, contents)[d[p]] = contents[d[p]]
BY DEF Kept, InUse

(***************************************************************************)
(* A file that is not in use has no path and no handle.                    *)
(***************************************************************************)
LEMMA FilesToWriteTo ==
    ASSUME DBFSTyped, PathsNameOneFile, NEW p \in DPaths, NEW i \in FileFor(p)
    PROVE  /\ i \in Inode
           /\ \A q \in DPaths : dir[q] = i => q = p
           /\ dir[p] # 0 => i = dir[p]
           /\ dir[p] = 0 => \A h \in HandleId : handles[h].inode # i
<1>1. 0 \notin Inode
  BY DBFSAssumption DEF Inode
<1>2. CASE dir[p] # 0
  BY <1>1, <1>2 DEF FileFor, DBFSTyped, PathsNameOneFile
<1>3. CASE dir[p] = 0
  <2>1. i \in Inode \ InUse(dir, handles)
    BY <1>3 DEF FileFor
  <2> QED BY <1>1, <1>3, <2>1 DEF InUse
<1> QED BY <1>2, <1>3

(***************************************************************************)
(* An action that disturbs the paths it touches keeps the invariant.       *)
(***************************************************************************)
LEMMA DisturbanceKeepsUploads ==
    ASSUME DBFSInv, NEW ps \in SUBSET DPaths, upload' = Disturbed(ps), UNCHANGED handles,
           dir' \in [DPaths -> {0} \cup Inode], PathsNameOneFile',
           inode' = [i \in Inode |-> inode'[i]],
           \A p \in DPaths \ ps : /\ dir'[p] = dir[p]
                                  /\ dir[p] # 0 => inode'[dir[p]] = inode[dir[p]]
    PROVE  DBFSInv'
<1> DEFINE us == {u \in Uploads : upload[u].path \in ps}
<1>1. us \in SUBSET Begun /\ upload' = Spoiled(us) /\ DBFSTyped
  BY DisturbedUploads DEF Disturbed, DBFSInv
<1>2. DBFSTyped' /\ Begun' = Begun
  BY <1>1, SpoiledUploads DEF DBFSTyped, Begun
<1>3. HandlesAreCounted' /\ HandlesAreOwned'
  BY <1>2 DEF DBFSInv, HandlesAreCounted, HandlesAreOwned
<1>4. ASSUME NEW u \in Alone' PROVE AloneIsWhole(u)'
  <2>1. u \in Alone /\ upload'[u] = upload[u] /\ u \notin us /\ u \in Uploads
    BY <1>1, <1>2, SpoiledUploads DEF Alone, Begun
  <2>2. upload[u] \in UploadRecord /\ upload[u].path \in DPaths \ ps
    BY <2>1, <1>1 DEF DBFSTyped, Alone, Begun, UploadRecord
  <2> QED BY <2>1, <2>2 DEF DBFSInv, AloneIsWhole, FileOf
<1> QED BY <1>2, <1>3, <1>4 DEF DBFSInv

LEMMA PutKeepsUploads == ASSUME DBFSInv, NEW p \in DPaths, dbfsPut(p) PROVE DBFSInv'
<1>1. PICK i \in FileFor(p) :
         \E o \in WriteFile(IF dir[p] = 0 THEN Absent ELSE inode[i], <<Whole>>) :
          /\ dir' = IF o.file = Absent THEN dir ELSE [dir EXCEPT ![p] = i]
          /\ inode' = CASE o.file = Absent -> inode
                        [] o.file = Torn   -> [inode EXCEPT ![i] = <<Torn>>]
                        [] OTHER           -> [inode EXCEPT ![i] = o.file]
  BY DEF dbfsPut
<1>2. /\ i \in Inode /\ \A q \in DPaths : dir[q] = i => q = p
      /\ dir \in [DPaths -> {0} \cup Inode] /\ PathsNameOneFile
      /\ inode = [j \in Inode |-> inode[j]] /\ 0 \notin Inode
  BY FilesToWriteTo, DBFSAssumption DEF DBFSInv, DBFSTyped, Inode
<1>3. dir' = dir \/ dir' = [dir EXCEPT ![p] = i]
  BY <1>1
<1>4. inode' = inode \/ \E s : inode' = [inode EXCEPT ![i] = s]
  BY <1>1
<1>5. /\ inode' = [j \in Inode |-> inode'[j]]
      /\ \A j \in Inode \ {i} : inode'[j] = inode[j]
  BY <1>2, <1>4
<1>6. dir' \in [DPaths -> {0} \cup Inode] /\ \A q \in DPaths \ {p} : dir'[q] = dir[q]
  BY <1>2, <1>3
<1>7. PathsNameOneFile'
  BY <1>2, <1>3 DEF PathsNameOneFile
<1>8. upload' = Disturbed({p}) /\ UNCHANGED handles
  BY DEF dbfsPut
<1> QED BY <1>2, <1>5, <1>6, <1>7, <1>8, DisturbanceKeepsUploads

LEMMA DeleteKeepsUploads == ASSUME DBFSInv, NEW p \in DPaths, dbfsDelete(p) PROVE DBFSInv'
<1>1. /\ dir' = [dir EXCEPT ![p] = 0] /\ inode' = Kept(dir', handles, inode)
      /\ upload' = Disturbed({p}) /\ UNCHANGED handles
      /\ dir \in [DPaths -> {0} \cup Inode] /\ PathsNameOneFile
  BY DEF dbfsDelete, DBFSInv, DBFSTyped
<1>2. dir' \in [DPaths -> {0} \cup Inode] /\ PathsNameOneFile'
  BY <1>1 DEF PathsNameOneFile
<1>3. \A q \in DPaths \ {p} : dir'[q] = dir[q]
  BY <1>1
<1>4. inode' = [j \in Inode |-> inode'[j]]
  BY <1>1 DEF Kept
<1>5. \A q \in DPaths : dir'[q] # 0 => inode'[dir'[q]] = inode[dir'[q]]
  <2>1. ASSUME NEW d \in [DPaths -> {0} \cup Inode], NEW r \in DPaths, d[r] # 0
        PROVE  Kept(d, handles, inode)[d[r]] = inode[d[r]]
    BY <2>1, KeptFiles
  <2> HIDE DEF Kept
  <2> QED BY <1>1, <1>2, <2>1
<1> QED BY <1>1, <1>2, <1>3, <1>4, <1>5, DisturbanceKeepsUploads

LEMMA MoveKeepsUploads ==
    ASSUME DBFSInv, NEW p \in DPaths, NEW q \in DPaths, dbfsMove(p, q) PROVE DBFSInv'
<1>1. /\ dir' = [dir EXCEPT ![p] = 0, ![q] = dir[p]] /\ inode' = Kept(dir', handles, inode)
      /\ upload' = Disturbed({p, q}) /\ UNCHANGED handles
      /\ dir \in [DPaths -> {0} \cup Inode] /\ PathsNameOneFile
  BY DEF dbfsMove, DBFSInv, DBFSTyped
<1>2. /\ dir' \in [DPaths -> {0} \cup Inode]
      /\ \A r \in DPaths \ {p, q} : dir'[r] = dir[r]
      /\ dir'[q] = dir[p]
      /\ p # q => dir'[p] = 0
  BY <1>1
<1>3. PathsNameOneFile'
  BY <1>1, <1>2 DEF PathsNameOneFile
<1>4. inode' = [j \in Inode |-> inode'[j]]
  BY <1>1 DEF Kept
<1>5. \A r \in DPaths : dir'[r] # 0 => inode'[dir'[r]] = inode[dir'[r]]
  <2>1. ASSUME NEW d \in [DPaths -> {0} \cup Inode], NEW s \in DPaths, d[s] # 0
        PROVE  Kept(d, handles, inode)[d[s]] = inode[d[s]]
    BY <2>1, KeptFiles
  <2> HIDE DEF Kept
  <2> QED BY <1>1, <1>2, <2>1
<1> QED BY <1>1, <1>2, <1>3, <1>4, <1>5, DisturbanceKeepsUploads

(***************************************************************************)
(* The next handle is a number that is free, and there is one for every    *)
(* upload that has not begun.                                              *)
(***************************************************************************)
LEMMA NextHandleIsFree ==
    ASSUME DBFSTyped, NEW u \in Uploads, upload[u] = NotBegun,
           NEW n \in 0..Cardinality(Begun), \A h \in HandleId : handles[h] # NoHandle <=> h <= n
    PROVE  NextHandle = n + 1 /\ NextHandle \in HandleId
<1>1. /\ IsFiniteSet(Begun) /\ u \notin Begun /\ Begun \cup {u} \subseteq Uploads
      /\ IsFiniteSet(Begun \cup {u})
      /\ Cardinality(Begun \cup {u}) = Cardinality(Begun) + 1
  BY DBFSAssumption, FS_Subset, FS_AddElement DEF Begun
<1>2. /\ Cardinality(Begun) \in Nat /\ Cardinality(Uploads) \in Nat
      /\ Cardinality(Begun) + 1 <= Cardinality(Uploads)
  BY <1>1, DBFSAssumption, FS_Subset, FS_CardinalityType
<1>3. {h \in HandleId : handles[h] # NoHandle} = 1..n
  BY <1>2 DEF HandleId
<1>4. Cardinality(1..n) = n
  BY <1>2, FS_Interval
<1>5. NextHandle = n + 1
  BY <1>3, <1>4 DEF NextHandle
<1>6. n + 1 \in 1..Cardinality(Uploads)
  BY <1>2
<1> QED BY <1>5, <1>6 DEF HandleId

LEMMA CreateKeepsUploads ==
    ASSUME DBFSInv, NEW u \in Uploads, NEW p \in DPaths, NEW overwrite \in BOOLEAN,
           dbfsCreate(u, p, overwrite)
    PROVE  DBFSInv'
<1> DEFINE us   == IF overwrite THEN {x \in Uploads : upload[x].path \in {p}} ELSE {}
           base == IF overwrite THEN Disturbed({p}) ELSE upload
<1>1. PICK i \in FileFor(p) :
          /\ dir' = [dir EXCEPT ![p] = i]
          /\ inode' = [inode EXCEPT ![i] = <<>>]
          /\ handles' = [handles EXCEPT ![NextHandle] = [inode |-> i, offset |-> 0, by |-> u]]
          /\ upload' = [base EXCEPT ![u] =
                           [at |-> "open", path |-> p, handle |-> NextHandle, blocks |-> 0,
                            alone |-> \A h \in HandleId : handles[h].inode # i]]
  BY DEF dbfsCreate
<1>2. /\ DBFSTyped /\ PathsNameOneFile /\ HandlesAreOwned /\ 0 \notin Inode
      /\ upload[u] = NotBegun /\ u \notin Begun /\ MayCreate(p, overwrite)
      /\ u \in Uploads /\ 0 \in 0..MaxBlocks
  BY DBFSAssumption DEF dbfsCreate, DBFSInv, Inode, Begun
<1>3. /\ i \in Inode /\ \A q \in DPaths : dir[q] = i => q = p
      /\ dir[p] # 0 => i = dir[p]
      /\ dir[p] = 0 => \A h \in HandleId : handles[h].inode # i
  BY <1>2, FilesToWriteTo
<1>4. PICK n \in 0..Cardinality(Begun) : \A h \in HandleId : handles[h] # NoHandle <=> h <= n
  BY DEF DBFSInv, HandlesAreCounted
<1>5. NextHandle = n + 1 /\ NextHandle \in HandleId
  BY <1>2, <1>4, NextHandleIsFree
<1>6. us \in SUBSET Begun
  BY <1>2, DisturbedUploads
<1>7. /\ base \in [Uploads -> UploadRecord \cup {NotBegun}]
      /\ \A x \in Uploads : base[x] # NotBegun <=> x \in Begun
      /\ \A x \in Uploads \ us : base[x] = upload[x]
      /\ \A x \in us : ~base[x].alone
  <2>1. CASE overwrite
    BY <1>2, <1>6, <2>1, SpoiledUploads DEF Disturbed
  <2>2. CASE ~overwrite
    BY <1>2, <2>2 DEF Begun, DBFSTyped
  <2> QED BY <2>1, <2>2
<1>8. \A x \in Begun : base[x].alone => x \in Alone /\ base[x] = upload[x] /\ upload[x].path # p
  <2> SUFFICES ASSUME NEW x \in Begun, base[x].alone
               PROVE  x \in Alone /\ base[x] = upload[x] /\ upload[x].path # p
    OBVIOUS
  <2>1. x \in Alone /\ base[x] = upload[x] /\ x \notin us /\ x \in Uploads
    BY <1>7 DEF Alone, Begun
  <2>2. CASE overwrite
    BY <2>1, <2>2
  <2>3. CASE ~overwrite
    <3>1. dir[p] = 0
      BY <1>2, <2>3 DEF MayCreate
    <3> QED BY <2>1, <3>1 DEF DBFSInv, AloneIsWhole, FileOf
  <2> QED BY <2>1, <2>2, <2>3
<1> HIDE DEF us, base
<1> DEFINE made == [at |-> "open", path |-> p, handle |-> NextHandle, blocks |-> 0,
                    alone |-> \A h \in HandleId : handles[h].inode # i]
           grip == [inode |-> i, offset |-> 0, by |-> u]
<1>9. made \in UploadRecord /\ made # NotBegun /\ made.path = p /\ made.blocks = 0
      /\ (made.alone <=> \A h \in HandleId : handles[h].inode # i)
  BY <1>2, <1>5 DEF UploadRecord, NotBegun
<1>10. grip \in [inode : {0} \cup Inode, offset : 0..MaxBlocks, by : Uploads \cup {"none", "closed"}]
       /\ grip # NoHandle /\ grip.by = u /\ grip.inode = i /\ grip.offset = 0
  BY <1>2, <1>3 DEF NoHandle
<1> HIDE DEF made, grip
<1>11. upload' = [base EXCEPT ![u] = made] /\ handles' = [handles EXCEPT ![NextHandle] = grip]
  BY <1>1 DEF made, grip
<1>12. DBFSTyped'
  <2>1. dir' \in [DPaths -> {0} \cup Inode] /\ inode' = [j \in Inode |-> inode'[j]]
    BY <1>1, <1>2, <1>3 DEF DBFSTyped
  <2>2. upload' \in [Uploads -> UploadRecord \cup {NotBegun}]
    BY <1>2, <1>7, <1>9, <1>11
  <2>3. handles' \in [HandleId -> [inode : {0} \cup Inode, offset : 0..MaxBlocks,
                                   by : Uploads \cup {"none", "closed"}]]
    BY <1>2, <1>10, <1>11 DEF DBFSTyped
  <2> QED BY <2>1, <2>2, <2>3 DEF DBFSTyped
<1>13. /\ upload'[u] = made /\ \A x \in Uploads \ {u} : upload'[x] = base[x]
       /\ handles'[NextHandle] = grip
       /\ \A h \in HandleId \ {NextHandle} : handles'[h] = handles[h]
       /\ dir'[p] = i /\ \A q \in DPaths \ {p} : dir'[q] = dir[q]
       /\ inode'[i] = <<>> /\ \A j \in Inode \ {i} : inode'[j] = inode[j]
  BY <1>1, <1>2, <1>3, <1>5, <1>7, <1>11 DEF DBFSTyped
<1>14. Begun' = Begun \cup {u}
  BY <1>7, <1>9, <1>13, <1>2 DEF Begun
<1>15. PathsNameOneFile'
  BY <1>2, <1>3, <1>13 DEF PathsNameOneFile
<1>16. HandlesAreOwned'
  <2>1. \A h \in HandleId : handles[h].by # u
    BY <1>2 DEF HandlesAreOwned
  <2> QED BY <1>2, <1>10, <1>13, <1>14, <2>1 DEF HandlesAreOwned
<1>17. HandlesAreCounted'
  <2>1. IsFiniteSet(Begun) /\ Cardinality(Begun') = Cardinality(Begun) + 1
        /\ Cardinality(Begun) \in Nat
    BY <1>2, <1>14, DBFSAssumption, FS_Subset, FS_AddElement, FS_CardinalityType DEF Begun
  <2>2. n + 1 \in 0..Cardinality(Begun')
    BY <2>1
  <2>3. HandleId \subseteq Int
    BY DEF HandleId
  <2>4. \A h \in HandleId : handles'[h] # NoHandle <=> h <= n + 1
    BY <1>4, <1>5, <1>10, <1>13, <2>2, <2>3
  <2> QED BY <2>2, <2>4 DEF HandlesAreCounted
<1>18. ASSUME NEW x \in Alone' PROVE AloneIsWhole(x)'
  <2>1. CASE x = u
    <3>1. upload'[x].path = p /\ upload'[x].blocks = 0 /\ FileOf(x)' = i
          /\ \A h \in HandleId : handles[h].inode # i
      BY <1>9, <1>13, <2>1 DEF Alone, FileOf
    <3>2. inode'[i] = [k \in 1..0 |-> x]
      BY <1>13
    <3>3. \A h \in HandleId : handles[h].by # u
      BY <1>2 DEF HandlesAreOwned
    <3> QED BY <1>2, <1>3, <1>10, <1>13, <2>1, <3>1, <3>2, <3>3 DEF AloneIsWhole
  <2>2. CASE x # u
    <3>1. x \in Begun /\ base[x].alone /\ x \in Uploads
      BY <1>13, <1>14, <2>2 DEF Alone, Begun
    <3>2. x \in Alone /\ upload'[x] = upload[x] /\ upload[x].path \in DPaths \ {p}
      BY <1>2, <1>8, <1>13, <2>2, <3>1 DEF DBFSTyped, Begun, UploadRecord
    <3>3. FileOf(x)' = FileOf(x) /\ FileOf(x) # i /\ FileOf(x) \in Inode /\ AloneIsWhole(x)
      BY <1>2, <1>3, <1>13, <3>2 DEF FileOf, DBFSInv, DBFSTyped, AloneIsWhole
    <3> QED BY <1>2, <1>10, <1>13, <2>2, <3>2, <3>3 DEF AloneIsWhole
  <2> QED BY <2>1, <2>2
<1> QED BY <1>12, <1>15, <1>16, <1>17, <1>18 DEF DBFSInv

(***************************************************************************)
(* A block goes to the file of a handle: an upload that is alone, whose    *)
(* handle it is not, is not touched.                                       *)
(***************************************************************************)
LEMMA AddBlockKeepsUploads == ASSUME DBFSInv, NEW u \in Uploads, dbfsAddBlock(u) PROVE DBFSInv'
<1> DEFINE h == upload[u].handle
           f == handles[h].inode
           w == handles[h].by
           o == handles[h].offset
<1>1. /\ DBFSTyped /\ HandlesAreOwned /\ \A x \in Alone : AloneIsWhole(x)
      /\ IsOpen(u) /\ UNCHANGED dir
  BY DEF DBFSInv, dbfsAddBlock
<1>2. u \in Begun /\ upload[u] \in UploadRecord
  BY <1>1 DEF Begun, DBFSTyped, IsOpen, NotBegun
<1>3. /\ h \in HandleId /\ f \in Inode /\ w \in Begun /\ o \in 0..MaxBlocks /\ o < MaxBlocks
      /\ f # 0
  BY <1>1, <1>2 DEF UploadRecord, IsOpen, DBFSTyped, HandlesAreOwned, dbfsAddBlock
<1>4. /\ handles' = [handles EXCEPT ![h].offset = o + 1]
      /\ \E b : inode' = [inode EXCEPT ![f] = WriteAt(inode[f], o, b)]
  BY <1>1, <1>3 DEF dbfsAddBlock, DBFSTyped
<1>5. /\ inode' = [i \in Inode |-> inode'[i]] /\ \A i \in Inode \ {f} : inode'[i] = inode[i]
  BY <1>1, <1>3, <1>4 DEF DBFSTyped
<1>6. /\ handles' \in [HandleId -> [inode : {0} \cup Inode, offset : 0..MaxBlocks,
                                    by : Uploads \cup {"none", "closed"}]]
      /\ \A g \in HandleId \ {h} : handles'[g] = handles[g]
      /\ handles'[h].inode = f /\ handles'[h].by = w /\ handles'[h].offset = o + 1
      /\ handles'[h] # NoHandle /\ handles[h] # NoHandle
  <2>1. o + 1 \in 0..MaxBlocks
    BY <1>3, DBFSAssumption
  <2>2. /\ handles' \in [HandleId -> [inode : {0} \cup Inode, offset : 0..MaxBlocks,
                                      by : Uploads \cup {"none", "closed"}]]
        /\ \A g \in HandleId \ {h} : handles'[g] = handles[g]
        /\ handles'[h].inode = f /\ handles'[h].by = w /\ handles'[h].offset = o + 1
    BY <1>1, <1>3, <1>4, <2>1 DEF DBFSTyped
  <2> QED BY <1>3, <2>2 DEF NoHandle
<1> HIDE DEF h, f, w, o
<1>7. \A x \in Alone : x # w => FileOf(x) # f
  BY <1>1, <1>3 DEF AloneIsWhole, f, w
<1>8. ASSUME NEW x \in Alone, x # w, upload'[x] = upload[x] PROVE AloneIsWhole(x)'
  <2>1. FileOf(x)' = FileOf(x) /\ FileOf(x) # f /\ AloneIsWhole(x)
    BY <1>1, <1>7, <1>8 DEF FileOf
  <2>2. FileOf(x) \in Inode
    BY <1>1, <1>8, <2>1 DEF FileOf, AloneIsWhole, DBFSTyped, Alone, Begun, UploadRecord
  <2>3. inode'[FileOf(x)] = inode[FileOf(x)]
    BY <1>5, <2>1, <2>2
  <2>4. \A g \in HandleId : /\ handles'[g].inode = handles[g].inode
                            /\ handles'[g].by = handles[g].by
                            /\ g # h => handles'[g].offset = handles[g].offset
    BY <1>6 DEF f, w
  <2>5. handles'[h].inode # FileOf(x)
    BY <1>6, <2>1
  <2> QED BY <1>3, <1>8, <2>1, <2>3, <2>4, <2>5 DEF AloneIsWhole
<1>9. ASSUME upload' \in [Uploads -> UploadRecord \cup {NotBegun}], Begun' = Begun
      PROVE  DBFSTyped' /\ PathsNameOneFile' /\ HandlesAreCounted' /\ HandlesAreOwned'
  <2>1. DBFSTyped'
    BY <1>1, <1>5, <1>6, <1>9 DEF DBFSTyped
  <2>2. PathsNameOneFile'
    BY <1>1 DEF DBFSInv, PathsNameOneFile
  <2>3. HandlesAreCounted'
    <3>1. \A g \in HandleId : handles'[g] # NoHandle <=> handles[g] # NoHandle
      BY <1>6
    <3> QED BY <1>9, <3>1 DEF DBFSInv, HandlesAreCounted
  <2>4. HandlesAreOwned'
    <3>1. \A g \in HandleId : /\ handles'[g].inode = handles[g].inode
                              /\ handles'[g].by = handles[g].by
      BY <1>6 DEF f, w
    <3> QED BY <1>1, <1>9, <3>1 DEF HandlesAreOwned
  <2> QED BY <2>1, <2>2, <2>3, <2>4
<1>10. CASE upload' = Spoiled({u, w})
  <2>1. {u, w} \in SUBSET Begun
    BY <1>2, <1>3
  <2>2. upload' \in [Uploads -> UploadRecord \cup {NotBegun}] /\ Begun' = Begun
    BY <1>1, <1>10, <2>1, SpoiledUploads DEF Begun
  <2>3. \A x \in Alone' : x \in Alone /\ x # w /\ upload'[x] = upload[x]
    BY <1>1, <1>10, <2>1, <2>2, SpoiledUploads DEF Alone, Begun
  <2> QED BY <1>8, <1>9, <2>2, <2>3 DEF DBFSInv
<1>11. CASE /\ upload[u].alone /\ w = u
            /\ upload' = [upload EXCEPT ![u].blocks = @ + 1]
            /\ inode' = [inode EXCEPT ![f] = WriteAt(inode[f], o, u)]
  <2>1. u \in Alone /\ FileOf(u) = f /\ o = upload[u].blocks
        /\ inode[f] = [k \in 1..o |-> u]
    <3>1. u \in Alone /\ AloneIsWhole(u)
      BY <1>1, <1>2, <1>11 DEF Alone
    <3>2. FileOf(u) = f
      BY <1>3, <1>11, <3>1 DEF AloneIsWhole, f, w
    <3>3. o = upload[u].blocks
      BY <1>3, <3>1, <3>2 DEF AloneIsWhole, f, o
    <3> QED BY <3>1, <3>2, <3>3 DEF AloneIsWhole
  <2>2. o + 1 \in 0..MaxBlocks
    BY <1>3, DBFSAssumption
  <2>3. /\ upload' \in [Uploads -> UploadRecord \cup {NotBegun}]
        /\ \A x \in Uploads \ {u} : upload'[x] = upload[x]
        /\ upload'[u] \in UploadRecord /\ upload'[u].blocks = o + 1
        /\ upload'[u].path = upload[u].path
    <3>1. [upload[u] EXCEPT !.blocks = o + 1] \in UploadRecord
      BY <1>2, <2>2 DEF UploadRecord
    <3>2. upload' = [upload EXCEPT ![u] = [upload[u] EXCEPT !.blocks = o + 1]]
      BY <1>11, <2>1
    <3>3. u \in Uploads /\ upload \in [Uploads -> UploadRecord \cup {NotBegun}]
      BY <1>1 DEF DBFSTyped
    <3> QED BY <1>2, <3>1, <3>2, <3>3 DEF UploadRecord
  <2>4. Begun' = Begun
    <3>1. NotBegun \notin UploadRecord
      BY DEF NotBegun, UploadRecord
    <3> QED BY <1>2, <2>3, <3>1 DEF Begun
  <2>5. ASSUME NEW x \in Alone', x # u PROVE AloneIsWhole(x)'
    BY <1>8, <1>11, <2>3, <2>4, <2>5 DEF Alone, Begun
  <2>6. AloneIsWhole(u)'
    <3>1. FileOf(u)' = f
      BY <1>1, <2>1, <2>3 DEF FileOf
    <3>2. WriteAt(inode[f], o, u) = [k \in 1..(o + 1) |-> u]
      <4>1. Len([k \in 1..o |-> u]) = o
        BY <1>3
      <4> QED BY <1>3, <2>1, <4>1 DEF WriteAt
    <3>3. inode'[f] = [k \in 1..(o + 1) |-> u]
      BY <1>1, <1>3, <1>11, <3>2 DEF DBFSTyped
    <3>4. \A g \in HandleId : handles'[g].inode = f => g = h
      <4>1. \A g \in HandleId : handles'[g].inode = handles[g].inode
        BY <1>6 DEF f
      <4>2. \A g \in HandleId : handles[g].inode = f => handles[g].by = u
        BY <1>1, <2>1 DEF AloneIsWhole
      <4> QED BY <1>1, <1>3, <1>11, <4>1, <4>2 DEF HandlesAreOwned, w
    <3>5. \A g \in HandleId : handles'[g].by = u /\ handles'[g].inode # 0 => handles'[g].inode = f
      <4>1. \A g \in HandleId : handles'[g].inode = handles[g].inode /\ handles'[g].by = handles[g].by
        BY <1>6 DEF f, w
      <4>2. AloneIsWhole(u)
        BY <1>1, <2>1
      <4> QED BY <2>1, <4>1, <4>2 DEF AloneIsWhole
    <3> QED BY <1>3, <1>6, <1>11, <2>3, <3>1, <3>3, <3>4, <3>5 DEF AloneIsWhole
  <2>7. \A x \in Alone' : AloneIsWhole(x)'
    BY <2>5, <2>6
  <2> QED BY <1>9, <2>3, <2>4, <2>7 DEF DBFSInv
<1> QED BY <1>10, <1>11 DEF dbfsAddBlock, h, f, w, o

LEMMA CloseKeepsUploads == ASSUME DBFSInv, NEW u \in Uploads, dbfsClose(u) PROVE DBFSInv'
<1> DEFINE h == upload[u].handle
<1>1. /\ DBFSTyped /\ IsOpen(u) /\ UNCHANGED dir /\ PathsNameOneFile
      /\ handles' = [handles EXCEPT ![h] = Closed]
      /\ inode' = Kept(dir', handles', inode)
      /\ upload' = [upload EXCEPT ![u].at = "closed"]
  BY DEF DBFSInv, dbfsClose
<1>2. upload[u] \in UploadRecord /\ h \in HandleId /\ handles[h].inode # 0
  BY <1>1 DEF DBFSTyped, IsOpen, NotBegun, UploadRecord
<1> HIDE DEF h
<1>3. /\ Closed \in [inode : {0} \cup Inode, offset : 0..MaxBlocks,
                     by : Uploads \cup {"none", "closed"}]
      /\ Closed.inode = 0 /\ Closed.by = "closed" /\ Closed # NoHandle
  BY DBFSAssumption DEF Closed, NoHandle
<1>4. [upload[u] EXCEPT !.at = "closed"] \in UploadRecord
  BY <1>2 DEF UploadRecord
<1>5. /\ upload' \in [Uploads -> UploadRecord \cup {NotBegun}]
      /\ \A x \in Uploads \ {u} : upload'[x] = upload[x]
      /\ upload'[u] \in UploadRecord /\ upload'[u].path = upload[u].path
      /\ upload'[u].alone = upload[u].alone /\ upload'[u].blocks = upload[u].blocks
  BY <1>1, <1>2, <1>4 DEF DBFSTyped, UploadRecord
<1>6. Begun' = Begun
  <2>1. NotBegun \notin UploadRecord
    BY DEF NotBegun, UploadRecord
  <2> QED BY <1>2, <1>5, <2>1 DEF Begun
<1>7. /\ handles'[h] = Closed /\ \A g \in HandleId \ {h} : handles'[g] = handles[g]
      /\ handles' \in [HandleId -> [inode : {0} \cup Inode, offset : 0..MaxBlocks,
                                    by : Uploads \cup {"none", "closed"}]]
  BY <1>1, <1>2, <1>3 DEF DBFSTyped
<1>8. /\ inode' = [i \in Inode |-> inode'[i]]
      /\ \A p \in DPaths : dir[p] # 0 => inode'[dir[p]] = inode[dir[p]]
  <2>1. dir \in [DPaths -> {0} \cup Inode] /\ inode' = Kept(dir, handles', inode)
    BY <1>1 DEF DBFSTyped
  <2>2. inode' = [i \in Inode |-> inode'[i]]
    BY <2>1 DEF Kept
  <2>3. ASSUME NEW p \in DPaths, dir[p] # 0, NEW hs
        PROVE  Kept(dir, hs, inode)[dir[p]] = inode[dir[p]]
    BY <2>1, <2>3, KeptFiles
  <2> HIDE DEF Kept
  <2> QED BY <2>1, <2>2, <2>3
<1>9. DBFSTyped' /\ PathsNameOneFile'
  BY <1>1, <1>5, <1>7, <1>8 DEF DBFSTyped, PathsNameOneFile
<1>10. HandlesAreCounted'
  <2>1. handles[h] # NoHandle
    BY <1>2 DEF NoHandle
  <2> QED BY <1>3, <1>6, <1>7, <2>1 DEF DBFSInv, HandlesAreCounted
<1>11. HandlesAreOwned'
  BY <1>3, <1>6, <1>7, DBFSAssumption DEF DBFSInv, HandlesAreOwned
<1>12. ASSUME NEW x \in Alone' PROVE AloneIsWhole(x)'
  <2>1. /\ x \in Alone /\ upload'[x].blocks = upload[x].blocks
        /\ upload'[x].path = upload[x].path /\ upload[x].path \in DPaths
    <3>1. upload[x] \in UploadRecord
      BY <1>1, <1>6 DEF Alone, Begun, DBFSTyped
    <3> QED BY <1>5, <1>6, <3>1 DEF Alone, Begun, UploadRecord
  <2>2. AloneIsWhole(x) /\ x # "closed"
    BY <2>1, DBFSAssumption DEF DBFSInv, Alone, Begun
  <2>3. FileOf(x)' = FileOf(x) /\ inode'[FileOf(x)] = inode[FileOf(x)]
    BY <1>1, <1>8, <2>1, <2>2 DEF FileOf, AloneIsWhole
  <2> QED BY <1>3, <1>7, <2>1, <2>2, <2>3 DEF AloneIsWhole
<1> QED BY <1>9, <1>10, <1>11, <1>12 DEF DBFSInv

(***************************************************************************)
(* A start closes all handles and leaves the files that have a path.       *)
(***************************************************************************)
LEMMA OpenKeepsUploads == ASSUME DBFSInv, openDBFS PROVE DBFSInv'
<1>1. /\ DBFSTyped /\ UNCHANGED <<dir, upload>>
      /\ handles' = [h \in HandleId |-> NoHandle]
      /\ inode' = Kept(dir', handles', inode)
  BY DEF DBFSInv, openDBFS
<1>2. \A h \in HandleId : handles'[h] = NoHandle
  BY <1>1
<1>3. NoHandle \in [inode : {0} \cup Inode, offset : 0..MaxBlocks,
                    by : Uploads \cup {"none", "closed"}]
      /\ NoHandle.inode = 0 /\ NoHandle.by = "none"
  BY DBFSAssumption DEF NoHandle
<1>4. /\ inode' = [i \in Inode |-> inode'[i]]
      /\ \A p \in DPaths : dir[p] # 0 => inode'[dir[p]] = inode[dir[p]]
  <2>1. dir \in [DPaths -> {0} \cup Inode] /\ inode' = Kept(dir, handles', inode)
    BY <1>1 DEF DBFSTyped
  <2>2. inode' = [i \in Inode |-> inode'[i]]
    BY <2>1 DEF Kept
  <2>3. ASSUME NEW p \in DPaths, dir[p] # 0, NEW hs
        PROVE  Kept(dir, hs, inode)[dir[p]] = inode[dir[p]]
    BY <2>1, <2>3, KeptFiles
  <2> HIDE DEF Kept
  <2> QED BY <2>1, <2>2, <2>3
<1>5. DBFSTyped' /\ PathsNameOneFile' /\ Begun' = Begun /\ Alone' = Alone
  BY <1>1, <1>3, <1>4 DEF DBFSInv, DBFSTyped, PathsNameOneFile, Begun, Alone
<1>6. HandlesAreCounted'
  <2>1. Cardinality(Begun) \in Nat
    BY DBFSAssumption, FS_Subset, FS_CardinalityType DEF Begun
  <2>2. 0 \in 0..Cardinality(Begun') /\ \A h \in HandleId : ~(h <= 0)
    BY <1>5, <2>1 DEF HandleId
  <2> QED BY <1>2, <2>2 DEF HandlesAreCounted
<1>7. HandlesAreOwned'
  BY <1>2, <1>3, DBFSAssumption DEF HandlesAreOwned
<1>8. ASSUME NEW x \in Alone PROVE AloneIsWhole(x)'
  <2>1. AloneIsWhole(x) /\ upload[x].path \in DPaths
    BY <1>1 DEF DBFSInv, DBFSTyped, Alone, Begun, UploadRecord
  <2>2. FileOf(x)' = FileOf(x) /\ inode'[FileOf(x)] = inode[FileOf(x)] /\ FileOf(x) # 0
    BY <1>1, <1>4, <2>1 DEF FileOf, AloneIsWhole
  <2> QED BY <1>1, <1>2, <1>3, <2>1, <2>2 DEF AloneIsWhole
<1> QED BY <1>5, <1>6, <1>7, <1>8 DEF DBFSInv

(***************************************************************************)
(* Every step is a start, a request to DBFS, or leaves DBFS alone.         *)
(***************************************************************************)
LEMMA DBFSSteps == ASSUME [Next]_vars PROVE openDBFS \/ DBFSRequest \/ UNCHANGED dbfsVars
<1>1. CASE Seed \/ Open \/ OpenFails \/ Crash
  BY <1>1 DEF Seed, Open, OpenFails, Crash, storeVars
<1>2. CASE TokenRequest \/ ScopeRequest \/ SecretRequest \/ GroupRequest \/ NextPage
           \/ MLflowRequest \/ FileRequest \/ ObjectRequest \/ ClusterPolicyRequest
  BY <1>2 DEF TokenRequest, ScopeRequest, SecretRequest, GroupRequest, NextPage,
       MLflowRequest, FileRequest, ObjectRequest, ClusterPolicyRequest, Only
<1>3. CASE UNCHANGED vars
  BY <1>3 DEF vars, storeVars
<1> QED BY <1>1, <1>2, <1>3 DEF Next

(***************************************************************************)
(* The file of an upload that nobody disturbed is the blocks its client    *)
(* was told were written, for any number of uploads, paths and blocks,     *)
(* however they interleave and wherever the process dies.                  *)
(***************************************************************************)
THEOREM UploadsStayWhole == Spec => []UploadsAreWhole
<1>1. Init => DBFSInv
  <2> SUFFICES ASSUME Init PROVE DBFSInv
    OBVIOUS
  <2>1. /\ dir = [p \in DPaths |-> 0] /\ inode = [i \in Inode |-> <<>>]
        /\ handles = [h \in HandleId |-> NoHandle] /\ upload = [u \in Uploads |-> NotBegun]
        /\ Begun = {} /\ Alone = {}
    BY DEF Init, DBFSInit, Begun, Alone
  <2>2. NoHandle \in [inode : {0} \cup Inode, offset : 0..MaxBlocks,
                      by : Uploads \cup {"none", "closed"}]
        /\ NoHandle.inode = 0 /\ NoHandle.by = "none"
    BY DBFSAssumption DEF NoHandle
  <2>3. DBFSTyped /\ PathsNameOneFile /\ HandlesAreOwned
    BY <2>1, <2>2, DBFSAssumption DEF DBFSTyped, PathsNameOneFile, HandlesAreOwned
  <2>4. HandlesAreCounted
    <3>1. Cardinality(Begun) = 0 /\ \A h \in HandleId : ~(h <= 0)
      BY <2>1, FS_EmptySet DEF HandleId
    <3>2. 0 \in 0..Cardinality(Begun)
      BY <3>1
    <3> QED BY <2>1, <3>1, <3>2 DEF HandlesAreCounted
  <2> QED BY <2>1, <2>3, <2>4 DEF DBFSInv
<1>2. DBFSInv /\ [Next]_vars => DBFSInv'
  <2> SUFFICES ASSUME DBFSInv, [Next]_vars PROVE DBFSInv'
    OBVIOUS
  <2>1. CASE DBFSRequest
    BY <2>1, PutKeepsUploads, DeleteKeepsUploads, MoveKeepsUploads, CreateKeepsUploads,
       AddBlockKeepsUploads, CloseKeepsUploads DEF DBFSRequest
  <2>2. CASE UNCHANGED dbfsVars
    <3>1. UNCHANGED <<dir, inode, handles, upload, Begun, Alone>>
      BY <2>2 DEF dbfsVars, Alone, Begun
    <3>2. DBFSTyped' /\ PathsNameOneFile' /\ HandlesAreOwned'
      BY <3>1 DEF DBFSInv, DBFSTyped, PathsNameOneFile, HandlesAreOwned
    <3>3. HandlesAreCounted'
      BY <3>1 DEF DBFSInv, HandlesAreCounted
    <3>4. \A u \in Alone' : AloneIsWhole(u)'
      BY <3>1 DEF DBFSInv, AloneIsWhole, FileOf
    <3> QED BY <3>2, <3>3, <3>4 DEF DBFSInv
  <2> QED BY <2>1, <2>2, DBFSSteps, OpenKeepsUploads
<1>3. DBFSInv => UploadsAreWhole
  <2> SUFFICES ASSUME DBFSInv, NEW u \in Uploads, upload[u].at # "new", upload[u].alone
               PROVE  /\ dir[upload[u].path] # 0
                      /\ inode[dir[upload[u].path]] = [k \in 1..upload[u].blocks |-> u]
    BY DEF UploadsAreWhole
  <2>1. u \in Alone
    BY DEF Alone, Begun, NotBegun
  <2> QED BY <2>1 DEF DBFSInv, AloneIsWhole, FileOf
<1> QED BY <1>1, <1>2, <1>3, PTL DEF Spec

--------------------------------------------------------------------------------
(* Experiments and tracking runs                                               *)

ExpType == [name : ExpNames \cup {NoName}, lifecycle : {"none", "active", "deleted"}]
RunType == [exp : 0..MaxExps, lifecycle : {"none", "active", "deleted"},
            name : RunNames \cup {NoName}, tag : RunNames \cup {NoName},
            param : ParamValues \cup {NoName}, metrics : Seq(Point)]

\* The maps of the store, of which the proof leaves the registry open.
IsStore(m) ==
    /\ m = [nextExp |-> m.nextExp, exps |-> m.exps, runs |-> m.runs, models |-> m.models,
            versions |-> m.versions]
    /\ m.nextExp \in 0..MaxExps
    /\ m.exps \in [ExpId -> ExpType]
    /\ m.runs \in [RunId -> RunType]

NamesDiffer(exps) ==
    \A i, j \in ExpId : /\ exps[i].lifecycle = "active" /\ exps[j].lifecycle = "active"
                        /\ exps[i].name = exps[j].name
                        => i = j

\* A store that a client who was told of the ids given and of the parameters log
\* finds as it should be.
Holds(m, given, log) ==
    /\ NamesDiffer(m.exps)
    /\ \A i \in given : i <= m.nextExp
    /\ \A r \in RunId : log[r] # NoName => m.runs[r].param = log[r]
    /\ \A r \in RunId : m.runs[r].tag \in {m.runs[r].name, NoName}

MLInv ==
    /\ IsStore(ml) /\ IsStore(mlFile)
    /\ givenIds \subseteq ExpId
    /\ logged \in [RunId -> ParamValues \cup {NoName}]
    /\ Holds(ml, givenIds, logged) /\ Holds(mlFile, givenIds, logged)

(***************************************************************************)
(* Memory that holds what is told is written whole or not at all, and      *)
(* nothing more is told unless it was written.                             *)
(***************************************************************************)
LEMMA PersistKeepsML ==
    ASSUME MLInv, NEW m, IsStore(m), Holds(m, givenIds', logged'),
           NEW o \in persistML(m), Ends(m, o),
           givenIds' \subseteq ExpId, logged' \in [RunId -> ParamValues \cup {NoName}],
           o.end = "ok" \/ UNCHANGED <<givenIds, logged>>
    PROVE  MLInv'
<1>1. [m EXCEPT !.nextExp = StoredNextExp(m)] = m
  BY DEF IsStore, StoredNextExp
<1>2. o.file \in {m, mlFile} /\ (o.end = "ok" => o.file = m) /\ ml' = m /\ mlFile' = o.file
  BY <1>1 DEF persistML, WriteAndRename, Ends
<1>3. CASE mlFile' = m
  BY <1>2, <1>3 DEF MLInv
<1>4. CASE mlFile' = mlFile /\ o.end # "ok"
  BY <1>2, <1>4 DEF MLInv
<1> QED BY <1>2, <1>3, <1>4

LEMMA ChangesKeepML ==
    ASSUME MLInv, NEW m, IsStore(m), Holds(m, givenIds, logged), Changes(m) \/ Refuses(m)
    PROVE  MLInv'
<1>1. CASE Changes(m)
  <2>1. PICK o \in persistML(m) : Ends(m, o)
    BY <1>1 DEF Changes
  <2>2. UNCHANGED <<givenIds, logged>>
    BY <1>1 DEF Changes
  <2> QED BY <2>1, <2>2, PersistKeepsML DEF MLInv
<1>2. CASE Refuses(m)
  BY <1>2 DEF Refuses, MLInv
<1> QED BY <1>1, <1>2

(***************************************************************************)
(* A change of one experiment that leaves its name to itself, or leaves it *)
(* deleted.                                                                *)
(***************************************************************************)
LEMMA ExperimentIsSet ==
    ASSUME IsStore(ml), Holds(ml, givenIds, logged), NEW i \in ExpId, NEW e \in ExpType,
           e.lifecycle = "active" => ~NameTaken(e.name, {i})
    PROVE  /\ IsStore([ml EXCEPT !.exps[i] = e])
           /\ Holds([ml EXCEPT !.exps[i] = e], givenIds, logged)
<1> DEFINE x == [ml.exps EXCEPT ![i] = e]
           m == [ml EXCEPT !.exps[i] = e]
<1>1. m = [nextExp |-> ml.nextExp, exps |-> x, runs |-> ml.runs, models |-> ml.models,
           versions |-> ml.versions]
  BY DEF IsStore
<1>2. x \in [ExpId -> ExpType] /\ x[i] = e /\ \A j \in ExpId \ {i} : x[j] = ml.exps[j]
  BY DEF IsStore
<1> HIDE DEF x, m
<1>3. IsStore(m) /\ m.exps = x /\ m.nextExp = ml.nextExp /\ m.runs = ml.runs
  BY <1>1, <1>2 DEF IsStore
<1>4. NamesDiffer(x)
  BY <1>2 DEF NamesDiffer, NameTaken, Active, Holds
<1>5. Holds(m, givenIds, logged)
  BY <1>3, <1>4 DEF Holds
<1> QED BY <1>3, <1>5 DEF m

LEMMA ExperimentRequestKeepsML ==
    ASSUME MLInv, ExperimentRequest \/ FirstExperiment PROVE MLInv'
<1>1. IsStore(ml) /\ Holds(ml, givenIds, logged)
  BY DEF MLInv
<1>2. ASSUME NEW n \in ExpNames, CreateExperiment(n) PROVE MLInv'
  <2> DEFINE i == ml.nextExp + 1
             e == [name |-> n, lifecycle |-> "active"]
             a == [ml EXCEPT !.exps[i] = e]
             m == [ml EXCEPT !.nextExp = i, !.exps[i] = e]
  <2>1. i \in ExpId /\ ~NameTaken(n, {}) /\ UNCHANGED logged
    BY <1>2 DEF CreateExperiment
  <2>2. PICK o \in persistML(m) :
             /\ Ends(m, o)
             /\ givenIds' = IF o.end = "ok" THEN givenIds \cup {i} ELSE givenIds
    BY <1>2 DEF CreateExperiment
  <2>3. e \in ExpType /\ e.name = n /\ ml.nextExp \in Nat /\ i \in 0..MaxExps
    BY <1>1, <2>1, MLflowAssumption DEF ExpType, IsStore, ExpId
  <2>4. ~NameTaken(e.name, {i})
    BY <2>1, <2>3 DEF NameTaken
  <2> HIDE DEF e
  <2>5. IsStore(a) /\ Holds(a, givenIds, logged)
    BY <1>1, <2>1, <2>3, <2>4, ExperimentIsSet
  <2>6. /\ m = [nextExp |-> i, exps |-> a.exps, runs |-> a.runs, models |-> a.models,
                versions |-> a.versions]
        /\ a.nextExp = ml.nextExp
    <3>1. ml = [nextExp |-> ml.nextExp, exps |-> ml.exps, runs |-> ml.runs,
                models |-> ml.models, versions |-> ml.versions]
      BY <1>1 DEF IsStore
    <3>2. m = [a EXCEPT !.nextExp = i]
      BY <3>1
    <3>3. a.nextExp = ml.nextExp
      BY <3>1
    <3>4. ASSUME NEW b, IsStore(b)
          PROVE  [b EXCEPT !.nextExp = i] = [nextExp |-> i, exps |-> b.exps, runs |-> b.runs,
                                            models |-> b.models, versions |-> b.versions]
      BY <3>4 DEF IsStore
    <3> HIDE DEF a, m
    <3> QED BY <2>5, <3>2, <3>3, <3>4
  <2> HIDE DEF a, m
  <2>7. IsStore(m) /\ m.exps = a.exps /\ m.runs = a.runs /\ m.nextExp = i
    BY <2>3, <2>5, <2>6 DEF IsStore
  <2>8. \A j \in givenIds : j \in Nat /\ j <= ml.nextExp
    BY <1>1 DEF Holds, MLInv, ExpId
  <2> HIDE DEF i
  <2>9. i = ml.nextExp + 1
    BY DEF i
  <2>10. \A j \in givenIds' : j <= i
    BY <2>2, <2>3, <2>8, <2>9
  <2>11. Holds(m, givenIds', logged') /\ givenIds' \subseteq ExpId
    BY <2>1, <2>2, <2>5, <2>7, <2>10 DEF Holds, MLInv
  <2> QED BY <2>1, <2>2, <2>7, <2>11, PersistKeepsML DEF MLInv
<1>3. ASSUME NEW i \in ExpId, NEW n \in ExpNames, UpdateExperiment(i, n) PROVE MLInv'
  <2> DEFINE e == [ml.exps[i] EXCEPT !.name = n]
  <2>1. e \in ExpType /\ e.name = n
    BY <1>1 DEF IsStore, ExpType
  <2>2. [ml EXCEPT !.exps[i].name = n] = [ml EXCEPT !.exps[i] = e]
    OBVIOUS
  <2> HIDE DEF e
  <2> QED BY <1>1, <1>3, <2>1, <2>2, ExperimentIsSet, ChangesKeepML DEF UpdateExperiment
<1>4. ASSUME NEW i \in ExpId, NEW l \in {"active", "deleted"},
             Changes([ml EXCEPT !.exps[i].lifecycle = l]),
             l = "active" => ~NameTaken(ml.exps[i].name, {i})
      PROVE  MLInv'
  <2> DEFINE e == [ml.exps[i] EXCEPT !.lifecycle = l]
  <2>1. e \in ExpType /\ e.name = ml.exps[i].name /\ e.lifecycle = l
    BY <1>1 DEF IsStore, ExpType
  <2>2. [ml EXCEPT !.exps[i].lifecycle = l] = [ml EXCEPT !.exps[i] = e]
    OBVIOUS
  <2> HIDE DEF e
  <2> QED BY <1>1, <1>4, <2>1, <2>2, ExperimentIsSet, ChangesKeepML
<1>5. ASSUME FirstExperiment PROVE MLInv'
  <2>1. (CHOOSE n \in ExpNames : TRUE) \in ExpNames
    BY MLflowAssumption
  <2> QED BY <1>2, <1>5, <2>1 DEF FirstExperiment
<1> QED BY <1>2, <1>3, <1>4, <1>5 DEF ExperimentRequest, DeleteExperiment, RestoreExperiment,
           MayRestore

(***************************************************************************)
(* A change of one run that keeps the parameter that was told and the name *)
(* that is the tag.                                                        *)
(***************************************************************************)
LEMMA RunIsSet ==
    ASSUME IsStore(ml), Holds(ml, givenIds, logged), NEW r \in RunId, NEW run \in RunType,
           run.tag \in {run.name, NoName},
           NEW log, \A q \in RunId \ {r} : log[q] = logged[q],
           log[r] # NoName => run.param = log[r]
    PROVE  /\ IsStore([ml EXCEPT !.runs[r] = run])
           /\ Holds([ml EXCEPT !.runs[r] = run], givenIds, log)
<1> DEFINE x == [ml.runs EXCEPT ![r] = run]
           m == [ml EXCEPT !.runs[r] = run]
<1>1. m = [nextExp |-> ml.nextExp, exps |-> ml.exps, runs |-> x, models |-> ml.models,
           versions |-> ml.versions]
  BY DEF IsStore
<1>2. x \in [RunId -> RunType] /\ x[r] = run /\ \A q \in RunId \ {r} : x[q] = ml.runs[q]
  BY DEF IsStore
<1> HIDE DEF x, m
<1>3. IsStore(m) /\ m.runs = x /\ m.nextExp = ml.nextExp /\ m.exps = ml.exps
  BY <1>1, <1>2 DEF IsStore
<1>4. Holds(m, givenIds, log)
  BY <1>2, <1>3 DEF Holds
<1> QED BY <1>3, <1>4 DEF m

LEMMA NamedRun ==
    ASSUME NEW run \in RunType, NEW n \in RunNames \cup {NoName}
    PROVE  /\ Named(run, n) \in RunType
           /\ Named(run, n).tag = Named(run, n).name
           /\ Named(run, n).param = run.param
           /\ Named(run, n).metrics = run.metrics
<1>1. Named(run, n) = [[run EXCEPT !.name = n] EXCEPT !.tag = n]
  BY DEF Named
<1>2. [run EXCEPT !.name = n] \in RunType
  BY DEF RunType
<1>3. ASSUME NEW q \in RunType PROVE [q EXCEPT !.tag = n] \in RunType
  BY DEF RunType
<1>4. Named(run, n) \in RunType
  BY <1>1, <1>2, <1>3
<1>5. /\ Named(run, n).tag = n /\ Named(run, n).name = n
      /\ Named(run, n).param = run.param /\ Named(run, n).metrics = run.metrics
  BY DEF Named, RunType
<1> QED BY <1>4, <1>5

LEMMA BoundedSequences ==
    ASSUME NEW S, NEW n \in Nat, NEW s \in BoundedSeq(S, n)
    PROVE  s \in Seq(S)
<1>1. PICK m \in 0..n : s \in [1..m -> S]
  BY DEF BoundedSeq, SeqOf
<1> QED BY <1>1

LEMMA NoMLRunIsARun == NoMLRun \in RunType /\ NoMLRun.param = NoName /\ NoMLRun.tag = NoName
BY MLflowAssumption DEF NoMLRun, RunType

LEMMA RunRequestKeepsML == ASSUME MLInv, RunRequest PROVE MLInv'
<1>1. IsStore(ml) /\ Holds(ml, givenIds, logged)
  BY DEF MLInv
<1>2. ASSUME NEW r \in RunId
      PROVE  /\ ml.runs[r] \in RunType /\ ml.runs[r].tag \in {ml.runs[r].name, NoName}
             /\ logged[r] # NoName => ml.runs[r].param = logged[r]
  BY <1>1 DEF IsStore, Holds
<1>3. ASSUME NEW r \in RunId, NEW run \in RunType, run.tag \in {run.name, NoName},
             run.param = ml.runs[r].param, Changes([ml EXCEPT !.runs[r] = run])
      PROVE  MLInv'
  BY <1>1, <1>2, <1>3, RunIsSet, ChangesKeepML
<1>4. ASSUME NEW r \in RunId, NEW i \in ExpId, NEW n \in RunNames \cup {NoName}, CreateRun(r, i, n)
      PROVE  MLInv'
  <2> DEFINE run == [NoMLRun EXCEPT !.exp = i, !.lifecycle = "active"]
  <2>1. run = [[NoMLRun EXCEPT !.exp = i] EXCEPT !.lifecycle = "active"]
    OBVIOUS
  <2>2. i \in 0..MaxExps
    BY MLflowAssumption DEF ExpId
  <2>3. [NoMLRun EXCEPT !.exp = i] \in RunType /\ [NoMLRun EXCEPT !.exp = i].param = NoName
    BY <2>2, NoMLRunIsARun DEF RunType
  <2>4. ASSUME NEW q \in RunType
        PROVE  /\ [q EXCEPT !.lifecycle = "active"] \in RunType
               /\ [q EXCEPT !.lifecycle = "active"].param = q.param
    BY DEF RunType
  <2>5. run \in RunType /\ run.param = NoName
    BY <2>1, <2>3, <2>4
  <2>6. Changes([ml EXCEPT !.runs[r] = Named(run, n)]) /\ ml.runs[r].param = NoName
    BY <1>4, NoMLRunIsARun DEF CreateRun
  <2> HIDE DEF run
  <2>7. /\ Named(run, n) \in RunType /\ Named(run, n).tag = Named(run, n).name
        /\ Named(run, n).param = NoName
    BY <2>5, NamedRun
  <2> QED BY <1>3, <2>6, <2>7
<1>5. ASSUME NEW r \in RunId, NEW n \in RunNames \cup {NoName}, UpdateRun(r, n) PROVE MLInv'
  <2>1. CASE n = NoName
    BY <1>2, <1>3, <1>5, <2>1 DEF UpdateRun, SetRun
  <2>2. CASE n # NoName
    BY <1>2, <1>3, <1>5, <2>2, NamedRun DEF UpdateRun, SetRun
  <2> QED BY <2>1, <2>2
<1>6. ASSUME NEW r \in RunId, NEW l \in {"active", "deleted"},
             Changes([ml EXCEPT !.runs[r].lifecycle = l])
      PROVE  MLInv'
  <2> DEFINE run == [ml.runs[r] EXCEPT !.lifecycle = l]
  <2>1. /\ run \in RunType /\ run.tag = ml.runs[r].tag /\ run.name = ml.runs[r].name
        /\ run.param = ml.runs[r].param
    BY <1>2 DEF RunType
  <2>2. [ml EXCEPT !.runs[r].lifecycle = l] = [ml EXCEPT !.runs[r] = run]
    OBVIOUS
  <2> HIDE DEF run
  <2> QED BY <1>2, <1>3, <1>6, <2>1, <2>2
<1>7. ASSUME NEW r \in RunId, DeleteTag(r) PROVE MLInv'
  <2> DEFINE run == [ml.runs[r] EXCEPT !.tag = NoName]
  <2>1. /\ run \in RunType /\ run.tag = NoName /\ run.param = ml.runs[r].param
    BY <1>2 DEF RunType
  <2>2. [ml EXCEPT !.runs[r].tag = NoName] = [ml EXCEPT !.runs[r] = run]
    OBVIOUS
  <2> HIDE DEF run
  <2> QED BY <1>3, <1>7, <2>1, <2>2 DEF DeleteTag
<1>8. ASSUME NEW r \in RunId, NEW n \in RunNames, SetTag(r, n) PROVE MLInv'
  BY <1>2, <1>3, <1>8, NamedRun DEF SetTag, SetRun
<1>9. ASSUME NEW r \in RunId, DeleteRun(r) \/ RestoreRun(r) PROVE MLInv'
  BY <1>6, <1>9 DEF DeleteRun, RestoreRun
<1> QED BY <1>4, <1>5, <1>7, <1>8, <1>9 DEF RunRequest

(***************************************************************************)
(* A parameter that is told is the one the run had, or has from now on.    *)
(***************************************************************************)
LEMMA LogRequestKeepsML == ASSUME MLInv, LogRequest PROVE MLInv'
<1>1. IsStore(ml) /\ Holds(ml, givenIds, logged)
      /\ logged \in [RunId -> ParamValues \cup {NoName}]
  BY DEF MLInv
<1> SUFFICES ASSUME NEW r \in RunId,
                    \/ \E p \in Point : LogMetric(r, p)
                    \/ \E v \in ParamValues : LogParam(r, v)
                    \/ \E vs \in BoundedSeq(ParamValues, 2) :
                          \/ LogBatchRefusesParam(r, vs)
                          \/ \E n \in RunNames \cup {NoName}, ps \in BoundedSeq(Point, 1) :
                                LogBatchRefusesKey(r, vs, n, ps) \/ LogBatch(r, vs, n, ps)
             PROVE  MLInv'
  BY DEF LogRequest
<1> DEFINE was == ml.runs[r]
<1>2. /\ was \in RunType /\ was.tag \in {was.name, NoName}
      /\ logged[r] # NoName => was.param = logged[r]
  BY <1>1 DEF IsStore, Holds
<1>3. ASSUME NEW p \in Point, LogMetric(r, p) PROVE MLInv'
  <2> DEFINE run == [was EXCEPT !.metrics = Append(@, p)]
  <2>1. was.metrics \in Seq(Point)
    BY <1>2 DEF RunType
  <2>2. Append(was.metrics, p) \in Seq(Point)
    BY <2>1
  <2>3. /\ run \in RunType /\ run.tag = was.tag /\ run.name = was.name /\ run.param = was.param
    BY <1>2, <2>2 DEF RunType
  <2>4. [ml EXCEPT !.runs[r].metrics = Append(@, p)] = [ml EXCEPT !.runs[r] = run]
    OBVIOUS
  <2> HIDE DEF run
  <2>5. IsStore([ml EXCEPT !.runs[r] = run]) /\ Holds([ml EXCEPT !.runs[r] = run], givenIds, logged)
    BY <1>1, <1>2, <2>3, RunIsSet
  <2> QED BY <1>3, <2>4, <2>5, ChangesKeepML DEF LogMetric
<1>4. ASSUME NEW run \in RunType, run.tag \in {run.name, NoName},
             NEW v \in ParamValues, run.param = v, logged[r] # NoName => v = logged[r],
             NEW o \in persistML([ml EXCEPT !.runs[r] = run]),
             Ends([ml EXCEPT !.runs[r] = run], o),
             logged' = IF o.end = "ok" THEN [logged EXCEPT ![r] = v] ELSE logged,
             UNCHANGED givenIds
      PROVE  MLInv'
  <2>1. /\ \A q \in RunId \ {r} : logged'[q] = logged[q]
        /\ logged'[r] # NoName => run.param = logged'[r]
        /\ logged' \in [RunId -> ParamValues \cup {NoName}]
        /\ o.end = "ok" \/ UNCHANGED logged
    BY <1>1, <1>4
  <2>2. /\ IsStore([ml EXCEPT !.runs[r] = run])
        /\ Holds([ml EXCEPT !.runs[r] = run], givenIds', logged')
    BY <1>1, <1>4, <2>1, RunIsSet
  <2> QED BY <1>4, <2>1, <2>2, PersistKeepsML DEF MLInv
<1>5. ASSUME NEW v \in ParamValues, LogParam(r, v) PROVE MLInv'
  <2> DEFINE run == [was EXCEPT !.param = v]
  <2>1. /\ run \in RunType /\ run.tag = was.tag /\ run.name = was.name /\ run.param = v
    BY <1>2 DEF RunType
  <2>2. [ml EXCEPT !.runs[r].param = v] = [ml EXCEPT !.runs[r] = run]
    OBVIOUS
  <2> HIDE DEF run
  <2>3. logged[r] # NoName => v = logged[r]
    BY <1>2, <1>5 DEF LogParam, ParamMayBe
  <2> QED BY <1>2, <1>4, <1>5, <2>1, <2>2, <2>3 DEF LogParam
<1>6. ASSUME NEW vs \in BoundedSeq(ParamValues, 2)
      PROVE  /\ Logged(r, vs) \in RunType
             /\ Logged(r, vs).tag = was.tag /\ Logged(r, vs).name = was.name
             /\ logged[r] # NoName => Logged(r, vs).param = logged[r]
             /\ vs # <<>> => 1 \in DOMAIN vs /\ vs[1] \in ParamValues
             /\ Logged(r, vs).metrics = was.metrics
  <2>1. vs \in Seq(ParamValues)
    BY BoundedSequences
  <2>2. vs # <<>> => 1 \in DOMAIN vs /\ vs[1] \in ParamValues
    BY <2>1
  <2> DEFINE v == IF vs = <<>> \/ was.param # NoName THEN was.param ELSE vs[1]
  <2>3. v \in ParamValues \cup {NoName} /\ (was.param # NoName => v = was.param)
    BY <1>2, <2>2 DEF RunType
  <2>4. Logged(r, vs) = [was EXCEPT !.param = v]
    BY DEF Logged
  <2> HIDE DEF v
  <2>5. /\ [was EXCEPT !.param = v] \in RunType
        /\ [was EXCEPT !.param = v].tag = was.tag /\ [was EXCEPT !.param = v].name = was.name
        /\ [was EXCEPT !.param = v].param = v
        /\ [was EXCEPT !.param = v].metrics = was.metrics
    BY <1>2, <2>3 DEF RunType
  <2> QED BY <1>2, <2>2, <2>3, <2>4, <2>5
<1>7. ASSUME NEW vs \in BoundedSeq(ParamValues, 2), NEW n \in RunNames \cup {NoName},
             NEW ps \in BoundedSeq(Point, 1)
      PROVE  /\ Batched(r, vs, n, ps) \in RunType
             /\ Batched(r, vs, n, ps).tag \in {Batched(r, vs, n, ps).name, NoName}
             /\ Batched(r, vs, n, ps).param = Logged(r, vs).param
  <2> DEFINE t == BatchTag(Logged(r, vs), n)
  <2>1. t \in RunType /\ t.tag \in {t.name, NoName} /\ t.param = Logged(r, vs).param
    BY <1>2, <1>6, NamedRun DEF BatchTag
  <2> HIDE DEF t
  <2>2. t.metrics \o ps \in Seq(Point)
    <3>1. ps \in Seq(Point) /\ t.metrics \in Seq(Point)
      BY <2>1, BoundedSequences DEF RunType
    <3> QED BY <3>1
  <2>3. /\ [t EXCEPT !.metrics = @ \o ps] \in RunType
        /\ [t EXCEPT !.metrics = @ \o ps].tag = t.tag
        /\ [t EXCEPT !.metrics = @ \o ps].name = t.name
        /\ [t EXCEPT !.metrics = @ \o ps].param = t.param
    BY <2>1, <2>2 DEF RunType
  <2> QED BY <2>1, <2>3 DEF Batched, t
<1>8. ASSUME NEW run \in RunType, run.tag \in {run.name, NoName},
             logged[r] # NoName => run.param = logged[r],
             Refuses(SetRun(r, run))
      PROVE  MLInv'
  BY <1>1, <1>8, RunIsSet, ChangesKeepML DEF SetRun
<1>9. ASSUME NEW vs \in BoundedSeq(ParamValues, 2), LogBatchRefusesParam(r, vs) PROVE MLInv'
  BY <1>2, <1>6, <1>8, <1>9 DEF LogBatchRefusesParam
<1>10. ASSUME NEW vs \in BoundedSeq(ParamValues, 2), NEW n \in RunNames \cup {NoName},
              NEW ps \in BoundedSeq(Point, 1), LogBatchRefusesKey(r, vs, n, ps)
       PROVE  MLInv'
  BY <1>6, <1>7, <1>8, <1>10 DEF LogBatchRefusesKey
<1>11. ASSUME NEW vs \in BoundedSeq(ParamValues, 2), NEW n \in RunNames \cup {NoName},
              NEW ps \in BoundedSeq(Point, 1), LogBatch(r, vs, n, ps)
       PROVE  MLInv'
  <2> DEFINE run == Batched(r, vs, n, ps)
  <2>1. /\ run \in RunType /\ run.tag \in {run.name, NoName}
        /\ run.param = Logged(r, vs).param
    BY <1>7
  <2>2. PICK o \in persistML([ml EXCEPT !.runs[r] = run]) :
             /\ Ends([ml EXCEPT !.runs[r] = run], o)
             /\ logged' = IF o.end = "ok" /\ vs # <<>> THEN [logged EXCEPT ![r] = vs[1]]
                          ELSE logged
    BY <1>11 DEF LogBatch, SetRun
  <2>3. UNCHANGED givenIds
    BY <1>11 DEF LogBatch
  <2>4. vs # <<>> => vs[1] = run.param /\ vs[1] \in ParamValues
    BY <1>6, <1>11, <2>1 DEF LogBatch
  <2> HIDE DEF run
  <2>5. CASE vs # <<>>
    BY <1>4, <1>6, <2>1, <2>2, <2>3, <2>4, <2>5
  <2>6. CASE vs = <<>>
    <3>1. /\ IsStore([ml EXCEPT !.runs[r] = run])
          /\ Holds([ml EXCEPT !.runs[r] = run], givenIds, logged)
      BY <1>1, <1>6, <2>1, RunIsSet
    <3> QED BY <1>1, <2>2, <2>3, <2>6, <3>1, PersistKeepsML DEF MLInv
  <2> QED BY <2>5, <2>6
<1> QED BY <1>3, <1>5, <1>9, <1>10, <1>11

(***************************************************************************)
(* The registry, of which only the rest matters here.                      *)
(***************************************************************************)
LEMMA RegistryRequestKeepsML == ASSUME MLInv, RegistryRequest PROVE MLInv'
<1>1. IsStore(ml) /\ Holds(ml, givenIds, logged)
  BY DEF MLInv
<1>2. ASSUME NEW models, NEW versions,
             NEW m, m = [ml EXCEPT !.models = models, !.versions = versions]
      PROVE  IsStore(m) /\ Holds(m, givenIds, logged)
  <2>1. m = [nextExp |-> ml.nextExp, exps |-> ml.exps, runs |-> ml.runs, models |-> models,
             versions |-> versions]
    BY <1>1, <1>2 DEF IsStore
  <2>2. m.nextExp = ml.nextExp /\ m.exps = ml.exps /\ m.runs = ml.runs /\ IsStore(m)
    BY <1>1, <2>1 DEF IsStore
  <2> QED BY <1>1, <2>2 DEF Holds
<1>3. [ml EXCEPT !.models = ml.models, !.versions = ml.versions] = ml
  BY <1>1 DEF IsStore
<1>4. ASSUME NEW m, Changes(m), IsStore(m) /\ Holds(m, givenIds, logged) PROVE MLInv'
  BY <1>4, ChangesKeepML
<1>5. ASSUME NEW m, NEW o \in persistML(m), Ends(m, o), UNCHANGED <<givenIds, logged>>,
             IsStore(m) /\ Holds(m, givenIds, logged)
      PROVE  MLInv'
  BY <1>5, PersistKeepsML DEF MLInv
<1>6. ASSUME NEW n \in ModelNames, CreateModel(n) PROVE MLInv'
  <2>1. [ml EXCEPT !.models = @ \cup {n}]
          = [ml EXCEPT !.models = ml.models \cup {n}, !.versions = ml.versions]
    BY <1>1 DEF IsStore
  <2> QED BY <1>2, <1>4, <1>6, <2>1 DEF CreateModel
<1>7. ASSUME NEW n \in ModelNames, NEW to \in ModelNames, RenameModel(n, to) PROVE MLInv'
  <2> DEFINE vs == [ml.versions EXCEPT ![n] = <<>>, ![to] = RenamedRows(ml.versions[n], to)]
             m  == [ml EXCEPT !.models = (ml.models \ {n}) \cup {to}, !.versions = vs]
  <2>1. PICK o \in persistML(m) : Ends(m, o)
    BY <1>7 DEF RenameModel
  <2>2. UNCHANGED <<givenIds, logged>>
    BY <1>7 DEF RenameModel
  <2> QED BY <1>2, <1>5, <2>1, <2>2
<1>8. ASSUME NEW n \in ModelNames, DeleteModel(n) PROVE MLInv'
  <2>1. [ml EXCEPT !.models = @ \ {n}, !.versions[n] = <<>>]
          = [ml EXCEPT !.models = ml.models \ {n}, !.versions = [ml.versions EXCEPT ![n] = <<>>]]
    OBVIOUS
  <2> QED BY <1>2, <1>4, <1>8, <2>1 DEF DeleteModel
<1>9. ASSUME Changes(ml) PROVE MLInv'
  BY <1>1, <1>4, <1>9
<1>10. ASSUME NEW n \in ModelNames, NEW vs,
              NEW m, m = [ml EXCEPT !.versions = vs]
       PROVE  IsStore(m) /\ Holds(m, givenIds, logged)
  <2>1. m = [ml EXCEPT !.models = ml.models, !.versions = vs]
    BY <1>1, <1>10 DEF IsStore
  <2> QED BY <1>2, <2>1
<1>11. ASSUME NEW n \in ModelNames, CreateModelVersion(n) PROVE MLInv'
  <2> DEFINE row == [name |-> n, version |-> Len(ml.versions[n]) + 1, stage |-> "None"]
             vs  == [ml.versions EXCEPT ![n] = Append(@, row)]
  <2>1. [ml EXCEPT !.versions[n] = Append(@, row)] = [ml EXCEPT !.versions = vs]
    OBVIOUS
  <2>2. Changes([ml EXCEPT !.versions = vs])
    BY <1>11, <2>1 DEF CreateModelVersion
  <2> HIDE DEF vs
  <2> QED BY <1>4, <1>10, <2>2
<1>12. ASSUME NEW n \in ModelNames, NEW v \in 1..MaxVersions, NEW s \in Stages,
              NEW archive \in BOOLEAN, TransitionStage(n, v, s, archive)
       PROVE  MLInv'
  <2> DEFINE old == IF archive THEN Archived(ml.versions[n], v, s) ELSE ml.versions[n]
             new == [old EXCEPT ![v].stage = s]
             vs  == [ml.versions EXCEPT ![n] = new]
  <2>1. [ml EXCEPT !.versions[n] = new] = [ml EXCEPT !.versions = vs]
    OBVIOUS
  <2>2. PICK o \in persistML([ml EXCEPT !.versions[n] = new]) :
           Ends([ml EXCEPT !.versions[n] = new], o)
    BY <1>12 DEF TransitionStage
  <2>3. UNCHANGED <<givenIds, logged>>
    BY <1>12 DEF TransitionStage
  <2> HIDE DEF vs, new
  <2> QED BY <1>5, <1>10, <2>1, <2>2, <2>3
<1>13. ASSUME NEW n \in ModelNames,
              UpdateModel(n) \/ \E v \in 1..MaxVersions : UpdateModelVersion(n, v)
       PROVE  MLInv'
  BY <1>9, <1>13 DEF UpdateModel, UpdateModelVersion
<1> QED BY <1>6, <1>7, <1>8, <1>11, <1>12, <1>13 DEF RegistryRequest

LEMMA MLSteps == ASSUME [Next]_vars PROVE openMLflow \/ MLflowRequest \/ UNCHANGED mlVars
<1>1. CASE Seed \/ Open \/ OpenFails \/ Crash
  BY <1>1 DEF Seed, Open, OpenFails, Crash, storeVars
<1>2. CASE TokenRequest \/ ScopeRequest \/ SecretRequest \/ GroupRequest \/ NextPage
           \/ MLflowRequest \/ FileRequest \/ ObjectRequest \/ ClusterPolicyRequest
  BY <1>2 DEF TokenRequest, ScopeRequest, SecretRequest, GroupRequest, NextPage,
       FileRequest, ObjectRequest, ClusterPolicyRequest, Only
<1>3. CASE UNCHANGED vars
  BY <1>3 DEF vars, storeVars
<1> QED BY <1>1, <1>2, <1>3 DEF Next

LEMMA MLInvariant == Spec => []MLInv
<1>1. Init => MLInv
  <2> SUFFICES ASSUME Init PROVE MLInv
    OBVIOUS
  <2>1. /\ ml = EmptyML /\ mlFile = EmptyML /\ givenIds = {}
        /\ logged = [r \in RunId |-> NoName]
    BY DEF Init, MLInit
  <2>2. NoExp \in ExpType /\ NoExp.lifecycle = "none" /\ 0 \in 0..MaxExps
    BY MLflowAssumption DEF NoExp, ExpType
  <2>3. /\ EmptyML.exps \in [ExpId -> ExpType] /\ EmptyML.runs \in [RunId -> RunType]
        /\ EmptyML.nextExp = 0
        /\ \A i \in ExpId : EmptyML.exps[i] = NoExp
        /\ \A r \in RunId : EmptyML.runs[r] = NoMLRun
    BY <2>2, NoMLRunIsARun DEF EmptyML
  <2>4. IsStore(EmptyML)
    BY <2>2, <2>3 DEF IsStore, EmptyML
  <2>5. Holds(EmptyML, givenIds, logged)
    BY <2>1, <2>2, <2>3, NoMLRunIsARun DEF Holds, NamesDiffer
  <2> QED BY <2>1, <2>4, <2>5 DEF MLInv
<1>2. MLInv /\ [Next]_vars => MLInv'
  <2> SUFFICES ASSUME MLInv, [Next]_vars PROVE MLInv'
    OBVIOUS
  <2>1. CASE openMLflow
    <3>1. PICK vs : ml' = [mlFile EXCEPT !.versions = vs]
      BY <2>1 DEF openMLflow
    <3>2. ml' = [nextExp |-> mlFile.nextExp, exps |-> mlFile.exps, runs |-> mlFile.runs,
                 models |-> mlFile.models, versions |-> vs]
      BY <3>1 DEF MLInv, IsStore
    <3>3. /\ IsStore(ml') /\ (ml').exps = mlFile.exps /\ (ml').runs = mlFile.runs
          /\ (ml').nextExp = mlFile.nextExp
      BY <3>2 DEF MLInv, IsStore
    <3>4. UNCHANGED <<mlFile, givenIds, logged>>
      BY <2>1 DEF openMLflow
    <3> QED BY <3>3, <3>4 DEF MLInv, Holds
  <2>2. CASE UNCHANGED mlVars
    BY <2>2 DEF mlVars, MLInv
  <2> QED BY <2>1, <2>2, MLSteps, ExperimentRequestKeepsML, RunRequestKeepsML,
             LogRequestKeepsML, RegistryRequestKeepsML DEF MLflowRequest
<1> QED BY <1>1, <1>2, PTL DEF Spec

(***************************************************************************)
(* Neither the names in use nor the ids ever stand for two experiments, in *)
(* memory, on disk or after a restart.                                     *)
(***************************************************************************)
THEOREM ExperimentsNeverMeet == Spec => []ExperimentsStayApart
<1>1. MLInv => ExperimentsStayApart
  BY DEF MLInv, Holds, NamesDiffer, ExperimentsStayApart, ActiveExperimentsDiffer,
         NextExperimentIsFresh
<1> QED BY <1>1, MLInvariant, PTL

(***************************************************************************)
(* A set of numbers that is not empty has a least one.                     *)
(***************************************************************************)
LEMMA LeastNumber ==
    ASSUME NEW T \in SUBSET Nat, T # {}
    PROVE  \E x \in T : \A y \in T : x <= y
<1> DEFINE R == OpToRel(<, Nat)
<1>1. R = {ss \in Nat \X Nat : ss[1] < ss[2]}
  BY DEF OpToRel
<1>2. IsWellFoundedOn(R, Nat)
  BY NatLessThanWellFounded
<1> HIDE DEF R
<1>3. PICK x \in T : \A y \in T : ~ (<<y, x>> \in R)
  BY <1>2, WFMin
<1>4. ASSUME NEW y \in T PROVE x <= y
  <2>1. <<y, x>> \in Nat \X Nat /\ ~(<<y, x>> \in R) /\ <<y, x>>[1] = y /\ <<y, x>>[2] = x
    BY <1>3
  <2>2. ~(y < x)
    BY <1>1, <2>1
  <2> QED BY <2>2
<1> QED BY <1>4

(***************************************************************************)
(* The loop of LatestMetrics: what is best up to each point.               *)
(***************************************************************************)
IsLoop(f, ps, n) ==
    f = [k \in 0..n |-> IF k = 0 THEN <<>> ELSE Latest(f[k - 1], ps[k])]

LEMMA LoopRuns == ASSUME NEW ps, NEW n \in Nat PROVE \E f : IsLoop(f, ps, n)
<1> DEFINE T == {m \in Nat : ~ \E f : IsLoop(f, ps, m)}
<1>1. SUFFICES ASSUME T # {} PROVE FALSE
  OBVIOUS
<1>2. PICK m \in T : \A y \in T : m <= y
  <2>1. T \in SUBSET Nat
    OBVIOUS
  <2> HIDE DEF T
  <2> QED BY <1>1, <2>1, LeastNumber
<1>3. m # 0
  <2> DEFINE f == [k \in 0..0 |-> <<>>]
  <2>1. f = [k \in 0..0 |-> IF k = 0 THEN <<>> ELSE Latest(f[k - 1], ps[k])]
    OBVIOUS
  <2> HIDE DEF f
  <2>2. IsLoop(f, ps, 0)
    BY <2>1 DEF IsLoop
  <2> QED BY <2>2
<1>4. m \in Nat /\ m - 1 \in Nat /\ m - 1 \notin T
  BY <1>2, <1>3
<1>5. PICK g : IsLoop(g, ps, m - 1)
  BY <1>4
<1> DEFINE f == [k \in 0..m |-> IF k = m THEN Latest(g[m - 1], ps[m]) ELSE g[k]]
<1>6. \A k \in 0..(m - 1) : f[k] = g[k]
  BY <1>4
<1>7. \A k \in 0..(m - 1) : g[k] = IF k = 0 THEN <<>> ELSE Latest(g[k - 1], ps[k])
  BY <1>5 DEF IsLoop
<1>8. f[m] = Latest(g[m - 1], ps[m]) /\ f = [k \in 0..m |-> f[k]]
  BY <1>4
<1> HIDE DEF f, T
<1>9. ASSUME NEW k \in 0..m PROVE f[k] = IF k = 0 THEN <<>> ELSE Latest(f[k - 1], ps[k])
  <2>1. CASE k = m
    <3>1. f[m - 1] = g[m - 1]
      BY <1>4, <1>6
    <3> QED BY <1>3, <1>8, <2>1, <3>1
  <2>2. CASE k # m /\ k # 0
    <3>1. k \in 0..(m - 1) /\ k - 1 \in 0..(m - 1)
      BY <1>4, <2>2
    <3> QED BY <1>6, <1>7, <2>2, <3>1
  <2>3. CASE k # m /\ k = 0
    <3>1. k \in 0..(m - 1)
      BY <1>4, <2>3
    <3> QED BY <1>6, <1>7, <2>3, <3>1
  <2> QED BY <2>1, <2>2, <2>3
<1>10. IsLoop(f, ps, m)
  BY <1>8, <1>9 DEF IsLoop
<1> QED BY <1>2, <1>10 DEF T

LoopOf(ps) == CHOOSE f : IsLoop(f, ps, Len(ps))

LEMMA LatestMetricsLoops ==
    ASSUME NEW ps \in Seq(Point)
    PROVE  /\ LatestMetrics(ps) = LoopOf(ps)[Len(ps)]
           /\ LoopOf(ps)[0] = <<>>
           /\ \A k \in 1..Len(ps) : LoopOf(ps)[k] = Latest(LoopOf(ps)[k - 1], ps[k])
<1>1. LatestMetrics(ps) = LoopOf(ps)[Len(ps)]
  BY DEF LatestMetrics, LoopOf, IsLoop
<1>2. IsLoop(LoopOf(ps), ps, Len(ps))
  <2>1. \E f : IsLoop(f, ps, Len(ps))
    BY LoopRuns
  <2> QED BY <2>1 DEF LoopOf
<1>3. \A k \in 0..Len(ps) : LoopOf(ps)[k] = IF k = 0 THEN <<>>
                                             ELSE Latest(LoopOf(ps)[k - 1], ps[k])
  <2> DEFINE f == LoopOf(ps)
  <2>1. IsLoop(f, ps, Len(ps))
    BY <1>2
  <2> HIDE DEF f
  <2>2. \A k \in 0..Len(ps) : f[k] = IF k = 0 THEN <<>> ELSE Latest(f[k - 1], ps[k])
    BY <2>1 DEF IsLoop
  <2> QED BY <2>2 DEF f
<1>4. Len(ps) \in Nat
  OBVIOUS
<1> QED BY <1>1, <1>3, <1>4

\* p is at least as late as q, and not less than it when they are as late.
AsLate(p, q) == \/ q.timestamp < p.timestamp
                \/ q.timestamp = p.timestamp /\ q.value <= p.value

\* What is best up to the point k.
BestUpTo(best, ps, k) ==
    \E i \in 1..k : best = <<ps[i]>> /\ \A j \in 1..k : AsLate(ps[i], ps[j])

(***************************************************************************)
(* A point replaces the best one when it is later, or as late and greater, *)
(* so that the best one is as late as every point before.                  *)
(***************************************************************************)
LEMMA LatestIsBest ==
    ASSUME NEW ps \in Seq(Point), NEW k \in 1..Len(ps), NEW best,
           k # 1 => BestUpTo(best, ps, k - 1),
           k = 1 => best = <<>>
    PROVE  BestUpTo(Latest(best, ps[k]), ps, k)
<1>1. Len(ps) \in Nat /\ \A i \in 1..Len(ps) : ps[i].timestamp \in Nat /\ ps[i].value \in Nat
  <2>1. Len(ps) \in Nat /\ \A i \in 1..Len(ps) : ps[i] \in Point
    OBVIOUS
  <2>2. \A p \in Point : p.timestamp \in Nat /\ p.value \in Nat
    BY DEF Point
  <2> QED BY <2>1, <2>2
<1>2. CASE k = 1
  BY <1>1, <1>2 DEF BestUpTo, AsLate, Latest
<1>3. CASE k # 1
  <2>1. PICK i \in 1..(k - 1) : best = <<ps[i]>> /\ \A j \in 1..(k - 1) : AsLate(ps[i], ps[j])
    BY <1>3 DEF BestUpTo
  <2>2. best # <<>> /\ best[1] = ps[i] /\ i \in 1..Len(ps) /\ i \in 1..k
        /\ \A j \in 1..k : j \in 1..Len(ps) /\ (j # k => j \in 1..(k - 1))
    BY <1>1, <2>1
  <2>3. CASE Better(ps[k], ps[i])
    <3>1. Latest(best, ps[k]) = <<ps[k]>>
      BY <2>2, <2>3 DEF Latest
    <3>2. \A j \in 1..k : AsLate(ps[k], ps[j])
      <4> SUFFICES ASSUME NEW j \in 1..k PROVE AsLate(ps[k], ps[j])
        OBVIOUS
      <4>1. j # k => AsLate(ps[i], ps[j])
        BY <2>1, <2>2
      <4>2. /\ {ps[i].timestamp, ps[j].timestamp, ps[k].timestamp} \subseteq Nat
            /\ {ps[i].value, ps[j].value, ps[k].value} \subseteq Nat
        BY <1>1, <2>2
      <4>3. CASE j = k
        BY <4>2, <4>3 DEF AsLate
      <4>4. CASE j # k
        BY <2>3, <4>1, <4>2, <4>4, SMTT(30) DEF AsLate, Better
      <4> QED BY <4>3, <4>4
    <3> QED BY <1>1, <3>1, <3>2 DEF BestUpTo
  <2>4. CASE ~Better(ps[k], ps[i])
    <3>1. Latest(best, ps[k]) = best
      BY <2>2, <2>4 DEF Latest
    <3>2. AsLate(ps[i], ps[k])
      BY <1>1, <2>2, <2>4 DEF AsLate, Better
    <3>3. \A j \in 1..k : AsLate(ps[i], ps[j])
      BY <2>1, <2>2, <3>2
    <3> QED BY <2>1, <2>2, <3>1, <3>3 DEF BestUpTo
  <2> QED BY <2>3, <2>4
<1> QED BY <1>2, <1>3

LEMMA LatestMetricIsBest ==
    ASSUME NEW ps \in Seq(Point), ps # <<>>
    PROVE  BestUpTo(LatestMetrics(ps), ps, Len(ps))
<1> DEFINE f == LoopOf(ps)
           T == {m \in 1..Len(ps) : ~BestUpTo(f[m], ps, m)}
<1>1. /\ LatestMetrics(ps) = f[Len(ps)] /\ f[0] = <<>>
      /\ \A k \in 1..Len(ps) : f[k] = Latest(f[k - 1], ps[k])
  BY LatestMetricsLoops
<1>2. Len(ps) \in Nat /\ Len(ps) # 0
  OBVIOUS
<1> HIDE DEF f
<1>3. T = {}
  <2> SUFFICES ASSUME T # {} PROVE FALSE
    OBVIOUS
  <2>1. T \in SUBSET Nat
    BY <1>2
  <2> HIDE DEF T
  <2>2. PICK m \in T : \A y \in T : m <= y
    BY <2>1, LeastNumber
  <2> USE DEF T
  <2>3. m \in 1..Len(ps) /\ ~BestUpTo(f[m], ps, m)
    BY <2>2
  <2>4. m # 1 => BestUpTo(f[m - 1], ps, m - 1)
    BY <1>2, <2>2, <2>3
  <2>5. m = 1 => f[m - 1] = <<>>
    BY <1>1
  <2>6. BestUpTo(Latest(f[m - 1], ps[m]), ps, m)
    BY <2>3, <2>4, <2>5, LatestIsBest
  <2> QED BY <1>1, <2>3, <2>6
<1>4. BestUpTo(f[Len(ps)], ps, Len(ps))
  BY <1>2, <1>3
<1> QED BY <1>1, <1>4

(***************************************************************************)
(* A run reads back as it was written: a parameter a client was told was   *)
(* logged keeps its value, the tag that names a run is its name, and the   *)
(* metric that is shown is the latest one that was logged.                 *)
(***************************************************************************)
THEOREM RunsReadBack == Spec => []TrackedRunsReadBack
<1>1. MLInv => ConfirmedParamsHold /\ RunNameIsItsTag
  BY DEF MLInv, Holds, ConfirmedParamsHold, RunNameIsItsTag
<1>2. MLInv => LatestMetricsAreLatest
  <2> SUFFICES ASSUME MLInv, NEW r \in RunId, ml.runs[r].metrics # <<>>
               PROVE  LET ps == ml.runs[r].metrics IN
                      \E p \in Range(ps) :
                         /\ LatestMetrics(ps) = <<p>>
                         /\ \A q \in Range(ps) : \/ q.timestamp < p.timestamp
                                                 \/ q.timestamp = p.timestamp /\ q.value <= p.value
    BY DEF LatestMetricsAreLatest
  <2> DEFINE ps == ml.runs[r].metrics
  <2>1. ps \in Seq(Point) /\ ps # <<>>
    BY DEF MLInv, IsStore, RunType
  <2> HIDE DEF ps
  <2>2. PICK i \in 1..Len(ps) : /\ LatestMetrics(ps) = <<ps[i]>>
                               /\ \A j \in 1..Len(ps) : AsLate(ps[i], ps[j])
    BY <2>1, LatestMetricIsBest DEF BestUpTo
  <2>3. Range(ps) = {ps[j] : j \in 1..Len(ps)}
    BY <2>1 DEF Range
  <2>4. /\ ps[i] \in Range(ps) /\ LatestMetrics(ps) = <<ps[i]>>
        /\ \A q \in Range(ps) : \/ q.timestamp < ps[i].timestamp
                                \/ q.timestamp = ps[i].timestamp /\ q.value <= ps[i].value
    BY <2>2, <2>3 DEF AsLate
  <2> QED BY <2>4 DEF ps
<1> QED BY <1>1, <1>2, MLInvariant, PTL DEF TrackedRunsReadBack

--------------------------------------------------------------------------------
(* The model registry                                                          *)

Row == [name : ModelNames, version : Nat, stage : Stages]

\* The versions of the model n.
Numbered(n, vs) ==
    /\ vs \in Seq(Row)
    /\ \A i \in DOMAIN vs : vs[i].name = n /\ vs[i].version = i

OneEach(vs) ==
    \A i, j \in DOMAIN vs :
        vs[i].stage = vs[j].stage /\ vs[i].stage \in {"Staging", "Production"} => i = j

\* A registry of which the models in open are those that clients were careless about.
IsRegistry(models, versions, open) ==
    /\ models \subseteq ModelNames
    /\ versions = [n \in ModelNames |-> versions[n]]
    /\ \A n \in ModelNames : /\ Numbered(n, versions[n])
                             /\ versions[n] # <<>> => n \in models
                             /\ n \notin open => OneEach(versions[n])

RegistryInv ==
    /\ careless \subseteq ModelNames
    /\ IsRegistry(ml.models, ml.versions, careless)
    /\ IsRegistry(mlFile.models, mlFile.versions, careless)

(***************************************************************************)
(* The rows of a file that carry one name are counted in their order, for  *)
(* any order of the models in the file.                                    *)
(***************************************************************************)
LEMMA RowsAreCounted ==
    ASSUME NEW n, NEW k \in Nat
    PROVE  Cardinality({n} \X (1..k)) = k
<1> DEFINE f == [i \in 1..k |-> <<n, i>>]
<1>1. f \in Bijection(1..k, {n} \X (1..k))
  BY DEF Bijection, Injection, Surjection, IsInjective
<1>2. ExistsBijection(1..k, {n} \X (1..k))
  BY <1>1 DEF ExistsBijection
<1>3. IsFiniteSet(1..k) /\ Cardinality(1..k) = k
  <2>1. 1 \in Int /\ k \in Int
    OBVIOUS
  <2>2. IsFiniteSet(1..k) /\ Cardinality(1..k) = IF 1 > k THEN 0 ELSE k - 1 + 1
    BY <2>1, FS_Interval
  <2> QED BY <2>2
<1> QED BY <1>2, <1>3, FS_Bijection

LEMMA AppendedAgain ==
    ASSUME NEW vs, \A k \in ModelNames : Numbered(k, vs[k]),
           NEW n \in ModelNames,
           NEW place \in Injection(ModelNames, 1..Cardinality(ModelNames))
    PROVE  Appended(vs, n, place) = vs[n]
<1> DEFINE rows == RowsNamed(vs, n)
           len  == Len(vs[n])
           rank(p) == Cardinality(RowsUpTo(rows, place, p))
<1>1. /\ len \in Nat /\ DOMAIN vs[n] = 1..len /\ vs[n] = [i \in 1..len |-> vs[n][i]]
      /\ \A k \in ModelNames : \A i \in DOMAIN vs[k] : vs[k][i].name = k
  BY DEF Numbered
<1>2. rows = {n} \X (1..len)
  <2>1. ASSUME NEW p \in rows PROVE p \in {n} \X (1..len)
    <3>1. PICK k \in ModelNames : p \in {k} \X (DOMAIN vs[k]) /\ vs[p[1]][p[2]].name = n
      BY DEF RowsNamed
    <3>2. p[1] = k /\ p[2] \in DOMAIN vs[k] /\ p = <<p[1], p[2]>>
      BY <3>1
    <3>3. k = n
      BY <1>1, <3>1, <3>2
    <3> QED BY <1>1, <3>2, <3>3
  <2>2. ASSUME NEW i \in 1..len PROVE <<n, i>> \in rows
    <3>1. <<n, i>> \in {n} \X (DOMAIN vs[n]) /\ vs[n][i].name = n
      BY <1>1
    <3>2. <<n, i>>[1] = n /\ <<n, i>>[2] = i
      OBVIOUS
    <3> QED BY <3>1, <3>2 DEF RowsNamed
  <2> HIDE DEF rows, len
  <2> QED BY <2>1, <2>2
<1> HIDE DEF rows, len
<1>3. place[n] \in Nat
  <2>1. Cardinality(ModelNames) \in Nat
    BY MLflowAssumption, FS_CardinalityType
  <2> QED BY <2>1 DEF Injection
<1>4. ASSUME NEW j \in 1..len PROVE rank(<<n, j>>) = j
  <2>1. RowsUpTo(rows, place, <<n, j>>) = {n} \X (1..j)
    BY <1>1, <1>2, <1>3 DEF RowsUpTo
  <2>2. j \in Nat
    BY <1>1
  <2>3. Cardinality({n} \X (1..j)) = j
    BY <2>2, RowsAreCounted
  <2> QED BY <2>1, <2>3
<1>5. Cardinality(rows) = len
  BY <1>1, <1>2, RowsAreCounted
<1>6. ASSUME NEW i \in 1..len PROVE (CHOOSE q \in rows : rank(q) = i) = <<n, i>>
  <2>1. <<n, i>> \in rows /\ rank(<<n, i>>) = i
    BY <1>2, <1>4
  <2>2. ASSUME NEW q \in rows, rank(q) = i PROVE q = <<n, i>>
    <3>1. PICK j \in 1..len : q = <<n, j>>
      BY <1>2
    <3> HIDE DEF rank
    <3> QED BY <1>4, <2>2, <3>1
  <2> HIDE DEF rank
  <2> QED BY <2>1, <2>2
<1>7. Appended(vs, n, place)
        = [i \in 1..Cardinality(rows) |->
              LET p == CHOOSE q \in rows : rank(q) = i IN vs[p[1]][p[2]]]
  BY DEF Appended, rows
<1>8. ASSUME NEW i \in 1..len
      PROVE  (LET p == CHOOSE q \in rows : rank(q) = i IN vs[p[1]][p[2]]) = vs[n][i]
  <2> HIDE DEF rank
  <2>1. <<n, i>>[1] = n /\ <<n, i>>[2] = i
    OBVIOUS
  <2> QED BY <1>6, <2>1
<1> HIDE DEF rank
<1> QED BY <1>1, <1>5, <1>7, <1>8

(***************************************************************************)
(* A start reads back the registry that was written.                       *)
(***************************************************************************)
LEMMA OpenKeepsRegistry == ASSUME MLInv, RegistryInv, openMLflow PROVE RegistryInv'
<1>1. PICK place \in Injection(ModelNames, 1..Cardinality(ModelNames)) :
         ml' = [mlFile EXCEPT !.versions =
                   [n \in ModelNames |-> Appended(mlFile.versions, n, place)]]
  BY DEF openMLflow
<1>2. /\ mlFile.versions = [n \in ModelNames |-> mlFile.versions[n]]
      /\ \A n \in ModelNames : Numbered(n, mlFile.versions[n])
  BY DEF RegistryInv, IsRegistry
<1>3. \A n \in ModelNames : Appended(mlFile.versions, n, place) = mlFile.versions[n]
  BY <1>2, AppendedAgain
<1>4. [n \in ModelNames |-> Appended(mlFile.versions, n, place)] = mlFile.versions
  BY <1>2, <1>3
<1>5. ml' = mlFile
  BY <1>1, <1>4 DEF MLInv, IsStore
<1>6. UNCHANGED <<mlFile, careless>>
  BY DEF openMLflow
<1> QED BY <1>5, <1>6 DEF RegistryInv

(***************************************************************************)
(* What an operation leaves in memory is what it writes, if it writes.     *)
(***************************************************************************)
LEMMA WrittenOrNot ==
    ASSUME NEW m, IsStore(m), NEW o \in persistML(m), Ends(m, o)
    PROVE  ml' = m /\ mlFile' \in {m, mlFile}
<1>1. [m EXCEPT !.nextExp = StoredNextExp(m)] = m
  BY DEF IsStore, StoredNextExp
<1> QED BY <1>1 DEF persistML, WriteAndRename, Ends

\* A request that leaves the registry alone.
LeavesRegistry ==
    /\ (ml').models = ml.models /\ (ml').versions = ml.versions
    /\ mlFile' \in {ml', mlFile}
    /\ UNCHANGED careless

LEMMA OtherRequests ==
    ASSUME MLInv, MLInv', ExperimentRequest \/ FirstExperiment \/ RunRequest \/ LogRequest
    PROVE  LeavesRegistry
<1>1. IsStore(ml) /\ IsStore(ml')
  BY DEF MLInv
<1>2. ASSUME NEW m, NEW o \in persistML(m), Ends(m, o)
      PROVE  ml' = m /\ mlFile' \in {ml', mlFile}
  <2>1. ml' = m
    BY <1>2 DEF Ends
  <2>2. IsStore(m)
    BY <1>1, <2>1
  <2> QED BY <1>2, <2>1, <2>2, WrittenOrNot
<1>3. ASSUME NEW m, Changes(m) \/ Refuses(m)
      PROVE  ml' = m /\ mlFile' \in {ml', mlFile} /\ UNCHANGED careless
  BY <1>2, <1>3 DEF Changes, Refuses
<1>4. ASSUME NEW x PROVE /\ [ml EXCEPT !.exps = x].models = ml.models
                         /\ [ml EXCEPT !.exps = x].versions = ml.versions
                         /\ [ml EXCEPT !.runs = x].models = ml.models
                         /\ [ml EXCEPT !.runs = x].versions = ml.versions
  BY <1>1 DEF IsStore
<1>5. ASSUME NEW n \in ExpNames, CreateExperiment(n) PROVE LeavesRegistry
  <2> DEFINE m == [ml EXCEPT !.nextExp = ml.nextExp + 1,
                             !.exps[ml.nextExp + 1] = [name |-> n, lifecycle |-> "active"]]
  <2>1. PICK o \in persistML(m) : Ends(m, o)
    BY <1>5 DEF CreateExperiment
  <2>2. m.models = ml.models /\ m.versions = ml.versions
    BY <1>1 DEF IsStore
  <2>3. UNCHANGED careless
    BY <1>5 DEF CreateExperiment
  <2> HIDE DEF m
  <2> QED BY <1>2, <2>1, <2>2, <2>3 DEF LeavesRegistry
<1>6. CASE ExperimentRequest \/ FirstExperiment
  <2>1. CASE \E i \in ExpId, n \in ExpNames : UpdateExperiment(i, n)
    BY <1>1, <1>3, <2>1 DEF UpdateExperiment, LeavesRegistry, IsStore
  <2>2. CASE \E i \in ExpId : DeleteExperiment(i) \/ RestoreExperiment(i)
    BY <1>1, <1>3, <2>2 DEF DeleteExperiment, RestoreExperiment, LeavesRegistry, IsStore
  <2>3. CASE FirstExperiment
    BY <1>5, <2>3, MLflowAssumption DEF FirstExperiment
  <2> QED BY <1>5, <1>6, <2>1, <2>2, <2>3 DEF ExperimentRequest
<1>7. ASSUME NEW r \in RunId, NEW run, Changes([ml EXCEPT !.runs[r] = run])
                                       \/ Refuses([ml EXCEPT !.runs[r] = run])
      PROVE  LeavesRegistry
  BY <1>1, <1>3, <1>7 DEF LeavesRegistry, IsStore
<1>8. CASE RunRequest
  <2>1. CASE \E r \in RunId, i \in ExpId, n \in RunNames \cup {NoName} : CreateRun(r, i, n)
    BY <1>7, <2>1 DEF CreateRun
  <2>2. CASE \E r \in RunId, n \in RunNames \cup {NoName} : UpdateRun(r, n)
    BY <1>7, <2>2 DEF UpdateRun, SetRun
  <2>3. CASE \E r \in RunId : DeleteRun(r) \/ RestoreRun(r) \/ DeleteTag(r)
    BY <1>1, <1>3, <2>3 DEF DeleteRun, RestoreRun, DeleteTag, LeavesRegistry, IsStore
  <2>4. CASE \E r \in RunId, n \in RunNames : SetTag(r, n)
    BY <1>7, <2>4 DEF SetTag, SetRun
  <2> QED BY <1>8, <2>1, <2>2, <2>3, <2>4 DEF RunRequest
<1>9. CASE LogRequest
  <2>1. ASSUME NEW r \in RunId, NEW p \in Point, LogMetric(r, p) PROVE LeavesRegistry
    BY <1>1, <1>3, <2>1 DEF LogMetric, LeavesRegistry, IsStore
  <2>2. ASSUME NEW r \in RunId, NEW v \in ParamValues, LogParam(r, v) PROVE LeavesRegistry
    <3> DEFINE m == [ml EXCEPT !.runs[r].param = v]
    <3>1. PICK o \in persistML(m) : Ends(m, o)
      BY <2>2 DEF LogParam
    <3>2. m.models = ml.models /\ m.versions = ml.versions
      BY <1>1 DEF IsStore
    <3>3. UNCHANGED careless
      BY <2>2 DEF LogParam
    <3> HIDE DEF m
    <3> QED BY <1>2, <3>1, <3>2, <3>3 DEF LeavesRegistry
  <2>3. ASSUME NEW r \in RunId, NEW vs, NEW n, NEW ps,
               LogBatchRefusesParam(r, vs) \/ LogBatchRefusesKey(r, vs, n, ps)
        PROVE  LeavesRegistry
    BY <1>7, <2>3 DEF LogBatchRefusesParam, LogBatchRefusesKey, SetRun
  <2>4. ASSUME NEW r \in RunId, NEW vs, NEW n, NEW ps, LogBatch(r, vs, n, ps)
        PROVE  LeavesRegistry
    <3> DEFINE m == SetRun(r, Batched(r, vs, n, ps))
    <3>1. PICK o \in persistML(m) : Ends(m, o)
      BY <2>4 DEF LogBatch
    <3>2. m.models = ml.models /\ m.versions = ml.versions
      BY <1>1 DEF IsStore, SetRun
    <3>3. UNCHANGED careless
      BY <2>4 DEF LogBatch
    <3> HIDE DEF m
    <3> QED BY <1>2, <3>1, <3>2, <3>3 DEF LeavesRegistry
  <2> QED BY <1>9, <2>1, <2>2, <2>3, <2>4 DEF LogRequest
<1> QED BY <1>6, <1>8, <1>9

(***************************************************************************)
(* Memory with a registry of other models or versions is a store, and it   *)
(* is written whole or not at all.                                         *)
(***************************************************************************)
LEMMA RegistryIsSet ==
    ASSUME MLInv, RegistryInv, NEW models, NEW versions,
           NEW m, m = [ml EXCEPT !.models = models, !.versions = versions],
           NEW o \in persistML(m), Ends(m, o),
           careless' \subseteq ModelNames, careless \subseteq careless',
           IsRegistry(models, versions, careless')
    PROVE  RegistryInv'
<1>1. m = [nextExp |-> ml.nextExp, exps |-> ml.exps, runs |-> ml.runs, models |-> models,
           versions |-> versions] /\ IsStore(ml)
  BY DEF MLInv, IsStore
<1>2. m.models = models /\ m.versions = versions /\ IsStore(m)
  BY <1>1 DEF IsStore
<1>3. ml' = m /\ mlFile' \in {m, mlFile}
  BY <1>2, WrittenOrNot
<1>4. IsRegistry(mlFile.models, mlFile.versions, careless')
  BY DEF RegistryInv, IsRegistry
<1> QED BY <1>2, <1>3, <1>4 DEF RegistryInv

(***************************************************************************)
(* One model gets other versions.                                          *)
(***************************************************************************)
LEMMA VersionsAreSet ==
    ASSUME RegistryInv, NEW n \in ModelNames, NEW vs, NEW models, models \subseteq ModelNames,
           \A k \in ModelNames \ {n} : k \in ml.models => k \in models,
           Numbered(n, vs), vs # <<>> => n \in models,
           NEW open, careless \subseteq open, n \notin open => OneEach(vs)
    PROVE  IsRegistry(models, [ml.versions EXCEPT ![n] = vs], open)
<1> DEFINE versions == [ml.versions EXCEPT ![n] = vs]
<1>1. /\ versions = [k \in ModelNames |-> versions[k]] /\ versions[n] = vs
      /\ \A k \in ModelNames \ {n} : versions[k] = ml.versions[k]
  BY DEF RegistryInv, IsRegistry
<1> HIDE DEF versions
<1>2. IsRegistry(models, versions, open)
  BY <1>1 DEF RegistryInv, IsRegistry
<1> QED BY <1>2 DEF versions

LEMMA RowSequences ==
    ASSUME NEW k \in Nat, NEW f, f = [i \in 1..k |-> f[i]], \A i \in 1..k : f[i] \in Row
    PROVE  f \in Seq(Row) /\ DOMAIN f = 1..k
<1>1. f \in [1..k -> Row]
  OBVIOUS
<1> QED BY <1>1

LEMMA NoVersions == \A n : Numbered(n, <<>>) /\ OneEach(<<>>)
BY DEF Numbered, OneEach

Moved(vs, v, s, archive) ==
    [IF archive THEN Archived(vs, v, s) ELSE vs EXCEPT ![v].stage = s]

(***************************************************************************)
(* A version that moves to a stage archives the one that is there.         *)
(***************************************************************************)
LEMMA MovedVersions ==
    ASSUME NEW n \in ModelNames, NEW vs, Numbered(n, vs), NEW v \in DOMAIN vs,
           NEW s \in Stages, NEW archive \in BOOLEAN
    PROVE  /\ Numbered(n, Moved(vs, v, s, archive))
           /\ archive /\ OneEach(vs) => OneEach(Moved(vs, v, s, archive))
<1> DEFINE old == IF archive THEN Archived(vs, v, s) ELSE vs
           new == Moved(vs, v, s, archive)
<1>1. /\ Len(vs) \in Nat /\ DOMAIN vs = 1..Len(vs)
      /\ \A i \in 1..Len(vs) : vs[i] \in Row /\ vs[i].name = n /\ vs[i].version = i
  BY DEF Numbered
<1>2. ASSUME NEW r \in Row, NEW t \in Stages
      PROVE  /\ [r EXCEPT !.stage = t] \in Row
             /\ [r EXCEPT !.stage = t].name = r.name
             /\ [r EXCEPT !.stage = t].version = r.version
             /\ [r EXCEPT !.stage = t].stage = t
  BY <1>2 DEF Row
<1>3. "Archived" \in Stages
  BY DEF Stages
<1>4. /\ old = [i \in 1..Len(vs) |-> old[i]]
      /\ \A i \in 1..Len(vs) :
            \/ old[i] = vs[i] /\ (archive => i = v \/ vs[i].stage # s)
            \/ old[i] = [vs[i] EXCEPT !.stage = "Archived"] /\ i # v
  <2>1. CASE archive
    BY <1>1, <2>1 DEF Archived, ArchiveFrom
  <2>2. CASE ~archive
    BY <1>1, <2>2 DEF Numbered
  <2> QED BY <2>1, <2>2
<1> HIDE DEF old
<1>5. ASSUME NEW i \in 1..Len(vs)
      PROVE  /\ old[i] \in Row /\ old[i].name = n /\ old[i].version = i
             /\ archive => \/ i = v
                           \/ old[i].stage = "Archived"
                           \/ /\ old[i].stage = vs[i].stage
                              /\ vs[i].stage # s
  <2>1. vs[i] \in Row /\ vs[i].name = n /\ vs[i].version = i
    BY <1>1
  <2>2. CASE old[i] = vs[i] /\ (archive => i = v \/ vs[i].stage # s)
    BY <2>1, <2>2
  <2>3. CASE old[i] = [vs[i] EXCEPT !.stage = "Archived"]
    <3>1. /\ old[i] \in Row /\ old[i].name = vs[i].name /\ old[i].version = vs[i].version
          /\ old[i].stage = "Archived"
      BY <1>2, <1>3, <2>1, <2>3
    <3> QED BY <2>1, <3>1
  <2> QED BY <1>4, <2>2, <2>3
<1>6. /\ new = [i \in 1..Len(vs) |-> new[i]]
      /\ new[v] = [old[v] EXCEPT !.stage = s]
      /\ \A i \in 1..Len(vs) : i # v => new[i] = old[i]
  <2>1. new = [old EXCEPT ![v].stage = s]
    BY DEF Moved, old
  <2> HIDE DEF new
  <2> QED BY <1>1, <1>4, <2>1
<1> HIDE DEF new
<1>7. ASSUME NEW i \in 1..Len(vs)
      PROVE  /\ new[i] \in Row /\ new[i].name = n /\ new[i].version = i
             /\ i = v => new[i].stage = s
             /\ i # v => new[i].stage = old[i].stage
  <2>1. old[i] \in Row /\ old[i].name = n /\ old[i].version = i
    BY <1>5
  <2>2. CASE i # v
    BY <1>6, <2>1, <2>2
  <2>3. CASE i = v
    <3>1. new[i] = [old[i] EXCEPT !.stage = s]
      BY <1>6, <2>3
    <3>2. /\ [old[i] EXCEPT !.stage = s] \in Row
          /\ [old[i] EXCEPT !.stage = s].name = old[i].name
          /\ [old[i] EXCEPT !.stage = s].version = old[i].version
          /\ [old[i] EXCEPT !.stage = s].stage = s
      BY <1>2, <2>1
    <3> QED BY <2>1, <2>3, <3>1, <3>2
  <2> QED BY <2>2, <2>3
<1>8. new \in Seq(Row) /\ DOMAIN new = 1..Len(vs)
  <2>1. \A i \in 1..Len(vs) : new[i] \in Row
    BY <1>7
  <2>2. Len(vs) \in Nat /\ new = [i \in 1..Len(vs) |-> new[i]]
    BY <1>1, <1>6
  <2>3. \A k \in Nat : \A f : /\ f = [i \in 1..k |-> f[i]]
                              /\ \A i \in 1..k : f[i] \in Row
                              => f \in Seq(Row) /\ DOMAIN f = 1..k
    BY RowSequences
  <2> QED BY <2>1, <2>2, <2>3
<1>9. Numbered(n, new)
  BY <1>7, <1>8 DEF Numbered
<1>10. ASSUME archive, OneEach(vs) PROVE OneEach(new)
  BY <1>1, <1>5, <1>7, <1>8, <1>10 DEF OneEach
<1> QED BY <1>9, <1>10 DEF new

LEMMA RegistryRequestKeepsRegistry ==
    ASSUME MLInv, RegistryInv, RegistryRequest PROVE RegistryInv'
<1> USE DEF RegistryInv
<1>1. IsStore(ml) /\ careless \subseteq ModelNames
      /\ ml.models \subseteq ModelNames /\ ml.versions = [n \in ModelNames |-> ml.versions[n]]
      /\ \A n \in ModelNames : /\ Numbered(n, ml.versions[n])
                               /\ ml.versions[n] # <<>> => n \in ml.models
                               /\ n \notin careless => OneEach(ml.versions[n])
  BY DEF MLInv, IsRegistry
<1>2. ASSUME NEW models, NEW versions,
             Changes([ml EXCEPT !.models = models, !.versions = versions]),
             IsRegistry(models, versions, careless)
      PROVE  RegistryInv'
  <2> DEFINE m == [ml EXCEPT !.models = models, !.versions = versions]
  <2>1. PICK o \in persistML(m) : Ends(m, o)
    BY <1>2 DEF Changes
  <2>2. careless' = careless
    BY <1>2 DEF Changes
  <2> QED BY <1>1, <1>2, <2>1, <2>2, RegistryIsSet
<1>3. ASSUME NEW n \in ModelNames, CreateModel(n) PROVE RegistryInv'
  <2>1. [ml EXCEPT !.models = @ \cup {n}]
          = [ml EXCEPT !.models = ml.models \cup {n}, !.versions = ml.versions]
    BY <1>1 DEF IsStore
  <2>2. IsRegistry(ml.models \cup {n}, ml.versions, careless)
    BY <1>1 DEF IsRegistry
  <2> QED BY <1>2, <1>3, <2>1, <2>2 DEF CreateModel
<1>4. ASSUME NEW n \in ModelNames, NEW to \in ModelNames, RenameModel(n, to)
      PROVE  RegistryInv'
  <2> DEFINE rows   == RenamedRows(ml.versions[n], to)
             models == (ml.models \ {n}) \cup {to}
             vs     == [ml.versions EXCEPT ![n] = <<>>, ![to] = rows]
             m      == [ml EXCEPT !.models = models, !.versions = vs]
  <2>1. /\ n \in ml.models /\ to \notin ml.models \ {n}
        /\ careless' = IF n \in careless THEN careless \cup {to} ELSE careless
    BY <1>4 DEF RenameModel
  <2>2. PICK o \in persistML(m) : Ends(m, o)
    BY <1>4 DEF RenameModel
  <2>3. Numbered(to, rows) /\ (OneEach(ml.versions[n]) => OneEach(rows))
    <3>1. /\ Len(ml.versions[n]) \in Nat /\ DOMAIN ml.versions[n] = 1..Len(ml.versions[n])
          /\ \A i \in 1..Len(ml.versions[n]) : ml.versions[n][i] \in Row
                                              /\ ml.versions[n][i].version = i
      BY <1>1 DEF Numbered
    <3>2. ASSUME NEW r \in Row
          PROVE  /\ [r EXCEPT !.name = to] \in Row /\ [r EXCEPT !.name = to].name = to
                 /\ [r EXCEPT !.name = to].version = r.version
                 /\ [r EXCEPT !.name = to].stage = r.stage
      BY <3>2 DEF Row
    <3>3. /\ DOMAIN rows = 1..Len(ml.versions[n]) /\ rows = [i \in 1..Len(ml.versions[n]) |-> rows[i]]
          /\ \A i \in 1..Len(ml.versions[n]) : rows[i] = [ml.versions[n][i] EXCEPT !.name = to]
      BY <3>1 DEF RenamedRows
    <3> HIDE DEF rows
    <3>4. \A i \in 1..Len(ml.versions[n]) :
             /\ rows[i] \in Row /\ rows[i].name = to /\ rows[i].version = i
             /\ rows[i].stage = ml.versions[n][i].stage
      <4> SUFFICES ASSUME NEW i \in 1..Len(ml.versions[n])
                   PROVE  /\ rows[i] \in Row /\ rows[i].name = to /\ rows[i].version = i
                          /\ rows[i].stage = ml.versions[n][i].stage
        OBVIOUS
      <4>1. ml.versions[n][i] \in Row /\ ml.versions[n][i].version = i
        BY <3>1
      <4>2. rows[i] = [ml.versions[n][i] EXCEPT !.name = to]
        BY <3>3
      <4> QED BY <3>2, <4>1, <4>2
    <3>5. rows \in Seq(Row)
      BY <3>1, <3>3, <3>4, RowSequences
    <3> QED BY <3>1, <3>3, <3>4, <3>5 DEF Numbered, OneEach
  <2> HIDE DEF rows
  <2>4. /\ vs = [k \in ModelNames |-> vs[k]] /\ vs[to] = rows
        /\ n # to => vs[n] = <<>>
        /\ \A k \in ModelNames \ {n, to} : vs[k] = ml.versions[k]
    BY <1>1
  <2>5. IsRegistry(models, vs, careless')
    <3> HIDE DEF vs
    <3>1. models \subseteq ModelNames
      BY <1>1
    <3>2. ASSUME NEW k \in ModelNames
          PROVE  /\ Numbered(k, vs[k]) /\ (vs[k] # <<>> => k \in models)
                 /\ k \notin careless' => OneEach(vs[k])
      BY <1>1, <2>1, <2>3, <2>4, NoVersions
    <3> QED BY <2>4, <3>1, <3>2 DEF IsRegistry
  <2>6. careless' \subseteq ModelNames /\ careless \subseteq careless'
    BY <1>1, <2>1
  <2> HIDE DEF models, vs
  <2> QED BY <2>2, <2>5, <2>6, RegistryIsSet
<1>5. ASSUME NEW n \in ModelNames, DeleteModel(n) PROVE RegistryInv'
  <2> DEFINE vs == [ml.versions EXCEPT ![n] = <<>>]
  <2>1. [ml EXCEPT !.models = @ \ {n}, !.versions[n] = <<>>]
          = [ml EXCEPT !.models = ml.models \ {n}, !.versions = vs]
    OBVIOUS
  <2>2. IsRegistry(ml.models \ {n}, vs, careless)
    BY <1>1, NoVersions, VersionsAreSet
  <2> HIDE DEF vs
  <2> QED BY <1>2, <1>5, <2>1, <2>2 DEF DeleteModel
<1>6. ASSUME NEW n \in ModelNames, n \in ml.models, NEW new, Numbered(n, new),
             Changes([ml EXCEPT !.versions[n] = new]), n \notin careless => OneEach(new)
      PROVE  RegistryInv'
  <2> DEFINE vs == [ml.versions EXCEPT ![n] = new]
  <2>1. [ml EXCEPT !.versions[n] = new] = [ml EXCEPT !.models = ml.models, !.versions = vs]
    BY <1>1 DEF IsStore
  <2>2. IsRegistry(ml.models, vs, careless)
    BY <1>1, <1>6, VersionsAreSet
  <2> HIDE DEF vs
  <2> QED BY <1>2, <1>6, <2>1, <2>2
<1>7. ASSUME NEW n \in ModelNames, CreateModelVersion(n) PROVE RegistryInv'
  <2> DEFINE old == ml.versions[n]
             row == [name |-> n, version |-> Len(old) + 1, stage |-> "None"]
             new == Append(old, row)
  <2>1. /\ Len(old) \in Nat /\ DOMAIN old = 1..Len(old) /\ old \in Seq(Row)
        /\ \A i \in 1..Len(old) : old[i].name = n /\ old[i].version = i
    BY <1>1 DEF Numbered
  <2>2. row \in Row /\ row.name = n /\ row.version = Len(old) + 1 /\ row.stage = "None"
    BY <2>1 DEF Row, Stages
  <2> HIDE DEF row
  <2>3. /\ new \in Seq(Row) /\ DOMAIN new = 1..(Len(old) + 1)
        /\ new[Len(old) + 1] = row /\ \A i \in 1..Len(old) : new[i] = old[i]
    BY <2>1, <2>2
  <2>4. n \in ml.models /\ Changes([ml EXCEPT !.versions[n] = new])
    BY <1>7 DEF CreateModelVersion, row
  <2> HIDE DEF new, old
  <2>5. Numbered(n, new)
    BY <2>1, <2>2, <2>3 DEF Numbered
  <2>6. OneEach(old) => OneEach(new)
    BY <2>1, <2>2, <2>3 DEF OneEach
  <2> QED BY <1>1, <1>6, <2>4, <2>5, <2>6 DEF old
<1>8. ASSUME NEW n \in ModelNames, NEW v \in 1..MaxVersions, NEW s \in Stages,
             NEW archive \in BOOLEAN, TransitionStage(n, v, s, archive)
      PROVE  RegistryInv'
  <2> DEFINE new == Moved(ml.versions[n], v, s, archive)
             vs  == [ml.versions EXCEPT ![n] = new]
  <2>1. [ml EXCEPT !.versions[n] = new] = [ml EXCEPT !.models = ml.models, !.versions = vs]
    BY <1>1 DEF IsStore
  <2>2. PICK o \in persistML([ml EXCEPT !.versions[n] = new]) :
           Ends([ml EXCEPT !.versions[n] = new], o)
    BY <1>8 DEF TransitionStage, Moved
  <2>3. /\ n \in ml.models /\ v \in DOMAIN ml.versions[n]
        /\ careless' = IF archive THEN careless ELSE careless \cup {n}
    BY <1>8 DEF TransitionStage
  <2>4. Numbered(n, new) /\ (archive /\ OneEach(ml.versions[n]) => OneEach(new))
    BY <1>1, <2>3, MovedVersions
  <2> HIDE DEF new
  <2>5. /\ careless' \subseteq ModelNames /\ careless \subseteq careless'
        /\ n \notin careless' => OneEach(new)
    BY <1>1, <2>3, <2>4
  <2>6. IsRegistry(ml.models, vs, careless')
    BY <1>1, <2>3, <2>4, <2>5, VersionsAreSet
  <2> HIDE DEF vs
  <2> QED BY <2>1, <2>2, <2>5, <2>6, RegistryIsSet
<1>9. ASSUME Changes(ml) PROVE RegistryInv'
  <2>1. ml = [ml EXCEPT !.models = ml.models, !.versions = ml.versions]
    BY <1>1 DEF IsStore
  <2> QED BY <1>2, <1>9, <2>1
<1>10. ASSUME NEW n \in ModelNames,
              UpdateModel(n) \/ \E v \in 1..MaxVersions : UpdateModelVersion(n, v)
       PROVE  RegistryInv'
  BY <1>9, <1>10 DEF UpdateModel, UpdateModelVersion
<1> QED BY <1>3, <1>4, <1>5, <1>7, <1>8, <1>10 DEF RegistryRequest

LEMMA AtMostOne ==
    ASSUME NEW S, \A x, y \in S : x = y
    PROVE  Cardinality(S) <= 1
<1>1. CASE S = {}
  BY <1>1, FS_EmptySet
<1>2. CASE S # {}
  <2>1. PICK x : S = {x}
    BY <1>2
  <2> QED BY <2>1, FS_Singleton
<1> QED BY <1>1, <1>2

(***************************************************************************)
(* Versions stay with their model, numbered from 1, through renames,       *)
(* deletes and restarts, and a model that clients archive has one version  *)
(* in a stage.                                                             *)
(***************************************************************************)
THEOREM RegistryStaysConsistent == Spec => []RegistryIsConsistent
<1>1. Init => RegistryInv
  <2> SUFFICES ASSUME Init PROVE RegistryInv
    OBVIOUS
  <2>1. ml = EmptyML /\ mlFile = EmptyML /\ careless = {}
    BY DEF Init, MLInit
  <2>2. EmptyML.models = {} /\ EmptyML.versions = [n \in ModelNames |-> <<>>]
    BY DEF EmptyML
  <2> QED BY <2>1, <2>2, NoVersions DEF RegistryInv, IsRegistry
<1>2. MLInv /\ MLInv' /\ RegistryInv /\ [Next]_vars => RegistryInv'
  <2> SUFFICES ASSUME MLInv, MLInv', RegistryInv, [Next]_vars PROVE RegistryInv'
    OBVIOUS
  <2>1. CASE UNCHANGED mlVars
    BY <2>1 DEF mlVars, RegistryInv
  <2>2. CASE LeavesRegistry
    BY <2>2 DEF LeavesRegistry, RegistryInv
  <2> QED BY <2>1, <2>2, MLSteps, OpenKeepsRegistry, OtherRequests,
             RegistryRequestKeepsRegistry DEF MLflowRequest
<1>3. RegistryInv => RegistryIsConsistent
  <2> SUFFICES ASSUME RegistryInv PROVE RegistryIsConsistent
    OBVIOUS
  <2>1. VersionsFollowTheirModel
    BY DEF RegistryInv, IsRegistry, Numbered, VersionsFollowTheirModel
  <2>2. OneVersionPerStage
    <3> SUFFICES ASSUME NEW n \in ModelNames \ careless, NEW s \in {"Staging", "Production"}
                 PROVE  Cardinality({i \in DOMAIN ml.versions[n] :
                                        ml.versions[n][i].stage = s}) <= 1
      BY DEF OneVersionPerStage
    <3>1. OneEach(ml.versions[n])
      BY DEF RegistryInv, IsRegistry
    <3> QED BY <3>1, AtMostOne DEF OneEach
  <2> QED BY <2>1, <2>2 DEF RegistryIsConsistent
<1> QED BY <1>1, <1>2, <1>3, MLInvariant, PTL DEF Spec
================================================================================
