---------------------------- MODULE WorkspaceStore -----------------------------
(***************************************************************************)
(* Workspace objects (store/workspace.go, server/workspace.go).  An object *)
(* is two files, its bytes and a .wsmeta.json beside them, each written in *)
(* place.  The content of the bytes is the kind of object they were        *)
(* imported as.                                                            *)
(***************************************************************************)
EXTENDS Files

CONSTANTS WPaths,      \* paths of objects
          Importers    \* imports that may be in flight at once

Kinds == {"NOTEBOOK", "FILE"}

ASSUME WorkspaceAssumption == \A x \in {Absent, Torn} : x \notin Kinds

VARIABLES
    bytes,       \* the file at each path
    meta,        \* its .wsmeta.json
    importer,    \* imports that looked whether the object exists
    damaged      \* paths where a write or a removal of the two files was cut short

workspaceVars == <<bytes, meta, importer, damaged>>

NoImport == [at |-> "idle"]
Imports == [at : {"put"}, path : WPaths, kind : Kinds]

WorkspaceTypeOK ==
    /\ bytes \in [WPaths -> Kinds \cup {Absent, Torn}]
    /\ meta \in [WPaths -> Kinds \cup {Absent, Torn}]
    /\ importer \in [Importers -> Imports \cup {NoImport}]
    /\ damaged \subseteq WPaths

WorkspaceInit ==
    /\ bytes = [p \in WPaths |-> Absent]
    /\ meta = [p \in WPaths |-> Absent]
    /\ importer = [m \in Importers |-> NoImport]
    /\ damaged = {}

\* Nothing is read at a start; the imports in flight are gone.
openWorkspace ==
    /\ importer' = [m \in Importers |-> NoImport]
    /\ UNCHANGED <<bytes, meta, damaged>>

\* The kind of an object as Get and List report it: that of the metadata, or a
\* file when there is none that can be read.
TypeOf(p) == IF meta[p] \in {Absent, Torn} THEN "FILE" ELSE meta[p]

\* Put: the bytes and then the metadata; the first error ends it.
PutMeta_Keeps(p, kind) ==
    IF meta[p] = Absent THEN WriteFile(meta[p], kind) ELSE {[file |-> meta[p], end |-> "ok"]}
PutMeta(p, kind) == WriteFile(meta[p], kind)

PutObject(p, kind) ==
    \E o \in WriteFile(bytes[p], kind) :
       /\ bytes' = [bytes EXCEPT ![p] = o.file]
       /\ IF o.end # "ok"
          THEN /\ ServedOn(o)
               /\ damaged' = IF o.file = bytes[p] THEN damaged ELSE damaged \cup {p}
               /\ UNCHANGED meta
          ELSE \E n \in PutMeta(p, kind) :
                  /\ meta' = [meta EXCEPT ![p] = n.file]
                  /\ ServedOn(n)
                  /\ damaged' = IF n.end = "ok" THEN damaged \ {p} ELSE damaged \cup {p}

\* workspaceImport looks for the object without overwrite, and puts it later.
LookForObject(m, p, kind, overwrite) ==
    /\ proc = "up"
    /\ importer[m] = NoImport
    /\ overwrite \/ bytes[p] = Absent
    /\ importer' = [importer EXCEPT ![m] = [at |-> "put", path |-> p, kind |-> kind]]
    /\ UNCHANGED <<proc, bytes, meta, damaged>>

workspaceImport(m) ==
    /\ proc = "up"
    /\ importer[m] # NoImport
    /\ PutObject(importer[m].path, importer[m].kind)
    /\ importer' = [importer EXCEPT ![m] = NoImport]

\* The workspace-files endpoint puts a file, whatever is there.
workspaceFilesImport(p) ==
    /\ proc = "up"
    /\ PutObject(p, "FILE")
    /\ UNCHANGED importer

\* Delete: the metadata, whose removal may fail unseen, and then the bytes.
workspaceDeleteObject(p) ==
    /\ proc = "up"
    /\ bytes[p] # Absent
    /\ \E m \in {Absent, meta[p]} :
          /\ meta' = [meta EXCEPT ![p] = m]
          /\ \/ /\ bytes' = [bytes EXCEPT ![p] = Absent]
                /\ damaged' = IF m = Absent THEN damaged \ {p} ELSE damaged \cup {p}
                /\ UNCHANGED proc
             \/ /\ proc' \in {"up", "down"}
                /\ damaged' = damaged \cup {p}
                /\ UNCHANGED bytes
    /\ UNCHANGED importer

WorkspaceRequest ==
    \/ \E m \in Importers, p \in WPaths, k \in Kinds, overwrite \in BOOLEAN :
          LookForObject(m, p, k, overwrite)
    \/ \E m \in Importers : workspaceImport(m)
    \/ \E p \in WPaths : workspaceFilesImport(p) \/ workspaceDeleteObject(p)

--------------------------------------------------------------------------------
(* Properties                                                                  *)

\* An object is reported as what its bytes were imported as, and a path without
\* bytes has no metadata that a later file would inherit: imports that overlap,
\* replace one kind by the other or follow a delete never mix the two files,
\* unless a write of them was cut short and nobody wrote the object again.
MetadataFollowsBytes ==
    \A p \in WPaths \ damaged :
        IF bytes[p] = Absent THEN meta[p] = Absent ELSE TypeOf(p) = bytes[p]
================================================================================
