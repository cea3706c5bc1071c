------------------------------- MODULE SqlStore -------------------------------
(***************************************************************************)
(* SQL warehouses, statements with their history, and saved queries:       *)
(* internal/store/sql.go with the handlers of internal/server/sql.go and   *)
(* internal/server/queries.go.                                             *)
(*                                                                         *)
(* A handler is a call with a location; a step is one store call, one run  *)
(* of unlocked writes through a *Statement or *Query that readers share,   *)
(* or an answer of the engine or of Unity Catalog.  mcpExecuteSQL is the   *)
(* handler sqlExecuteStatement with a warehouse that is RUNNING.           *)
(***************************************************************************)
EXTENDS Integers, Sequences, FiniteSets

CONSTANTS Calls,         \* handlers that may be in flight at once
          Attached,      \* s.Spark # nil, settled when the process starts
          MaxWarehouse,  \* bound on the ids warehouses are created under
          MaxID,         \* bound on SQL.nextID
          Bases,         \* display names clients ask for
          MaxSuffix,     \* the last suffix ResolveDisplayName tries, 999 in the code
          PageSize       \* max_results of the client that pages the history

ASSUME SqlAssumption ==
    /\ Attached \in BOOLEAN
    /\ MaxID \in Nat
    /\ MaxWarehouse \in 0..MaxID
    /\ MaxSuffix \in Nat
    /\ PageSize \in Nat \ {0}

Ids  == 1..MaxID
Name == [base : Bases, n : 0..MaxSuffix]

VARIABLES
    nextID,    \* SQL.nextID, shared by warehouses, statements and queries
    wh,        \* the ids in the map SQL.wh
    whState,   \* Warehouse.State of each object, which outlives its deletion
    status,    \* Statement.Status, "none" when the map has no such statement
    history,   \* SQL.history, newest first
    life,      \* Query.LifecycleState, "none" when the map has no such query
    name,      \* Query.DisplayName
    taken,     \* ghost: of a handler between its check of a name and its write, the
               \* queries that were given that name meanwhile
    rivals,    \* ghost: of a query, those that were given its name between the check
               \* and the write it was named by, and still have it
    at,        \* where each handler is
    obj,       \* the statement or query it works for, 0 for none
    on,        \* the warehouse it was given, 0 for none
    want,      \* the display name it is trying, and auto_resolve_display_name
    pager      \* a client that pages through the query history

warehouses == <<wh, whState>>
names      == <<name, taken, rivals>>
queries    == <<life, names>>
calls      == <<at, obj, on, want>>
vars       == <<nextID, wh, whState, status, history, life, name, taken, rivals,
                at, obj, on, want, pager>>

StatementSteps == {"check", "service", "engine", "register", "record"}
QuerySteps     == {"resolve", "create", "rename", "warehouse", "store"}

Entry == [id : Ids, status : {"FINISHED", "FAILED"}]

\* What a query says before it is given a name, and a handler that wants none.
NoName == [base |-> "none", n |-> 0]
NoWish == [name |-> NoName, auto |-> FALSE]

TypeOK ==
    /\ nextID \in 0..MaxID
    /\ wh \subseteq Ids
    /\ whState \in [Ids -> {"none", "RUNNING", "STOPPED"}]
    /\ status \in [Ids -> {"none", "PENDING", "SUCCEEDED", "FAILED"}]
    /\ history \in Seq(Entry)
    /\ life \in [Ids -> {"none", "ACTIVE", "TRASHED"}]
    /\ name \in [Ids -> Name \cup {NoName}]
    /\ taken \in [Calls -> SUBSET Ids]
    /\ rivals \in [Ids -> SUBSET Ids]
    /\ at \in [Calls -> {"idle", "newStatement"} \cup StatementSteps \cup QuerySteps]
    /\ obj \in [Calls -> 0..MaxID]
    /\ on \in [Calls -> 0..MaxID]
    /\ want \in [Calls -> [name : Name \cup {NoName}, auto : BOOLEAN]]
    /\ pager \in [paging : BOOLEAN, offset : Nat, due : SUBSET Ids]

Init ==
    /\ nextID = 0
    /\ wh = {}
    /\ whState = [i \in Ids |-> "none"]
    /\ status = [i \in Ids |-> "none"]
    /\ history = <<>>
    /\ life = [i \in Ids |-> "none"]
    /\ name = [i \in Ids |-> NoName]
    /\ taken = [c \in Calls |-> {}]
    /\ rivals = [i \in Ids |-> {}]
    /\ at = [c \in Calls |-> "idle"]
    /\ obj = [c \in Calls |-> 0]
    /\ on = [c \in Calls |-> 0]
    /\ want = [c \in Calls |-> NoWish]
    /\ pager = [paging |-> FALSE, offset |-> 0, due |-> {}]

\* Call c moves on to location l, with what it works for.
Enter(c, l, i, w, wish) ==
    /\ at' = [at EXCEPT ![c] = l]
    /\ obj' = [obj EXCEPT ![c] = i]
    /\ on' = [on EXCEPT ![c] = w]
    /\ want' = [want EXCEPT ![c] = wish]
Goto(c, l) == Enter(c, l, obj[c], on[c], want[c])
Return(c)  == Enter(c, "idle", 0, 0, NoWish)

-------------------------------------------------------------------------------
(***************************************************************************)
(* Warehouses.                                                             *)
(***************************************************************************)
CreateWarehouse ==
    /\ nextID' = nextID + 1
    /\ wh' = wh \cup {nextID + 1}
    /\ whState' = [whState EXCEPT ![nextID + 1] = "RUNNING"]

sqlCreateWarehouse ==
    /\ nextID < MaxWarehouse
    /\ CreateWarehouse
    /\ UNCHANGED <<status, history, queries, calls, pager>>

DeleteWarehouse(w) == wh' = wh \ {w} /\ UNCHANGED whState

sqlDeleteWarehouse(w) ==
    /\ w \in wh
    /\ DeleteWarehouse(w)
    /\ UNCHANGED <<nextID, status, history, queries, calls, pager>>

\* sqlStartWarehouse and sqlStopWarehouse.
SetWarehouseState(w, s) ==
    /\ w \in wh
    /\ whState' = [whState EXCEPT ![w] = s]
    /\ UNCHANGED <<nextID, wh, status, history, queries, calls, pager>>

-------------------------------------------------------------------------------
(***************************************************************************)
(* Statements.                                                             *)
(***************************************************************************)
sqlExecuteStatement(c, w) ==
    /\ at[c] = "idle"
    /\ w \in wh
    /\ Enter(c, "newStatement", 0, w, NoWish)
    /\ UNCHANGED <<nextID, warehouses, status, history, queries, pager>>

NewStatement(c) ==
    /\ at[c] = "newStatement"
    /\ nextID < MaxID
    /\ nextID' = nextID + 1
    /\ status' = [status EXCEPT ![nextID + 1] = "PENDING"]
    /\ Enter(c, "check", nextID + 1, on[c], NoWish)
    /\ UNCHANGED <<warehouses, history, queries, pager>>

\* The statement ends with this status; its history is still to be written.
Settle(c, s) ==
    /\ status' = [status EXCEPT ![obj[c]] = s]
    /\ Goto(c, "record")
    /\ UNCHANGED <<nextID, warehouses, history, queries, pager>>

(***************************************************************************)
(* runSQLStatement before any engine call: the warehouse, read through the *)
(* handler's pointer, is not RUNNING, there is no engine, or the rewrite   *)
(* refused the text.                                                       *)
(***************************************************************************)
StatementRefused(c) ==
    /\ at[c] = "check"
    /\ Settle(c, "FAILED")

\* The rewrite answers an information_schema query itself.
StatementEmpty(c) ==
    /\ at[c] = "check"
    /\ whState[on[c]] = "RUNNING" /\ Attached
    /\ Settle(c, "SUCCEEDED")

(***************************************************************************)
(* "service": one answer ends it, the catalog's to CREATE SCHEMA or the    *)
(* engine's; "engine": a table is to be registered after the engine's.     *)
(***************************************************************************)
StatementStarts(c) ==
    /\ at[c] = "check"
    /\ whState[on[c]] = "RUNNING" /\ Attached
    /\ \E l \in {"service", "engine"} : Goto(c, l)
    /\ UNCHANGED <<nextID, warehouses, status, history, queries, pager>>

StatementAnswered(c, s) ==
    /\ \/ at[c] = "service"
       \/ at[c] = "engine" /\ s = "FAILED"
    /\ Settle(c, s)

StatementSucceeds_RecordsFirst(c) ==
    /\ at[c] = "engine"
    /\ status' = [status EXCEPT ![obj[c]] = "SUCCEEDED"]
    /\ history' = <<[id |-> obj[c], status |-> "FINISHED"]>> \o history
    /\ Goto(c, "register")
    /\ UNCHANGED <<nextID, warehouses, queries, pager>>

\* SUCCEEDED is written to the shared object before the table is registered.
StatementSucceeds(c) ==
    /\ at[c] = "engine"
    /\ status' = [status EXCEPT ![obj[c]] = "SUCCEEDED"]
    /\ Goto(c, "register")
    /\ UNCHANGED <<nextID, warehouses, history, queries, pager>>

RegisterAnswered_Retries(c, ok) ==
    /\ at[c] = "register"
    /\ Goto(c, IF ok THEN "record" ELSE "engine")
    /\ UNCHANGED <<nextID, warehouses, status, history, queries, pager>>

RegisterAnswered(c, ok) ==
    /\ at[c] = "register"
    /\ Settle(c, IF ok THEN status[obj[c]] ELSE "FAILED")

RecordHistory(h) == history' = <<h>> \o history

recordStatementHistory(c) ==
    /\ at[c] = "record"
    /\ RecordHistory([id |-> obj[c],
                      status |-> IF status[obj[c]] = "SUCCEEDED" THEN "FINISHED" ELSE "FAILED"])
    /\ Return(c)
    /\ UNCHANGED <<nextID, warehouses, status, queries, pager>>

-------------------------------------------------------------------------------
(***************************************************************************)
(* Saved queries.                                                          *)
(***************************************************************************)
DisplayNameTaken_AnyExcept(s, q) ==
    \E i \in Ids : i # q /\ life[i] = "ACTIVE" /\ name[i] = s /\ q # 0

DisplayNameTaken(s, q) ==
    \E i \in Ids : life[i] = "ACTIVE" /\ name[i] = s /\ i # q

Wish(b, auto) == [name |-> [base |-> b, n |-> 0], auto |-> auto]

sqlCreateQuery(c, w, b, auto) ==
    /\ at[c] = "idle"
    /\ w = 0 \/ w \in wh
    /\ Enter(c, "resolve", 0, 0, Wish(b, auto))
    /\ UNCHANGED <<nextID, warehouses, status, history, queries, pager>>

\* What an update does once it is through with the name: warehouse w is to be
\* looked up, or none is.
GotoWarehouse(c, q, w) == Enter(c, IF w = 0 THEN "store" ELSE "warehouse", q, w, NoWish)

(***************************************************************************)
(* The update mask names display_name, a warehouse, both or neither.       *)
(***************************************************************************)
sqlUpdateQuery(c, q, w, b, auto) ==
    /\ at[c] = "idle"
    /\ life[q] = "ACTIVE"
    /\ \/ Enter(c, "resolve", q, w, Wish(b, auto))
       \/ GotoWarehouse(c, q, w)
    /\ UNCHANGED <<nextID, warehouses, status, history, queries, pager>>

\* ResolveDisplayName: each candidate is looked up under the lock on its own.
NameIsFree(c) ==
    /\ at[c] = "resolve"
    /\ ~DisplayNameTaken(want[c].name, obj[c])
    /\ Enter(c, IF obj[c] = 0 THEN "create" ELSE "rename", obj[c], on[c],
             [want[c] EXCEPT !.auto = FALSE])
    /\ UNCHANGED <<nextID, warehouses, status, history, queries, pager>>

NameIsTaken(c) ==
    /\ at[c] = "resolve"
    /\ DisplayNameTaken(want[c].name, obj[c])
    /\ IF want[c].auto /\ want[c].name.n < MaxSuffix
       THEN Enter(c, "resolve", obj[c], on[c], [want[c] EXCEPT !.name.n = @ + 1])
       ELSE Return(c)
    /\ UNCHANGED <<nextID, warehouses, status, history, queries, pager>>

\* Query q is given the name that handler c found free.
GiveName(c, q) ==
    /\ name' = [name EXCEPT ![q] = want[c].name]
    /\ taken' = [d \in Calls |->
          IF d = c THEN {}
          ELSE IF at[d] \in {"create", "rename"} /\ want[d].name = want[c].name
          THEN taken[d] \cup {q} ELSE taken[d] \ {q}]
    /\ rivals' = [i \in Ids |-> (IF i = q THEN taken[c] ELSE rivals[i]) \ {q}]

CreateQuery(c) ==
    /\ at[c] = "create"
    /\ nextID < MaxID
    /\ nextID' = nextID + 1
    /\ life' = [life EXCEPT ![nextID + 1] = "ACTIVE"]
    /\ GiveName(c, nextID + 1)
    /\ Return(c)
    /\ UNCHANGED <<warehouses, status, history, pager>>

\* q.DisplayName and q.QueryText, through the pointer GetQuery returned.
RenameQuery(c) ==
    /\ at[c] = "rename"
    /\ GiveName(c, obj[c])
    /\ GotoWarehouse(c, obj[c], on[c])
    /\ UNCHANGED <<nextID, warehouses, status, history, life, pager>>

\* An unknown warehouse ends the update with what was written so far.  Which
\* warehouse a query names, like its text and tags, is left out.
MoveQuery(c) ==
    /\ at[c] = "warehouse"
    /\ IF on[c] \in wh THEN GotoWarehouse(c, obj[c], 0) ELSE Return(c)
    /\ UNCHANGED <<nextID, warehouses, status, history, queries, pager>>

UpdateQuery_StoresCopy(c) ==
    /\ at[c] = "store"
    /\ life' = [life EXCEPT ![obj[c]] = "ACTIVE"]
    /\ Return(c)
    /\ UNCHANGED <<nextID, warehouses, status, history, names, pager>>

(***************************************************************************)
(* The object is put back under its id, where it still is.                 *)
(***************************************************************************)
UpdateQuery(c) ==
    /\ at[c] = "store"
    /\ Return(c)
    /\ UNCHANGED <<nextID, warehouses, status, history, queries, pager>>

TrashQuery(q) == life[q] = "ACTIVE" /\ life' = [life EXCEPT ![q] = "TRASHED"]

sqlDeleteQuery(q) ==
    /\ TrashQuery(q)
    /\ UNCHANGED <<nextID, warehouses, status, history, names, calls, pager>>

-------------------------------------------------------------------------------
(***************************************************************************)
(* A client that lists the query history: it asks from offset 0 and then   *)
(* follows next_page_token until has_next_page is false; due is what was   *)
(* recorded when it began and it has not been shown yet.                   *)
(***************************************************************************)
Recorded == { history[i].id : i \in DOMAIN history }

ListHistory_SkipsOne(offset) ==
    LET end == IF offset + PageSize > Len(history) THEN Len(history) ELSE offset + PageSize
    IN  [items |-> { history[i].id : i \in (offset + 1)..end },
         next  |-> end + 1,
         more  |-> end < Len(history)]

ListHistory(offset) ==
    LET from == IF offset > Len(history) THEN Len(history) ELSE offset
        end  == IF from + PageSize > Len(history) THEN Len(history) ELSE from + PageSize
    IN  [items |-> { history[i].id : i \in (from + 1)..end },
         next  |-> end,
         more  |-> end < Len(history)]

sqlListQueryHistory ==
    LET page == ListHistory(IF pager.paging THEN pager.offset ELSE 0)
    IN  /\ pager' = [paging |-> page.more,
                     offset |-> IF page.more THEN page.next ELSE 0,
                     due    |-> (IF pager.paging THEN pager.due ELSE Recorded) \ page.items]
        /\ UNCHANGED <<nextID, warehouses, status, history, queries, calls>>

-------------------------------------------------------------------------------
\* A step of handler c after its first.
Proceed(c) ==
    \/ NewStatement(c) \/ StatementRefused(c) \/ StatementEmpty(c) \/ StatementStarts(c)
    \/ \E s \in {"SUCCEEDED", "FAILED"} : StatementAnswered(c, s)
    \/ StatementSucceeds(c) \/ \E ok \in BOOLEAN : RegisterAnswered(c, ok)
    \/ recordStatementHistory(c)
    \/ NameIsFree(c) \/ NameIsTaken(c) \/ CreateQuery(c)
    \/ RenameQuery(c) \/ MoveQuery(c) \/ UpdateQuery(c)

Request ==
    \/ sqlCreateWarehouse
    \/ \E w \in Ids : sqlDeleteWarehouse(w)
    \/ \E w \in Ids, s \in {"RUNNING", "STOPPED"} : SetWarehouseState(w, s)
    \/ \E c \in Calls, w \in Ids : sqlExecuteStatement(c, w)
    \/ \E c \in Calls, w \in 0..MaxWarehouse, b \in Bases, auto \in BOOLEAN :
          \/ sqlCreateQuery(c, w, b, auto)
          \/ \E q \in Ids : sqlUpdateQuery(c, q, w, b, auto)
    \/ \E q \in Ids : sqlDeleteQuery(q)
    \/ sqlListQueryHistory

Next == Request \/ \E c \in Calls : Proceed(c)

Spec == Init /\ [][Next]_vars

(***************************************************************************)
(* Answers arrive within the HTTP clients' timeouts and the scheduler runs *)
(* every handler on.                                                       *)
(***************************************************************************)
FairSpec == Spec /\ \A c \in Calls : WF_vars(Proceed(c))

-------------------------------------------------------------------------------
(***************************************************************************)
(* Properties.                                                             *)
(***************************************************************************)
InFlight(i) == \E c \in Calls : at[c] \in StatementSteps /\ obj[c] = i

(***************************************************************************)
(* The history is the statements' own story: no statement is recorded      *)
(* twice, a recorded one no longer changes and the entry says how it       *)
(* ended, also when registering its table failed after the engine had      *)
(* succeeded, and no statement is left behind unrecorded or PENDING by any *)
(* of runSQLStatement's exits.                                             *)
(***************************************************************************)
HistoryTellsTheOutcome ==
    /\ \A j, k \in DOMAIN history : history[j].id = history[k].id => j = k
    /\ \A k \in DOMAIN history :
          status[history[k].id] = IF history[k].status = "FINISHED" THEN "SUCCEEDED" ELSE "FAILED"
    /\ \A i \in Ids : status[i] # "none" /\ ~InFlight(i) => i \in Recorded

(***************************************************************************)
(* sqlDeleteQuery is final: an update that read the query while it was     *)
(* ACTIVE and stores it after the delete does not bring it back.           *)
(***************************************************************************)
TrashedStaysTrashed ==
    [][\A q \in Ids : life[q] = "TRASHED" => life'[q] = "TRASHED"]_vars

(***************************************************************************)
(* ResolveDisplayName does what a check without the write under one lock   *)
(* can do: two ACTIVE queries show the same name only where the one was    *)
(* given it between the check and the write the other was named by, and    *)
(* never from handlers that ran one after the other, whatever is deleted,  *)
(* renamed or suffixed in between.                                         *)
(***************************************************************************)
OnlyRivalsShareAName ==
    \A p, q \in Ids :
       life[p] = "ACTIVE" /\ life[q] = "ACTIVE" /\ name[p] = name[q] /\ p # q
       => p \in rivals[q] \/ q \in rivals[p]

(***************************************************************************)
(* A client that follows next_page_token to the end has been shown every   *)
(* execution that was recorded when it began, though RecordHistory puts    *)
(* new ones in front while it pages.                                       *)
(***************************************************************************)
PagingMissesNothing == ~pager.paging => pager.due = {}

(***************************************************************************)
(* Every accepted statement ends, whichever of the engine and the catalog  *)
(* fails and whatever happens to its warehouse meanwhile; by               *)
(* HistoryTellsTheOutcome it is then in the history.                       *)
(***************************************************************************)
EveryStatementEnds == \A c \in Calls : at[c] = "check" ~> at[c] = "idle"
===============================================================================
