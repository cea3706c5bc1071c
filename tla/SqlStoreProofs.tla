---------------------------- MODULE SqlStoreProofs ----------------------------
(***************************************************************************)
(* Theorems about SqlStore: its history, its saved queries and the client  *)
(* that pages, for any number of handlers, warehouses and statements.      *)
(***************************************************************************)
EXTENDS SqlStore, TLAPS

USE SqlAssumption DEF names

Locations == {"idle", "newStatement"} \cup StatementSteps \cup QuerySteps
Wishes    == [name : Name \cup {NoName}, auto : BOOLEAN]

(***************************************************************************)
(* The handlers, when n ids have been handed out: none works for an id     *)
(* that is still to come, one that looks for a name has one to try, and    *)
(* one that renames has a query.                                           *)
(***************************************************************************)
HandlersOK(n) ==
    /\ at \in [Calls -> Locations]
    /\ obj \in [Calls -> 0..n]
    /\ on \in [Calls -> 0..MaxID]
    /\ want \in [Calls -> Wishes]
    /\ \A c \in Calls : at[c] = "resolve" => want[c].name \in Name
    /\ \A c \in Calls : at[c] = "rename" => obj[c] # 0

(***************************************************************************)
(* The maps: an id that was not handed out names nothing.                  *)
(***************************************************************************)
StoreOK ==
    /\ nextID \in 0..MaxID
    /\ wh \subseteq Ids
    /\ whState \in [Ids -> {"none", "RUNNING", "STOPPED"}]
    /\ status \in [Ids -> {"none", "PENDING", "SUCCEEDED", "FAILED"}]
    /\ history \in Seq(Entry)
    /\ life \in [Ids -> {"none", "ACTIVE", "TRASHED"}]
    /\ name \in [Ids -> Name \cup {NoName}]
    /\ taken \in [Calls -> SUBSET Ids]
    /\ rivals \in [Ids -> SUBSET Ids]
    /\ \A i \in Ids : i > nextID => status[i] = "none" /\ life[i] = "none"

PagerOK == pager \in [paging : BOOLEAN, offset : Nat, due : SUBSET Ids]

SqlInv == HandlersOK(nextID) /\ StoreOK /\ PagerOK

LEMMA InvIsTyped == SqlInv => TypeOK
<1> SUFFICES ASSUME SqlInv
             PROVE  TypeOK
  OBVIOUS
<1>1. obj \in [Calls -> 0..MaxID]
  BY DEF SqlInv, HandlersOK, StoreOK
<1> QED
  BY <1>1 DEF SqlInv, HandlersOK, StoreOK, PagerOK, TypeOK, Locations, Wishes

-------------------------------------------------------------------------------
(***************************************************************************)
(* Handlers that move.                                                     *)
(***************************************************************************)
LEMMA EnterKeeps ==
    ASSUME NEW n \in Nat, NEW m \in Nat, n <= m, HandlersOK(n), NEW c \in Calls,
           NEW l \in Locations, NEW i \in 0..m, NEW w \in 0..MaxID, NEW wish \in Wishes,
           l = "resolve" => wish.name \in Name, l = "rename" => i # 0, Enter(c, l, i, w, wish)
    PROVE  /\ at' \in [Calls -> Locations]
           /\ obj' \in [Calls -> 0..m]
           /\ on' \in [Calls -> 0..MaxID]
           /\ want' \in [Calls -> Wishes]
           /\ \A d \in Calls : at'[d] = "resolve" => want'[d].name \in Name
           /\ \A d \in Calls : at'[d] = "rename" => obj'[d] # 0
<1> USE DEF HandlersOK, Enter
<1>1. at' \in [Calls -> Locations]
  OBVIOUS
<1>2. obj' \in [Calls -> 0..m]
  <2>1. \A d \in Calls : obj[d] \in 0..m
    OBVIOUS
  <2> QED
    BY <2>1
<1>3. on' \in [Calls -> 0..MaxID]
  OBVIOUS
<1>4. want' \in [Calls -> Wishes]
  OBVIOUS
<1>5. \A d \in Calls : at'[d] = "resolve" => want'[d].name \in Name
  OBVIOUS
<1>6. \A d \in Calls : at'[d] = "rename" => obj'[d] # 0
  OBVIOUS
<1> QED
  BY <1>1, <1>2, <1>3, <1>4, <1>5, <1>6

LEMMA NoWishIsOne == NoWish \in Wishes
BY DEF NoWish, Wishes

\* One that moves on for what it was working for.
LEMMA GotoKeeps ==
    ASSUME SqlInv, NEW c \in Calls, NEW l \in Locations, l \notin {"resolve", "rename"}, Goto(c, l),
           nextID' = nextID
    PROVE  HandlersOK(nextID)'
<1>1. nextID \in Nat /\ HandlersOK(nextID)
  BY DEF SqlInv, StoreOK
<1>2. obj[c] \in 0..nextID /\ on[c] \in 0..MaxID /\ want[c] \in Wishes
  BY <1>1 DEF HandlersOK
<1>3. Enter(c, l, obj[c], on[c], want[c])
  BY DEF Goto
<1>4. /\ at' \in [Calls -> Locations]
      /\ obj' \in [Calls -> 0..nextID]
      /\ on' \in [Calls -> 0..MaxID]
      /\ want' \in [Calls -> Wishes]
      /\ \A d \in Calls : at'[d] = "resolve" => want'[d].name \in Name
      /\ \A d \in Calls : at'[d] = "rename" => obj'[d] # 0
  BY <1>1, <1>2, <1>3, EnterKeeps
<1> QED
  BY <1>4 DEF HandlersOK

LEMMA ReturnKeeps ==
    ASSUME SqlInv, NEW c \in Calls, Return(c), nextID' \in nextID..MaxID
    PROVE  HandlersOK(nextID)'
<1>1. nextID \in Nat /\ nextID' \in Nat /\ nextID <= nextID' /\ HandlersOK(nextID)
  BY DEF SqlInv, StoreOK
<1>2. "idle" \in Locations /\ 0 \in 0..nextID' /\ 0 \in 0..MaxID
  BY <1>1 DEF Locations
<1>3. Enter(c, "idle", 0, 0, NoWish)
  BY DEF Return
<1>4. /\ at' \in [Calls -> Locations]
      /\ obj' \in [Calls -> 0..nextID']
      /\ on' \in [Calls -> 0..MaxID]
      /\ want' \in [Calls -> Wishes]
      /\ \A d \in Calls : at'[d] = "resolve" => want'[d].name \in Name
      /\ \A d \in Calls : at'[d] = "rename" => obj'[d] # 0
  BY <1>1, <1>2, <1>3, NoWishIsOne, EnterKeeps
<1> QED
  BY <1>4 DEF HandlersOK

\* One that begins something new.
LEMMA BeginKeeps ==
    ASSUME SqlInv, NEW c \in Calls, NEW l \in Locations, NEW i \in 0..nextID', NEW w \in 0..MaxID,
           NEW wish \in Wishes, l = "resolve" => wish.name \in Name, l = "rename" => i # 0,
           Enter(c, l, i, w, wish), nextID' \in nextID..MaxID
    PROVE  HandlersOK(nextID)'
<1>1. nextID \in Nat /\ nextID' \in Nat /\ nextID <= nextID' /\ HandlersOK(nextID)
  BY DEF SqlInv, StoreOK
<1>2. /\ at' \in [Calls -> Locations]
      /\ obj' \in [Calls -> 0..nextID']
      /\ on' \in [Calls -> 0..MaxID]
      /\ want' \in [Calls -> Wishes]
      /\ \A d \in Calls : at'[d] = "resolve" => want'[d].name \in Name
      /\ \A d \in Calls : at'[d] = "rename" => obj'[d] # 0
  BY <1>1, EnterKeeps
<1> QED
  BY <1>2 DEF HandlersOK

\* One that is through with the name of query q.
LEMMA WarehouseKeeps ==
    ASSUME SqlInv, NEW c \in Calls, NEW q \in 0..nextID', NEW w \in 0..MaxID,
           GotoWarehouse(c, q, w), nextID' \in nextID..MaxID
    PROVE  HandlersOK(nextID)'
<1>1. PICK l \in {"store", "warehouse"} : Enter(c, l, q, w, NoWish)
  BY DEF GotoWarehouse
<1>2. l \in Locations /\ l \notin {"resolve", "rename"}
  BY DEF Locations, QuerySteps
<1> QED
  BY <1>1, <1>2, NoWishIsOne, BeginKeeps

-------------------------------------------------------------------------------
(***************************************************************************)
(* Types and fresh ids, action by action.                                  *)
(***************************************************************************)
LEMMA InitSql == Init => SqlInv
<1> SUFFICES ASSUME Init
             PROVE  SqlInv
  OBVIOUS
<1>1. HandlersOK(nextID)
  BY NoWishIsOne DEF Init, HandlersOK, Locations, NoWish
<1>2. StoreOK
  BY DEF Init, StoreOK, Ids
<1>3. PagerOK
  BY DEF Init, PagerOK
<1> QED
  BY <1>1, <1>2, <1>3 DEF SqlInv

\* The handlers are as they were: warehouses, deletes and pages.
LEMMA HandlersStay == SqlInv /\ UNCHANGED calls /\ nextID' \in nextID..MaxID => HandlersOK(nextID)'
<1> SUFFICES ASSUME SqlInv, UNCHANGED calls, nextID' \in nextID..MaxID
             PROVE  HandlersOK(nextID)'
  OBVIOUS
<1>1. nextID \in Nat /\ HandlersOK(nextID)
  BY DEF SqlInv, StoreOK
<1>2. \A c \in Calls : obj[c] \in 0..nextID'
  BY <1>1 DEF HandlersOK
<1> QED
  BY <1>1, <1>2 DEF HandlersOK, calls

LEMMA WarehousesAreTyped ==
    SqlInv /\ (sqlCreateWarehouse \/ (\E w \in Ids : sqlDeleteWarehouse(w))
               \/ \E w \in Ids, s \in {"RUNNING", "STOPPED"} : SetWarehouseState(w, s)) => SqlInv'
<1> SUFFICES ASSUME SqlInv,
                    sqlCreateWarehouse \/ (\E w \in Ids : sqlDeleteWarehouse(w))
                    \/ \E w \in Ids, s \in {"RUNNING", "STOPPED"} : SetWarehouseState(w, s)
             PROVE  SqlInv'
  OBVIOUS
<1> USE DEF SqlInv, StoreOK, warehouses, queries, calls
<1>1. CASE sqlCreateWarehouse
  <2>1. nextID + 1 \in Ids /\ nextID' = nextID + 1 /\ nextID' \in nextID..MaxID
    BY <1>1 DEF sqlCreateWarehouse, CreateWarehouse, Ids
  <2>2. HandlersOK(nextID)'
    BY <1>1, <2>1, HandlersStay DEF sqlCreateWarehouse
  <2>3. StoreOK'
    BY <1>1, <2>1 DEF sqlCreateWarehouse, CreateWarehouse, Ids
  <2>4. PagerOK'
    BY <1>1 DEF sqlCreateWarehouse, PagerOK
  <2> QED
    BY <2>2, <2>3, <2>4
<1>2. CASE \E w \in Ids : sqlDeleteWarehouse(w)
  <2>1. HandlersOK(nextID)'
    BY <1>2, HandlersStay DEF sqlDeleteWarehouse
  <2> QED
    BY <1>2, <2>1 DEF sqlDeleteWarehouse, DeleteWarehouse, PagerOK
<1>3. CASE \E w \in Ids, s \in {"RUNNING", "STOPPED"} : SetWarehouseState(w, s)
  <2>1. HandlersOK(nextID)'
    BY <1>3, HandlersStay DEF SetWarehouseState
  <2> QED
    BY <1>3, <2>1 DEF SetWarehouseState, PagerOK
<1> QED
  BY <1>1, <1>2, <1>3

\* A step of a handler that writes no more than the status of its statement.
LEMMA StatusesAreTyped ==
    ASSUME SqlInv, NEW c \in Calls, NEW s \in {"PENDING", "SUCCEEDED", "FAILED"},
           nextID' \in nextID..MaxID, NEW i \in 0..nextID',
           status' = [status EXCEPT ![i] = s], HandlersOK(nextID)',
           UNCHANGED <<warehouses, queries, pager>>,
           history' \in Seq(Entry)
    PROVE  SqlInv'
<1> USE DEF SqlInv, StoreOK, warehouses, queries
<1>1. ASSUME NEW j \in Ids, j > nextID'
      PROVE  status'[j] = "none" /\ life'[j] = "none"
  <2>1. nextID \in Nat /\ nextID' \in Nat /\ j \in Nat /\ i \in Nat
    BY DEF Ids
  <2>2. j > nextID /\ j # i
    BY <2>1, <1>1
  <2>3. status[j] = "none" /\ life[j] = "none"
    BY <2>2
  <2> QED
    BY <2>2, <2>3
<1>2. nextID' \in 0..MaxID
  OBVIOUS
<1>3. status' \in [Ids -> {"none", "PENDING", "SUCCEEDED", "FAILED"}]
  OBVIOUS
<1>4. StoreOK'
  BY <1>1, <1>2, <1>3
<1>5. PagerOK'
  BY DEF PagerOK
<1> QED
  BY <1>4, <1>5

\* What a handler holds.
LEMMA HandlersHold ==
    ASSUME SqlInv, NEW c \in Calls
    PROVE  /\ obj[c] \in 0..nextID /\ on[c] \in 0..MaxID /\ want[c] \in Wishes
BY DEF SqlInv, StoreOK, HandlersOK, Ids

\* A step of a handler that writes to no map.
LEMMA MovesAreTyped ==
    ASSUME SqlInv, HandlersOK(nextID)',
           UNCHANGED <<nextID, warehouses, status, history, queries, pager>>
    PROVE  SqlInv'
BY DEF SqlInv, StoreOK, PagerOK, warehouses, queries

LEMMA SettleIsTyped ==
    ASSUME SqlInv, NEW c \in Calls, NEW s \in {"SUCCEEDED", "FAILED"}, Settle(c, s)
    PROVE  SqlInv'
<1>1. nextID' = nextID /\ nextID \in nextID..MaxID
  BY DEF Settle, SqlInv, StoreOK
<1>2. HandlersOK(nextID)'
  BY <1>1, GotoKeeps DEF Settle, Locations, StatementSteps
<1>3. obj[c] \in 0..nextID'
  BY <1>1, HandlersHold
<1>4. /\ status' = [status EXCEPT ![obj[c]] = s]
      /\ UNCHANGED <<warehouses, queries, pager>>
      /\ history' \in Seq(Entry)
  BY DEF Settle, SqlInv, StoreOK
<1> QED
  BY <1>1, <1>2, <1>3, <1>4, StatusesAreTyped

LEMMA StatementsAreTyped ==
    ASSUME SqlInv, NEW c \in Calls
    PROVE  /\ \A w \in Ids : sqlExecuteStatement(c, w) => SqlInv'
           /\ NewStatement(c) => SqlInv'
           /\ StatementRefused(c) => SqlInv'
           /\ StatementEmpty(c) => SqlInv'
           /\ StatementStarts(c) => SqlInv'
           /\ \A s \in {"SUCCEEDED", "FAILED"} : StatementAnswered(c, s) => SqlInv'
           /\ StatementSucceeds(c) => SqlInv'
<1>0. nextID \in nextID..MaxID /\ nextID \in Nat
  BY DEF SqlInv, StoreOK
<1>1. ASSUME NEW w \in Ids, sqlExecuteStatement(c, w)
      PROVE  SqlInv'
  <2>1. /\ Enter(c, "newStatement", 0, w, NoWish) /\ nextID' = nextID
        /\ UNCHANGED <<nextID, warehouses, status, history, queries, pager>>
    BY <1>1 DEF sqlExecuteStatement
  <2>2. "newStatement" \in Locations /\ 0 \in 0..nextID' /\ w \in 0..MaxID
    BY <1>0, <2>1 DEF Locations, Ids
  <2>3. HandlersOK(nextID)'
    BY <1>0, <2>1, <2>2, NoWishIsOne, BeginKeeps
  <2> QED
    BY <2>1, <2>3, MovesAreTyped
<1>2. ASSUME NewStatement(c)
      PROVE  SqlInv'
  <2>1. nextID' = nextID + 1 /\ nextID' \in nextID..MaxID /\ nextID + 1 \in 0..nextID'
    BY <1>0, <1>2 DEF NewStatement
  <2>2. /\ Enter(c, "check", nextID + 1, on[c], NoWish)
        /\ status' = [status EXCEPT ![nextID + 1] = "PENDING"]
        /\ UNCHANGED <<warehouses, queries, pager>>
        /\ history' \in Seq(Entry)
    BY <1>2 DEF NewStatement, SqlInv, StoreOK
  <2>3. HandlersOK(nextID)'
    <3>1. "check" \in Locations
      BY DEF Locations, StatementSteps
    <3> QED
      BY <2>1, <2>2, <3>1, HandlersHold, NoWishIsOne, BeginKeeps
  <2> QED
    BY <2>1, <2>2, <2>3, StatusesAreTyped
<1>3. ASSUME StatementRefused(c)
      PROVE  SqlInv'
  BY <1>3, SettleIsTyped DEF StatementRefused
<1>4. ASSUME StatementEmpty(c)
      PROVE  SqlInv'
  BY <1>4, SettleIsTyped DEF StatementEmpty
<1>5. ASSUME StatementStarts(c)
      PROVE  SqlInv'
  <2>1. PICK l \in {"service", "engine"} : Goto(c, l)
    BY <1>5 DEF StatementStarts
  <2>2. UNCHANGED <<nextID, warehouses, status, history, queries, pager>>
    BY <1>5 DEF StatementStarts
  <2>3. HandlersOK(nextID)'
    BY <2>1, <2>2, GotoKeeps DEF Locations, StatementSteps
  <2> QED
    BY <2>2, <2>3, MovesAreTyped
<1>6. ASSUME NEW s \in {"SUCCEEDED", "FAILED"}, StatementAnswered(c, s)
      PROVE  SqlInv'
  BY <1>6, SettleIsTyped DEF StatementAnswered
<1>7. ASSUME StatementSucceeds(c)
      PROVE  SqlInv'
  <2>1. /\ Goto(c, "register") /\ nextID' = nextID
        /\ status' = [status EXCEPT ![obj[c]] = "SUCCEEDED"]
        /\ UNCHANGED <<warehouses, queries, pager>>
        /\ history' \in Seq(Entry)
    BY <1>7 DEF StatementSucceeds, SqlInv, StoreOK
  <2>2. HandlersOK(nextID)'
    BY <2>1, GotoKeeps DEF Locations, StatementSteps
  <2>3. obj[c] \in 0..nextID'
    BY <2>1, HandlersHold
  <2> QED
    BY <1>0, <2>1, <2>2, <2>3, StatusesAreTyped
<1> QED
  BY <1>1, <1>2, <1>3, <1>4, <1>5, <1>6, <1>7

-------------------------------------------------------------------------------
(***************************************************************************)
(* The statements.  HistoryTellsTheOutcome is not inductive: a handler     *)
(* that stored a status after the entry was written, or two handlers with  *)
(* one statement, would break it.  So each statement in flight has one     *)
(* handler, is not in the history yet, and has the status that belongs to  *)
(* the place its handler is at.                                            *)
(***************************************************************************)
OneHandler ==
    \A c, d \in Calls :
        at[c] \in StatementSteps /\ at[d] \in StatementSteps /\ obj[c] = obj[d] => c = d

InProgress(c) ==
    /\ at[c] \in StatementSteps => obj[c] \in Ids \ Recorded
    /\ at[c] \in {"check", "service", "engine"} => status[obj[c]] = "PENDING"
    /\ at[c] = "register" => status[obj[c]] = "SUCCEEDED"
    /\ at[c] = "record" => status[obj[c]] \in {"SUCCEEDED", "FAILED"}

StatementInv ==
    /\ HistoryTellsTheOutcome
    /\ OneHandler
    /\ \A c \in Calls : InProgress(c)

LEMMA EndsAreTyped ==
    ASSUME SqlInv, StatementInv, NEW c \in Calls
    PROVE  /\ \A ok \in BOOLEAN : RegisterAnswered(c, ok) => SqlInv'
           /\ recordStatementHistory(c) => SqlInv'
<1>1. ASSUME NEW ok \in BOOLEAN, RegisterAnswered(c, ok)
      PROVE  SqlInv'
  <2>1. status[obj[c]] = "SUCCEEDED"
    BY <1>1 DEF RegisterAnswered, StatementInv, InProgress
  <2>2. CASE ok
    BY <1>1, <2>1, <2>2, SettleIsTyped DEF RegisterAnswered
  <2>3. CASE ~ok
    BY <1>1, <2>3, SettleIsTyped DEF RegisterAnswered
  <2> QED
    BY <2>2, <2>3
<1>2. ASSUME recordStatementHistory(c)
      PROVE  SqlInv'
  <2> DEFINE h == [id |-> obj[c],
                   status |-> IF status[obj[c]] = "SUCCEEDED" THEN "FINISHED" ELSE "FAILED"]
  <2>1. h \in Entry
    BY <1>2 DEF recordStatementHistory, StatementInv, InProgress, StatementSteps, Entry
  <2>2. history' = <<h>> \o history
    BY <1>2 DEF recordStatementHistory, RecordHistory
  <2>3. history' \in Seq(Entry)
    <3> HIDE DEF h
    <3> QED
      BY <2>1, <2>2 DEF SqlInv, StoreOK
  <2>4. UNCHANGED <<nextID, warehouses, status, queries, pager>> /\ Return(c)
    BY <1>2 DEF recordStatementHistory
  <2>5. HandlersOK(nextID)'
    <3>1. nextID' \in nextID..MaxID
      BY <2>4 DEF SqlInv, StoreOK
    <3> QED
      BY <2>4, <3>1, ReturnKeeps
  <2> QED
    BY <2>3, <2>4, <2>5 DEF SqlInv, StoreOK, PagerOK, warehouses, queries
<1> QED
  BY <1>1, <1>2

LEMMA NextSuffix ==
    ASSUME NEW w \in Wishes, w.name \in Name, w.name.n < MaxSuffix
    PROVE  /\ [w EXCEPT !.name.n = @ + 1] \in Wishes
           /\ [w EXCEPT !.name.n = @ + 1].name \in Name
<1> DEFINE e == [w.name EXCEPT !.n = @ + 1]
<1>1. e \in Name
  BY DEF Name
<1>2. [w EXCEPT !.name.n = @ + 1] = [w EXCEPT !.name = e]
  OBVIOUS
<1>3. [w EXCEPT !.name = e] \in Wishes /\ [w EXCEPT !.name = e].name = e
  <2> HIDE DEF e
  <2> QED
    BY <1>1 DEF Wishes
<1> QED
  BY <1>1, <1>2, <1>3

LEMMA QueriesMoveTyped ==
    ASSUME SqlInv, NEW c \in Calls
    PROVE  /\ \A w \in 0..MaxWarehouse, b \in Bases, auto \in BOOLEAN :
                 sqlCreateQuery(c, w, b, auto) => SqlInv'
           /\ \A q \in Ids, w \in 0..MaxWarehouse, b \in Bases, auto \in BOOLEAN :
                 sqlUpdateQuery(c, q, w, b, auto) => SqlInv'
           /\ NameIsFree(c) => SqlInv'
           /\ NameIsTaken(c) => SqlInv'
           /\ UpdateQuery(c) => SqlInv'
<1>0. nextID \in nextID..MaxID /\ nextID \in Nat
  BY DEF SqlInv, StoreOK
<1>1. ASSUME NEW b \in Bases, NEW auto \in BOOLEAN
      PROVE  Wish(b, auto) \in Wishes /\ Wish(b, auto).name \in Name
  BY DEF Wish, Wishes, Name
<1>2. ASSUME NEW w \in 0..MaxWarehouse, NEW b \in Bases, NEW auto \in BOOLEAN,
             sqlCreateQuery(c, w, b, auto)
      PROVE  SqlInv'
  <2>1. /\ Enter(c, "resolve", 0, 0, Wish(b, auto)) /\ nextID' = nextID
        /\ UNCHANGED <<nextID, warehouses, status, history, queries, pager>>
    BY <1>2 DEF sqlCreateQuery
  <2>2. "resolve" \in Locations /\ 0 \in 0..nextID' /\ 0 \in 0..MaxID
    BY <1>0, <2>1 DEF Locations, QuerySteps
  <2>3. HandlersOK(nextID)'
    BY <1>0, <1>1, <2>1, <2>2, BeginKeeps
  <2> QED
    BY <2>1, <2>3, MovesAreTyped
<1>3. ASSUME NEW q \in Ids, NEW w \in 0..MaxWarehouse, NEW b \in Bases, NEW auto \in BOOLEAN,
             sqlUpdateQuery(c, q, w, b, auto)
      PROVE  SqlInv'
  <2>1. /\ nextID' = nextID
        /\ UNCHANGED <<nextID, warehouses, status, history, queries, pager>>
    BY <1>3 DEF sqlUpdateQuery
  <2>2. "resolve" \in Locations /\ w \in 0..MaxID
    BY DEF Locations, QuerySteps
  <2>3. q \in 0..nextID'
    BY <1>3, <2>1 DEF sqlUpdateQuery, SqlInv, StoreOK, Ids
  <2>4. CASE Enter(c, "resolve", q, w, Wish(b, auto))
    <3>1. HandlersOK(nextID)'
      BY <1>0, <1>1, <2>1, <2>2, <2>3, <2>4, BeginKeeps
    <3> QED
      BY <2>1, <3>1, MovesAreTyped
  <2>5. CASE GotoWarehouse(c, q, w)
    <3>1. HandlersOK(nextID)'
      BY <1>0, <2>1, <2>2, <2>3, <2>5, WarehouseKeeps
    <3> QED
      BY <2>1, <3>1, MovesAreTyped
  <2> QED
    BY <1>3, <2>4, <2>5 DEF sqlUpdateQuery
<1>4. ASSUME NameIsFree(c)
      PROVE  SqlInv'
  <2>1. /\ UNCHANGED <<nextID, warehouses, status, history, queries, pager>>
        /\ nextID' = nextID
    BY <1>4 DEF NameIsFree
  <2> DEFINE l    == IF obj[c] = 0 THEN "create" ELSE "rename"
             wish == [want[c] EXCEPT !.auto = FALSE]
  <2>2. Enter(c, l, obj[c], on[c], wish)
    BY <1>4 DEF NameIsFree
  <2>3. wish \in Wishes /\ obj[c] \in 0..nextID' /\ on[c] \in 0..MaxID
    BY <2>1, HandlersHold DEF Wishes
  <2>4. l \in Locations /\ l # "resolve" /\ (l = "rename" => obj[c] # 0)
    BY DEF Locations, QuerySteps
  <2>5. HandlersOK(nextID)'
    <3> HIDE DEF l, wish
    <3> QED
      BY <1>0, <2>1, <2>2, <2>3, <2>4, BeginKeeps
  <2> QED
    BY <2>1, <2>5, MovesAreTyped
<1>5. ASSUME NameIsTaken(c)
      PROVE  SqlInv'
  <2>1. /\ UNCHANGED <<nextID, warehouses, status, history, queries, pager>>
        /\ nextID' = nextID /\ nextID' \in nextID..MaxID
    BY <1>0, <1>5 DEF NameIsTaken
  <2>2. HandlersOK(nextID)'
    <3>1. CASE Return(c)
      BY <2>1, <3>1, ReturnKeeps
    <3>2. CASE ~Return(c)
      <4>1. /\ Enter(c, "resolve", obj[c], on[c], [want[c] EXCEPT !.name.n = @ + 1])
            /\ want[c].name.n < MaxSuffix
        BY <1>5, <3>2 DEF NameIsTaken
      <4>2. want[c] \in Wishes /\ want[c].name \in Name
        BY <1>5 DEF NameIsTaken, SqlInv, HandlersOK
      <4>3. /\ [want[c] EXCEPT !.name.n = @ + 1] \in Wishes
            /\ [want[c] EXCEPT !.name.n = @ + 1].name \in Name
        BY <4>1, <4>2, NextSuffix
      <4>4. "resolve" \in Locations /\ obj[c] \in 0..nextID' /\ on[c] \in 0..MaxID
        BY <2>1, HandlersHold DEF Locations, QuerySteps
      <4> DEFINE wish == [want[c] EXCEPT !.name.n = @ + 1]
      <4>5. Enter(c, "resolve", obj[c], on[c], wish) /\ wish \in Wishes /\ wish.name \in Name
        BY <4>1, <4>3
      <4> HIDE DEF wish
      <4> QED
        BY <2>1, <4>4, <4>5, BeginKeeps
    <3> QED
      BY <3>1, <3>2
  <2> QED
    BY <2>1, <2>2, MovesAreTyped
<1>6. ASSUME UpdateQuery(c)
      PROVE  SqlInv'
  <2>1. /\ UNCHANGED <<nextID, warehouses, status, history, queries, pager>>
        /\ Return(c) /\ nextID' \in nextID..MaxID
    BY <1>0, <1>6 DEF UpdateQuery
  <2> QED
    BY <2>1, ReturnKeeps, MovesAreTyped
<1> QED
  BY <1>2, <1>3, <1>4, <1>5, <1>6

LEMMA NamesAreTyped ==
    ASSUME SqlInv, NEW c \in Calls, NEW q \in Ids, GiveName(c, q)
    PROVE  /\ name' \in [Ids -> Name \cup {NoName}]
           /\ taken' \in [Calls -> SUBSET Ids]
           /\ rivals' \in [Ids -> SUBSET Ids]
<1>1. want[c].name \in Name \cup {NoName}
  BY HandlersHold DEF Wishes
<1>2. /\ name' = [name EXCEPT ![q] = want[c].name]
      /\ taken' = [d \in Calls |->
             IF d = c THEN {}
             ELSE IF at[d] \in {"create", "rename"} /\ want[d].name = want[c].name
             THEN taken[d] \cup {q} ELSE taken[d] \ {q}]
      /\ rivals' = [i \in Ids |-> (IF i = q THEN taken[c] ELSE rivals[i]) \ {q}]
  BY DEF GiveName
<1>3. /\ name \in [Ids -> Name \cup {NoName}]
      /\ \A d \in Calls : taken[d] \in SUBSET Ids
      /\ \A i \in Ids : rivals[i] \in SUBSET Ids
  BY DEF SqlInv, StoreOK
<1> QED
  BY <1>1, <1>2, <1>3

LEMMA QueriesAreTyped ==
    ASSUME SqlInv, NEW c \in Calls
    PROVE  /\ CreateQuery(c) => SqlInv'
           /\ RenameQuery(c) => SqlInv'
           /\ MoveQuery(c) => SqlInv'
<1>0. nextID \in nextID..MaxID /\ nextID \in Nat
  BY DEF SqlInv, StoreOK
<1>1. ASSUME CreateQuery(c)
      PROVE  SqlInv'
  <2>1. /\ nextID' = nextID + 1 /\ nextID' \in nextID..MaxID /\ nextID + 1 \in Ids
        /\ Return(c) /\ UNCHANGED <<warehouses, status, history, pager>>
    BY <1>0, <1>1 DEF CreateQuery, Ids
  <2>2. HandlersOK(nextID)'
    BY <2>1, ReturnKeeps
  <2>4. life' = [life EXCEPT ![nextID + 1] = "ACTIVE"] /\ GiveName(c, nextID + 1)
    BY <1>1 DEF CreateQuery
  <2>5. /\ life' \in [Ids -> {"none", "ACTIVE", "TRASHED"}]
        /\ name' \in [Ids -> Name \cup {NoName}]
        /\ taken' \in [Calls -> SUBSET Ids]
        /\ rivals' \in [Ids -> SUBSET Ids]
    BY <2>1, <2>4, NamesAreTyped DEF SqlInv, StoreOK
  <2>6. \A i \in Ids : i > nextID' => status'[i] = "none" /\ life'[i] = "none"
    BY <1>0, <2>1, <2>4 DEF SqlInv, StoreOK, Ids
  <2> QED
    BY <2>1, <2>2, <2>5, <2>6 DEF SqlInv, StoreOK, PagerOK, warehouses
<1>2. ASSUME RenameQuery(c)
      PROVE  SqlInv'
  <2>1. /\ UNCHANGED <<nextID, warehouses, status, history, life, pager>>
        /\ GiveName(c, obj[c]) /\ GotoWarehouse(c, obj[c], on[c]) /\ at[c] = "rename"
    BY <1>2 DEF RenameQuery
  <2>2. obj[c] \in 0..nextID' /\ on[c] \in 0..MaxID /\ nextID' \in nextID..MaxID
    BY <1>0, <2>1, HandlersHold
  <2>3. HandlersOK(nextID)'
    BY <2>1, <2>2, WarehouseKeeps
  <2>4. obj[c] \in Ids
    BY <2>1, <2>2 DEF SqlInv, HandlersOK, StoreOK, Ids
  <2>5. /\ name' \in [Ids -> Name \cup {NoName}]
        /\ taken' \in [Calls -> SUBSET Ids]
        /\ rivals' \in [Ids -> SUBSET Ids]
    BY <2>1, <2>4, NamesAreTyped
  <2> QED
    BY <2>1, <2>3, <2>5 DEF SqlInv, StoreOK, PagerOK, warehouses
<1>3. ASSUME MoveQuery(c)
      PROVE  SqlInv'
  <2>1. /\ UNCHANGED <<nextID, warehouses, status, history, queries, pager>>
        /\ nextID' = nextID /\ nextID' \in nextID..MaxID
    BY <1>0, <1>3 DEF MoveQuery
  <2>2. HandlersOK(nextID)'
    <3>1. CASE Return(c)
      BY <2>1, <3>1, ReturnKeeps
    <3>2. CASE GotoWarehouse(c, obj[c], 0)
      <4>1. obj[c] \in 0..nextID' /\ 0 \in 0..MaxID
        BY <2>1, HandlersHold
      <4> QED
        BY <2>1, <3>2, <4>1, WarehouseKeeps
    <3> QED
      BY <1>3, <3>1, <3>2 DEF MoveQuery
  <2> QED
    BY <2>1, <2>2, MovesAreTyped
<1> QED
  BY <1>1, <1>2, <1>3

LEMMA DeleteIsTyped == \A q \in Ids : SqlInv /\ sqlDeleteQuery(q) => SqlInv'
<1> SUFFICES ASSUME NEW q \in Ids, SqlInv, sqlDeleteQuery(q)
             PROVE  SqlInv'
  OBVIOUS
<1>1. HandlersOK(nextID)'
  BY HandlersStay DEF sqlDeleteQuery, SqlInv, StoreOK
<1>2. life' = [life EXCEPT ![q] = "TRASHED"] /\ life[q] = "ACTIVE"
  BY DEF sqlDeleteQuery, TrashQuery
<1>3. \A i \in Ids : i > nextID => life'[i] = "none"
  BY <1>2 DEF SqlInv, StoreOK
<1>4. life' \in [Ids -> {"none", "ACTIVE", "TRASHED"}]
  BY <1>2 DEF SqlInv, StoreOK
<1> QED
  BY <1>1, <1>3, <1>4 DEF sqlDeleteQuery, SqlInv, StoreOK, PagerOK, warehouses

\* A page: where it ends, and what it shows.
LEMMA PageOfHistory ==
    ASSUME SqlInv, NEW offset \in Nat
    PROVE  /\ ListHistory(offset).next \in Nat
           /\ ListHistory(offset).more \in BOOLEAN
           /\ ListHistory(offset).more <=> ListHistory(offset).next < Len(history)
           /\ \A k \in DOMAIN history :
                 offset < k /\ history[k].id \notin ListHistory(offset).items
                     => ListHistory(offset).next < k
<1>1. Len(history) \in Nat /\ DOMAIN history = 1..Len(history)
  BY DEF SqlInv, StoreOK
<1> DEFINE L    == Len(history)
           from == IF offset > L THEN L ELSE offset
           end  == IF from + PageSize > L THEN L ELSE from + PageSize
<1>2. /\ ListHistory(offset).items = { history[i].id : i \in (from + 1)..end }
      /\ ListHistory(offset).next = end
      /\ ListHistory(offset).more = (end < L)
  BY DEF ListHistory
<1>3. L \in Nat /\ from \in Nat /\ end \in Nat /\ from <= end
  BY <1>1
<1>4. ASSUME NEW k \in DOMAIN history, offset < k, k <= end
      PROVE  k \in (from + 1)..end
  BY <1>1, <1>3, <1>4
<1>5. ASSUME NEW k \in DOMAIN history, offset < k,
             history[k].id \notin ListHistory(offset).items
      PROVE  end < k
  <2>1. k \in Nat
    BY <1>1
  <2> HIDE DEF from, end
  <2>2. k \in (from + 1)..end => history[k].id \in ListHistory(offset).items
    BY <1>2
  <2> QED
    BY <1>3, <1>4, <1>5, <2>1, <2>2
<1>6. ListHistory(offset).more \in BOOLEAN
  BY <1>2
<1>7. ListHistory(offset).more <=> end < L
  BY <1>2
<1> HIDE DEF from, end
<1>8. ListHistory(offset).next \in Nat
  BY <1>2, <1>3
<1>9. ListHistory(offset).more <=> ListHistory(offset).next < Len(history)
  BY <1>2, <1>7
<1>10. \A k \in DOMAIN history :
          offset < k /\ history[k].id \notin ListHistory(offset).items
              => ListHistory(offset).next < k
  BY <1>2, <1>5
<1> QED
  BY <1>6, <1>8, <1>9, <1>10

LEMMA PagingIsTyped == SqlInv /\ sqlListQueryHistory => SqlInv'
<1> SUFFICES ASSUME SqlInv, sqlListQueryHistory
             PROVE  SqlInv'
  OBVIOUS
<1> DEFINE page == ListHistory(IF pager.paging THEN pager.offset ELSE 0)
<1>1. pager.paging \in BOOLEAN /\ pager.offset \in Nat /\ pager.due \in SUBSET Ids
  BY DEF SqlInv, PagerOK
<1>2. page.next \in Nat /\ page.more \in BOOLEAN
  BY <1>1, PageOfHistory
<1>3. Recorded \in SUBSET Ids
  <2>1. \A k \in DOMAIN history : history[k] \in Entry
    BY DEF SqlInv, StoreOK
  <2>2. \A h \in Entry : h.id \in Ids
    BY DEF Entry
  <2> QED
    BY <2>1, <2>2 DEF Recorded
<1>4. pager' = [paging |-> page.more,
                offset |-> IF page.more THEN page.next ELSE 0,
                due    |-> (IF pager.paging THEN pager.due ELSE Recorded) \ page.items]
  BY DEF sqlListQueryHistory
<1>5. PagerOK'
  <2> HIDE DEF page
  <2> QED
    BY <1>1, <1>2, <1>3, <1>4 DEF PagerOK
<1>6. HandlersOK(nextID)'
  BY HandlersStay DEF sqlListQueryHistory, SqlInv, StoreOK
<1> QED
  BY <1>5, <1>6 DEF sqlListQueryHistory, SqlInv, StoreOK, warehouses, queries

LEMMA NextIsTyped == SqlInv /\ StatementInv /\ [Next]_vars => SqlInv'
<1> SUFFICES ASSUME SqlInv, StatementInv, [Next]_vars
             PROVE  SqlInv'
  OBVIOUS
<1>1. ASSUME NEW c \in Calls, Proceed(c)
      PROVE  SqlInv'
  BY <1>1, StatementsAreTyped, EndsAreTyped, QueriesMoveTyped, QueriesAreTyped DEF Proceed
<1>2. ASSUME NEW c \in Calls, NEW w \in 0..MaxWarehouse, NEW b \in Bases, NEW auto \in BOOLEAN,
             sqlCreateQuery(c, w, b, auto) \/ \E q \in Ids : sqlUpdateQuery(c, q, w, b, auto)
      PROVE  SqlInv'
  <2>1. c \in Calls
    OBVIOUS
  <2> QED
    BY <1>2, <2>1, QueriesMoveTyped
<1>3. ASSUME NEW c \in Calls, NEW w \in Ids, sqlExecuteStatement(c, w)
      PROVE  SqlInv'
  BY <1>3, StatementsAreTyped
<1>4. CASE Request
  BY <1>2, <1>3, <1>4, WarehousesAreTyped, DeleteIsTyped, PagingIsTyped DEF Request
<1>5. CASE UNCHANGED vars
  <2>1. HandlersOK(nextID)'
    BY <1>5, HandlersStay DEF vars, calls, SqlInv, StoreOK
  <2> QED
    BY <1>5, <2>1, MovesAreTyped DEF vars, warehouses, queries
<1> QED
  BY <1>1, <1>4, <1>5 DEF Next

-------------------------------------------------------------------------------
(***************************************************************************)
(* The statements, step by step.                                           *)
(***************************************************************************)
LEMMA InitStatements == Init => StatementInv
BY DEF Init, StatementInv, HistoryTellsTheOutcome, OneHandler, InProgress, StatementSteps, Recorded

(***************************************************************************)
(* A step that touches no statement: those in flight stay with their       *)
(* handlers, at most one goes on from the check to the engine.             *)
(***************************************************************************)
LEMMA StatementsUndisturbed ==
    ASSUME StatementInv, UNCHANGED <<status, history>>,
           \A d \in Calls : at'[d] \in StatementSteps <=> at[d] \in StatementSteps,
           \A d \in Calls : at[d] \in StatementSteps =>
               /\ obj'[d] = obj[d]
               /\ \/ at'[d] = at[d]
                  \/ at[d] = "check" /\ at'[d] \in {"service", "engine"}
    PROVE  StatementInv'
<1>1. HistoryTellsTheOutcome'
  <2>1. \A i \in Ids : InFlight(i) => InFlight(i)'
    BY DEF InFlight
  <2> QED
    BY <2>1 DEF StatementInv, HistoryTellsTheOutcome, Recorded
<1>2. OneHandler'
  BY DEF StatementInv, OneHandler
<1>3. \A c \in Calls : InProgress(c)'
  <2> SUFFICES ASSUME NEW c \in Calls
               PROVE  InProgress(c)'
    OBVIOUS
  <2>1. CASE at[c] \in StatementSteps
    BY <2>1 DEF StatementInv, InProgress, Recorded, StatementSteps
  <2>2. CASE at[c] \notin StatementSteps
    BY <2>2 DEF StatementInv, InProgress, StatementSteps
  <2> QED
    BY <2>1, <2>2
<1> QED
  BY <1>1, <1>2, <1>3 DEF StatementInv

(***************************************************************************)
(* A step that settles the statement of handler c, or marks it SUCCEEDED.  *)
(***************************************************************************)
LEMMA StatementSettles ==
    ASSUME SqlInv, StatementInv, NEW c \in Calls, at[c] \in StatementSteps,
           NEW s \in {"SUCCEEDED", "FAILED"}, NEW l \in {"register", "record"},
           l = "register" => s = "SUCCEEDED",
           status' = [status EXCEPT ![obj[c]] = s], UNCHANGED history, Goto(c, l)
    PROVE  StatementInv'
<1>1. obj[c] \in Ids \ Recorded /\ status \in [Ids -> {"none", "PENDING", "SUCCEEDED", "FAILED"}]
      /\ at \in [Calls -> Locations] /\ obj \in [Calls -> 0..nextID]
  BY DEF StatementInv, InProgress, SqlInv, StoreOK, HandlersOK
<1>2. at' = [at EXCEPT ![c] = l] /\ \A d \in Calls : obj'[d] = obj[d]
  BY <1>1 DEF Goto, Enter
<1>3. l \in StatementSteps /\ l \notin {"check", "service", "engine"}
  BY DEF StatementSteps
<1>4. \A d \in Calls : at'[d] \in StatementSteps <=> at[d] \in StatementSteps
  BY <1>1, <1>2, <1>3
<1>5. OneHandler'
  BY <1>2, <1>4 DEF StatementInv, OneHandler
<1>6. \A k \in DOMAIN history : history[k].id # obj[c]
  BY <1>1 DEF Recorded
<1>7. HistoryTellsTheOutcome'
  <2>1. \A i \in Ids : InFlight(i) => InFlight(i)'
    BY <1>2, <1>4 DEF InFlight
  <2>2. \A k \in DOMAIN history : status'[history[k].id] = status[history[k].id]
    BY <1>1, <1>6
  <2>3. \A i \in Ids : i # obj[c] => status'[i] = status[i]
    BY <1>1
  <2>4. InFlight(obj[c])
    BY DEF InFlight
  <2> QED
    BY <2>1, <2>2, <2>3, <2>4 DEF StatementInv, HistoryTellsTheOutcome, Recorded
<1>8. ASSUME NEW d \in Calls
      PROVE  InProgress(d)'
  <2>1. CASE d = c
    <3>1. at'[d] = l /\ obj'[d] = obj[c] /\ status'[obj[c]] = s
      BY <1>1, <1>2, <2>1
    <3> QED
      BY <1>1, <1>3, <3>1 DEF InProgress, Recorded
  <2>2. CASE d # c
    <3>1. at'[d] = at[d] /\ obj'[d] = obj[d]
      BY <1>1, <1>2, <2>2
    <3>2. at[d] \in StatementSteps => status'[obj[d]] = status[obj[d]]
      BY <1>1, <2>2 DEF StatementInv, OneHandler
    <3>3. InProgress(d)
      BY DEF StatementInv
    <3> QED
      BY <3>1, <3>2, <3>3 DEF InProgress, Recorded, StatementSteps
  <2> QED
    BY <2>1, <2>2
<1> QED
  BY <1>5, <1>7, <1>8 DEF StatementInv

LEMMA NewStatementKeeps ==
    ASSUME SqlInv, StatementInv, NEW c \in Calls, NewStatement(c)
    PROVE  StatementInv'
<1> DEFINE new == nextID + 1
<1>1. /\ at \in [Calls -> Locations] /\ obj \in [Calls -> 0..nextID]
      /\ status \in [Ids -> {"none", "PENDING", "SUCCEEDED", "FAILED"}]
      /\ nextID \in Nat /\ new \in Ids
  BY DEF SqlInv, HandlersOK, StoreOK, NewStatement, Ids
<1>2. /\ at[c] = "newStatement" /\ UNCHANGED history
      /\ status' = [status EXCEPT ![new] = "PENDING"]
      /\ at' = [at EXCEPT ![c] = "check"]
      /\ obj' = [obj EXCEPT ![c] = new]
  BY DEF NewStatement, Enter
<1>3. \A d \in Calls : obj[d] # new
  BY <1>1
<1>4. status[new] = "none"
  BY <1>1 DEF SqlInv, StoreOK
<1> HIDE DEF new
<1>5. \A k \in DOMAIN history : history[k].id # new
  <2>1. ASSUME NEW k \in DOMAIN history
        PROVE  status[history[k].id] # "none"
    BY DEF StatementInv, HistoryTellsTheOutcome
  <2> QED
    BY <1>4, <2>1
<1>6. \A d \in Calls : d # c => at'[d] = at[d] /\ obj'[d] = obj[d]
  BY <1>1, <1>2
<1>7. at'[c] = "check" /\ obj'[c] = new /\ status'[new] = "PENDING"
  BY <1>1, <1>2
<1>8. \A i \in Ids : i # new => status'[i] = status[i]
  BY <1>1, <1>2
<1>9. HistoryTellsTheOutcome'
  <2>1. \A i \in Ids : InFlight(i) => InFlight(i)'
    BY <1>2, <1>6 DEF InFlight, StatementSteps
  <2>2. \A i \in Ids : i = new => InFlight(i)'
    BY <1>7 DEF InFlight, StatementSteps
  <2>3. \A k \in DOMAIN history : status'[history[k].id] = status[history[k].id]
    BY <1>2, <1>5, <1>1
  <2> QED
    BY <1>2, <1>8, <2>1, <2>2, <2>3 DEF StatementInv, HistoryTellsTheOutcome, Recorded
<1>10. OneHandler'
  <2> SUFFICES ASSUME NEW d \in Calls, NEW e \in Calls, at'[d] \in StatementSteps,
                      at'[e] \in StatementSteps, obj'[d] = obj'[e]
               PROVE  d = e
    BY DEF OneHandler
  <2>1. CASE d = c
    BY <1>3, <1>6, <1>7, <2>1
  <2>2. CASE e = c
    BY <1>3, <1>6, <1>7, <2>2
  <2>3. CASE d # c /\ e # c
    BY <1>6, <2>3 DEF StatementInv, OneHandler
  <2> QED
    BY <2>1, <2>2, <2>3
<1>11. ASSUME NEW d \in Calls
       PROVE  InProgress(d)'
  <2>1. CASE d = c
    BY <1>1, <1>2, <1>5, <1>7, <2>1 DEF InProgress, Recorded, StatementSteps
  <2>2. CASE d # c
    <3>1. InProgress(d) /\ at'[d] = at[d] /\ obj'[d] = obj[d] /\ obj[d] # new
      BY <1>3, <1>6, <2>2 DEF StatementInv
    <3>2. obj[d] \in Ids => status'[obj[d]] = status[obj[d]]
      BY <1>8, <3>1
    <3> QED
      BY <1>2, <3>1, <3>2 DEF InProgress, Recorded, StatementSteps
  <2> QED
    BY <2>1, <2>2
<1> QED
  BY <1>9, <1>10, <1>11 DEF StatementInv

\* An entry put in front.
LEMMA InFront ==
    ASSUME SqlInv, NEW h \in Entry
    PROVE  /\ DOMAIN (<<h>> \o history) = 1..(Len(history) + 1)
           /\ (<<h>> \o history)[1] = h
           /\ \A k \in DOMAIN history : k + 1 \in 1..(Len(history) + 1)
                                        /\ (<<h>> \o history)[k + 1] = history[k]
           /\ \A k \in 1..(Len(history) + 1) :
                 k # 1 => k - 1 \in DOMAIN history /\ (<<h>> \o history)[k] = history[k - 1]
<1>1. history \in Seq(Entry) /\ Len(history) \in Nat /\ DOMAIN history = 1..Len(history)
  BY DEF SqlInv, StoreOK
<1> QED
  BY <1>1

LEMMA RecordKeeps ==
    ASSUME SqlInv, StatementInv, NEW c \in Calls, recordStatementHistory(c)
    PROVE  StatementInv'
<1> DEFINE h == [id |-> obj[c],
                 status |-> IF status[obj[c]] = "SUCCEEDED" THEN "FINISHED" ELSE "FAILED"]
<1>1. /\ at \in [Calls -> Locations] /\ obj \in [Calls -> 0..nextID]
      /\ history \in Seq(Entry)
  BY DEF SqlInv, HandlersOK, StoreOK
<1>2. /\ at[c] = "record" /\ UNCHANGED status
      /\ history' = <<h>> \o history
      /\ at' = [at EXCEPT ![c] = "idle"]
      /\ obj' = [obj EXCEPT ![c] = 0]
  BY DEF recordStatementHistory, RecordHistory, Return, Enter
<1>3. obj[c] \in Ids \ Recorded /\ status[obj[c]] \in {"SUCCEEDED", "FAILED"} /\ at[c] \in StatementSteps
  BY <1>2 DEF StatementInv, InProgress, StatementSteps
<1>4. /\ h \in Entry /\ h.id = obj[c]
      /\ status[h.id] = IF h.status = "FINISHED" THEN "SUCCEEDED" ELSE "FAILED"
  BY <1>3 DEF Entry
<1> HIDE DEF h
<1>5. /\ DOMAIN history' = 1..(Len(history) + 1)
      /\ history'[1] = h
      /\ \A k \in DOMAIN history : k + 1 \in DOMAIN history' /\ history'[k + 1] = history[k]
      /\ \A k \in DOMAIN history' :
            k # 1 => k - 1 \in DOMAIN history /\ history'[k] = history[k - 1]
  BY <1>2, <1>4, InFront
<1>6. Recorded' = Recorded \cup {obj[c]}
  <2>1. 1 \in DOMAIN history'
    BY <1>1, <1>5
  <2>2. Recorded' \subseteq Recorded \cup {obj[c]}
    BY <1>4, <1>5 DEF Recorded
  <2>3. Recorded \subseteq Recorded'
    BY <1>5 DEF Recorded
  <2>4. obj[c] \in Recorded'
    BY <1>4, <1>5, <2>1 DEF Recorded
  <2> QED
    BY <2>2, <2>3, <2>4
<1>7. \A d \in Calls : d # c => at'[d] = at[d] /\ obj'[d] = obj[d]
  BY <1>1, <1>2
<1>8. at'[c] = "idle"
  BY <1>1, <1>2
<1>9. HistoryTellsTheOutcome'
  <2>1. ASSUME NEW j \in DOMAIN history', NEW k \in DOMAIN history', history'[j].id = history'[k].id
        PROVE  j = k
    <3>0. j \in Int /\ k \in Int
      BY <1>5
    <3>1. CASE j = 1 /\ k = 1
      BY <3>1
    <3>2. CASE j = 1 /\ k # 1
      BY <1>3, <1>4, <1>5, <2>1, <3>2 DEF Recorded
    <3>3. CASE j # 1 /\ k = 1
      BY <1>3, <1>4, <1>5, <2>1, <3>3 DEF Recorded
    <3>4. CASE j # 1 /\ k # 1
      <4>1. j - 1 = k - 1
        BY <1>5, <2>1, <3>4 DEF StatementInv, HistoryTellsTheOutcome
      <4> QED
        BY <3>0, <4>1
    <3> QED
      BY <3>1, <3>2, <3>3, <3>4
  <2>2. ASSUME NEW k \in DOMAIN history'
        PROVE  status'[history'[k].id] = IF history'[k].status = "FINISHED" THEN "SUCCEEDED" ELSE "FAILED"
    <3>1. CASE k = 1
      BY <1>2, <1>4, <1>5, <3>1
    <3>2. CASE k # 1
      BY <1>2, <1>5, <3>2 DEF StatementInv, HistoryTellsTheOutcome
    <3> QED
      BY <3>1, <3>2
  <2>3. ASSUME NEW i \in Ids, status'[i] # "none", ~InFlight(i)'
        PROVE  i \in Recorded'
    <3>1. CASE i = obj[c]
      BY <1>6, <3>1
    <3>2. CASE i # obj[c]
      <4>1. ~InFlight(i)
        BY <1>7, <2>3, <3>2 DEF InFlight
      <4> QED
        BY <1>2, <1>6, <2>3, <4>1 DEF StatementInv, HistoryTellsTheOutcome
    <3> QED
      BY <3>1, <3>2
  <2> QED
    BY <2>1, <2>2, <2>3 DEF HistoryTellsTheOutcome
<1>10. OneHandler'
  BY <1>7, <1>8 DEF StatementInv, OneHandler, StatementSteps
<1>11. ASSUME NEW d \in Calls
       PROVE  InProgress(d)'
  <2>1. CASE d = c
    BY <1>8, <2>1 DEF InProgress, StatementSteps
  <2>2. CASE d # c
    <3>1. InProgress(d) /\ at'[d] = at[d] /\ obj'[d] = obj[d]
      BY <1>7, <2>2 DEF StatementInv
    <3>2. at[d] \in StatementSteps => obj[d] # obj[c]
      BY <1>3, <2>2 DEF StatementInv, OneHandler
    <3> QED
      BY <1>2, <1>6, <3>1, <3>2 DEF InProgress, StatementSteps
  <2> QED
    BY <2>1, <2>2
<1> QED
  BY <1>9, <1>10, <1>11 DEF StatementInv

LEMMA NextKeepsStatements == SqlInv /\ StatementInv /\ [Next]_vars => StatementInv'
<1> SUFFICES ASSUME SqlInv, StatementInv, [Next]_vars
             PROVE  StatementInv'
  OBVIOUS
<1>0. at \in [Calls -> Locations] /\ obj \in [Calls -> 0..nextID]
  BY DEF SqlInv, HandlersOK
<1>1. CASE UNCHANGED <<status, history, at, obj>>
  BY <1>1, StatementsUndisturbed
\* A handler that is at no statement before the step and after it.
<1>2. ASSUME NEW c \in Calls, NEW l \in Locations \ StatementSteps, NEW i,
             at[c] \notin StatementSteps, UNCHANGED <<status, history>>,
             at' = [at EXCEPT ![c] = l], obj' = [obj EXCEPT ![c] = i]
      PROVE  StatementInv'
  <2>1. /\ \A d \in Calls : d # c => at'[d] = at[d] /\ obj'[d] = obj[d]
        /\ at'[c] = l
    BY <1>0, <1>2
  <2>2. \A d \in Calls : at'[d] \in StatementSteps <=> at[d] \in StatementSteps
    BY <1>2, <2>1
  <2>3. \A d \in Calls : at[d] \in StatementSteps => obj'[d] = obj[d] /\ at'[d] = at[d]
    BY <1>2, <2>1
  <2> QED
    BY <1>2, <2>2, <2>3, StatementsUndisturbed
<1>3. ASSUME NEW c \in Calls, NewStatement(c) \/ recordStatementHistory(c)
      PROVE  StatementInv'
  BY <1>3, NewStatementKeeps, RecordKeeps
<1>4. ASSUME NEW c \in Calls, NEW s \in {"SUCCEEDED", "FAILED"}, Settle(c, s),
             at[c] \in StatementSteps
      PROVE  StatementInv'
  BY <1>4, StatementSettles DEF Settle
<1>5. ASSUME NEW c \in Calls, StatementStarts(c)
      PROVE  StatementInv'
  <2>1. PICK l \in {"service", "engine"} : Goto(c, l)
    BY <1>5 DEF StatementStarts
  <2>2. /\ UNCHANGED <<status, history>> /\ at[c] = "check"
        /\ \A d \in Calls : obj'[d] = obj[d]
        /\ at' = [at EXCEPT ![c] = l]
    BY <1>0, <1>5, <2>1 DEF StatementStarts, Goto, Enter
  <2>3. at'[c] = l /\ \A d \in Calls : d # c => at'[d] = at[d]
    BY <1>0, <2>2
  <2>4. \A d \in Calls : at'[d] \in StatementSteps <=> at[d] \in StatementSteps
    BY <2>2, <2>3 DEF StatementSteps
  <2>5. \A d \in Calls : at[d] \in StatementSteps =>
               /\ obj'[d] = obj[d]
               /\ \/ at'[d] = at[d]
                  \/ at[d] = "check" /\ at'[d] \in {"service", "engine"}
    BY <2>2, <2>3
  <2> QED
    BY <2>2, <2>4, <2>5, StatementsUndisturbed
<1>6. ASSUME NEW c \in Calls, StatementSucceeds(c)
      PROVE  StatementInv'
  <2>1. /\ at[c] \in StatementSteps /\ status' = [status EXCEPT ![obj[c]] = "SUCCEEDED"]
        /\ Goto(c, "register") /\ UNCHANGED history
    BY <1>6 DEF StatementSucceeds, StatementSteps
  <2> QED
    BY <2>1, StatementSettles
<1>7. ASSUME NEW c \in Calls, NEW ok \in BOOLEAN, RegisterAnswered(c, ok)
      PROVE  StatementInv'
  <2>1. status[obj[c]] = "SUCCEEDED" /\ at[c] \in StatementSteps
    BY <1>7 DEF RegisterAnswered, StatementInv, InProgress, StatementSteps
  <2> QED
    BY <1>4, <1>7, <2>1 DEF RegisterAnswered
<1>8. ASSUME NEW c \in Calls,
             StatementRefused(c) \/ StatementEmpty(c)
             \/ \E s \in {"SUCCEEDED", "FAILED"} : StatementAnswered(c, s)
      PROVE  StatementInv'
  <2>1. at[c] \in StatementSteps
    BY <1>8 DEF StatementRefused, StatementEmpty, StatementAnswered, StatementSteps
  <2>2. \E s \in {"SUCCEEDED", "FAILED"} : Settle(c, s)
    BY <1>8 DEF StatementRefused, StatementEmpty, StatementAnswered
  <2> QED
    BY <1>4, <2>1, <2>2
<1>9. ASSUME NEW c \in Calls,
             NameIsFree(c) \/ NameIsTaken(c) \/ CreateQuery(c) \/ RenameQuery(c)
             \/ MoveQuery(c) \/ UpdateQuery(c)
      PROVE  StatementInv'
  <2>1. at[c] \in QuerySteps /\ UNCHANGED <<status, history>>
    BY <1>9 DEF NameIsFree, NameIsTaken, CreateQuery, RenameQuery, MoveQuery, UpdateQuery, QuerySteps
  <2>2. \E l \in QuerySteps \cup {"idle"}, i \in {0, obj[c]} :
           at' = [at EXCEPT ![c] = l] /\ obj' = [obj EXCEPT ![c] = i]
    <3>1. CASE NameIsFree(c)
      BY <3>1 DEF NameIsFree, Goto, Enter, QuerySteps
    <3>2. CASE NameIsTaken(c)
      BY <3>2 DEF NameIsTaken, Return, Enter, QuerySteps
    <3>3. CASE CreateQuery(c)
      BY <3>3 DEF CreateQuery, Return, Enter
    <3>4. CASE RenameQuery(c)
      BY <3>4 DEF RenameQuery, GotoWarehouse, Enter, QuerySteps
    <3>5. CASE MoveQuery(c)
      BY <3>5 DEF MoveQuery, GotoWarehouse, Return, Enter, QuerySteps
    <3>6. CASE UpdateQuery(c)
      BY <3>6 DEF UpdateQuery, Return, Enter
    <3> QED
      BY <1>9, <3>1, <3>2, <3>3, <3>4, <3>5, <3>6
  <2>3. (QuerySteps \cup {"idle"}) \subseteq Locations \ StatementSteps
    BY DEF QuerySteps, StatementSteps, Locations
  <2>4. at[c] \notin StatementSteps
    BY <2>1 DEF QuerySteps, StatementSteps
  <2> QED
    BY <1>2, <2>1, <2>2, <2>3, <2>4
<1>10. ASSUME NEW c \in Calls, Proceed(c)
       PROVE  StatementInv'
  BY <1>3, <1>5, <1>6, <1>7, <1>8, <1>9, <1>10 DEF Proceed
\* A request that takes a handler.
<1>11. ASSUME NEW c \in Calls, at[c] = "idle",
              NEW l \in {"newStatement", "resolve", "warehouse", "store"}, NEW i, NEW w, NEW wish,
              Enter(c, l, i, w, wish), UNCHANGED <<status, history>>
       PROVE  StatementInv'
  <2>1. l \in Locations \ StatementSteps /\ at[c] \notin StatementSteps
    BY <1>11 DEF Locations, QuerySteps, StatementSteps
  <2> QED
    BY <1>2, <1>11, <2>1 DEF Enter
<1>12. CASE Request
  <2>1. CASE sqlCreateWarehouse \/ (\E w \in Ids : sqlDeleteWarehouse(w))
             \/ \E w \in Ids, s \in {"RUNNING", "STOPPED"} : SetWarehouseState(w, s)
    BY <1>1, <2>1 DEF sqlCreateWarehouse, sqlDeleteWarehouse, SetWarehouseState, calls
  <2>2. CASE \E c \in Calls, w \in Ids : sqlExecuteStatement(c, w)
    BY <1>11, <2>2 DEF sqlExecuteStatement
  <2>3. ASSUME NEW c \in Calls, NEW w \in 0..MaxWarehouse, NEW b \in Bases, NEW auto \in BOOLEAN,
               sqlCreateQuery(c, w, b, auto) \/ \E q \in Ids : sqlUpdateQuery(c, q, w, b, auto)
        PROVE  StatementInv'
    <3>1. c \in Calls
      OBVIOUS
    <3>2. CASE sqlCreateQuery(c, w, b, auto)
      BY <1>11, <3>1, <3>2 DEF sqlCreateQuery
    <3>3. CASE \E q \in Ids : sqlUpdateQuery(c, q, w, b, auto)
      BY <1>11, <3>1, <3>3 DEF sqlUpdateQuery, GotoWarehouse
    <3> QED
      BY <2>3, <3>2, <3>3
  <2>4. CASE (\E q \in Ids : sqlDeleteQuery(q)) \/ sqlListQueryHistory
    BY <1>1, <2>4 DEF sqlDeleteQuery, sqlListQueryHistory, calls
  <2> QED
    BY <1>12, <2>1, <2>2, <2>3, <2>4 DEF Request
<1>13. CASE UNCHANGED vars
  BY <1>1, <1>13 DEF vars
<1> QED
  BY <1>10, <1>12, <1>13 DEF Next

LEMMA SqlInvariant == Spec => [](SqlInv /\ StatementInv)
<1>1. SqlInv /\ StatementInv /\ [Next]_vars => (SqlInv /\ StatementInv)'
  BY NextIsTyped, NextKeepsStatements
<1> QED
  BY <1>1, InitSql, InitStatements, PTL DEF Spec

(***************************************************************************)
(* The types of SqlStore, for any number of handlers and any bounds.       *)
(***************************************************************************)
THEOREM SqlTypeCorrect == Spec => []TypeOK
BY SqlInvariant, InvIsTyped, PTL

(***************************************************************************)
(* The query history is complete and true: every statement whose handler   *)
(* is done is in it once, with the status it ended with and keeps.         *)
(***************************************************************************)
THEOREM HistoryIsTrue == Spec => []HistoryTellsTheOutcome
<1>1. StatementInv => HistoryTellsTheOutcome
  BY DEF StatementInv
<1> QED
  BY <1>1, SqlInvariant, PTL

-------------------------------------------------------------------------------
(***************************************************************************)
(* Trashed queries.                                                        *)
(***************************************************************************)
LEMMA LifeChanges ==
    ASSUME SqlInv, [Next]_vars
    PROVE  \/ UNCHANGED life
           \/ nextID + 1 \in Ids /\ life' = [life EXCEPT ![nextID + 1] = "ACTIVE"]
           \/ \E q \in Ids : life' = [life EXCEPT ![q] = "TRASHED"]
<1>1. ASSUME NEW c \in Calls, Proceed(c)
      PROVE  \/ UNCHANGED life
             \/ nextID + 1 \in Ids /\ life' = [life EXCEPT ![nextID + 1] = "ACTIVE"]
  <2>1. CASE CreateQuery(c)
    BY <2>1 DEF CreateQuery, SqlInv, StoreOK, Ids
  <2>2. CASE ~CreateQuery(c)
    BY <1>1, <2>2 DEF Proceed, NewStatement, StatementRefused, StatementEmpty, StatementStarts,
          StatementAnswered, StatementSucceeds, RegisterAnswered, Settle, recordStatementHistory,
          NameIsFree, NameIsTaken, RenameQuery, MoveQuery, UpdateQuery, queries
  <2> QED
    BY <2>1, <2>2
<1>2. CASE Request
  BY <1>2 DEF Request, sqlCreateWarehouse, sqlDeleteWarehouse, SetWarehouseState,
      sqlExecuteStatement, sqlCreateQuery, sqlUpdateQuery, sqlDeleteQuery, TrashQuery,
      sqlListQueryHistory, queries
<1>3. CASE UNCHANGED vars
  BY <1>3 DEF vars
<1> QED
  BY <1>1, <1>2, <1>3 DEF Next

(***************************************************************************)
(* No update, and no new query, brings a trashed one back: the only write  *)
(* that makes a query ACTIVE is that of an id nobody had.                  *)
(***************************************************************************)
THEOREM TrashIsFinal == Spec => TrashedStaysTrashed
<1>1. SqlInv /\ [Next]_vars => [\A q \in Ids : life[q] = "TRASHED" => life'[q] = "TRASHED"]_vars
  <2> SUFFICES ASSUME SqlInv, [Next]_vars, NEW q \in Ids, life[q] = "TRASHED"
               PROVE  life'[q] = "TRASHED"
    OBVIOUS
  <2>1. life \in [Ids -> {"none", "ACTIVE", "TRASHED"}] /\ nextID \in Nat
    BY DEF SqlInv, StoreOK
  <2>2. nextID + 1 \in Ids => life[nextID + 1] = "none"
    BY <2>1 DEF SqlInv, StoreOK
  <2> QED
    BY <2>1, <2>2, LifeChanges
<1> QED
  BY <1>1, SqlInvariant, PTL DEF Spec, TrashedStaysTrashed

-------------------------------------------------------------------------------
(***************************************************************************)
(* The client that pages: what is due to it lies behind its offset, where  *)
(* entries put in front can only push it further.                          *)
(***************************************************************************)
DueIsAhead ==
    \A i \in pager.due : pager.paging /\ \E k \in DOMAIN history : k > pager.offset /\ history[k].id = i

LEMMA HistoryChanges ==
    ASSUME [Next]_vars
    PROVE  \/ UNCHANGED <<history, pager>>
           \/ sqlListQueryHistory
           \/ \E c \in Calls : recordStatementHistory(c)
<1>1. ASSUME NEW c \in Calls, Proceed(c)
      PROVE  UNCHANGED <<history, pager>> \/ recordStatementHistory(c)
  BY <1>1 DEF Proceed, NewStatement, StatementRefused, StatementEmpty, StatementStarts,
        StatementAnswered, StatementSucceeds, RegisterAnswered, Settle,
        NameIsFree, NameIsTaken, CreateQuery, RenameQuery, MoveQuery, UpdateQuery
<1>2. CASE Request
  BY <1>2 DEF Request, sqlCreateWarehouse, sqlDeleteWarehouse, SetWarehouseState,
      sqlExecuteStatement, sqlCreateQuery, sqlUpdateQuery, sqlDeleteQuery
<1>3. CASE UNCHANGED vars
  BY <1>3 DEF vars
<1> QED
  BY <1>1, <1>2, <1>3 DEF Next

LEMMA NextKeepsDue == SqlInv /\ StatementInv /\ DueIsAhead /\ [Next]_vars => DueIsAhead'
<1> SUFFICES ASSUME SqlInv, StatementInv, DueIsAhead, [Next]_vars
             PROVE  DueIsAhead'
  OBVIOUS
<1>0. pager.paging \in BOOLEAN /\ pager.offset \in Nat /\ history \in Seq(Entry)
  BY DEF SqlInv, PagerOK, StoreOK
<1>1. CASE UNCHANGED <<history, pager>>
  BY <1>1 DEF DueIsAhead
<1>2. ASSUME NEW c \in Calls, recordStatementHistory(c)
      PROVE  DueIsAhead'
  <2> DEFINE h == [id |-> obj[c],
                   status |-> IF status[obj[c]] = "SUCCEEDED" THEN "FINISHED" ELSE "FAILED"]
  <2>1. h \in Entry /\ history' = <<h>> \o history /\ UNCHANGED pager
    BY <1>2 DEF recordStatementHistory, RecordHistory, StatementInv, InProgress, StatementSteps, Entry
  <2> HIDE DEF h
  <2>2. \A k \in DOMAIN history : k + 1 \in DOMAIN history' /\ history'[k + 1] = history[k]
    BY <2>1, InFront
  <2>3. ASSUME NEW i \in pager.due
        PROVE  pager.paging /\ \E k \in DOMAIN history' : k > pager.offset /\ history'[k].id = i
    <3>1. PICK k \in DOMAIN history : k > pager.offset /\ history[k].id = i
      BY DEF DueIsAhead
    <3>2. k \in Nat /\ k + 1 > pager.offset
      BY <1>0, <3>1
    <3> QED
      BY <2>2, <3>1, <3>2 DEF DueIsAhead
  <2> QED
    BY <2>1, <2>3 DEF DueIsAhead
<1>3. CASE sqlListQueryHistory
  <2> DEFINE offset == IF pager.paging THEN pager.offset ELSE 0
             due    == IF pager.paging THEN pager.due ELSE Recorded
             page   == ListHistory(offset)
  <2>1. /\ pager' = [paging |-> page.more, offset |-> IF page.more THEN page.next ELSE 0,
                     due |-> due \ page.items]
        /\ history' = history
    BY <1>3 DEF sqlListQueryHistory
  <2>2. ASSUME NEW i \in due
        PROVE  \E k \in DOMAIN history : k > offset /\ history[k].id = i
    <3>1. CASE pager.paging
      BY <2>2, <3>1 DEF DueIsAhead
    <3>2. CASE ~pager.paging
      <4>1. PICK k \in DOMAIN history : history[k].id = i
        BY <2>2, <3>2 DEF Recorded
      <4>2. k > 0
        BY <1>0
      <4> QED
        BY <3>2, <4>1, <4>2
    <3> QED
      BY <3>1, <3>2
  <2>3. offset \in Nat
    BY <1>0
  <2>4. ASSUME NEW i \in due \ page.items
        PROVE  page.more /\ \E k \in DOMAIN history : k > page.next /\ history[k].id = i
    <3>1. PICK k \in DOMAIN history : k > offset /\ history[k].id = i
      BY <2>2
    <3>2. page.next < k /\ page.next \in Nat
      <4> HIDE DEF offset, due
      <4>1. offset < k /\ history[k].id \notin page.items
        BY <3>1
      <4> QED
        BY <2>3, <4>1, PageOfHistory
    <3>3. k \in Nat /\ k <= Len(history) /\ Len(history) \in Nat
      BY <1>0
    <3>4. page.next < Len(history)
      <4> HIDE DEF page
      <4> QED
        BY <3>2, <3>3
    <3>5. page.more
      <4> HIDE DEF offset
      <4> QED
        BY <2>3, <3>4, PageOfHistory
    <3> HIDE DEF page
    <3> QED
      BY <3>1, <3>2, <3>3, <3>5
  <2> HIDE DEF offset, due, page
  <2>5. /\ pager'.due = due \ page.items
        /\ page.more => pager'.paging /\ pager'.offset = page.next
    BY <2>1
  <2> QED
    BY <2>1, <2>4, <2>5 DEF DueIsAhead
<1> QED
  BY <1>1, <1>2, <1>3, HistoryChanges

(***************************************************************************)
(* Paging by offset through a history that grows at the front may show an  *)
(* entry twice and never skips one.                                        *)
(***************************************************************************)
THEOREM PagesShowEverything == Spec => []PagingMissesNothing
<1>1. Init => DueIsAhead
  BY DEF Init, DueIsAhead
<1>2. DueIsAhead => PagingMissesNothing
  BY DEF DueIsAhead, PagingMissesNothing
<1> QED
  BY <1>1, <1>2, SqlInvariant, NextKeepsDue, PTL DEF Spec

-------------------------------------------------------------------------------

(***************************************************************************)
(* The names: whoever was given the name that a handler is about to write  *)
(* was given it after the handler's check.                                 *)
(***************************************************************************)
Naming == {"create", "rename"}

NamesAreWatched ==
    \A c \in Calls : at[c] \in Naming =>
        /\ at[c] = "create" => obj[c] = 0
        /\ \A i \in Ids : life[i] = "ACTIVE" /\ name[i] = want[c].name /\ i # obj[c] => i \in taken[c]

NamesInv == OnlyRivalsShareAName /\ NamesAreWatched

\* No query is given a name, and nobody leaves with one that was checked before.
LEMMA NamesUndisturbed ==
    ASSUME NamesInv, UNCHANGED <<name, taken, rivals>>,
           \A i \in Ids : life'[i] = "ACTIVE" => life[i] = "ACTIVE",
           \A d \in Calls : \/ at'[d] = at[d] /\ obj'[d] = obj[d] /\ want'[d] = want[d]
                            \/ at'[d] \notin Naming
    PROVE  NamesInv'
BY DEF NamesInv, OnlyRivalsShareAName, NamesAreWatched

LEMMA OthersStay ==
    ASSUME SqlInv, NEW c \in Calls, NEW l, NEW i, NEW w, NEW wish, Enter(c, l, i, w, wish)
    PROVE  /\ \A d \in Calls : d # c => at'[d] = at[d] /\ obj'[d] = obj[d] /\ want'[d] = want[d]
           /\ at'[c] = l /\ obj'[c] = i /\ want'[c] = wish
BY DEF SqlInv, HandlersOK, Enter

\* A handler goes somewhere else than to a write of a name.
LEMMA NamesOnEntry ==
    ASSUME SqlInv, NamesInv, NEW c \in Calls, NEW l, NEW i, NEW w, NEW wish,
           Enter(c, l, i, w, wish), l \notin Naming, UNCHANGED <<life, name, taken, rivals>>
    PROVE  NamesInv'
BY OthersStay, NamesUndisturbed

(***************************************************************************)
(* Handler c names query q, a new one or the one it works for: who has the *)
(* name already is a rival, and those about to use it are told.            *)
(***************************************************************************)
LEMMA NamesOnWrite ==
    ASSUME SqlInv, NamesInv, NEW c \in Calls, NEW q \in Ids, GiveName(c, q),
           at[c] \in Naming, obj[c] \in {0, q},
           \A i \in Ids : life'[i] = "ACTIVE" => i = q \/ life[i] = "ACTIVE",
           at'[c] \notin Naming,
           \A d \in Calls : d # c => at'[d] = at[d] /\ obj'[d] = obj[d] /\ want'[d] = want[d]
    PROVE  NamesInv'
<1>0. name \in [Ids -> Name \cup {NoName}]
  BY DEF SqlInv, StoreOK
<1>1. /\ \A i \in Ids : name'[i] = IF i = q THEN want[c].name ELSE name[i]
      /\ \A d \in Calls : d # c /\ at[d] \in Naming /\ want[d].name = want[c].name
            => taken'[d] = taken[d] \cup {q}
      /\ \A d \in Calls : d # c /\ ~(at[d] \in Naming /\ want[d].name = want[c].name)
            => taken'[d] = taken[d] \ {q}
      /\ \A i \in Ids : i # q => rivals'[i] = rivals[i] \ {q}
      /\ rivals'[q] = taken[c] \ {q}
  BY <1>0 DEF GiveName, Naming
<1>2. ASSUME NEW i \in Ids, i # q, life'[i] = "ACTIVE", name'[i] = want[c].name
      PROVE  i \in rivals'[q]
  <2>1. i # obj[c] /\ life[i] = "ACTIVE" /\ name[i] = want[c].name
    BY <1>1, <1>2 DEF Ids
  <2>2. i \in taken[c]
    BY <2>1 DEF NamesInv, NamesAreWatched
  <2> QED
    BY <1>1, <1>2, <2>2
<1>3. OnlyRivalsShareAName'
  <2> SUFFICES ASSUME NEW p \in Ids, NEW r \in Ids, life'[p] = "ACTIVE", life'[r] = "ACTIVE",
                      name'[p] = name'[r], p # r
               PROVE  p \in rivals'[r] \/ r \in rivals'[p]
    BY DEF OnlyRivalsShareAName
  <2>1. CASE p = q
    BY <1>1, <1>2, <2>1
  <2>2. CASE r = q
    BY <1>1, <1>2, <2>2
  <2>3. CASE p # q /\ r # q
    <3>1. name[p] = name[r] /\ life[p] = "ACTIVE" /\ life[r] = "ACTIVE"
      BY <1>1, <2>3
    <3>2. p \in rivals[r] \/ r \in rivals[p]
      BY <3>1 DEF NamesInv, OnlyRivalsShareAName
    <3> QED
      BY <1>1, <2>3, <3>2
  <2> QED
    BY <2>1, <2>2, <2>3
<1>4. NamesAreWatched'
  <2> SUFFICES ASSUME NEW d \in Calls, at'[d] \in Naming
               PROVE  /\ at'[d] = "create" => obj'[d] = 0
                      /\ \A i \in Ids : life'[i] = "ACTIVE" /\ name'[i] = want'[d].name /\ i # obj'[d]
                                        => i \in taken'[d]
    BY DEF NamesAreWatched
  <2>1. d # c /\ at'[d] = at[d] /\ obj'[d] = obj[d] /\ want'[d] = want[d]
    OBVIOUS
  <2>2. at[d] = "create" => obj[d] = 0
    BY <2>1 DEF NamesInv, NamesAreWatched
  <2>3. ASSUME NEW i \in Ids, life'[i] = "ACTIVE", name'[i] = want[d].name, i # obj[d]
        PROVE  i \in taken'[d]
    <3>1. CASE i = q
      BY <1>1, <2>1, <2>3, <3>1
    <3>2. CASE i # q
      <4>1. life[i] = "ACTIVE" /\ name[i] = want[d].name
        BY <1>1, <2>3, <3>2
      <4>2. i \in taken[d]
        BY <2>1, <2>3, <4>1 DEF NamesInv, NamesAreWatched
      <4> QED
        BY <1>1, <2>1, <3>2, <4>2
    <3> QED
      BY <3>1, <3>2
  <2> QED
    BY <2>1, <2>2, <2>3
<1> QED
  BY <1>3, <1>4 DEF NamesInv

LEMMA NextKeepsNames == SqlInv /\ NamesInv /\ [Next]_vars => NamesInv'
<1> SUFFICES ASSUME SqlInv, NamesInv, [Next]_vars
             PROVE  NamesInv'
  OBVIOUS
<1>0. life \in [Ids -> {"none", "ACTIVE", "TRASHED"}] /\ nextID \in Nat
  BY DEF SqlInv, StoreOK
<1>1. ASSUME NEW c \in Calls, NEW l, NEW i, NEW w, NEW wish, Enter(c, l, i, w, wish),
             l \notin {"create", "rename"}, UNCHANGED <<life, name, taken, rivals>>
      PROVE  NamesInv'
  BY <1>1, NamesOnEntry DEF Naming
<1>2. ASSUME NEW c \in Calls, NEW q, NEW w, GotoWarehouse(c, q, w),
             UNCHANGED <<life, name, taken, rivals>>
      PROVE  NamesInv'
  <2>1. PICK l \in {"store", "warehouse"} : Enter(c, l, q, w, NoWish)
    BY <1>2 DEF GotoWarehouse
  <2> QED
    BY <1>1, <1>2, <2>1
<1>3. ASSUME NEW c \in Calls, UNCHANGED queries,
             Return(c) \/ \E l \in {"service", "engine", "register", "record"} : Goto(c, l)
      PROVE  NamesInv'
  BY <1>1, <1>3 DEF Return, Goto, queries
<1>4. ASSUME NEW c \in Calls, NameIsFree(c)
      PROVE  NamesInv'
  <2>1. /\ UNCHANGED <<life, name, taken, rivals>>
        /\ at'[c] = IF obj[c] = 0 THEN "create" ELSE "rename"
        /\ obj'[c] = obj[c] /\ want'[c].name = want[c].name
        /\ \A d \in Calls : d # c => at'[d] = at[d] /\ obj'[d] = obj[d] /\ want'[d] = want[d]
    <3> DEFINE l    == IF obj[c] = 0 THEN "create" ELSE "rename"
               wish == [want[c] EXCEPT !.auto = FALSE]
    <3>1. Enter(c, l, obj[c], on[c], wish) /\ UNCHANGED <<life, name, taken, rivals>>
      BY <1>4 DEF NameIsFree, queries
    <3>2. wish.name = want[c].name
      BY HandlersHold DEF Wishes
    <3> HIDE DEF l, wish
    <3>3. /\ \A d \in Calls : d # c => at'[d] = at[d] /\ obj'[d] = obj[d] /\ want'[d] = want[d]
          /\ at'[c] = l /\ obj'[c] = obj[c] /\ want'[c] = wish
      BY <3>1, OthersStay
    <3> QED
      BY <3>1, <3>2, <3>3 DEF l
  <2>2. \A i \in Ids : ~(life[i] = "ACTIVE" /\ name[i] = want[c].name /\ i # obj[c])
    BY <1>4 DEF NameIsFree, DisplayNameTaken
  <2>3. NamesAreWatched'
    <3> SUFFICES ASSUME NEW d \in Calls, at'[d] \in Naming
                 PROVE  /\ at'[d] = "create" => obj'[d] = 0
                        /\ \A i \in Ids : life[i] = "ACTIVE" /\ name[i] = want'[d].name /\ i # obj'[d]
                                          => i \in taken[d]
      BY <2>1 DEF NamesAreWatched
    <3>1. CASE d = c
      BY <2>1, <2>2, <3>1
    <3>2. CASE d # c
      BY <2>1, <3>2 DEF NamesInv, NamesAreWatched
    <3> QED
      BY <3>1, <3>2
  <2> QED
    BY <2>1, <2>3 DEF NamesInv, OnlyRivalsShareAName
<1>5. ASSUME NEW c \in Calls, CreateQuery(c)
      PROVE  NamesInv'
  <2>1. /\ at[c] = "create" /\ nextID + 1 \in Ids /\ GiveName(c, nextID + 1)
        /\ life' = [life EXCEPT ![nextID + 1] = "ACTIVE"] /\ Return(c)
    BY <1>0, <1>5 DEF CreateQuery, Ids
  <2>2. obj[c] = 0
    BY <2>1 DEF NamesInv, NamesAreWatched, Naming
  <2>3. /\ \A d \in Calls : d # c => at'[d] = at[d] /\ obj'[d] = obj[d] /\ want'[d] = want[d]
        /\ at'[c] = "idle"
    BY <2>1, OthersStay DEF Return
  <2>4. \A i \in Ids : life'[i] = "ACTIVE" => i = nextID + 1 \/ life[i] = "ACTIVE"
    BY <1>0, <2>1
  <2> QED
    BY <2>1, <2>2, <2>3, <2>4, NamesOnWrite DEF Naming
<1>6. ASSUME NEW c \in Calls, RenameQuery(c)
      PROVE  NamesInv'
  <2>1. at[c] = "rename" /\ GiveName(c, obj[c]) /\ UNCHANGED life
    BY <1>6 DEF RenameQuery
  <2>2. obj[c] \in Ids
    BY <2>1 DEF SqlInv, HandlersOK, StoreOK, Ids
  <2>3. PICK l \in {"store", "warehouse"} : Enter(c, l, obj[c], on[c], NoWish)
    BY <1>6 DEF RenameQuery, GotoWarehouse
  <2>4. /\ \A d \in Calls : d # c => at'[d] = at[d] /\ obj'[d] = obj[d] /\ want'[d] = want[d]
        /\ at'[c] = l
    BY <2>3, OthersStay
  <2> QED
    BY <2>1, <2>2, <2>4, NamesOnWrite DEF Naming
<1>7. ASSUME NEW c \in Calls, Proceed(c)
      PROVE  NamesInv'
  <2>1. CASE NewStatement(c)
    BY <1>1, <2>1 DEF NewStatement, queries
  <2>2. CASE StatementRefused(c) \/ StatementEmpty(c)
             \/ (\E s \in {"SUCCEEDED", "FAILED"} : StatementAnswered(c, s))
             \/ \E ok \in BOOLEAN : RegisterAnswered(c, ok)
    BY <1>3, <2>2 DEF StatementRefused, StatementEmpty, StatementAnswered, RegisterAnswered, Settle
  <2>3. CASE StatementStarts(c) \/ StatementSucceeds(c) \/ recordStatementHistory(c) \/ UpdateQuery(c)
    BY <1>3, <2>3 DEF StatementStarts, StatementSucceeds, recordStatementHistory, UpdateQuery
  <2>4. CASE NameIsTaken(c)
    <3>1. UNCHANGED queries
      BY <2>4 DEF NameIsTaken
    <3>2. CASE Return(c)
      BY <1>3, <3>1, <3>2
    <3>3. CASE ~Return(c)
      BY <1>1, <2>4, <3>3 DEF NameIsTaken, queries
    <3> QED
      BY <3>2, <3>3
  <2>5. CASE MoveQuery(c)
    <3>1. UNCHANGED queries /\ (Return(c) \/ GotoWarehouse(c, obj[c], 0))
      BY <2>5 DEF MoveQuery
    <3> QED
      BY <1>2, <1>3, <3>1 DEF queries
  <2> QED
    BY <1>4, <1>5, <1>6, <1>7, <2>1, <2>2, <2>3, <2>4, <2>5 DEF Proceed
<1>8. CASE Request
  <2>1. CASE sqlCreateWarehouse \/ (\E w \in Ids : sqlDeleteWarehouse(w))
             \/ (\E w \in Ids, s \in {"RUNNING", "STOPPED"} : SetWarehouseState(w, s))
             \/ sqlListQueryHistory
    BY <2>1, NamesUndisturbed DEF sqlCreateWarehouse, sqlDeleteWarehouse, SetWarehouseState,
          sqlListQueryHistory, calls, queries
  <2>2. ASSUME NEW c \in Calls, NEW w \in Ids, sqlExecuteStatement(c, w)
        PROVE  NamesInv'
    BY <1>1, <2>2 DEF sqlExecuteStatement, queries
  <2>3. ASSUME NEW c \in Calls, NEW w \in 0..MaxWarehouse, NEW b \in Bases, NEW auto \in BOOLEAN,
               sqlCreateQuery(c, w, b, auto) \/ \E q \in Ids : sqlUpdateQuery(c, q, w, b, auto)
        PROVE  NamesInv'
    <3>1. CASE sqlCreateQuery(c, w, b, auto)
      BY <1>1, <3>1 DEF sqlCreateQuery, queries
    <3>2. CASE \E q \in Ids : sqlUpdateQuery(c, q, w, b, auto)
      BY <1>1, <1>2, <3>2 DEF sqlUpdateQuery, queries
    <3> QED
      BY <2>3, <3>1, <3>2
  <2>4. ASSUME NEW q \in Ids, sqlDeleteQuery(q)
        PROVE  NamesInv'
    <3>1. life' = [life EXCEPT ![q] = "TRASHED"] /\ UNCHANGED <<name, taken, rivals, at, obj, want>>
      BY <2>4 DEF sqlDeleteQuery, TrashQuery, calls
    <3>2. \A i \in Ids : life'[i] = "ACTIVE" => life[i] = "ACTIVE"
      BY <1>0, <3>1
    <3> QED
      BY <3>1, <3>2, NamesUndisturbed
  <2> QED
    BY <1>8, <2>1, <2>2, <2>3, <2>4 DEF Request
<1>9. CASE UNCHANGED vars
  BY <1>9, NamesUndisturbed DEF vars
<1> QED
  BY <1>7, <1>8, <1>9 DEF Next

(***************************************************************************)
(* With any number of handlers, two ACTIVE queries show the same name only *)
(* where the one was given it between the check and the write of the       *)
(* handler that named the other.                                           *)
(***************************************************************************)
THEOREM RivalsAloneShareNames == Spec => []OnlyRivalsShareAName
<1>1. Init => NamesInv
  BY DEF Init, NamesInv, OnlyRivalsShareAName, NamesAreWatched, Naming
<1>2. SqlInv /\ NamesInv /\ [Next]_vars => NamesInv'
  BY NextKeepsNames
<1>3. NamesInv => OnlyRivalsShareAName
  BY DEF NamesInv
<1> QED
  BY <1>1, <1>2, <1>3, SqlInvariant, PTL DEF Spec
===============================================================================
