----------------------------- MODULE HS2Sessions -----------------------------
(***************************************************************************)
(* The HiveServer2 handle tables of internal/hs2 (service.go,              *)
(* metadata.go): sessions, the operations they produce, and the reaping    *)
(* that bounds both.  Every Thrift call is its own goroutine.  A statement *)
(* is looked up under Service.mu, run by the warehouse backend with the    *)
(* lock released, and its operation stored under the lock again: the       *)
(* action ends where the lock does.                                        *)
(***************************************************************************)
EXTENDS Integers, FiniteSets

CONSTANTS MaxSession,      \* bound on the session handles handed out
          MaxOp,           \* bound on the operation handles handed out
          Start, MaxTime,  \* the emulator clock runs from Start to MaxTime
          Calls,           \* concurrent Thrift calls that run SQL
          idleTTLSeconds,  \* 1800 in the code
          maxSessions,     \* 512
          maxOperations    \* 2048

(***************************************************************************)
(* The clock is Unix time, so it is past the TTL when the process starts.  *)
(***************************************************************************)
ASSUME HS2Assumption ==
    /\ MaxSession \in Nat /\ MaxOp \in Nat
    /\ idleTTLSeconds \in Nat
    /\ Start \in Nat /\ MaxTime \in Nat
    /\ idleTTLSeconds < Start /\ Start <= MaxTime
    /\ maxSessions \in Nat \ {0} /\ maxOperations \in Nat \ {0}

Sessions == 1..MaxSession
Ops      == 1..MaxOp
Times    == Start..MaxTime

\* operation.sess of a metadata operation, which is stored without one.
NoSession == 0

VARIABLES
    now,       \* s.now()
    opened,    \* session handles handed out so far
    issued,    \* operation handles handed out so far
    sess,      \* the keys of Service.sess
    sessSeen,  \* session.seen
    ops,       \* the keys of Service.ops
    opSess,    \* operation.sess
    opSeen,    \* operation.seen
    call       \* the SQL a call is running: its kind and its session

vars == <<now, opened, issued, sess, sessSeen, ops, opSess, opSeen, call>>

IdleCall == [kind |-> "none", sess |-> NoSession]

TypeOK ==
    /\ now \in Times
    /\ opened \in 0..MaxSession /\ issued \in 0..MaxOp
    /\ sess \subseteq 1..opened
    /\ sessSeen \in [Sessions -> {0} \cup Times]
    /\ ops \subseteq 1..issued
    /\ opSess \in [Ops -> {NoSession} \cup Sessions]
    /\ opSeen \in [Ops -> {0} \cup Times]
    /\ call \in [Calls -> [kind : {"none", "execute", "meta"}, sess : {NoSession} \cup Sessions]]

Init ==
    /\ now = Start
    /\ opened = 0 /\ issued = 0
    /\ sess = {} /\ ops = {}
    /\ sessSeen = [s \in Sessions |-> 0]
    /\ opSess = [o \in Ops |-> NoSession]
    /\ opSeen = [o \in Ops |-> 0]
    /\ call = [c \in Calls |-> IdleCall]

-------------------------------------------------------------------------------
(***************************************************************************)
(* reapLocked, as a relation: S and O are the keys before it, S2 and O2    *)
(* after it, with the seen times and owners that hold by then.             *)
(***************************************************************************)
Idle(seen) == now - seen > idleTTLSeconds

Of(O, owner, S) == { o \in O : owner[o] \in S }

(***************************************************************************)
(* Evicting the oldest until max are left: map order decides between equal *)
(* times.                                                                  *)
(***************************************************************************)
Evicts_Newest(K, seen, max, K2) ==
    /\ K2 \subseteq K
    /\ IF Cardinality(K) <= max THEN K2 = K ELSE Cardinality(K2) = max
    /\ \A k \in K \ K2 : \A m \in K2 : seen[m] <= seen[k]

Evicts(K, seen, max, K2) ==
    /\ K2 \subseteq K
    /\ IF Cardinality(K) <= max THEN K2 = K ELSE Cardinality(K2) = max
    /\ \A k \in K \ K2 : \A m \in K2 : seen[k] <= seen[m]

reapLocked_ForgetsOps(S, O, sSeen, oSeen, owner, S2, O2) ==
    LET freshS == { s \in S : ~Idle(sSeen[s]) }
        freshO == { o \in O : ~Idle(oSeen[o]) }
    IN  /\ Evicts(freshS, sSeen, maxSessions, S2)
        /\ Evicts(freshO, oSeen, maxOperations, O2)

\* An idle session also takes the operations stored without one.
reapLocked_TakesUnowned(S, O, sSeen, oSeen, owner, S2, O2) ==
    LET idleS  == { s \in S : Idle(sSeen[s]) }
        taken  == IF idleS = {} THEN {} ELSE Of(O, owner, idleS \cup {NoSession})
        freshO == { o \in O : ~Idle(oSeen[o]) } \ taken
    IN  \E O1 \in SUBSET freshO :
            /\ Evicts(freshO, oSeen, maxOperations, O1)
            /\ Evicts(S \ idleS, sSeen, maxSessions, S2)
            /\ O2 = O1 \ Of(O1, owner, (S \ idleS) \ S2)

reapLocked(S, O, sSeen, oSeen, owner, S2, O2) ==
    LET idleS  == { s \in S : Idle(sSeen[s]) }
        freshO == { o \in O : ~Idle(oSeen[o]) } \ Of(O, owner, idleS)
    IN  \E O1 \in SUBSET freshO :
            /\ Evicts(freshO, oSeen, maxOperations, O1)
            /\ Evicts(S \ idleS, sSeen, maxSessions, S2)
            /\ O2 = O1 \ Of(O1, owner, (S \ idleS) \ S2)

(***************************************************************************)
(* The reaping step that ends a call: the tables hold what reapLocked      *)
(* leaves of the entries given to it.                                      *)
(***************************************************************************)
Reap(S, O, sSeen, oSeen, owner) ==
    \E S2 \in SUBSET S, O2 \in SUBSET O :
        /\ reapLocked(S, O, sSeen, oSeen, owner, S2, O2)
        /\ sess' = S2
        /\ ops' = O2
        /\ sessSeen' = [s \in Sessions |-> IF s \in S2 THEN sSeen[s] ELSE 0]
        /\ opSeen' = [o \in Ops |-> IF o \in O2 THEN oSeen[o] ELSE 0]
        /\ opSess' = [o \in Ops |-> IF o \in O2 THEN owner[o] ELSE NoSession]

-------------------------------------------------------------------------------
Tick ==
    /\ \E t \in Times : now < t /\ now' = t
    /\ UNCHANGED <<opened, issued, sess, sessSeen, ops, opSess, opSeen, call>>

OpenSession ==
    /\ opened < MaxSession
    /\ opened' = opened + 1
    /\ Reap(sess \cup {opened + 1}, ops, [sessSeen EXCEPT ![opened + 1] = now], opSeen, opSess)
    /\ UNCHANGED <<now, issued, call>>

(***************************************************************************)
(* The key need not be known: a client may close a session already reaped. *)
(***************************************************************************)
CloseSession(s) ==
    /\ s \in 1..opened
    /\ Reap(sess \ {s}, ops \ Of(ops, opSess, {s}), sessSeen, opSeen, opSess)
    /\ UNCHANGED <<now, opened, issued, call>>

ExecuteStatement(c, s) ==
    /\ call[c] = IdleCall
    /\ s \in sess
    /\ sessSeen' = [sessSeen EXCEPT ![s] = now]
    /\ call' = [call EXCEPT ![c] = [kind |-> "execute", sess |-> s]]
    /\ UNCHANGED <<now, opened, issued, sess, ops, opSess, opSeen>>

StatementEnds_NoReap(c) ==
    /\ call[c].kind = "execute"
    /\ issued < MaxOp
    /\ issued' = issued + 1
    /\ ops' = ops \cup {issued + 1}
    /\ opSeen' = [opSeen EXCEPT ![issued + 1] = now]
    /\ opSess' = [opSess EXCEPT ![issued + 1] = call[c].sess]
    /\ call' = [call EXCEPT ![c] = IdleCall]
    /\ UNCHANGED <<now, opened, sess, sessSeen>>

(***************************************************************************)
(* Backend.Run is over, or parseStdout failed: either way the operation is *)
(* stored for the session found at the start, and the tables are reaped.   *)
(***************************************************************************)
StatementEnds(c) ==
    /\ call[c].kind = "execute"
    /\ issued < MaxOp
    /\ issued' = issued + 1
    /\ Reap(sess, ops \cup {issued + 1}, sessSeen, [opSeen EXCEPT ![issued + 1] = now],
            [opSess EXCEPT ![issued + 1] = call[c].sess])
    /\ call' = [call EXCEPT ![c] = IdleCall]
    /\ UNCHANGED <<now, opened>>

\* The warehouse is gone or stopped: an error, and no operation.
StatementRefused(c) ==
    /\ call[c].kind = "execute"
    /\ call' = [call EXCEPT ![c] = IdleCall]
    /\ UNCHANGED <<now, opened, issued, sess, sessSeen, ops, opSess, opSeen>>

(***************************************************************************)
(* GetSchemas, GetTables: lookupSession does not touch the session.        *)
(***************************************************************************)
MetadataCall(c, s) ==
    /\ call[c] = IdleCall
    /\ s \in sess
    /\ call' = [call EXCEPT ![c] = [kind |-> "meta", sess |-> s]]
    /\ UNCHANGED <<now, opened, issued, sess, sessSeen, ops, opSess, opSeen>>

(***************************************************************************)
(* finishMeta stores operation{tab} or operation{err}: no session, seen    *)
(* zero, and no reaping.                                                   *)
(***************************************************************************)
finishMeta(c) ==
    /\ call[c].kind = "meta"
    /\ issued < MaxOp
    /\ issued' = issued + 1
    /\ ops' = ops \cup {issued + 1}
    /\ opSess' = [opSess EXCEPT ![issued + 1] = NoSession]
    /\ opSeen' = [opSeen EXCEPT ![issued + 1] = 0]
    /\ call' = [call EXCEPT ![c] = IdleCall]
    /\ UNCHANGED <<now, opened, sess, sessSeen>>

\* GetOperationStatus, GetResultSetMetadata, FetchResults: touchOpLocked.
ReadOperation(o) ==
    /\ o \in ops
    /\ opSeen' = [opSeen EXCEPT ![o] = now]
    /\ UNCHANGED <<now, opened, issued, sess, sessSeen, ops, opSess, call>>

\* CloseOperation and CancelOperation.
CloseOperation(o) ==
    /\ o \in ops
    /\ ops' = ops \ {o}
    /\ opSess' = [opSess EXCEPT ![o] = NoSession]
    /\ opSeen' = [opSeen EXCEPT ![o] = 0]
    /\ UNCHANGED <<now, opened, issued, sess, sessSeen, call>>

Next ==
    \/ Tick
    \/ OpenSession
    \/ \E s \in Sessions : CloseSession(s)
    \/ \E c \in Calls, s \in Sessions : ExecuteStatement(c, s) \/ MetadataCall(c, s)
    \/ \E c \in Calls : StatementEnds(c) \/ StatementRefused(c) \/ finishMeta(c)
    \/ \E o \in Ops : ReadOperation(o) \/ CloseOperation(o)

Spec == Init /\ [][Next]_vars

-------------------------------------------------------------------------------
(***************************************************************************)
(* The session table never exceeds its ceiling, whichever call reaped it.  *)
(***************************************************************************)
SessionsWithinCeiling == Cardinality(sess) <= maxSessions

(***************************************************************************)
(* The results of statements never exceed the ceiling either: each         *)
(* ExecuteStatement reaps after it stores.                                 *)
(***************************************************************************)
StatementResultsWithinCeiling ==
    Cardinality({ o \in ops : opSess[o] # NoSession }) <= maxOperations

\* Both tables stay bounded, however many calls are in flight.
CeilingsHold == SessionsWithinCeiling /\ StatementResultsWithinCeiling

(***************************************************************************)
(* A result disappears only if a client closed it or its session, if it or *)
(* its session was idle past the TTL, or if a table was full: no other     *)
(* client's call takes a result away.                                      *)
(***************************************************************************)
ResultsLeaveForAReason ==
    [][\A o \in ops \ ops' :
          \/ CloseOperation(o)
          \/ opSess[o] # NoSession /\ CloseSession(opSess[o])
          \/ Idle(opSeen[o])
          \/ opSess[o] \in sess /\ Idle(sessSeen[opSess[o]])
          \/ opSess[o] \in sess \ sess' /\ Cardinality(sess) >= maxSessions
          \/ Cardinality(ops) >= maxOperations]_vars

(***************************************************************************)
(* A session that leaves the table takes the results it owned with it in   *)
(* the same step, whether it was closed, reaped or evicted                 *)
(* (dropSessionOpsLocked).                                                 *)
(***************************************************************************)
SessionsTakeTheirResults ==
    [][\A s \in sess \ sess' : \A o \in ops' : o \in ops => opSess[o] # s]_vars

(***************************************************************************)
(* The ceilings sacrifice the oldest: an operation evicted while neither   *)
(* it nor its session was idle or closed was last seen no later than every *)
(* operation that stayed, and so for sessions (evictOldestOpLocked,        *)
(* evictOldestSessionLocked).                                              *)
(***************************************************************************)
OldestOperationGoes ==
    \A o \in ops \ ops' :
       \/ CloseOperation(o)
       \/ Idle(opSeen[o])
       \/ opSess[o] \in sess \ sess'
       \/ CloseSession(opSess[o])
       \/ \A p \in ops' : opSeen[o] <= opSeen'[p]

OldestSessionGoes ==
    \A s \in sess \ sess' :
       \/ CloseSession(s)
       \/ Idle(sessSeen[s])
       \/ \A t \in sess' : sessSeen[s] <= sessSeen'[t]

EvictionTakesTheOldest == [][OldestOperationGoes /\ OldestSessionGoes]_vars
===============================================================================
