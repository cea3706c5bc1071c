------------------------------- MODULE HS2Proofs -------------------------------
(***************************************************************************)
(* Theorems about HS2Sessions: what reaping leaves, whatever the ceilings, *)
(* the clock and the calls in flight.                                      *)
(***************************************************************************)
EXTENDS HS2Sessions, FiniteSetTheorems, TLAPS

USE HS2Assumption

(***************************************************************************)
(* A session has a handle that was handed out before anything of it is     *)
(* stored or run: a new session cannot own an old result.                  *)
(***************************************************************************)
OwnersAreKnown ==
    /\ \A o \in ops : opSess[o] \in 0..opened
    /\ \A c \in Calls : call[c].sess \in 0..opened

HS2Inv == TypeOK /\ OwnersAreKnown

-------------------------------------------------------------------------------
(***************************************************************************)
(* reapLocked.                                                             *)
(***************************************************************************)
LEMMA RangesAreFinite ==
    ASSUME NEW n \in Nat, NEW K, K \subseteq 1..n
    PROVE  IsFiniteSet(K) /\ Cardinality(K) \in Nat
<1>1. IsFiniteSet(1..n)
  <2>1. 1 \in Int /\ n \in Int
    OBVIOUS
  <2> QED
    BY <2>1, FS_Interval
<1>2. IsFiniteSet(K)
  <2>1. K \in SUBSET (1..n)
    OBVIOUS
  <2> QED
    BY <1>1, <2>1, FS_Subset
<1> QED
  BY <1>2, FS_CardinalityType

(***************************************************************************)
(* What eviction leaves fits, and if it took anything the table was full.  *)
(***************************************************************************)
LEMMA EvictionFits ==
    ASSUME NEW n \in Nat, NEW K, K \subseteq 1..n, NEW seen, NEW max \in Nat, NEW K2,
           Evicts(K, seen, max, K2)
    PROVE  /\ K2 \subseteq K
           /\ Cardinality(K2) <= max
           /\ K # K2 => Cardinality(K) > max
<1>1. Cardinality(K) \in Nat
  BY RangesAreFinite
<1> QED
  BY <1>1 DEF Evicts

\* A table that was overfull with at most one new entry was full without it.
LEMMA FullBefore ==
    ASSUME NEW n \in Nat, NEW K, K \subseteq 1..n, NEW L, NEW x,
           L \subseteq K \cup {x}, NEW max \in Nat, Cardinality(L) > max
    PROVE  Cardinality(K) >= max
<1>1. IsFiniteSet(K) /\ Cardinality(K) \in Nat
  BY RangesAreFinite
<1>2. IsFiniteSet(K \cup {x}) /\ Cardinality(K \cup {x}) <= Cardinality(K) + 1
  <2>1. /\ IsFiniteSet(K \cup {x})
        /\ Cardinality(K \cup {x}) = IF x \in K THEN Cardinality(K) ELSE Cardinality(K) + 1
    BY <1>1, FS_AddElement
  <2> QED
    BY <1>1, <2>1
<1>3. IsFiniteSet(L) /\ Cardinality(L) <= Cardinality(K \cup {x})
  <2>1. L \in SUBSET (K \cup {x})
    OBVIOUS
  <2> QED
    BY <1>2, <2>1, FS_Subset
<1>4. Cardinality(L) \in Nat /\ Cardinality(K \cup {x}) \in Nat
  BY <1>2, <1>3, FS_CardinalityType
<1> QED
  BY <1>1, <1>2, <1>3, <1>4

(***************************************************************************)
(* What a reaping step does to any table it is given: both tables fit, a   *)
(* session that goes takes its operations with it, and what goes was idle, *)
(* went with its session, or was among the oldest of a table that was too  *)
(* full.                                                                   *)
(***************************************************************************)
Overfull(K, max) == \E L \in SUBSET K : Cardinality(L) > max

Reaped(S, O, sSeen, oSeen, owner) ==
    /\ sess' \subseteq S /\ ops' \subseteq O
    /\ Cardinality(sess') <= maxSessions
    /\ Cardinality(ops') <= maxOperations
    /\ \A s \in S \ sess' :
          \/ Idle(sSeen[s])
          \/ /\ Overfull(S, maxSessions)
             /\ \A t \in sess' : sSeen[s] <= sSeen[t]
    /\ \A s \in S \ sess' : \A o \in ops' : owner[o] # s
    /\ \A o \in O \ ops' :
          \/ Idle(oSeen[o])
          \/ owner[o] \in S \ sess'
          \/ /\ Overfull(O, maxOperations)
             /\ \A p \in ops' : oSeen[o] <= oSeen[p]
    /\ sessSeen' = [s \in Sessions |-> IF s \in sess' THEN sSeen[s] ELSE 0]
    /\ opSeen' = [o \in Ops |-> IF o \in ops' THEN oSeen[o] ELSE 0]

LEMMA Reaping ==
    ASSUME NEW m \in Nat, NEW n \in Nat, NEW S, S \subseteq 1..m, NEW O, O \subseteq 1..n,
           NEW sSeen, NEW oSeen, NEW owner,
           Reap(S, O, sSeen, oSeen, owner)
    PROVE  Reaped(S, O, sSeen, oSeen, owner)
<1>0. PICK S2 \in SUBSET S, O2 \in SUBSET O :
        /\ reapLocked(S, O, sSeen, oSeen, owner, S2, O2)
        /\ sess' = S2
        /\ ops' = O2
        /\ sessSeen' = [s \in Sessions |-> IF s \in S2 THEN sSeen[s] ELSE 0]
        /\ opSeen' = [o \in Ops |-> IF o \in O2 THEN oSeen[o] ELSE 0]
        /\ opSess' = [o \in Ops |-> IF o \in O2 THEN owner[o] ELSE NoSession]
  BY DEF Reap
<1> DEFINE idleS  == { s \in S : Idle(sSeen[s]) }
           freshO == { o \in O : ~Idle(oSeen[o]) } \ Of(O, owner, idleS)
<1>1. PICK O1 \in SUBSET freshO :
        /\ Evicts(freshO, oSeen, maxOperations, O1)
        /\ Evicts(S \ idleS, sSeen, maxSessions, S2)
        /\ O2 = O1 \ Of(O1, owner, (S \ idleS) \ S2)
  BY <1>0 DEF reapLocked
<1>2. /\ S2 \subseteq S \ idleS
      /\ Cardinality(S2) <= maxSessions
      /\ S \ idleS # S2 => Cardinality(S \ idleS) > maxSessions
  <2>1. S \ idleS \subseteq 1..m
    OBVIOUS
  <2> HIDE DEF idleS
  <2> QED
    BY <1>1, <2>1, EvictionFits
<1>3. /\ O1 \subseteq freshO
      /\ Cardinality(O1) <= maxOperations
      /\ freshO # O1 => Cardinality(freshO) > maxOperations
  <2>1. freshO \subseteq 1..n
    OBVIOUS
  <2> HIDE DEF freshO
  <2> QED
    BY <1>1, <2>1, EvictionFits
<1>4. Cardinality(O2) <= maxOperations
  <2>1. IsFiniteSet(O1) /\ Cardinality(O1) \in Nat
    BY <1>3, RangesAreFinite
  <2>2. O2 \subseteq O1 /\ IsFiniteSet(O2) /\ Cardinality(O2) <= Cardinality(O1)
    BY <1>1, <2>1, FS_Subset
  <2>3. Cardinality(O2) \in Nat
    BY <2>2, FS_CardinalityType
  <2> QED
    BY <1>3, <2>1, <2>2, <2>3
<1>5. ASSUME NEW s \in S \ S2
      PROVE  \/ Idle(sSeen[s])
             \/ Overfull(S, maxSessions) /\ \A t \in S2 : sSeen[s] <= sSeen[t]
  <2>1. CASE s \in idleS
    BY <2>1
  <2>2. CASE s \notin idleS
    <3>1. Overfull(S, maxSessions)
      <4>1. S \ idleS \subseteq S /\ Cardinality(S \ idleS) > maxSessions
        BY <2>2, <1>2
      <4> QED
        BY <4>1 DEF Overfull
    <3>2. \A t \in S2 : sSeen[s] <= sSeen[t]
      BY <2>2, <1>1 DEF Evicts
    <3> QED
      BY <3>1, <3>2
  <2> QED
    BY <2>1, <2>2
<1>6. ASSUME NEW s \in S \ S2, NEW o \in O2
      PROVE  owner[o] # s
  <2>1. CASE s \in idleS
    BY <2>1, <1>1 DEF Of
  <2>2. CASE s \notin idleS
    BY <2>2, <1>1 DEF Of
  <2> QED
    BY <2>1, <2>2
<1>7. ASSUME NEW o \in O \ O2
      PROVE  \/ Idle(oSeen[o])
             \/ owner[o] \in S \ S2
             \/ /\ Overfull(O, maxOperations)
                /\ \A p \in O2 : oSeen[o] <= oSeen[p]
  <2>1. CASE o \notin freshO
    BY <2>1, <1>2 DEF Of
  <2>2. CASE o \in O1
    BY <2>2, <1>1 DEF Of
  <2>3. CASE o \in freshO \ O1
    <3>1. Overfull(O, maxOperations)
      <4>1. freshO \subseteq O /\ Cardinality(freshO) > maxOperations
        BY <2>3, <1>3
      <4> QED
        BY <4>1 DEF Overfull
    <3>2. \A p \in O2 : oSeen[o] <= oSeen[p]
      BY <2>3, <1>1 DEF Evicts
    <3> QED
      BY <3>1, <3>2
  <2> QED
    BY <2>1, <2>2, <2>3
<1>8. O2 \subseteq O
  BY <1>1
<1> QED
  BY <1>0, <1>2, <1>4, <1>5, <1>6, <1>7, <1>8 DEF Reaped

\* What a reaping step leaves is typed and owned like what it was given.
LEMMA ReapingKeepsTypes ==
    ASSUME NEW m \in 0..MaxSession, NEW n \in 0..MaxOp, NEW S, S \subseteq 1..m,
           NEW O, O \subseteq 1..n,
           NEW sSeen \in [Sessions -> {0} \cup Times], NEW oSeen \in [Ops -> {0} \cup Times],
           NEW owner \in [Ops -> {NoSession} \cup Sessions],
           \A o \in O : owner[o] \in 0..m,
           Reap(S, O, sSeen, oSeen, owner)
    PROVE  /\ sess' \subseteq 1..m /\ ops' \subseteq 1..n
           /\ sessSeen' \in [Sessions -> {0} \cup Times]
           /\ opSeen' \in [Ops -> {0} \cup Times]
           /\ opSess' \in [Ops -> {NoSession} \cup Sessions]
           /\ \A o \in ops' : opSess'[o] \in 0..m
<1>1. /\ sess' \subseteq S /\ ops' \subseteq O
      /\ sessSeen' = [s \in Sessions |-> IF s \in sess' THEN sSeen[s] ELSE 0]
      /\ opSeen' = [o \in Ops |-> IF o \in ops' THEN oSeen[o] ELSE 0]
      /\ opSess' = [o \in Ops |-> IF o \in ops' THEN owner[o] ELSE NoSession]
  <2>1. PICK S2 \in SUBSET S, O2 \in SUBSET O :
          /\ sess' = S2
          /\ ops' = O2
          /\ sessSeen' = [s \in Sessions |-> IF s \in S2 THEN sSeen[s] ELSE 0]
          /\ opSeen' = [o \in Ops |-> IF o \in O2 THEN oSeen[o] ELSE 0]
          /\ opSess' = [o \in Ops |-> IF o \in O2 THEN owner[o] ELSE NoSession]
    BY DEF Reap
  <2> QED
    BY <2>1
<1>2. sessSeen' \in [Sessions -> {0} \cup Times]
  BY <1>1
<1>3. opSeen' \in [Ops -> {0} \cup Times]
  BY <1>1
<1>4. opSess' \in [Ops -> {NoSession} \cup Sessions]
  BY <1>1
<1>5. \A o \in ops' : opSess'[o] \in 0..m
  <2> SUFFICES ASSUME NEW o \in ops'
               PROVE  opSess'[o] \in 0..m
    OBVIOUS
  <2>1. o \in Ops
    BY <1>1 DEF Ops
  <2> QED
    BY <1>1, <2>1
<1> QED
  BY <1>1, <1>2, <1>3, <1>4, <1>5

-------------------------------------------------------------------------------
(***************************************************************************)
(* The invariant.                                                          *)
(***************************************************************************)
LEMMA InitInv == Init => HS2Inv
BY DEF Init, HS2Inv, TypeOK, OwnersAreKnown, Times, Sessions, Ops, IdleCall, NoSession

LEMMA OpenSessionKeeps == HS2Inv /\ OpenSession => HS2Inv'
<1> SUFFICES ASSUME HS2Inv, OpenSession
             PROVE  HS2Inv'
  OBVIOUS
<1> USE DEF HS2Inv, TypeOK, OwnersAreKnown
<1>1. opened + 1 \in 0..MaxSession /\ opened' = opened + 1
  BY DEF OpenSession
<1>2. sess \cup {opened + 1} \subseteq 1..(opened + 1)
  OBVIOUS
<1>3. [sessSeen EXCEPT ![opened + 1] = now] \in [Sessions -> {0} \cup Times]
  OBVIOUS
<1>4. \A o \in ops : opSess[o] \in 0..(opened + 1)
  OBVIOUS
<1>5. Reap(sess \cup {opened + 1}, ops, [sessSeen EXCEPT ![opened + 1] = now], opSeen, opSess)
  BY DEF OpenSession
<1>6. /\ sess' \subseteq 1..(opened + 1) /\ ops' \subseteq 1..issued
      /\ sessSeen' \in [Sessions -> {0} \cup Times]
      /\ opSeen' \in [Ops -> {0} \cup Times]
      /\ opSess' \in [Ops -> {NoSession} \cup Sessions]
      /\ \A o \in ops' : opSess'[o] \in 0..(opened + 1)
  <2> DEFINE seen == [sessSeen EXCEPT ![opened + 1] = now]
  <2>1. Reap(sess \cup {opened + 1}, ops, seen, opSeen, opSess)
    BY <1>5
  <2>2. seen \in [Sessions -> {0} \cup Times]
    BY <1>3
  <2>3. /\ issued \in 0..MaxOp /\ ops \subseteq 1..issued
        /\ opSeen \in [Ops -> {0} \cup Times]
        /\ opSess \in [Ops -> {NoSession} \cup Sessions]
    OBVIOUS
  <2> HIDE DEF seen, HS2Inv, TypeOK, OwnersAreKnown
  <2> QED
    BY <1>1, <1>2, <1>4, <2>1, <2>2, <2>3, ReapingKeepsTypes
<1>7. \A c \in Calls : call'[c].sess \in 0..(opened + 1)
  BY DEF OpenSession
<1>8. UNCHANGED <<now, issued, call>>
  BY DEF OpenSession
<1> QED
  BY <1>1, <1>6, <1>7, <1>8

LEMMA CloseSessionKeeps ==
    ASSUME NEW s \in Sessions
    PROVE  HS2Inv /\ CloseSession(s) => HS2Inv'
<1> SUFFICES ASSUME HS2Inv, CloseSession(s)
             PROVE  HS2Inv'
  OBVIOUS
<1> USE DEF HS2Inv, TypeOK, OwnersAreKnown
<1>1. /\ sess \ {s} \subseteq 1..opened
      /\ ops \ Of(ops, opSess, {s}) \subseteq 1..issued
      /\ \A o \in ops \ Of(ops, opSess, {s}) : opSess[o] \in 0..opened
  OBVIOUS
<1>2. Reap(sess \ {s}, ops \ Of(ops, opSess, {s}), sessSeen, opSeen, opSess)
  BY DEF CloseSession
<1>3. /\ sess' \subseteq 1..opened /\ ops' \subseteq 1..issued
      /\ sessSeen' \in [Sessions -> {0} \cup Times]
      /\ opSeen' \in [Ops -> {0} \cup Times]
      /\ opSess' \in [Ops -> {NoSession} \cup Sessions]
      /\ \A o \in ops' : opSess'[o] \in 0..opened
  BY <1>1, <1>2, ReapingKeepsTypes
<1>4. UNCHANGED <<now, opened, issued, call>>
  BY DEF CloseSession
<1> QED
  BY <1>3, <1>4

LEMMA StatementEndsKeeps ==
    ASSUME NEW c \in Calls
    PROVE  HS2Inv /\ StatementEnds(c) => HS2Inv'
<1> SUFFICES ASSUME HS2Inv, StatementEnds(c)
             PROVE  HS2Inv'
  OBVIOUS
<1> USE DEF HS2Inv, TypeOK, OwnersAreKnown
<1> DEFINE owner == [opSess EXCEPT ![issued + 1] = call[c].sess]
           seen  == [opSeen EXCEPT ![issued + 1] = now]
<1>1. issued + 1 \in 0..MaxOp /\ issued' = issued + 1
  BY DEF StatementEnds
<1>2. ops \cup {issued + 1} \subseteq 1..(issued + 1)
  OBVIOUS
<1>3. call[c].sess \in {NoSession} \cup Sessions /\ call[c].sess \in 0..opened
  OBVIOUS
<1>4. seen \in [Ops -> {0} \cup Times]
  OBVIOUS
<1>5. owner \in [Ops -> {NoSession} \cup Sessions]
  BY <1>3
<1>6. \A o \in ops \cup {issued + 1} : owner[o] \in 0..opened
  <2> SUFFICES ASSUME NEW o \in ops \cup {issued + 1}
               PROVE  owner[o] \in 0..opened
    OBVIOUS
  <2>1. o \in Ops
    BY <1>1, <1>2 DEF Ops
  <2> QED
    BY <2>1, <1>3
<1>7. Reap(sess, ops \cup {issued + 1}, sessSeen, seen, owner)
  BY DEF StatementEnds
<1>8. /\ sess' \subseteq 1..opened /\ ops' \subseteq 1..(issued + 1)
      /\ sessSeen' \in [Sessions -> {0} \cup Times]
      /\ opSeen' \in [Ops -> {0} \cup Times]
      /\ opSess' \in [Ops -> {NoSession} \cup Sessions]
      /\ \A o \in ops' : opSess'[o] \in 0..opened
  <2> HIDE DEF owner, seen
  <2>1. opened \in 0..MaxSession /\ sess \subseteq 1..opened
    OBVIOUS
  <2>2. sessSeen \in [Sessions -> {0} \cup Times]
    OBVIOUS
  <2> QED
    BY <1>1, <1>2, <1>4, <1>5, <1>6, <1>7, <2>1, <2>2, ReapingKeepsTypes
<1>9. /\ now' = now /\ opened' = opened
      /\ call' = [call EXCEPT ![c] = IdleCall]
  BY DEF StatementEnds
<1>10. IdleCall \in [kind : {"none", "execute", "meta"}, sess : {NoSession} \cup Sessions]
  BY DEF IdleCall
<1>11. \A d \in Calls : call'[d].sess \in 0..opened
  BY <1>9 DEF IdleCall, NoSession
<1>12. call' \in [Calls -> [kind : {"none", "execute", "meta"}, sess : {NoSession} \cup Sessions]]
  BY <1>9, <1>10
<1> QED
  BY <1>1, <1>8, <1>9, <1>11, <1>12

LEMMA FinishMetaKeeps ==
    ASSUME NEW c \in Calls
    PROVE  HS2Inv /\ finishMeta(c) => HS2Inv'
<1> SUFFICES ASSUME HS2Inv, finishMeta(c)
             PROVE  HS2Inv'
  OBVIOUS
<1> USE DEF HS2Inv, TypeOK, OwnersAreKnown, finishMeta
<1>1. issued + 1 \in 1..MaxOp /\ issued' = issued + 1 /\ issued + 1 \in Ops
  BY DEF Ops
<1>2. ops' \subseteq 1..issued'
  BY <1>1
<1>3. opSess' \in [Ops -> {NoSession} \cup Sessions]
  OBVIOUS
<1>4. opSeen' \in [Ops -> {0} \cup Times]
  OBVIOUS
<1>5. \A o \in ops' : opSess'[o] \in 0..opened
  <2> SUFFICES ASSUME NEW o \in ops'
               PROVE  opSess'[o] \in 0..opened
    OBVIOUS
  <2>1. o \in Ops
    BY <1>1, <1>2 DEF Ops
  <2>2. CASE o = issued + 1
    BY <1>1, <2>2 DEF NoSession
  <2>3. CASE o # issued + 1
    BY <2>1, <2>3
  <2> QED
    BY <2>2, <2>3
<1>6. call' \in [Calls -> [kind : {"none", "execute", "meta"}, sess : {NoSession} \cup Sessions]]
  <2>1. IdleCall \in [kind : {"none", "execute", "meta"}, sess : {NoSession} \cup Sessions]
    BY DEF IdleCall
  <2> QED
    BY <2>1
<1>7. \A d \in Calls : call'[d].sess \in 0..opened
  BY DEF IdleCall, NoSession
<1> QED
  BY <1>1, <1>2, <1>3, <1>4, <1>5, <1>6, <1>7

LEMMA CallKeeps ==
    ASSUME NEW c \in Calls, NEW s \in Sessions
    PROVE  HS2Inv /\ (ExecuteStatement(c, s) \/ MetadataCall(c, s)) => HS2Inv'
<1> SUFFICES ASSUME HS2Inv, ExecuteStatement(c, s) \/ MetadataCall(c, s)
             PROVE  HS2Inv'
  OBVIOUS
<1> USE DEF HS2Inv, TypeOK, OwnersAreKnown
<1>1. UNCHANGED <<now, opened, issued, sess, ops, opSess, opSeen>>
  BY DEF ExecuteStatement, MetadataCall
<1>2. sessSeen' \in [Sessions -> {0} \cup Times]
  BY DEF ExecuteStatement, MetadataCall
<1>3. s \in 0..opened
  <2>1. s \in sess
    BY DEF ExecuteStatement, MetadataCall
  <2>2. sess \subseteq 1..opened /\ opened \in Nat
    OBVIOUS
  <2> QED
    BY ONLY <2>1, <2>2
<1>4. PICK k \in {"execute", "meta"} : call' = [call EXCEPT ![c] = [kind |-> k, sess |-> s]]
  BY DEF ExecuteStatement, MetadataCall
<1>5. call' \in [Calls -> [kind : {"none", "execute", "meta"}, sess : {NoSession} \cup Sessions]]
  BY <1>4
<1>6. \A d \in Calls : call'[d].sess \in 0..opened
  BY <1>3, <1>4
<1> QED
  BY <1>1, <1>2, <1>5, <1>6

LEMMA OperationKeeps ==
    ASSUME NEW o \in Ops
    PROVE  HS2Inv /\ (ReadOperation(o) \/ CloseOperation(o)) => HS2Inv'
<1> SUFFICES ASSUME HS2Inv, ReadOperation(o) \/ CloseOperation(o)
             PROVE  HS2Inv'
  OBVIOUS
<1> USE DEF HS2Inv, TypeOK, OwnersAreKnown
<1>1. CASE ReadOperation(o)
  BY <1>1 DEF ReadOperation
<1>2. CASE CloseOperation(o)
  <2>1. ops' \subseteq 1..issued /\ UNCHANGED <<now, opened, issued, sess, sessSeen, call>>
    BY <1>2 DEF CloseOperation
  <2>2. opSess' \in [Ops -> {NoSession} \cup Sessions] /\ opSeen' \in [Ops -> {0} \cup Times]
    BY <1>2 DEF CloseOperation
  <2>3. \A p \in ops' : opSess'[p] = opSess[p]
    BY <1>2 DEF CloseOperation
  <2>4. \A p \in ops' : opSess'[p] \in 0..opened'
    BY <1>2, <2>1, <2>3 DEF CloseOperation
  <2> QED
    BY <2>1, <2>2, <2>4
<1> QED
  BY <1>1, <1>2

LEMMA TickKeeps == HS2Inv /\ Tick => HS2Inv'
BY DEF HS2Inv, TypeOK, OwnersAreKnown, Tick, Times

LEMMA NextKeepsInv == HS2Inv /\ [Next]_vars => HS2Inv'
<1> SUFFICES ASSUME HS2Inv, [Next]_vars
             PROVE  HS2Inv'
  OBVIOUS
<1>1. CASE Tick
  BY <1>1, TickKeeps
<1>2. CASE OpenSession
  BY <1>2, OpenSessionKeeps
<1>3. CASE \E s \in Sessions : CloseSession(s)
  BY <1>3, CloseSessionKeeps
<1>4. CASE \E c \in Calls, s \in Sessions : ExecuteStatement(c, s) \/ MetadataCall(c, s)
  BY <1>4, CallKeeps
<1>5. CASE \E c \in Calls : StatementEnds(c)
  BY <1>5, StatementEndsKeeps
<1>6. CASE \E c \in Calls : StatementRefused(c)
  <2>1. PICK c \in Calls : StatementRefused(c)
    BY <1>6
  <2>2. call' = [call EXCEPT ![c] = IdleCall]
        /\ UNCHANGED <<now, opened, issued, sess, sessSeen, ops, opSess, opSeen>>
    BY <2>1 DEF StatementRefused
  <2> QED
    BY <2>2 DEF HS2Inv, TypeOK, OwnersAreKnown, IdleCall, NoSession
<1>7. CASE \E c \in Calls : finishMeta(c)
  BY <1>7, FinishMetaKeeps
<1>8. CASE \E o \in Ops : ReadOperation(o) \/ CloseOperation(o)
  BY <1>8, OperationKeeps
<1>9. CASE UNCHANGED vars
  BY <1>9 DEF HS2Inv, TypeOK, OwnersAreKnown, vars
<1> QED
  BY <1>1, <1>2, <1>3, <1>4, <1>5, <1>6, <1>7, <1>8, <1>9 DEF Next

(***************************************************************************)
(* The handle tables are well typed in every reachable state, whatever the *)
(* ceilings, the TTL and the number of calls in flight.                    *)
(***************************************************************************)
THEOREM HandlesAreTyped == Spec => [](TypeOK /\ OwnersAreKnown)
<1>1. HS2Inv => TypeOK /\ OwnersAreKnown
  BY DEF HS2Inv
<1> QED
  BY <1>1, InitInv, NextKeepsInv, PTL DEF Spec

-------------------------------------------------------------------------------
(***************************************************************************)
(* The ceilings.                                                           *)
(***************************************************************************)
Results == { o \in ops : opSess[o] # NoSession }

\* A table of results that lost some, and gained none, still fits.
LEMMA FewerResultsFit ==
    ASSUME HS2Inv, StatementResultsWithinCeiling, NEW R, R \subseteq Results
    PROVE  Cardinality(R) <= maxOperations
<1>1. IsFiniteSet(Results) /\ Cardinality(Results) \in Nat
  <2>1. issued \in Nat /\ ops \subseteq 1..issued
    BY DEF HS2Inv, TypeOK
  <2>2. Results \subseteq 1..issued
    BY <2>1 DEF Results
  <2> QED
    BY <2>1, <2>2, RangesAreFinite
<1>2. R \in SUBSET Results
  OBVIOUS
<1>3. IsFiniteSet(R) /\ Cardinality(R) <= Cardinality(Results)
  BY <1>1, <1>2, FS_Subset
<1>4. Cardinality(R) \in Nat
  BY <1>3, FS_CardinalityType
<1> QED
  BY <1>1, <1>3, <1>4 DEF StatementResultsWithinCeiling, Results

\* After a reaping step both ceilings hold, whatever the tables were before.
LEMMA ReapedTablesFit ==
    ASSUME NEW m \in Nat, NEW n \in Nat, NEW S, S \subseteq 1..m, NEW O, O \subseteq 1..n,
           NEW sSeen, NEW oSeen, NEW owner,
           Reap(S, O, sSeen, oSeen, owner)
    PROVE  CeilingsHold'
<1>1. /\ ops' \subseteq O
      /\ Cardinality(sess') <= maxSessions
      /\ Cardinality(ops') <= maxOperations
  BY Reaping DEF Reaped
<1>2. IsFiniteSet(ops') /\ Cardinality(ops') \in Nat
  <2>1. ops' \subseteq 1..n
    BY <1>1
  <2> QED
    BY <2>1, RangesAreFinite
<1>3. Results' \in SUBSET ops'
  BY DEF Results
<1>4. IsFiniteSet(Results') /\ Cardinality(Results') <= Cardinality(ops')
  BY <1>2, <1>3, FS_Subset
<1>5. Cardinality(Results') \in Nat
  BY <1>4, FS_CardinalityType
<1>6. Cardinality(Results') <= maxOperations
  BY <1>1, <1>2, <1>4, <1>5
<1> QED
  BY <1>1, <1>6 DEF CeilingsHold, SessionsWithinCeiling, StatementResultsWithinCeiling, Results

LEMMA InitCeilings == Init => CeilingsHold
<1> SUFFICES ASSUME Init
             PROVE  CeilingsHold
  OBVIOUS
<1>1. sess = {} /\ { o \in ops : opSess[o] # NoSession } = {}
  BY DEF Init
<1>2. Cardinality({}) = 0
  BY FS_EmptySet
<1> QED
  BY <1>1, <1>2 DEF CeilingsHold, SessionsWithinCeiling, StatementResultsWithinCeiling

LEMMA NextKeepsCeilings == HS2Inv /\ CeilingsHold /\ [Next]_vars => CeilingsHold'
<1> SUFFICES ASSUME HS2Inv, CeilingsHold, [Next]_vars
             PROVE  CeilingsHold'
  OBVIOUS
<1>1. CASE \E S \in SUBSET (1..MaxSession), O \in SUBSET (1..MaxOp) :
              \E sSeen, oSeen, owner : Reap(S, O, sSeen, oSeen, owner)
  BY <1>1, ReapedTablesFit
<1>2. ASSUME sess' = sess, Results' \subseteq Results
      PROVE  CeilingsHold'
  <2>1. Cardinality(Results') <= maxOperations
    BY <1>2, FewerResultsFit DEF CeilingsHold
  <2> QED
    BY <1>2, <2>1 DEF CeilingsHold, SessionsWithinCeiling, StatementResultsWithinCeiling, Results
<1> USE DEF HS2Inv, TypeOK
<1>10. sess \subseteq 1..MaxSession /\ ops \subseteq 1..MaxOp
  OBVIOUS
<1>3. CASE OpenSession
  <2>1. sess \cup {opened + 1} \in SUBSET (1..MaxSession) /\ ops \in SUBSET (1..MaxOp)
    BY <1>3 DEF OpenSession
  <2> QED
    BY <1>1, <1>3, <2>1 DEF OpenSession
<1>4. CASE \E s \in Sessions : CloseSession(s)
  <2>1. PICK s \in Sessions : CloseSession(s)
    BY <1>4
  <2>2. /\ sess \ {s} \in SUBSET (1..MaxSession)
        /\ ops \ Of(ops, opSess, {s}) \in SUBSET (1..MaxOp)
    BY <1>10
  <2> QED
    BY <1>1, <2>1, <2>2 DEF CloseSession
<1>5. CASE \E c \in Calls : StatementEnds(c)
  <2>1. PICK c \in Calls : StatementEnds(c)
    BY <1>5
  <2>2. sess \in SUBSET (1..MaxSession) /\ ops \cup {issued + 1} \in SUBSET (1..MaxOp)
    BY <2>1 DEF StatementEnds
  <2> QED
    BY <1>1, <2>1, <2>2 DEF StatementEnds
<1>6. CASE \E c \in Calls : finishMeta(c)
  <2>1. PICK c \in Calls : finishMeta(c)
    BY <1>6
  <2>2. issued + 1 \in Ops /\ issued + 1 \notin ops
    BY <2>1 DEF finishMeta, Ops
  <2>3. sess' = sess /\ ops' = ops \cup {issued + 1}
        /\ opSess' = [opSess EXCEPT ![issued + 1] = NoSession]
    BY <2>1 DEF finishMeta
  <2>4. Results' \subseteq Results
    BY <2>2, <2>3 DEF Results, Ops
  <2> QED
    BY <1>2, <2>3, <2>4
<1>7. CASE \E o \in Ops : CloseOperation(o)
  <2>1. PICK o \in Ops : CloseOperation(o)
    BY <1>7
  <2>2. sess' = sess /\ ops' = ops \ {o} /\ opSess' = [opSess EXCEPT ![o] = NoSession]
    BY <2>1 DEF CloseOperation
  <2>3. Results' \subseteq Results
    BY <2>2 DEF Results, Ops
  <2> QED
    BY <1>2, <2>2, <2>3
<1>8. CASE UNCHANGED <<sess, ops, opSess>>
  BY <1>2, <1>8 DEF Results
<1>9. CASE Next
  <2>1. CASE \E c \in Calls, s \in Sessions : ExecuteStatement(c, s) \/ MetadataCall(c, s)
    BY <1>8, <2>1 DEF ExecuteStatement, MetadataCall
  <2>2. CASE \E c \in Calls : StatementRefused(c)
    BY <1>8, <2>2 DEF StatementRefused
  <2>3. CASE \E o \in Ops : ReadOperation(o)
    BY <1>8, <2>3 DEF ReadOperation
  <2>4. CASE Tick
    BY <1>8, <2>4 DEF Tick
  <2> QED
    BY <1>3, <1>4, <1>5, <1>6, <1>7, <1>9, <2>1, <2>2, <2>3, <2>4 DEF Next
<1> QED
  BY <1>8, <1>9 DEF vars

(***************************************************************************)
(* However many calls are in flight, neither the sessions nor the results  *)
(* of statements ever exceed their ceilings.                               *)
(***************************************************************************)
THEOREM TablesStayBounded == Spec => []CeilingsHold
<1>1. HS2Inv /\ CeilingsHold /\ [Next]_vars => (HS2Inv /\ CeilingsHold)'
  BY NextKeepsInv, NextKeepsCeilings
<1> QED
  BY <1>1, InitInv, InitCeilings, PTL DEF Spec

-------------------------------------------------------------------------------
(***************************************************************************)
(* What a step takes away.                                                 *)
(***************************************************************************)
\* An operation leaves only in the three reaping steps, or when it is closed.
LEMMA OnlyReapingTakes ==
    ASSUME HS2Inv, [Next]_vars
    PROVE  \/ OpenSession
           \/ \E s \in Sessions : CloseSession(s)
           \/ \E c \in Calls : StatementEnds(c)
           \/ sess' = sess /\ \A o \in ops \ ops' : CloseOperation(o)
<1>1. CASE Tick
  BY <1>1 DEF Tick
<1>2. CASE \E c \in Calls, s \in Sessions : ExecuteStatement(c, s) \/ MetadataCall(c, s)
  BY <1>2 DEF ExecuteStatement, MetadataCall
<1>3. CASE \E c \in Calls : StatementRefused(c) \/ finishMeta(c)
  BY <1>3 DEF StatementRefused, finishMeta
<1>4. CASE \E o \in Ops : ReadOperation(o)
  BY <1>4 DEF ReadOperation
<1>5. CASE \E o \in Ops : CloseOperation(o)
  <2>1. PICK o \in Ops : CloseOperation(o)
    BY <1>5
  <2>2. sess' = sess /\ ops' = ops \ {o}
    BY <2>1 DEF CloseOperation
  <2>3. ASSUME NEW p \in ops \ ops'
        PROVE  CloseOperation(p)
    BY <2>1, <2>2
  <2> QED
    BY <2>2, <2>3
<1>6. CASE UNCHANGED vars
  BY <1>6 DEF vars
<1> QED
  BY <1>1, <1>2, <1>3, <1>4, <1>5, <1>6 DEF Next

\* The session that is being opened is neither idle nor the owner of anything.
LEMMA NewSessionIsFresh ==
    ASSUME HS2Inv, OpenSession
    PROVE  /\ opened + 1 \notin sess
           /\ \A o \in ops : opSess[o] # opened + 1
           /\ ~Idle([sessSeen EXCEPT ![opened + 1] = now][opened + 1])
           /\ \A s \in sess : [sessSeen EXCEPT ![opened + 1] = now][s] = sessSeen[s]
<1> USE DEF HS2Inv, TypeOK, OwnersAreKnown
<1>1. opened + 1 \in Sessions
  BY DEF OpenSession, Sessions
<1>2. ~Idle(now)
  BY DEF Idle, Times
<1>3. [sessSeen EXCEPT ![opened + 1] = now][opened + 1] = now
  BY <1>1
<1>4. opened + 1 \notin sess
  OBVIOUS
<1>5. \A o \in ops : opSess[o] # opened + 1
  OBVIOUS
<1>6. \A s \in sess : [sessSeen EXCEPT ![opened + 1] = now][s] = sessSeen[s]
  BY <1>4 DEF Sessions
<1> QED
  BY <1>2, <1>3, <1>4, <1>5, <1>6

\* An operation that is being stored does not disturb the others.
LEMMA NewOperationIsFresh ==
    ASSUME HS2Inv, NEW c \in Calls, StatementEnds(c)
    PROVE  /\ issued + 1 \notin ops
           /\ \A o \in ops : /\ [opSeen EXCEPT ![issued + 1] = now][o] = opSeen[o]
                             /\ [opSess EXCEPT ![issued + 1] = call[c].sess][o] = opSess[o]
<1> USE DEF HS2Inv, TypeOK
<1>1. issued + 1 \notin ops
  OBVIOUS
<1>2. \A o \in ops : o \in Ops /\ o # issued + 1
  BY <1>1 DEF Ops
<1> QED
  BY <1>1, <1>2

\* The tables that the three reaping steps are given are within the handles.
LEMMA TablesAreRanges ==
    ASSUME HS2Inv
    PROVE  /\ sess \subseteq 1..MaxSession /\ ops \subseteq 1..MaxOp
           /\ OpenSession => sess \cup {opened + 1} \subseteq 1..MaxSession
           /\ \A c \in Calls : StatementEnds(c) => ops \cup {issued + 1} \subseteq 1..MaxOp
BY DEF HS2Inv, TypeOK, OpenSession, StatementEnds

LEMMA StepsTakeTheResults ==
    HS2Inv /\ [Next]_vars => \A s \in sess \ sess' : \A o \in ops' : o \in ops => opSess[o] # s
<1> SUFFICES ASSUME HS2Inv, [Next]_vars, NEW s \in sess \ sess', NEW o \in ops', o \in ops
             PROVE  opSess[o] # s
  OBVIOUS
<1>1. CASE OpenSession
  <2>1. Reap(sess \cup {opened + 1}, ops, [sessSeen EXCEPT ![opened + 1] = now], opSeen, opSess)
    BY <1>1 DEF OpenSession
  <2> QED
    <3>1. Reaped(sess \cup {opened + 1}, ops, [sessSeen EXCEPT ![opened + 1] = now], opSeen, opSess)
      BY <1>1, <2>1, TablesAreRanges, Reaping
    <3> QED
      BY <3>1 DEF Reaped
<1>2. CASE \E t \in Sessions : CloseSession(t)
  <2>1. PICK t \in Sessions : CloseSession(t)
    BY <1>2
  <2>2. Reap(sess \ {t}, ops \ Of(ops, opSess, {t}), sessSeen, opSeen, opSess)
    BY <2>1 DEF CloseSession
  <2>3. sess \ {t} \subseteq 1..MaxSession /\ ops \ Of(ops, opSess, {t}) \subseteq 1..MaxOp
    BY TablesAreRanges
  <2>4. /\ ops' \subseteq ops \ Of(ops, opSess, {t})
        /\ \A r \in (sess \ {t}) \ sess' : \A p \in ops' : opSess[p] # r
    <3>1. Reaped(sess \ {t}, ops \ Of(ops, opSess, {t}), sessSeen, opSeen, opSess)
      BY <2>2, <2>3, Reaping
    <3> QED
      BY <3>1 DEF Reaped
  <2>5. CASE s = t
    BY <2>4, <2>5 DEF Of
  <2>6. CASE s # t
    BY <2>4, <2>6
  <2> QED
    BY <2>5, <2>6
<1>3. CASE \E c \in Calls : StatementEnds(c)
  <2>1. PICK c \in Calls : StatementEnds(c)
    BY <1>3
  <2> DEFINE owner == [opSess EXCEPT ![issued + 1] = call[c].sess]
             seen  == [opSeen EXCEPT ![issued + 1] = now]
  <2>2. Reap(sess, ops \cup {issued + 1}, sessSeen, seen, owner)
    BY <2>1 DEF StatementEnds
  <2>3. owner[o] = opSess[o]
    BY <2>1, NewOperationIsFresh
  <2> HIDE DEF owner, seen
  <2>4. owner[o] # s
    <3>1. Reaped(sess, ops \cup {issued + 1}, sessSeen, seen, owner)
      BY <2>1, <2>2, TablesAreRanges, Reaping
    <3> QED
      BY <3>1 DEF Reaped
  <2> QED
    BY <2>3, <2>4
<1> QED
  BY <1>1, <1>2, <1>3, OnlyReapingTakes

(***************************************************************************)
(* A session never leaves its results behind for nobody to close.          *)
(***************************************************************************)
THEOREM ResultsLeaveWithTheirSession == Spec => SessionsTakeTheirResults
<1>1. Spec => []HS2Inv
  BY InitInv, NextKeepsInv, PTL DEF Spec
<1>2. HS2Inv /\ [Next]_vars
        => [\A s \in sess \ sess' : \A o \in ops' : o \in ops => opSess[o] # s]_vars
  BY StepsTakeTheResults
<1> QED
  BY <1>1, <1>2, PTL DEF Spec, SessionsTakeTheirResults

(***************************************************************************)
(* Why an operation o is not in the table after a step.                    *)
(***************************************************************************)
Justified(o) ==
    \/ CloseOperation(o)
    \/ opSess[o] # NoSession /\ CloseSession(opSess[o])
    \/ Idle(opSeen[o])
    \/ /\ opSess[o] \in sess \ sess'
       /\ Idle(sessSeen[opSess[o]]) \/ Cardinality(sess) >= maxSessions
    \/ /\ Cardinality(ops) >= maxOperations
       /\ \A p \in ops' : opSeen[o] <= opSeen'[p]

LEMMA OverfullTablesWereFull ==
    ASSUME NEW n \in Nat, NEW K, K \subseteq 1..n, NEW x, NEW max \in Nat,
           Overfull(K, max) \/ Overfull(K \cup {x}, max)
    PROVE  Cardinality(K) >= max
<1>1. PICK L : L \subseteq K \cup {x} /\ Cardinality(L) > max
  BY DEF Overfull
<1> QED
  BY <1>1, FullBefore

LEMMA OpenSessionTakesJustly ==
    ASSUME HS2Inv, OpenSession, NEW o \in ops \ ops'
    PROVE  Justified(o)
<1> DEFINE S    == sess \cup {opened + 1}
           seen == [sessSeen EXCEPT ![opened + 1] = now]
<1>1. Reaped(S, ops, seen, opSeen, opSess)
  <2>1. Reap(S, ops, seen, opSeen, opSess)
    BY DEF OpenSession
  <2> QED
    BY <2>1, TablesAreRanges, Reaping
<1>2. /\ \A s \in sess : seen[s] = sessSeen[s]
      /\ opSess[o] # opened + 1
  BY NewSessionIsFresh
<1>3. Overfull(S, maxSessions) => Cardinality(sess) >= maxSessions
  BY TablesAreRanges, OverfullTablesWereFull
<1>4. Overfull(ops, maxOperations) => Cardinality(ops) >= maxOperations
  BY TablesAreRanges, OverfullTablesWereFull
<1>5. CASE Idle(opSeen[o])
  BY <1>5 DEF Justified
<1>6. CASE opSess[o] \in S \ sess'
  <2>1. opSess[o] \in sess \ sess'
    BY <1>2, <1>6
  <2>2. Idle(seen[opSess[o]]) \/ Overfull(S, maxSessions)
    BY <1>1, <1>6 DEF Reaped
  <2>3. seen[opSess[o]] = sessSeen[opSess[o]]
    BY <1>2, <2>1
  <2>4. Idle(sessSeen[opSess[o]]) \/ Cardinality(sess) >= maxSessions
    BY <1>3, <2>2, <2>3
  <2> QED
    BY <2>1, <2>4 DEF Justified
<1>7. CASE Overfull(ops, maxOperations) /\ \A p \in ops' : opSeen[o] <= opSeen[p]
  <2>1. \A p \in ops' : opSeen'[p] = opSeen[p]
    BY <1>1, TablesAreRanges DEF Reaped, Ops
  <2> QED
    BY <1>4, <1>7, <2>1 DEF Justified
<1> QED
  BY <1>1, <1>5, <1>6, <1>7 DEF Reaped

LEMMA CloseSessionTakesJustly ==
    ASSUME HS2Inv, NEW t \in Sessions, CloseSession(t), NEW o \in ops \ ops'
    PROVE  Justified(o)
<1> DEFINE S == sess \ {t}
           O == ops \ Of(ops, opSess, {t})
<1>1. S \subseteq 1..MaxSession /\ O \subseteq 1..MaxOp /\ S \subseteq sess /\ O \subseteq ops
  BY TablesAreRanges
<1>2. Reaped(S, O, sessSeen, opSeen, opSess)
  <2>1. Reap(S, O, sessSeen, opSeen, opSess)
    BY DEF CloseSession
  <2> HIDE DEF S, O
  <2> QED
    BY <1>1, <2>1, Reaping
<1>3. Overfull(S, maxSessions) => Cardinality(sess) >= maxSessions
  <2>1. Overfull(S, maxSessions) => Overfull(sess, maxSessions)
    BY <1>1 DEF Overfull
  <2> QED
    BY <2>1, TablesAreRanges, OverfullTablesWereFull
<1>4. Overfull(O, maxOperations) => Cardinality(ops) >= maxOperations
  <2>1. Overfull(O, maxOperations) => Overfull(ops, maxOperations)
    BY <1>1 DEF Overfull
  <2> QED
    BY <2>1, TablesAreRanges, OverfullTablesWereFull
<1>5. CASE o \notin O
  <2>1. opSess[o] = t /\ t # NoSession
    BY <1>5 DEF Of, Sessions, NoSession
  <2> QED
    BY <2>1 DEF Justified
<1>6. CASE o \in O /\ Idle(opSeen[o])
  BY <1>6 DEF Justified
<1>7. CASE o \in O /\ opSess[o] \in S \ sess'
  <2>1. Idle(sessSeen[opSess[o]]) \/ Overfull(S, maxSessions)
    BY <1>2, <1>7 DEF Reaped
  <2> QED
    BY <1>1, <1>3, <1>7, <2>1 DEF Justified
<1>8. CASE o \in O /\ Overfull(O, maxOperations) /\ \A p \in ops' : opSeen[o] <= opSeen[p]
  <2>1. \A p \in ops' : opSeen'[p] = opSeen[p]
    BY <1>1, <1>2 DEF Reaped, Ops
  <2> QED
    BY <1>4, <1>8, <2>1 DEF Justified
<1>9. o \notin ops'
  OBVIOUS
<1> HIDE DEF S, O
<1> QED
  BY <1>2, <1>5, <1>6, <1>7, <1>8, <1>9 DEF Reaped

LEMMA StatementEndsTakesJustly ==
    ASSUME HS2Inv, NEW c \in Calls, StatementEnds(c), NEW o \in ops \ ops'
    PROVE  Justified(o)
<1> DEFINE O     == ops \cup {issued + 1}
           owner == [opSess EXCEPT ![issued + 1] = call[c].sess]
           seen  == [opSeen EXCEPT ![issued + 1] = now]
<1>1. sess \subseteq 1..MaxSession /\ O \subseteq 1..MaxOp
  BY TablesAreRanges
<1>2. owner[o] = opSess[o] /\ seen[o] = opSeen[o]
  BY NewOperationIsFresh
<1>3. Overfull(O, maxOperations) => Cardinality(ops) >= maxOperations
  BY TablesAreRanges, OverfullTablesWereFull
<1>4. Overfull(sess, maxSessions) => Cardinality(sess) >= maxSessions
  BY TablesAreRanges, OverfullTablesWereFull
<1>5. Reap(sess, O, sessSeen, seen, owner) /\ o \in O
  BY DEF StatementEnds
<1> HIDE DEF O, owner, seen
<1>6. Reaped(sess, O, sessSeen, seen, owner)
  BY <1>1, <1>5, Reaping
<1>7. CASE Idle(seen[o])
  BY <1>2, <1>7 DEF Justified
<1>8. CASE owner[o] \in sess \ sess'
  <2>1. Idle(sessSeen[owner[o]]) \/ Overfull(sess, maxSessions)
    BY <1>6, <1>8 DEF Reaped
  <2> QED
    BY <1>2, <1>4, <1>8, <2>1 DEF Justified
<1>9. CASE Overfull(O, maxOperations) /\ \A p \in ops' : seen[o] <= seen[p]
  <2>1. \A p \in ops' : opSeen'[p] = seen[p]
    BY <1>1, <1>6 DEF Reaped, Ops
  <2> QED
    BY <1>2, <1>3, <1>9, <2>1 DEF Justified
<1> QED
  BY <1>5, <1>6, <1>7, <1>8, <1>9 DEF Reaped

LEMMA StepsTakeJustly == HS2Inv /\ [Next]_vars => \A o \in ops \ ops' : Justified(o)
<1> SUFFICES ASSUME HS2Inv, [Next]_vars, NEW o \in ops \ ops'
             PROVE  Justified(o)
  OBVIOUS
<1>1. CASE \A p \in ops \ ops' : CloseOperation(p)
  BY <1>1 DEF Justified
<1> QED
  BY <1>1, OnlyReapingTakes, OpenSessionTakesJustly, CloseSessionTakesJustly, StatementEndsTakesJustly

(***************************************************************************)
(* No other client's call takes a result away: it was closed, it or its    *)
(* session was idle, or a table was full.                                  *)
(***************************************************************************)
THEOREM ResultsLeaveJustly == Spec => ResultsLeaveForAReason
<1>1. Spec => []HS2Inv
  BY InitInv, NextKeepsInv, PTL DEF Spec
<1>2. ASSUME HS2Inv, [Next]_vars
      PROVE  \A o \in ops \ ops' :
                \/ CloseOperation(o)
                \/ opSess[o] # NoSession /\ CloseSession(opSess[o])
                \/ Idle(opSeen[o])
                \/ opSess[o] \in sess /\ Idle(sessSeen[opSess[o]])
                \/ opSess[o] \in sess \ sess' /\ Cardinality(sess) >= maxSessions
                \/ Cardinality(ops) >= maxOperations
  BY <1>2, StepsTakeJustly DEF Justified
<1> QED
  BY <1>1, <1>2, PTL DEF Spec, ResultsLeaveForAReason

LEMMA StepsTakeTheOldestSession == HS2Inv /\ [Next]_vars => OldestSessionGoes
<1> SUFFICES ASSUME HS2Inv, [Next]_vars, NEW s \in sess \ sess', ~CloseSession(s),
                    ~Idle(sessSeen[s]), NEW t \in sess'
             PROVE  sessSeen[s] <= sessSeen'[t]
  BY DEF OldestSessionGoes
<1>1. CASE OpenSession
  <2> DEFINE S    == sess \cup {opened + 1}
             seen == [sessSeen EXCEPT ![opened + 1] = now]
  <2>1. Reaped(S, ops, seen, opSeen, opSess)
    <3>1. Reap(S, ops, seen, opSeen, opSess)
      BY <1>1 DEF OpenSession
    <3> QED
      BY <1>1, <3>1, TablesAreRanges, Reaping
  <2>2. seen[s] = sessSeen[s] /\ S \subseteq 1..MaxSession /\ s \in S
    BY <1>1, NewSessionIsFresh, TablesAreRanges
  <2> HIDE DEF S, seen
  <2> QED
    BY <2>1, <2>2 DEF Reaped, Sessions
<1>2. CASE \E r \in Sessions : CloseSession(r)
  <2>1. PICK r \in Sessions : CloseSession(r)
    BY <1>2
  <2> DEFINE S == sess \ {r}
             O == ops \ Of(ops, opSess, {r})
  <2>2. S \subseteq 1..MaxSession /\ O \subseteq 1..MaxOp /\ s \in S
    BY <2>1, TablesAreRanges
  <2>3. Reap(S, O, sessSeen, opSeen, opSess)
    BY <2>1 DEF CloseSession
  <2> HIDE DEF S, O
  <2>4. Reaped(S, O, sessSeen, opSeen, opSess)
    BY <2>2, <2>3, Reaping
  <2> QED
    BY <2>2, <2>4 DEF Reaped, Sessions
<1>3. CASE \E c \in Calls : StatementEnds(c)
  <2>1. PICK c \in Calls : StatementEnds(c)
    BY <1>3
  <2> DEFINE O     == ops \cup {issued + 1}
             owner == [opSess EXCEPT ![issued + 1] = call[c].sess]
             seen  == [opSeen EXCEPT ![issued + 1] = now]
  <2>2. sess \subseteq 1..MaxSession /\ O \subseteq 1..MaxOp
    BY <2>1, TablesAreRanges
  <2>3. Reap(sess, O, sessSeen, seen, owner)
    BY <2>1 DEF StatementEnds
  <2> HIDE DEF O, owner, seen
  <2>4. Reaped(sess, O, sessSeen, seen, owner)
    BY <2>2, <2>3, Reaping
  <2> QED
    BY <2>2, <2>4 DEF Reaped, Sessions
<1> QED
  BY <1>1, <1>2, <1>3, OnlyReapingTakes

(***************************************************************************)
(* A full table gives up what was seen least recently: evictOldestOpLocked *)
(* and evictOldestSessionLocked, whichever call reaps.                     *)
(***************************************************************************)
THEOREM TheOldestIsEvicted == Spec => EvictionTakesTheOldest
<1>1. Spec => []HS2Inv
  BY InitInv, NextKeepsInv, PTL DEF Spec
<1>2. ASSUME HS2Inv, [Next]_vars
      PROVE  OldestOperationGoes
  BY <1>2, StepsTakeJustly DEF Justified, OldestOperationGoes
<1>3. HS2Inv /\ [Next]_vars => [OldestOperationGoes /\ OldestSessionGoes]_vars
  BY <1>2, StepsTakeTheOldestSession
<1> QED
  BY <1>1, <1>3, PTL DEF Spec, EvictionTakesTheOldest
===============================================================================
