----------------------------- MODULE DataDirProofs -----------------------------
(***************************************************************************)
(* Proofs about DataDir: what a start and the requests keep of the         *)
(* identity, the secrets, the groups, the policies and the workspace, for  *)
(* any bounds, any names, and clients of any stores at once.               *)
(***************************************************************************)
EXTENDS DataDir, FiniteSetTheorems, TLAPS

--------------------------------------------------------------------------------
(* What a step may do to a store                                               *)

\* A step that leaves a store alone does not bring the process up: Open, which
\* reads all of them, does.
StaysDown == proc' = "up" => proc = "up"

Requests ==
    \/ TokenRequest \/ ScopeRequest \/ SecretRequest \/ GroupRequest \/ NextPage
    \/ MLflowRequest \/ FileRequest \/ ObjectRequest \/ ClusterPolicyRequest

(***************************************************************************)
(* Requests are served by a process that is up.                            *)
(***************************************************************************)
LEMMA RequestsAreServed ==
    Requests => proc = "up" /\ proc' \in {"up", "down"} /\ UNCHANGED <<served, load>>
<1>1. ASSUME NEW S, NEW o \in S, ServedOn(o)
      PROVE  proc' \in {"up", "down"}
  BY <1>1 DEF ServedOn
<1>2. TokenRequest => proc = "up" /\ proc' \in {"up", "down"}
  BY <1>1 DEF TokenRequest, tokenCreate, tokenDelete
<1>3. ScopeRequest => proc = "up" /\ proc' \in {"up", "down"}
  BY <1>1 DEF ScopeRequest, secretsCreateScope, secretsDeleteScope, create, DeleteScope
<1>4. SecretRequest => proc = "up" /\ proc' \in {"up", "down"}
  BY <1>1 DEF SecretRequest, LookAtScope, secretsPut, secretsDelete, RefuseKey, Put, DeleteKey
<1>5. GroupRequest \/ NextPage => proc = "up" /\ proc' \in {"up", "down"}
  BY <1>1 DEF GroupRequest, NextPage, scimGroupsCreate, scimGroupsDelete, StartPaging,
              scimGroupsList, Create, Delete
<1>6. MLflowRequest => proc = "up" /\ proc' \in {"up", "down"}
  <2>1. ASSUME NEW m, Changes(m) \/ Refuses(m)
        PROVE  proc = "up" /\ proc' \in {"up", "down"}
    BY <2>1, <1>1 DEF Changes, Refuses, Ends
  <2>2. ExperimentRequest \/ FirstExperiment => proc = "up" /\ proc' \in {"up", "down"}
    BY <1>1, <2>1 DEF ExperimentRequest, FirstExperiment, CreateExperiment, UpdateExperiment,
       DeleteExperiment, RestoreExperiment, Ends
  <2>3. RunRequest => proc = "up" /\ proc' \in {"up", "down"}
    BY <1>1, <2>1 DEF RunRequest, CreateRun, UpdateRun, DeleteRun, RestoreRun, SetTag, DeleteTag
  <2>4. ASSUME NEW m, NEW o, Ends(m, o)
        PROVE  proc = "up" /\ proc' \in {"up", "down"}
    BY <2>4 DEF Ends, ServedOn
  <2>5. ASSUME NEW r \in RunId, NEW v, LogParam(r, v)
        PROVE  proc = "up" /\ proc' \in {"up", "down"}
    BY <2>4, <2>5 DEF LogParam
  <2>6. ASSUME NEW r \in RunId, NEW vs, NEW n, NEW ps, LogBatch(r, vs, n, ps)
        PROVE  proc = "up" /\ proc' \in {"up", "down"}
    BY <2>4, <2>6 DEF LogBatch
  <2>7. ASSUME NEW r \in RunId, NEW vs, NEW n, NEW ps, NEW q,
               \/ LogMetric(r, q) \/ LogBatchRefusesParam(r, vs)
               \/ LogBatchRefusesKey(r, vs, n, ps)
        PROVE  proc = "up" /\ proc' \in {"up", "down"}
    <3>1. CASE LogMetric(r, q)
      BY <2>1, <3>1 DEF LogMetric
    <3>2. CASE LogBatchRefusesParam(r, vs)
      BY <2>1, <3>2 DEF LogBatchRefusesParam
    <3>3. CASE LogBatchRefusesKey(r, vs, n, ps)
      BY <2>1, <3>3 DEF LogBatchRefusesKey
    <3> QED BY <2>7, <3>1, <3>2, <3>3
  <2>8. LogRequest => proc = "up" /\ proc' \in {"up", "down"}
    BY <2>5, <2>6, <2>7 DEF LogRequest
  <2>9. ASSUME NEW n, NEW to, RenameModel(n, to)
        PROVE  proc = "up" /\ proc' \in {"up", "down"}
    BY <2>4, <2>9 DEF RenameModel
  <2>10. ASSUME NEW n, NEW v, NEW st, NEW archive, TransitionStage(n, v, st, archive)
         PROVE  proc = "up" /\ proc' \in {"up", "down"}
    BY <2>4, <2>10 DEF TransitionStage
  <2>11. ASSUME NEW n, NEW v,
                \/ CreateModel(n) \/ DeleteModel(n) \/ UpdateModel(n) \/ CreateModelVersion(n)
                \/ UpdateModelVersion(n, v)
         PROVE  proc = "up" /\ proc' \in {"up", "down"}
    BY <2>1, <2>11 DEF CreateModel, DeleteModel, UpdateModel, CreateModelVersion,
       UpdateModelVersion
  <2>12. RegistryRequest => proc = "up" /\ proc' \in {"up", "down"}
    BY <2>9, <2>10, <2>11 DEF RegistryRequest
  <2> QED BY <2>2, <2>3, <2>8, <2>12 DEF MLflowRequest
<1>7. FileRequest => proc = "up" /\ proc' \in {"up", "down"}
  BY <1>1 DEF FileRequest, DBFSRequest, dbfsPut, dbfsDelete, dbfsMove, dbfsCreate,
              dbfsAddBlock, dbfsClose
<1>8. ObjectRequest => proc = "up" /\ proc' \in {"up", "down"}
  BY <1>1 DEF ObjectRequest, WorkspaceRequest, LookForObject, workspaceImport,
              workspaceFilesImport, workspaceDeleteObject, PutObject
<1>9. ClusterPolicyRequest => proc = "up" /\ proc' \in {"up", "down"}
  BY <1>1 DEF ClusterPolicyRequest, PolicyRequest, policiesCreate, policiesEdit, policiesDelete,
              persistPolicies, enforcePolicy, createCheckedCluster
<1>10. Requests => UNCHANGED <<served, load>>
  BY DEF Requests, TokenRequest, ScopeRequest, SecretRequest, GroupRequest, NextPage,
         MLflowRequest, FileRequest, ObjectRequest, ClusterPolicyRequest, Only
<1> QED BY <1>2, <1>3, <1>4, <1>5, <1>6, <1>7, <1>8, <1>9, <1>10 DEF Requests

--------------------------------------------------------------------------------
(* Identity                                                                    *)

IsWhole(f) == f \notin {Absent, Torn}

\* A token that was ever in memory, on disk or in a client's hands was drawn.
TokensAreCounted ==
    /\ tokens \cup issued \cup deleted \subseteq 1..drawn.tokens
    /\ IsWhole(idFile) => idFile.tokens \subseteq 1..drawn.tokens

\* identity.json, and the memory of a process that has read it, hold the tokens
\* that were given out and none that was taken back.
TokensAreTold ==
    /\ idFile = Absent => issued = {}
    /\ IsWhole(idFile) => issued \ deleted \subseteq idFile.tokens
    /\ IsWhole(idFile) => idFile.tokens \cap revoked = {}
    /\ proc \notin NotRunning => issued \ deleted \subseteq tokens
    /\ proc \notin NotRunning => tokens \cap revoked = {}

TokenInv == IdentityTypeOK /\ TokensAreCounted /\ TokensAreTold

(***************************************************************************)
(* A step seeds the identity, serves a token request, or leaves the        *)
(* identity alone, and then it may only end a start or the process.        *)
(***************************************************************************)
LEMMA IdentitySteps ==
    ASSUME [Next]_vars
    PROVE  \/ Seed
           \/ TokenRequest
           \/ UNCHANGED identityVars /\ (proc \in NotRunning => UNCHANGED proc)
<1>1. CASE Seed
  BY <1>1
<1>2. CASE Open \/ OpenFails \/ Crash
  BY <1>2 DEF Open, OpenFails, Crash, NotRunning
<1>3. CASE TokenRequest
  BY <1>3
<1>4. CASE Requests /\ ~TokenRequest
  <2>1. UNCHANGED identityVars
    BY <1>4 DEF Requests, ScopeRequest, SecretRequest, GroupRequest, NextPage,
         MLflowRequest, FileRequest, ObjectRequest, ClusterPolicyRequest, Only
  <2> QED BY <2>1, <1>4, RequestsAreServed DEF NotRunning
<1>5. CASE UNCHANGED vars
  BY <1>5 DEF vars, dirVars
<1> QED BY <1>1, <1>2, <1>3, <1>4, <1>5 DEF Next, Requests

(***************************************************************************)
(* CreatePAT, of a start or of a request.                                  *)
(***************************************************************************)
LEMMA CreatePATKeepsTokens ==
    ASSUME TokenInv, proc \notin NotRunning,
           NEW o \in CreatePATWrites, CreatePAT(o), UNCHANGED <<deleted, revoked>>,
           issued' = issued \/ (o.end = "ok" /\ issued' = issued \cup {NextToken}),
           admin' \in Token \cup {Absent, Torn}
    PROVE  TokenInv'
<1> DEFINE new == [tokens |-> tokens \cup {NextToken}, clients |-> clients]
<1>1. /\ tokens \cap revoked = {} /\ issued \ deleted \subseteq tokens
      /\ NextToken \in Token /\ NextToken = drawn.tokens + 1
      /\ drawn.tokens \in Nat
  BY IdentityAssumption DEF TokenInv, TokensAreTold, CreatePAT, NextToken, IdentityTypeOK
<1>2. o.file \in {new, idFile, Torn} /\ (o.end = "ok" => o.file = new)
  BY DEF CreatePATWrites, persist, WriteFile
<1>3. new \in Identity /\ new.tokens = tokens \cup {NextToken} /\ new.clients = clients
  BY <1>1 DEF TokenInv, IdentityTypeOK, Identity
<1>4. NextToken \notin tokens \cup issued \cup deleted \cup revoked
  BY <1>1 DEF TokenInv, TokensAreCounted, IdentityTypeOK
<1> HIDE DEF new
<1>5. IdentityTypeOK'
  <2>1. NextToken \in 0..MaxTokens
    BY <1>1, IdentityAssumption DEF Token
  <2>2. drawn' \in [tokens : 0..MaxTokens, secrets : 0..MaxSecrets]
    BY <2>1 DEF TokenInv, IdentityTypeOK, CreatePAT
  <2> QED BY <2>2, <1>1, <1>2, <1>3 DEF TokenInv, IdentityTypeOK, CreatePAT
<1>6. drawn'.tokens = drawn.tokens + 1
  BY DEF TokenInv, IdentityTypeOK, CreatePAT, NextToken
<1>7. TokensAreCounted'
  BY <1>1, <1>2, <1>3, <1>6 DEF TokenInv, TokensAreCounted, CreatePAT, IsWhole
<1>8. IsWhole(new)
  BY <1>3, IdentityAssumption DEF IsWhole
<1>9. /\ tokens' \cap revoked' = {} /\ issued' \ deleted' \subseteq tokens'
      /\ new.tokens = tokens'
  BY <1>1, <1>3, <1>4 DEF CreatePAT
<1>10. TokensAreTold'
  <2>1. idFile' = o.file
    BY DEF CreatePAT
  <2>2. CASE idFile' = new
    BY <2>2, <1>8, <1>9 DEF TokensAreTold, IsWhole
  <2>3. CASE idFile' \in {idFile, Torn} /\ idFile' # new
    BY <2>1, <2>3, <1>2, <1>9, IdentityAssumption DEF TokenInv, TokensAreTold, IsWhole
  <2> QED BY <2>1, <2>2, <2>3, <1>2
<1> QED BY <1>5, <1>7, <1>10 DEF TokenInv

(***************************************************************************)
(* The other steps of ensureSeeded.                                        *)
(***************************************************************************)
LEMMA SeedKeepsTokens == ASSUME TokenInv, Seed PROVE TokenInv'
<1> USE DEF TokenInv
<1>1. ASSUME openIdentity PROVE TokenInv'
  <2>1. OnDisk \in Identity /\ OnDisk.tokens \subseteq 1..drawn.tokens
    <3>1. CASE IsWhole(idFile)
      BY <3>1 DEF OnDisk, IsWhole, TokensAreCounted, IdentityTypeOK
    <3>2. CASE ~IsWhole(idFile)
      BY <3>2 DEF OnDisk, IsWhole, Identity
    <3> QED BY <3>1, <3>2
  <2>2. /\ tokens' = OnDisk.tokens /\ clients' = OnDisk.clients
        /\ OnDisk.tokens \subseteq Token /\ OnDisk.clients \subseteq Secret
    BY <1>1, <2>1 DEF openIdentity, Identity
  <2>3. issued \ deleted \subseteq tokens' /\ tokens' \cap revoked = {}
    <3>1. CASE IsWhole(idFile)
      BY <3>1, <2>2 DEF OnDisk, IsWhole, TokensAreTold
    <3>2. CASE idFile = Absent
      BY <3>2, <2>2 DEF OnDisk, TokensAreTold
    <3> QED BY <1>1, <3>1, <3>2 DEF openIdentity, IsWhole
  <2>4. IdentityTypeOK'
    <3>1. admin' \in Token \cup {Absent, Torn}
      BY <1>1 DEF openIdentity, IdentityTypeOK
    <3>2. secret' \in Secret \cup {Absent}
      BY <1>1 DEF openIdentity, IdentityTypeOK, Readable
    <3> QED BY <1>1, <2>2, <3>1, <3>2 DEF openIdentity, IdentityTypeOK, history
  <2> QED BY <1>1, <2>1, <2>2, <2>3, <2>4
          DEF openIdentity, history, TokensAreCounted, TokensAreTold, IsWhole
<1>2. ASSUME openIdentityFails PROVE TokenInv'
  BY <1>2 DEF openIdentityFails, identityVars, IdentityTypeOK, TokensAreCounted, TokensAreTold,
              IsWhole, NotRunning
<1>3. ASSUME SeedPAT PROVE TokenInv'
  <2>1. PICK o \in CreatePATWrites : CreatePAT(o)
    BY <1>3 DEF SeedPAT
  <2>2. admin' \in Token /\ UNCHANGED <<issued, deleted, revoked>> /\ proc \notin NotRunning
    BY <1>3, <2>1 DEF SeedPAT, CreatePAT, history, NotRunning
  <2> QED BY <2>1, <2>2, CreatePATKeepsTokens
<1>4. ASSUME SeedPATFile PROVE TokenInv'
  <2>1. patFile' \in Token \cup {Absent, Torn}
    BY <1>4 DEF SeedPATFile, WriteFile, IdentityTypeOK
  <2> QED BY <1>4, <2>1 DEF SeedPATFile, IdentityTypeOK, TokensAreCounted, TokensAreTold,
              IsWhole, NotRunning, history
<1>5. ASSUME SeedClient PROVE TokenInv'
  <2> DEFINE new == [tokens |-> tokens, clients |-> clients \cup {NextSecret}]
  <2>1. PICK o \in WriteFile(idFile, new) : idFile' = o.file
    BY <1>5 DEF SeedClient, addClient, persist
  <2>2. idFile' \in {new, idFile, Torn}
    BY <2>1 DEF WriteFile
  <2>3. NextSecret \in Secret /\ NextSecret \in 0..MaxSecrets
    BY <1>5, IdentityAssumption DEF SeedClient, addClient, Secret
  <2>4. new \in Identity /\ new.tokens = tokens
    BY <2>3 DEF Identity, IdentityTypeOK
  <2> HIDE DEF new
  <2>5. drawn' \in [tokens : 0..MaxTokens, secrets : 0..MaxSecrets]
        /\ drawn'.tokens = drawn.tokens
    BY <1>5, <2>3 DEF SeedClient, addClient, IdentityTypeOK
  <2>6. /\ UNCHANGED <<tokens, patFile, clientFile, admin, issued, deleted, revoked>>
        /\ clients' = clients \cup {NextSecret} /\ secret' = NextSecret
    BY <1>5 DEF SeedClient, addClient, history
  <2>7. IdentityTypeOK'
    BY <2>2, <2>3, <2>4, <2>5, <2>6 DEF IdentityTypeOK
  <2>8. TokensAreCounted'
    BY <2>2, <2>4, <2>5, <2>6 DEF TokensAreCounted, IsWhole
  <2>9. issued \ deleted \subseteq tokens /\ tokens \cap revoked = {}
    BY <1>5 DEF TokensAreTold, NotRunning, SeedClient
  <2>10. TokensAreTold'
    BY <2>2, <2>4, <2>6, <2>9, IdentityAssumption DEF TokensAreTold, IsWhole
  <2> QED BY <2>7, <2>8, <2>10
<1>6. ASSUME SeedClientFile PROVE TokenInv'
  <2>1. clientFile' \in Secret \cup {Absent, Torn}
    BY <1>6 DEF SeedClientFile, WriteFile, IdentityTypeOK
  <2> QED BY <1>6, <2>1 DEF SeedClientFile, IdentityTypeOK, TokensAreCounted, TokensAreTold,
              IsWhole, NotRunning, history
<1> QED BY <1>1, <1>2, <1>3, <1>4, <1>5, <1>6 DEF Seed

(***************************************************************************)
(* The token endpoints.                                                    *)
(***************************************************************************)
LEMMA TokenRequestKeepsTokens == ASSUME TokenInv, TokenRequest PROVE TokenInv'
<1>1. ASSUME tokenCreate PROVE TokenInv'
  <2>1. PICK o \in CreatePATWrites :
           /\ CreatePAT(o)
           /\ issued' = IF o.end = "ok" THEN issued \cup {NextToken} ELSE issued
    BY <1>1 DEF tokenCreate
  <2>2. admin' \in Token \cup {Absent, Torn} /\ UNCHANGED <<deleted, revoked>>
        /\ proc \notin NotRunning
    BY <1>1 DEF tokenCreate, NotRunning, TokenInv, IdentityTypeOK
  <2> QED BY <2>1, <2>2, CreatePATKeepsTokens
<1>2. ASSUME NEW t \in Token, tokenDelete(t) PROVE TokenInv'
  <2> DEFINE new == [tokens |-> tokens \ {t}, clients |-> clients]
  <2>1. PICK o \in DeletePATWrites(t) :
           /\ DeletePAT(t, o)
           /\ revoked' = IF o.end = "ok" THEN revoked \cup {t} ELSE revoked
    BY <1>2 DEF tokenDelete
  <2>2. o.file \in {new, idFile, Torn} /\ (o.end = "ok" => o.file = new)
    BY <2>1 DEF DeletePATWrites, persist, WriteFile
  <2>3. new \in Identity /\ new.tokens = tokens \ {t}
    BY DEF TokenInv, IdentityTypeOK, Identity
  <2> HIDE DEF new
  <2>4. /\ deleted' = deleted \cup {t} /\ tokens' = tokens \ {t} /\ idFile' = o.file
        /\ UNCHANGED <<clients, patFile, clientFile, admin, secret, drawn, issued>>
        /\ t \in tokens
    BY <1>2, <2>1 DEF tokenDelete, DeletePAT
  <2>5. IdentityTypeOK'
    BY <2>1, <2>2, <2>3, <2>4 DEF TokenInv, IdentityTypeOK
  <2>6. TokensAreCounted'
    BY <2>2, <2>3, <2>4 DEF TokenInv, TokensAreCounted, IsWhole
  <2>7. /\ issued' \ deleted' \subseteq tokens'
        /\ tokens' \cap revoked' = {}
    BY <1>2, <2>1, <2>4 DEF TokenInv, TokensAreTold, NotRunning, tokenDelete
  <2>8. TokensAreTold'
    <3>1. CASE idFile' = new
      BY <3>1, <2>3, <2>4, <2>7, IdentityAssumption DEF TokensAreTold, IsWhole
    <3>2. CASE idFile' \in {idFile, Torn} /\ idFile' # new
      BY <3>2, <2>1, <2>2, <2>4, <2>7, IdentityAssumption DEF TokenInv, TokensAreTold, IsWhole
    <3> QED BY <2>2, <2>4, <3>1, <3>2
  <2> QED BY <2>5, <2>6, <2>8 DEF TokenInv
<1> QED BY <1>1, <1>2 DEF TokenRequest

(***************************************************************************)
(* In every reachable state identity.json and a running process hold the   *)
(* tokens that clients were given and none whose deletion reached the      *)
(* disk.                                                                   *)
(***************************************************************************)
LEMMA TokenInvariant == Spec => []TokenInv
<1>1. Init => TokenInv
  BY IdentityAssumption DEF Init, IdentityInit, TokenInv, IdentityTypeOK, TokensAreCounted,
     TokensAreTold, IsWhole, NotRunning
<1>2. TokenInv /\ [Next]_vars => TokenInv'
  <2> SUFFICES ASSUME TokenInv, [Next]_vars PROVE TokenInv'
    OBVIOUS
  <2>1. CASE UNCHANGED identityVars /\ (proc \in NotRunning => UNCHANGED proc)
    BY <2>1 DEF identityVars, TokenInv, IdentityTypeOK, TokensAreCounted, TokensAreTold, IsWhole
  <2> QED BY <2>1, IdentitySteps, SeedKeepsTokens, TokenRequestKeepsTokens
<1> QED BY <1>1, <1>2, PTL DEF Spec

(***************************************************************************)
(* The tokens of a running server are as its clients were told, for any    *)
(* number of tokens, through any starts, failed writes and crashes.        *)
(***************************************************************************)
THEOREM TokensStayAsTold == Spec => []TokensAreAsTold
<1>1. TokenInv => TokensAreAsTold
  BY DEF TokenInv, TokensAreTold, TokensAreAsTold, IssuedTokensWork, RevokedStaysRevoked,
         NotRunning, IsWhole
<1> QED BY <1>1, TokenInvariant, PTL

--------------------------------------------------------------------------------
(* Secrets                                                                     *)

\* Only a scope that keeps its own values has any, in memory and on disk.
ScopesKeepTheirOwn ==
    /\ proc = "up" => \A k \in Key : backend[k[1]] # "databricks" => values[k] = NoValue
    /\ \A k \in Key : OnFile.backend[k[1]] # "databricks" => OnFile.values[k] = NoValue

SecretInv ==
    /\ SecretTypeOK
    /\ scopeFile # Torn
    /\ ScopesKeepTheirOwn
    /\ ConfirmedSecretsHold

(***************************************************************************)
(* A step opens the stores, serves a request for a scope or a secret, or   *)
(* leaves the secrets alone.                                               *)
(***************************************************************************)
LEMMA SecretSteps ==
    ASSUME [Next]_vars
    PROVE  \/ Open
           \/ ScopeRequest
           \/ SecretRequest
           \/ UNCHANGED secretVars /\ StaysDown
<1>1. CASE Seed
  BY <1>1 DEF Seed, storeVars, StaysDown, openIdentity, openIdentityFails, SeedPAT, SeedPATFile,
     SeedClient, SeedClientFile, StartedOn, addClient, writeSecretFile, WriteFile, persist,
     CreatePATWrites
<1>2. CASE Open \/ OpenFails \/ Crash
  BY <1>2 DEF Open, OpenFails, Crash, StaysDown, storeVars
<1>3. CASE Requests /\ ~ScopeRequest /\ ~SecretRequest
  <2>1. UNCHANGED secretVars
    BY <1>3 DEF Requests, TokenRequest, GroupRequest, NextPage,
         MLflowRequest, FileRequest, ObjectRequest, ClusterPolicyRequest, Only
  <2> QED BY <2>1, <1>3, RequestsAreServed DEF StaysDown
<1>4. CASE UNCHANGED vars
  BY <1>4 DEF vars, dirVars, storeVars, StaysDown
<1> QED BY <1>1, <1>2, <1>3, <1>4 DEF Next, Requests

(***************************************************************************)
(* Memory that agrees with what the clients are told is written whole or   *)
(* not at all, and what is not confirmed is not promised.                  *)
(***************************************************************************)
LEMMA SecretsAreWritten ==
    ASSUME SecretInv, proc = "up",
           backend' \in [Scopes -> Backend],
           values' \in [Key -> Values \cup {NoValue}],
           told' \in [Key -> Values \cup {NoValue, Unsure}],
           writer' \in Writers \cup {Idle},
           \A k \in Key : backend'[k[1]] # "databricks" => values'[k] = NoValue,
           NEW o \in persistSecrets(backend', values'), scopeFile' = o.file, ServedOn(o),
           \A k \in Key : told'[k] # Unsure =>
               values'[k] = told'[k] /\ (o.end = "ok" \/ told'[k] = told[k])
    PROVE  SecretInv'
<1> DEFINE kept == [k \in Key |-> IF backend'[k[1]] = "vault" THEN NoValue ELSE values'[k]]
           new  == [backend |-> backend', values |-> kept]
<1>1. o.file \in {new, scopeFile} /\ (o.end = "ok" => o.file = new)
  BY DEF persistSecrets, WriteAndRename
<1>2. kept = values'
  BY DEF kept
<1>3. new \in Contents /\ new.backend = backend' /\ new.values = values'
  BY <1>2 DEF Contents
<1> HIDE DEF new
<1>4. SecretTypeOK' /\ scopeFile' # Torn
  BY <1>1, <1>3, SecretAssumption DEF SecretInv, SecretTypeOK
<1>5. CASE scopeFile' = new
  <2>1. OnFile' = new
    BY <1>3, <1>5, SecretAssumption DEF OnFile
  <2> QED BY <1>3, <1>4, <2>1 DEF SecretInv, ScopesKeepTheirOwn, ConfirmedSecretsHold
<1>6. CASE scopeFile' = scopeFile /\ scopeFile' # new
  <2>1. OnFile' = OnFile /\ o.end # "ok"
    BY <1>1, <1>6 DEF OnFile
  <2> QED BY <1>4, <2>1 DEF SecretInv, ScopesKeepTheirOwn, ConfirmedSecretsHold
<1> QED BY <1>1, <1>5, <1>6

(***************************************************************************)
(* What was told about a key is what memory has for it.                    *)
(***************************************************************************)
LEMMA ScopeRequestKeepsSecrets == ASSUME SecretInv, ScopeRequest PROVE SecretInv'
<1>1. /\ backend \in [Scopes -> Backend] /\ values \in [Key -> Values \cup {NoValue}]
      /\ told \in [Key -> Values \cup {NoValue, Unsure}] /\ writer \in Writers \cup {Idle}
      /\ proc = "up"
      /\ \A k \in Key : told[k] # Unsure => values[k] = told[k]
      /\ \A k \in Key : backend[k[1]] # "databricks" => values[k] = NoValue
      /\ \A k \in Key : k[1] \in Scopes
  BY RequestsAreServed DEF SecretInv, SecretTypeOK, ConfirmedSecretsHold, ScopesKeepTheirOwn,
     Requests, Key
<1>2. ASSUME NEW s \in Scopes, NEW b \in {"databricks", "vault"}, secretsCreateScope(s, b)
      PROVE  SecretInv'
  <2>1. PICK o \in persistSecrets(backend', values') : scopeFile' = o.file /\ ServedOn(o)
    BY <1>2 DEF secretsCreateScope, create
  <2>2. /\ backend' = [backend EXCEPT ![s] = b] /\ backend[s] = "none"
        /\ values' = [k \in Key |-> IF k[1] = s THEN NoValue ELSE values[k]]
        /\ UNCHANGED <<writer, told>>
    BY <1>2 DEF secretsCreateScope, create
  <2>3. /\ backend' \in [Scopes -> Backend] /\ values' \in [Key -> Values \cup {NoValue}]
        /\ \A k \in Key : backend'[k[1]] # "databricks" => values'[k] = NoValue
        /\ \A k \in Key : values'[k] = values[k]
    BY <1>1, <2>2 DEF Backend
  <2> QED BY <1>1, <2>1, <2>2, <2>3, SecretsAreWritten
<1>3. ASSUME NEW s \in Scopes, secretsDeleteScope(s) PROVE SecretInv'
  <2>1. PICK o \in persistSecrets(backend', values') :
           scopeFile' = o.file /\ ServedOn(o) /\ Told(o, {k \in Key : k[1] = s}, NoValue)
    BY <1>3 DEF secretsDeleteScope, DeleteScope
  <2>2. /\ backend' = [backend EXCEPT ![s] = "none"]
        /\ values' = [k \in Key |-> IF k[1] = s THEN NoValue ELSE values[k]]
        /\ UNCHANGED writer
    BY <1>3 DEF secretsDeleteScope, DeleteScope
  <2>3. /\ backend' \in [Scopes -> Backend] /\ values' \in [Key -> Values \cup {NoValue}]
        /\ \A k \in Key : backend'[k[1]] # "databricks" => values'[k] = NoValue
    BY <1>1, <2>2 DEF Backend
  <2>4. /\ told' \in [Key -> Values \cup {NoValue, Unsure}]
        /\ \A k \in Key : told'[k] # Unsure =>
               values'[k] = told'[k] /\ (o.end = "ok" \/ told'[k] = told[k])
    BY <1>1, <2>1, <2>2 DEF Told
  <2> QED BY <1>1, <2>1, <2>2, <2>3, <2>4, SecretsAreWritten
<1> QED BY <1>2, <1>3 DEF ScopeRequest

(***************************************************************************)
(* The second half of a write looks at the scope again, so a scope that    *)
(* was made anew as a vault's in between gets no value.                    *)
(***************************************************************************)
LEMMA SecretRequestKeepsSecrets == ASSUME SecretInv, SecretRequest PROVE SecretInv'
<1>1. /\ backend \in [Scopes -> Backend] /\ values \in [Key -> Values \cup {NoValue}]
      /\ told \in [Key -> Values \cup {NoValue, Unsure}] /\ writer \in Writers \cup {Idle}
      /\ proc = "up"
      /\ \A k \in Key : told[k] # Unsure => values[k] = told[k]
      /\ \A k \in Key : backend[k[1]] # "databricks" => values[k] = NoValue
  BY RequestsAreServed DEF SecretInv, SecretTypeOK, ConfirmedSecretsHold, ScopesKeepTheirOwn,
     Requests
<1>2. ASSUME UNCHANGED <<proc, backend, values, scopeFile, told>>, writer' \in Writers \cup {Idle}
      PROVE  SecretInv'
  BY <1>2 DEF SecretInv, SecretTypeOK, ConfirmedSecretsHold, ScopesKeepTheirOwn, OnFile
<1>3. ASSUME NEW k \in Key, NEW v \in Values \cup {NoValue}, backend[k[1]] = "databricks",
             UNCHANGED backend, writer' = Idle,
             values' = [values EXCEPT ![k] = v],
             NEW o \in persistSecrets(backend, values'),
             scopeFile' = o.file, ServedOn(o), Told(o, {k}, v)
      PROVE  SecretInv'
  <2>1. /\ values' \in [Key -> Values \cup {NoValue}]
        /\ \A j \in Key : backend'[j[1]] # "databricks" => values'[j] = NoValue
        /\ o \in persistSecrets(backend', values')
        /\ backend' \in [Scopes -> Backend]
    BY <1>1, <1>3
  <2>2. /\ told' \in [Key -> Values \cup {NoValue, Unsure}]
        /\ \A j \in Key : told'[j] # Unsure =>
               values'[j] = told'[j] /\ (o.end = "ok" \/ told'[j] = told[j])
    BY <1>1, <1>3 DEF Told
  <2> QED BY <1>1, <1>3, <2>1, <2>2, SecretsAreWritten
<1>4. ASSUME secretsPut PROVE SecretInv'
  <2>1. writer.key \in Key /\ writer.value \in Values
    BY <1>1, <1>4 DEF secretsPut, Writers, Idle
  <2> QED BY <1>3, <1>4, <2>1 DEF secretsPut, Accepts, Put
<1>5. ASSUME secretsDelete PROVE SecretInv'
  <2>1. writer.key \in Key
    BY <1>1, <1>5 DEF secretsDelete, Writers, Idle
  <2> QED BY <1>3, <1>5, <2>1 DEF secretsDelete, Accepts, DeleteKey
<1>6. ASSUME RefuseKey PROVE SecretInv'
  BY <1>2, <1>6 DEF RefuseKey
<1>7. ASSUME NEW w \in Writers, LookAtScope(w), UNCHANGED proc PROVE SecretInv'
  BY <1>2, <1>7 DEF LookAtScope
<1> QED BY <1>4, <1>5, <1>6, <1>7 DEF SecretRequest

LEMMA SecretInvariant == Spec => []SecretInv
<1>1. Init => SecretInv
  <2> SUFFICES ASSUME Init PROVE SecretInv
    OBVIOUS
  <2>1. /\ backend = [s \in Scopes |-> "none"] /\ values = [k \in Key |-> NoValue]
        /\ scopeFile = Absent /\ writer = Idle /\ told = values /\ proc = "down"
        /\ OnFile = NoContents /\ NoContents.values = values
    BY DEF Init, SecretInit, NoContents, OnFile
  <2> QED BY <2>1, IdentityAssumption
          DEF SecretInv, SecretTypeOK, ScopesKeepTheirOwn, ConfirmedSecretsHold, Backend
<1>2. SecretInv /\ [Next]_vars => SecretInv'
  <2> SUFFICES ASSUME SecretInv, [Next]_vars PROVE SecretInv'
    OBVIOUS
  <2>1. CASE Open
    <3>1. /\ backend' = OnFile.backend /\ values' = OnFile.values /\ writer' = Idle
          /\ UNCHANGED <<scopeFile, told>>
      BY <2>1 DEF Open, openSecrets
    <3>2. OnFile \in Contents
      BY DEF OnFile, NoContents, Contents, SecretInv, SecretTypeOK, Backend
    <3>3. OnFile' = OnFile
      BY <3>1 DEF OnFile
    <3> QED BY <3>1, <3>2, <3>3
            DEF SecretInv, SecretTypeOK, ScopesKeepTheirOwn, ConfirmedSecretsHold, Contents
  <2>2. CASE UNCHANGED secretVars /\ StaysDown
    BY <2>2 DEF secretVars, StaysDown, SecretInv, SecretTypeOK, ScopesKeepTheirOwn,
       ConfirmedSecretsHold, OnFile
  <2> QED BY <2>1, <2>2, SecretSteps, ScopeRequestKeepsSecrets, SecretRequestKeepsSecrets
<1> QED BY <1>1, <1>2, PTL DEF Spec

(***************************************************************************)
(* What a client was last told about a secret is what a start would read   *)
(* and what a running server resolves.                                     *)
(***************************************************************************)
THEOREM SecretsStayAsTold == Spec => []ConfirmedSecretsHold
<1>1. SecretInv => ConfirmedSecretsHold
  BY DEF SecretInv
<1> QED BY <1>1, SecretInvariant, PTL

(***************************************************************************)
(* A scope backed by a vault never holds a value, in memory or on disk.    *)
(***************************************************************************)
THEOREM VaultScopesHoldNothing == Spec => []ValuesStayInTheVault
<1>1. SecretInv => ValuesStayInTheVault
  BY DEF SecretInv, ScopesKeepTheirOwn, ValuesStayInTheVault
<1> QED BY <1>1, SecretInvariant, PTL

--------------------------------------------------------------------------------
(* Seeding                                                                     *)

\* No client is on disk, so the next start seeds from the beginning.
Unseeded == idFile = Absent \/ (IsWhole(idFile) /\ idFile.clients = {})

\* The identity on disk is the one in memory.
IsSaved == IsWhole(idFile) /\ idFile.tokens = tokens /\ idFile.clients = clients

\* The files of the secrets fit identity.json as it is on disk; oidc-client.json
\* is written last.
SeedsOnDisk ==
    /\ Unseeded => clientFile = Absent
    /\ IsWhole(idFile) /\ idFile.clients # {} =>
          patFile \in idFile.tokens /\ clientFile \in idFile.clients \cup {Absent, Torn}

\* How far each step of ensureSeeded has come.
SeedSteps ==
    /\ proc \in {"seedPAT", "seedPATFile", "seedClient"} => clients = {} /\ Unseeded
    /\ proc = "seedPATFile" => admin \in tokens
    /\ proc \in {"seedClient", "seedClientFile"} => admin \in tokens /\ patFile = admin
    /\ proc = "seedClientFile" => clients = {secret} /\ clientFile = Absent /\ IsSaved

\* The secrets a process hands out are the ones on disk.
SeedsInUse ==
    /\ proc \in {"stores", "up"} =>
          admin = patFile /\ admin \in tokens /\ secret = clientFile /\ secret \in clients
    /\ proc = "stores" => IsSaved

\* Once a start has succeeded no other one seeds.
SeedsWereServed ==
    served => /\ proc \in NotRunning \cup {"stores", "up"}
              /\ idFile # Absent
              /\ clientFile \notin {Absent, Torn}
              /\ IsWhole(idFile) => idFile.tokens # {} /\ idFile.clients # {}
              /\ proc = "refused" => Torn \in {idFile, groupFile}

SeedInv == deleted = {} => SeedsOnDisk /\ SeedSteps /\ SeedsInUse /\ SeedsWereServed

(***************************************************************************)
(* The first step of a start.                                              *)
(***************************************************************************)
LEMMA OpenIdentityKeepsSeeds ==
    ASSUME TokenInv, SeedInv, deleted = {}, openIdentity \/ openIdentityFails,
           UNCHANGED <<served, groupFile>>
    PROVE  SeedInv'
<1> USE DEF NotRunning
<1>1. SeedsOnDisk /\ SeedSteps /\ SeedsInUse /\ SeedsWereServed
  BY DEF SeedInv
<1>2. UNCHANGED <<idFile, patFile, clientFile>>
  BY DEF openIdentity, openIdentityFails, identityVars
<1>3. SeedsOnDisk'
  BY <1>1, <1>2 DEF SeedsOnDisk, Unseeded, IsWhole
<1>4. ASSUME IsWhole(idFile) PROVE OnDisk = idFile
  BY <1>4 DEF OnDisk, IsWhole
<1>5. ASSUME idFile = Absent PROVE OnDisk.clients = {} /\ ~Seeded
  BY <1>5 DEF OnDisk, Seeded
<1>6. CASE openIdentity /\ Seeded
  <2>1. IsWhole(idFile) /\ idFile.clients # {} /\ idFile.tokens # {}
    BY <1>4, <1>5, <1>6 DEF openIdentity, IsWhole, Seeded
  <2>2. /\ admin' = patFile /\ secret' = clientFile /\ tokens' = idFile.tokens
        /\ clients' = idFile.clients /\ proc' = "stores" /\ Readable
    BY <1>4, <1>6, <2>1 DEF openIdentity
  <2>3. SeedsInUse'
    BY <1>1, <1>2, <2>1, <2>2 DEF SeedsInUse, SeedsOnDisk, IsSaved, IsWhole, Readable
  <2>4. SeedSteps' /\ SeedsWereServed'
    BY <1>1, <1>2, <2>2 DEF SeedSteps, SeedsWereServed, IsWhole
  <2> QED BY <1>3, <2>3, <2>4 DEF SeedInv
<1>7. CASE openIdentity /\ ~Seeded
  <2>1. proc' = "seedPAT" /\ clients' = OnDisk.clients /\ idFile # Torn
    BY <1>7 DEF openIdentity
  <2>2. ~served /\ OnDisk.clients = {} /\ Unseeded
    <3>1. CASE IsWhole(idFile)
      <4>1. idFile.clients = {} \/ idFile.tokens = {}
        BY <1>4, <1>7, <3>1 DEF Seeded
      <4>2. idFile.clients = {}
        BY <1>1, <3>1, <4>1 DEF SeedsOnDisk
      <4> QED BY <1>1, <1>4, <3>1, <4>2 DEF SeedsWereServed, Unseeded
    <3>2. CASE idFile = Absent
      BY <1>1, <1>5, <3>2 DEF SeedsWereServed, Unseeded
    <3> QED BY <2>1, <3>1, <3>2 DEF IsWhole
  <2> QED BY <1>2, <1>3, <2>1, <2>2
          DEF SeedInv, SeedSteps, SeedsInUse, SeedsWereServed, Unseeded, IsWhole
<1>8. CASE openIdentityFails
  <2>1. proc' = "refused" /\ (idFile = Torn \/ (Seeded /\ ~Readable))
    BY <1>8 DEF openIdentityFails
  <2>2. ASSUME served PROVE Torn \in {idFile, groupFile}
    <3>1. CASE Seeded /\ ~Readable /\ idFile # Torn
      <4>1. IsWhole(idFile)
        BY <1>5, <3>1 DEF IsWhole
      <4>2. patFile \in idFile.tokens /\ idFile.tokens \subseteq Nat
        BY <1>1, <2>2, <4>1 DEF SeedsWereServed, SeedsOnDisk, TokenInv, TokensAreCounted
      <4>3. patFile # Absent /\ clientFile \notin {Absent, Torn}
        BY <1>1, <2>2, <4>2, IdentityAssumption DEF SeedsWereServed
      <4> QED BY <3>1, <4>3 DEF Readable
    <3> QED BY <2>1, <3>1
  <2> QED BY <1>1, <1>2, <1>3, <2>1, <2>2
          DEF SeedInv, SeedSteps, SeedsInUse, SeedsWereServed, IsWhole
<1> QED BY <1>6, <1>7, <1>8

(***************************************************************************)
(* The steps that write: each leaves its file whole and goes on, or ends   *)
(* the start with it as it was or torn.                                    *)
(***************************************************************************)
LEMMA SeedKeepsSeeds == ASSUME TokenInv, SeedInv, Seed PROVE SeedInv'
<1> SUFFICES ASSUME deleted' = {} PROVE SeedInv'
  BY DEF SeedInv
<1>1. deleted = {} /\ UNCHANGED <<served, groupFile>>
  BY DEF Seed, storeVars, groupVars, openIdentity, openIdentityFails, identityVars, SeedPAT,
         SeedPATFile, SeedClient, SeedClientFile, history
<1>2. SeedsOnDisk /\ SeedSteps /\ SeedsInUse /\ SeedsWereServed /\ IdentityTypeOK
  BY <1>1 DEF SeedInv, TokenInv
<1>3. CASE openIdentity \/ openIdentityFails
  BY <1>1, <1>3, OpenIdentityKeepsSeeds
<1>4. CASE SeedPAT
  <2> DEFINE new == [tokens |-> tokens \cup {NextToken}, clients |-> clients]
  <2>1. clients = {} /\ Unseeded /\ clientFile = Absent /\ ~served
    BY <1>2, <1>4 DEF SeedSteps, SeedsOnDisk, SeedPAT, SeedsWereServed, NotRunning
  <2>2. PICK o \in WriteFile(idFile, new) :
           idFile' = o.file /\ StartedOn(o, "seedPATFile")
    BY <1>4 DEF SeedPAT, CreatePATWrites, persist, CreatePAT
  <2>3. /\ UNCHANGED <<clients, patFile, clientFile, secret>>
        /\ tokens' = tokens \cup {NextToken} /\ admin' = NextToken
    BY <1>4 DEF SeedPAT, CreatePAT
  <2>4. idFile' \in {new, idFile, Torn} /\ proc' \in {"seedPATFile", "refused", "down"}
        /\ (proc' = "seedPATFile" => idFile' = new)
    BY <2>2 DEF WriteFile, StartedOn
  <2>5. new \in Identity /\ new.clients = clients
    BY <1>2, <1>4 DEF Identity, IdentityTypeOK, SeedPAT, CreatePAT
  <2> HIDE DEF new
  <2>6. Unseeded' \/ idFile' = Torn
    BY <2>1, <2>3, <2>4, <2>5, IdentityAssumption DEF Unseeded, IsWhole
  <2>7. SeedsOnDisk'
    BY <2>1, <2>3, <2>6, IdentityAssumption DEF SeedsOnDisk, Unseeded, IsWhole
  <2>8. SeedSteps'
    BY <2>1, <2>3, <2>4, <2>5, <2>6, IdentityAssumption DEF SeedSteps, IsWhole
  <2> QED BY <1>1, <2>1, <2>4, <2>7, <2>8 DEF SeedInv, SeedsInUse, SeedsWereServed
<1>5. CASE SeedPATFile
  <2>1. clients = {} /\ Unseeded /\ clientFile = Absent /\ admin \in tokens /\ ~served
    BY <1>2, <1>5 DEF SeedSteps, SeedsOnDisk, SeedPATFile, SeedsWereServed, NotRunning
  <2>2. PICK o \in WriteFile(patFile, admin) : patFile' = o.file /\ StartedOn(o, "seedClient")
    BY <1>5 DEF SeedPATFile, writeSecretFile
  <2>3. UNCHANGED <<tokens, clients, idFile, clientFile, admin, secret>>
    BY <1>5 DEF SeedPATFile
  <2>4. /\ proc' \in {"seedClient", "refused", "down"}
        /\ (proc' = "seedClient" => patFile' = admin)
    BY <2>2 DEF WriteFile, StartedOn
  <2>5. Unseeded'
    BY <2>1, <2>3 DEF Unseeded, IsWhole
  <2>6. SeedsOnDisk'
    BY <2>1, <2>3, <2>5, IdentityAssumption DEF SeedsOnDisk, Unseeded, IsWhole
  <2> QED BY <1>1, <2>1, <2>3, <2>4, <2>5, <2>6
          DEF SeedInv, SeedSteps, SeedsInUse, SeedsWereServed
<1>6. CASE SeedClient
  <2> DEFINE new == [tokens |-> tokens, clients |-> clients \cup {NextSecret}]
  <2>1. /\ clients = {} /\ Unseeded /\ clientFile = Absent /\ ~served
        /\ admin \in tokens /\ patFile = admin
    BY <1>2, <1>6 DEF SeedSteps, SeedsOnDisk, SeedClient, SeedsWereServed, NotRunning
  <2>2. PICK o \in WriteFile(idFile, new) :
           idFile' = o.file /\ StartedOn(o, "seedClientFile")
    BY <1>6 DEF SeedClient, persist, addClient
  <2>3. /\ UNCHANGED <<tokens, patFile, clientFile, admin>>
        /\ clients' = {NextSecret} /\ secret' = NextSecret /\ NextSecret \in Secret
    BY <1>6, <2>1 DEF SeedClient, addClient
  <2>4. idFile' \in {new, idFile, Torn} /\ proc' \in {"seedClientFile", "refused", "down"}
        /\ (proc' = "seedClientFile" => idFile' = new)
    BY <2>2 DEF WriteFile, StartedOn
  <2>5. new \in Identity /\ new.clients = {NextSecret} /\ new.tokens = tokens
    BY <1>2, <2>1, <2>3 DEF Identity, IdentityTypeOK
  <2> HIDE DEF new
  <2>6. SeedsOnDisk'
    BY <2>1, <2>3, <2>4, <2>5, IdentityAssumption DEF SeedsOnDisk, Unseeded, IsWhole
  <2>7. SeedSteps'
    BY <2>1, <2>3, <2>4, <2>5, IdentityAssumption DEF SeedSteps, IsSaved, IsWhole
  <2> QED BY <1>1, <2>1, <2>4, <2>6, <2>7 DEF SeedInv, SeedsInUse, SeedsWereServed
<1>7. CASE SeedClientFile
  <2>1. /\ clients = {secret} /\ IsSaved /\ clientFile = Absent /\ ~served
        /\ admin \in tokens /\ patFile = admin
    BY <1>2, <1>7 DEF SeedSteps, SeedClientFile, SeedsWereServed, NotRunning
  <2>2. PICK o \in WriteFile(clientFile, secret) : clientFile' = o.file /\ StartedOn(o, "stores")
    BY <1>7 DEF SeedClientFile
  <2>3. UNCHANGED <<tokens, clients, idFile, patFile, admin, secret>>
    BY <1>7 DEF SeedClientFile
  <2>4. /\ clientFile' \in {secret, Absent, Torn} /\ proc' \in {"stores", "refused", "down"}
        /\ (proc' = "stores" => clientFile' = secret)
    BY <2>1, <2>2 DEF WriteFile, StartedOn
  <2>5. SeedsOnDisk'
    BY <2>1, <2>3, <2>4 DEF SeedsOnDisk, Unseeded, IsWhole, IsSaved
  <2>6. SeedsInUse'
    BY <2>1, <2>3, <2>4 DEF SeedsInUse, IsSaved, IsWhole
  <2> QED BY <1>1, <2>1, <2>4, <2>5, <2>6 DEF SeedInv, SeedSteps, SeedsWereServed
<1> QED BY <1>3, <1>4, <1>5, <1>6, <1>7 DEF Seed

(***************************************************************************)
(* tokenCreate writes the identity with the seeds in it.                   *)
(***************************************************************************)
LEMMA TokenRequestKeepsSeeds == ASSUME TokenInv, SeedInv, TokenRequest PROVE SeedInv'
<1> SUFFICES ASSUME deleted' = {} PROVE SeedInv'
  BY DEF SeedInv
<1>1. CASE tokenCreate
  <2> DEFINE new == [tokens |-> tokens \cup {NextToken}, clients |-> clients]
  <2>1. deleted = {} /\ UNCHANGED <<served, groupFile, admin>> /\ proc = "up"
    BY <1>1 DEF TokenRequest, Only, groupVars, tokenCreate
  <2>2. SeedsOnDisk /\ SeedSteps /\ SeedsInUse /\ SeedsWereServed /\ IdentityTypeOK
    BY <2>1 DEF SeedInv, TokenInv
  <2>3. PICK o \in WriteFile(idFile, new) : idFile' = o.file /\ ServedOn(o)
    BY <1>1 DEF tokenCreate, CreatePATWrites, persist, CreatePAT
  <2>4. /\ UNCHANGED <<clients, patFile, clientFile, secret>>
        /\ tokens' = tokens \cup {NextToken}
    BY <1>1 DEF tokenCreate, CreatePAT
  <2>5. idFile' \in {new, idFile, Torn} /\ proc' \in {"up", "down"}
    BY <2>3 DEF WriteFile, ServedOn
  <2>6. new \in Identity /\ new.clients = clients /\ new.tokens = tokens \cup {NextToken}
    BY <1>1, <2>2 DEF Identity, IdentityTypeOK, tokenCreate, CreatePAT
  <2> HIDE DEF new
  <2>7. admin = patFile /\ admin \in tokens /\ secret = clientFile /\ secret \in clients
    BY <2>1, <2>2 DEF SeedsInUse
  <2>8. SeedsOnDisk'
    BY <2>2, <2>4, <2>5, <2>6, <2>7, IdentityAssumption DEF SeedsOnDisk, Unseeded, IsWhole
  <2>9. SeedSteps' /\ SeedsInUse'
    BY <2>1, <2>4, <2>5, <2>7 DEF SeedSteps, SeedsInUse
  <2>10. SeedsWereServed'
    BY <2>1, <2>2, <2>4, <2>5, <2>6, <2>7, IdentityAssumption
       DEF SeedsWereServed, IsWhole, NotRunning
  <2> QED BY <2>8, <2>9, <2>10 DEF SeedInv
<1>2. CASE \E t \in Token : tokenDelete(t)
  BY <1>2 DEF tokenDelete
<1> QED BY <1>1, <1>2 DEF TokenRequest

(***************************************************************************)
(* Steps of the other stores, and the end of a start.                      *)
(***************************************************************************)
LEMMA OtherStepsKeepSeeds ==
    ASSUME TokenInv, SeedInv, scopeFile # Torn, [Next]_vars, ~Seed, ~TokenRequest
    PROVE  SeedInv'
<1> SUFFICES ASSUME deleted' = {} PROVE SeedInv'
  BY DEF SeedInv
<1>1. UNCHANGED identityVars
  BY IdentitySteps
<1>2. deleted = {} /\ SeedsOnDisk /\ SeedSteps /\ SeedsInUse /\ SeedsWereServed /\ IdentityTypeOK
  BY <1>1 DEF SeedInv, TokenInv, identityVars
<1>3. SeedsOnDisk'
  BY <1>1, <1>2 DEF SeedsOnDisk, Unseeded, IsWhole, identityVars
<1>4. CASE Open
  <2>1. proc = "stores" /\ proc' = "up" /\ served' = TRUE
    BY <1>4 DEF Open
  <2>2. /\ IsWhole(idFile) /\ idFile.clients # {} /\ idFile.tokens # {}
        /\ clientFile = secret /\ secret \in Secret
    BY <1>2, <2>1 DEF SeedsInUse, IsSaved, IdentityTypeOK
  <2>3. clientFile \notin {Absent, Torn}
    BY <2>2, IdentityAssumption DEF Secret
  <2>4. SeedSteps' /\ SeedsInUse'
    BY <1>1, <1>2, <2>1 DEF SeedSteps, SeedsInUse, identityVars
  <2>5. SeedsWereServed'
    BY <1>1, <2>1, <2>2, <2>3 DEF SeedsWereServed, IsWhole, identityVars, NotRunning
  <2> QED BY <1>3, <2>4, <2>5 DEF SeedInv
<1>5. CASE OpenFails
  <2>1. proc' = "refused" /\ Torn \in {scopeFile, groupFile} /\ UNCHANGED <<served, groupFile>>
    BY <1>5 DEF OpenFails, storeVars, groupVars
  <2> QED BY <1>1, <1>2, <1>3, <2>1 DEF SeedInv, SeedSteps, SeedsInUse, SeedsWereServed, IsWhole,
             identityVars, NotRunning
<1>6. CASE Crash
  BY <1>1, <1>2, <1>3, <1>6 DEF Crash, SeedInv, SeedSteps, SeedsInUse, SeedsWereServed, IsWhole,
     identityVars, NotRunning
<1>7. CASE Requests
  <2>1. proc = "up" /\ proc' \in {"up", "down"} /\ UNCHANGED served
    BY <1>7, RequestsAreServed
  <2> QED BY <1>1, <1>2, <1>3, <2>1 DEF SeedInv, SeedSteps, SeedsInUse, SeedsWereServed, IsWhole,
             identityVars, NotRunning
<1>8. CASE UNCHANGED vars
  BY <1>1, <1>2, <1>3, <1>8 DEF SeedInv, SeedSteps, SeedsInUse, SeedsWereServed, IsWhole,
     IsSaved, Unseeded, identityVars, NotRunning, vars, dirVars, storeVars, groupVars
<1> QED BY <1>4, <1>5, <1>6, <1>7, <1>8 DEF Next, Requests

LEMMA SeedInvariant == Spec => []SeedInv
<1>1. Init => SeedInv
  BY IdentityAssumption DEF Init, IdentityInit, SeedInv, SeedsOnDisk, SeedSteps, SeedsInUse,
     SeedsWereServed, Unseeded, IsWhole
<1>2. TokenInv /\ SecretInv /\ SeedInv /\ [Next]_vars => SeedInv'
  BY SeedKeepsSeeds, TokenRequestKeepsSeeds, OtherStepsKeepSeeds DEF SecretInv
<1> QED BY <1>1, <1>2, TokenInvariant, SecretInvariant, PTL DEF Spec

(***************************************************************************)
(* Until a client deletes a token, the token and the client secret a       *)
(* running server hands out are ones it accepts, whichever steps of        *)
(* ensureSeeded earlier starts died in.                                    *)
(***************************************************************************)
THEOREM SeededSecretsAreAccepted == Spec => []SeededSecretsWork
<1>1. SeedInv => SeededSecretsWork
  BY DEF SeedInv, SeedsInUse, SeededSecretsWork
<1> QED BY <1>1, SeedInvariant, PTL

(***************************************************************************)
(* A directory that was served, and of which no token was deleted, refuses *)
(* a start only for a torn identity.json or a torn file of the groups.     *)
(***************************************************************************)
THEOREM StartsFailForTornFiles == Spec => []OnlyInPlaceWritesRefuseAStart
<1>1. SeedInv => OnlyInPlaceWritesRefuseAStart
  BY DEF SeedInv, SeedsWereServed, OnlyInPlaceWritesRefuseAStart
<1> QED BY <1>1, SeedInvariant, PTL

--------------------------------------------------------------------------------
(* Groups                                                                      *)

\* A directory in which names differ and every id is counted, as are the ids
\* that were given out, which stand for what they were given out for.
Fits(all, next, given) ==
    /\ \A i \in Id : all[i] # NoGroup => i <= next
    /\ \A i \in Id : given[i] # NoGroup => i <= next
    /\ \A i, j \in Id : all[i] = all[j] /\ all[i] # NoGroup => i = j
    /\ \A i \in Id : given[i] # NoGroup /\ all[i] # NoGroup => all[i] = given[i]

GroupInv ==
    /\ group \in Groups
    /\ nextID \in 0..MaxGroups
    /\ groupFile \in Directory \cup {Absent, Torn}
    /\ named \in Groups
    /\ groupFile = Absent => named = NoGroups
    /\ IsWhole(groupFile) => Fits(groupFile.all, groupFile.nextID, named)
    /\ proc = "up" => Fits(group, nextID, named)

LEMMA GroupSteps ==
    ASSUME [Next]_vars
    PROVE  \/ Open
           \/ GroupRequest
           \/ UNCHANGED <<group, nextID, groupFile, named>> /\ StaysDown
<1>1. CASE Seed
  BY <1>1 DEF Seed, storeVars, groupVars, StaysDown, openIdentity, openIdentityFails, SeedPAT,
     SeedPATFile, SeedClient, SeedClientFile, StartedOn, addClient, writeSecretFile, WriteFile,
     persist, CreatePATWrites
<1>2. CASE Open \/ OpenFails \/ Crash
  BY <1>2 DEF Open, OpenFails, Crash, StaysDown, storeVars, groupVars
<1>3. CASE Requests /\ ~GroupRequest
  <2>1. UNCHANGED <<group, nextID, groupFile, named>>
    BY <1>3 DEF Requests, TokenRequest, ScopeRequest, SecretRequest, NextPage, scimGroupsList,
         MLflowRequest, FileRequest, ObjectRequest, ClusterPolicyRequest, Only, groupVars
  <2> QED BY <2>1, <1>3, RequestsAreServed DEF StaysDown
<1>4. CASE UNCHANGED vars
  BY <1>4 DEF vars, dirVars, storeVars, groupVars, StaysDown
<1> QED BY <1>1, <1>2, <1>3, <1>4 DEF Next, Requests

(***************************************************************************)
(* Memory that fits is written, or the file is left as it was or torn; a   *)
(* name that is told is in the file.                                       *)
(***************************************************************************)
LEMMA GroupsAreWritten ==
    ASSUME GroupInv,
           NEW all \in Groups, NEW next \in 0..MaxGroups,
           group' \in Groups, nextID' \in 0..MaxGroups, named' \in Groups,
           NEW o \in persistGroups(all, next), groupFile' = o.file,
           o.end = "ok" \/ named' = named,
           Fits(all, next, named'), Fits(group', nextID', named')
    PROVE  GroupInv'
<1> DEFINE new == [all |-> all, nextID |-> next]
<1>1. o.file \in {new, groupFile, Torn} /\ (o.end = "ok" => o.file = new)
  BY DEF persistGroups, WriteFile
<1>2. new \in Directory /\ new.all = all /\ new.nextID = next
  BY DEF Directory
<1> HIDE DEF new
<1>3. CASE groupFile' = new
  BY <1>2, <1>3, GroupAssumption DEF GroupInv, IsWhole
<1>4. CASE groupFile' \in {groupFile, Torn} /\ groupFile' # new
  <2>1. named' = named
    BY <1>1, <1>4
  <2> QED BY <1>4, <2>1, IdentityAssumption DEF GroupInv, IsWhole, Fits
<1> QED BY <1>1, <1>3, <1>4

LEMMA GroupRequestKeepsGroups == ASSUME GroupInv, GroupRequest PROVE GroupInv'
<1>1. /\ group \in Groups /\ nextID \in 0..MaxGroups /\ named \in Groups /\ proc = "up"
      /\ Fits(group, nextID, named)
  BY RequestsAreServed DEF GroupInv, Requests
<1>2. ASSUME NEW d \in DisplayNames, scimGroupsCreate(d) PROVE GroupInv'
  <2> DEFINE made == [group EXCEPT ![nextID + 1] = d]
  <2>1. nextID < MaxGroups /\ NameIsFree(d) /\ nextID' = nextID + 1
    BY <1>2 DEF scimGroupsCreate, Create
  <2>2. PICK o \in persistGroups(made, nextID + 1) :
           /\ groupFile' = o.file
           /\ group' = IF o.end = "error" THEN group ELSE made
           /\ named' = IF o.end = "ok" THEN [named EXCEPT ![nextID + 1] = d] ELSE named
    BY <1>2 DEF scimGroupsCreate, Create
  <2>3. nextID + 1 \in Id /\ nextID + 1 \in 0..MaxGroups
    BY <1>1, <2>1, GroupAssumption DEF Id
  <2>4. /\ made \in Groups /\ made[nextID + 1] = d
        /\ \A i \in Id : i # nextID + 1 => made[i] = group[i]
    BY <1>1, <2>3 DEF Groups
  <2> HIDE DEF made
  <2>5. /\ named' \in Groups
        /\ \A i \in Id : i # nextID + 1 => named'[i] = named[i]
        /\ named'[nextID + 1] \in {d, named[nextID + 1]}
    BY <1>1, <2>2, <2>3 DEF Groups
  <2>6. group[nextID + 1] = NoGroup /\ named[nextID + 1] = NoGroup
    BY <1>1, <2>3, GroupAssumption DEF Fits
  <2>7. \A i \in Id : i \in Nat /\ (i <= nextID => i <= nextID + 1)
    BY <1>1, GroupAssumption DEF Id
  <2>8. Fits(made, nextID + 1, named')
    BY <1>1, <2>1, <2>3, <2>4, <2>5, <2>6, <2>7, GroupAssumption DEF Fits, NameIsFree
  <2>9. Fits(group, nextID + 1, named')
    BY <1>1, <2>3, <2>5, <2>6, <2>7, GroupAssumption DEF Fits
  <2>10. /\ group' \in Groups /\ nextID' \in 0..MaxGroups
         /\ Fits(group', nextID', named') /\ (o.end = "ok" \/ named' = named)
    BY <1>1, <2>1, <2>2, <2>3, <2>4, <2>8, <2>9
  <2> QED BY <2>2, <2>3, <2>4, <2>5, <2>8, <2>10, GroupsAreWritten
<1>3. ASSUME NEW i \in Id, scimGroupsDelete(i) PROVE GroupInv'
  <2>1. group' = [group EXCEPT ![i] = NoGroup] /\ UNCHANGED <<nextID, named>>
    BY <1>3 DEF scimGroupsDelete, Delete
  <2>2. PICK o \in persistGroups(group', nextID) : groupFile' = o.file
    BY <1>3 DEF scimGroupsDelete, Delete
  <2>3. /\ group' \in Groups /\ group'[i] = NoGroup
        /\ \A j \in Id : j # i => group'[j] = group[j]
    BY <1>1, <2>1 DEF Groups
  <2>4. Fits(group', nextID, named)
    BY <1>1, <2>3 DEF Fits
  <2> QED BY <1>1, <2>1, <2>2, <2>3, <2>4, GroupsAreWritten
<1>4. ASSUME StartPaging PROVE GroupInv'
  BY <1>4 DEF StartPaging, GroupInv, IsWhole
<1> QED BY <1>2, <1>3, <1>4 DEF GroupRequest

LEMMA GroupInvariant == Spec => []GroupInv
<1>1. Init => GroupInv
  BY GroupAssumption DEF Init, GroupInit, GroupInv, IsWhole, NoGroups, Groups
<1>2. GroupInv /\ [Next]_vars => GroupInv'
  <2> SUFFICES ASSUME GroupInv, [Next]_vars PROVE GroupInv'
    OBVIOUS
  <2>1. CASE Open
    <3>1. /\ group' = DirectoryOnFile.all /\ nextID' = DirectoryOnFile.nextID
          /\ UNCHANGED <<groupFile, named>> /\ groupFile # Torn
      BY <2>1 DEF Open, openGroups, StoredNextID
    <3>2. CASE groupFile = Absent
      <4>1. /\ group' = NoGroups /\ nextID' = 0 /\ named' = NoGroups
            /\ NoGroups \in Groups /\ \A i \in Id : NoGroups[i] = NoGroup
        BY <3>1, <3>2 DEF DirectoryOnFile, GroupInv, NoGroups, Groups
      <4>2. Fits(NoGroups, 0, NoGroups)
        BY <4>1 DEF Fits
      <4> QED BY <3>1, <3>2, <4>1, <4>2, GroupAssumption DEF GroupInv, IsWhole
    <3>3. CASE groupFile # Absent
      <4>1. DirectoryOnFile = groupFile /\ IsWhole(groupFile)
        BY <3>1, <3>3 DEF DirectoryOnFile, IsWhole
      <4> QED BY <3>1, <3>3, <4>1 DEF GroupInv, IsWhole, Directory
    <3> QED BY <3>2, <3>3
  <2>2. CASE UNCHANGED <<group, nextID, groupFile, named>> /\ StaysDown
    BY <2>2 DEF StaysDown, GroupInv, IsWhole
  <2> QED BY <2>1, <2>2, GroupSteps, GroupRequestKeepsGroups
<1> QED BY <1>1, <1>2, PTL DEF Spec

(***************************************************************************)
(* Neither an id nor a display name ever stands for two groups, in memory  *)
(* or after any restart.                                                   *)
(***************************************************************************)
THEOREM GroupsNeverMeet == Spec => []GroupsStayApart
<1>1. GroupInv => GroupsStayApart
  <2> SUFFICES ASSUME GroupInv PROVE GroupsStayApart
    OBVIOUS
  <2>1. ASSUME groupFile # Torn, NEW i \in Id,
               named[i] # NoGroup, DirectoryOnFile.all[i] # NoGroup
        PROVE  DirectoryOnFile.all[i] = named[i]
    <3>1. CASE groupFile = Absent
      BY <2>1, <3>1 DEF GroupInv, NoGroups
    <3>2. CASE groupFile # Absent
      BY <2>1, <3>2 DEF GroupInv, DirectoryOnFile, IsWhole, Fits
    <3> QED BY <3>1, <3>2
  <2> QED BY <2>1 DEF GroupInv, GroupsStayApart, IdsNameOneGroup, DisplayNamesDiffer, Fits
<1> QED BY <1>1, GroupInvariant, PTL

--------------------------------------------------------------------------------
(* A client that pages the groups                                              *)

(***************************************************************************)
(* The places in a sorted list of groups are 1 to its length, one each and *)
(* in the order of the ids.                                                *)
(***************************************************************************)
LEMMA Positions ==
    ASSUME NEW all \in SUBSET Id
    PROVE  /\ IsFiniteSet(all) /\ Cardinality(all) \in 0..MaxGroups
           /\ \A i \in all : Position(all, i) \in 1..Cardinality(all)
           /\ \A i, j \in all : Position(all, i) = Position(all, j) => i = j
           /\ \A k \in 1..Cardinality(all) : \E i \in all : Position(all, i) = k
<1> DEFINE UpTo(i) == {j \in all : j <= i}
           place == [i \in all |-> Position(all, i)]
           len   == Cardinality(all)
<1>1. \A i \in all : i \in Nat /\ i \in UpTo(i) /\ UpTo(i) \in SUBSET all
  BY GroupAssumption DEF Id
<1>2. IsFiniteSet(all) /\ len \in Nat /\ len <= MaxGroups
  <2>1. IsFiniteSet(1..MaxGroups) /\ Cardinality(1..MaxGroups) = MaxGroups
    <3>1. 1 \in Int /\ MaxGroups \in Int /\ MaxGroups \in Nat
      BY GroupAssumption
    <3>2. /\ IsFiniteSet(1..MaxGroups)
          /\ Cardinality(1..MaxGroups) = IF 1 > MaxGroups THEN 0 ELSE MaxGroups - 1 + 1
      BY <3>1, FS_Interval
    <3> QED BY <3>1, <3>2
  <2>2. all \in SUBSET (1..MaxGroups)
    BY DEF Id
  <2> QED BY <2>1, <2>2, FS_Subset, FS_CardinalityType
<1>3. \A i \in all : Position(all, i) = Cardinality(UpTo(i))
  BY DEF Position
<1>4. \A i, j \in all : i < j => UpTo(i) \in SUBSET UpTo(j) /\ UpTo(i) # UpTo(j)
  BY <1>1
<1> HIDE DEF UpTo
<1>5. \A i \in all : /\ IsFiniteSet(UpTo(i)) /\ Position(all, i) \in Nat
                     /\ Position(all, i) # 0 /\ Position(all, i) <= len
  BY <1>1, <1>2, <1>3, FS_Subset, FS_CardinalityType, FS_EmptySet
<1>6. \A i, j \in all : i < j => Position(all, i) < Position(all, j)
  <2> SUFFICES ASSUME NEW i \in all, NEW j \in all, i < j
               PROVE  Position(all, i) < Position(all, j)
    OBVIOUS
  <2>1. /\ Cardinality(UpTo(i)) <= Cardinality(UpTo(j))
        /\ Cardinality(UpTo(j)) # Cardinality(UpTo(i))
    BY <1>4, <1>5, FS_Subset
  <2> QED BY <1>3, <1>5, <2>1
<1>7. \A i, j \in all : Position(all, i) = Position(all, j) => i = j
  BY <1>1, <1>5, <1>6
<1>8. \A i \in all : Position(all, i) \in 1..len
  BY <1>2, <1>5
<1>9. place \in Injection(all, 1..len)
  BY <1>7, <1>8 DEF Injection, IsInjective
<1>10. IsFiniteSet(1..len) /\ Cardinality(1..len) = len
  <2>1. 1 \in Int /\ len \in Int
    BY <1>2
  <2>2. /\ IsFiniteSet(1..len)
        /\ Cardinality(1..len) = IF 1 > len THEN 0 ELSE len - 1 + 1
    BY <2>1, FS_Interval
  <2> QED BY <1>2, <2>2
<1>11. place \in Surjection(all, 1..len)
  BY <1>9, <1>10, FS_Injection
<1>12. \A k \in 1..len : \E i \in all : place[i] = k
  BY <1>11 DEF Surjection
<1> QED BY <1>2, <1>7, <1>8, <1>12

(***************************************************************************)
(* A page is full unless the list ends in it.                              *)
(***************************************************************************)
LEMMA FullPages ==
    ASSUME NEW all \in SUBSET Id, NEW start \in Index,
           NEW page, page = PageOf(all, start, PageSize)
    PROVE  /\ Cardinality(page) \in 0..PageSize
           /\ (\E i \in all : Position(all, i) >= start + PageSize)
                 => Cardinality(page) = PageSize
           /\ Cardinality(page) = PageSize => start + PageSize \in Index
<1> DEFINE places == start..(start + PageSize - 1)
           place  == [i \in page |-> Position(all, i)]
<1>1. start \in Nat /\ start >= 1 /\ PageSize \in Nat /\ PageSize >= 1 /\ MaxGroups \in Nat
  BY GroupAssumption DEF Index
<1>2. page \in SUBSET all /\ \A i \in page : Position(all, i) \in places
  BY DEF PageOf
<1>3. \A i \in all : Position(all, i) \in places => i \in page
  BY DEF PageOf
<1>4. /\ Cardinality(all) \in 0..MaxGroups
      /\ \A i \in all : Position(all, i) \in 1..Cardinality(all)
      /\ \A i, j \in all : Position(all, i) = Position(all, j) => i = j
      /\ \A k \in 1..Cardinality(all) : \E i \in all : Position(all, i) = k
  BY Positions
<1>5. IsFiniteSet(places) /\ Cardinality(places) = PageSize
  <2>1. start \in Int /\ start + PageSize - 1 \in Int
    BY <1>1
  <2>2. /\ IsFiniteSet(places)
        /\ Cardinality(places) = IF start > start + PageSize - 1 THEN 0
                                 ELSE (start + PageSize - 1) - start + 1
    BY <2>1, FS_Interval
  <2> QED BY <1>1, <2>2
<1>6. place \in Injection(page, places)
  BY <1>2, <1>4 DEF Injection, IsInjective
<1> HIDE DEF places
<1>7. /\ IsFiniteSet(page) /\ Cardinality(page) <= PageSize
      /\ Cardinality(page) = PageSize <=> place \in Surjection(page, places)
  BY <1>5, <1>6, FS_Injection
<1>8. Cardinality(page) \in 0..PageSize
  BY <1>1, <1>7, FS_CardinalityType
<1>9. ASSUME NEW i \in all, Position(all, i) >= start + PageSize
      PROVE  Cardinality(page) = PageSize
  <2>1. \A k \in places : k \in 1..Cardinality(all)
    BY <1>1, <1>4, <1>9 DEF places
  <2>2. \A k \in places : \E j \in page : place[j] = k
    BY <1>3, <1>4, <2>1
  <2>3. place \in [page -> places]
    BY <1>6 DEF Injection
  <2>4. place \in Surjection(page, places)
    BY <2>2, <2>3 DEF Surjection
  <2> QED BY <1>7, <2>4
<1>10. ASSUME Cardinality(page) = PageSize PROVE start + PageSize \in Index
  <2>1. start + PageSize - 1 \in places
    BY <1>1 DEF places
  <2>2. PICK j \in page : place[j] = start + PageSize - 1
    BY <1>7, <1>10, <2>1 DEF Surjection
  <2>3. place[j] = Position(all, j) /\ j \in all
    BY <1>2
  <2>4. Position(all, j) <= MaxGroups
    BY <1>1, <1>4, <2>3
  <2> QED BY <1>1, <2>2, <2>3, <2>4 DEF Index
<1> QED BY <1>8, <1>9, <1>10

\* The groups a client is still to see are listed where it has not been.
PagerInv ==
    /\ pager \in Pager
    /\ ~pager.on => pager.had \subseteq pager.seen
    /\ \A i \in pager.had \ pager.seen :
          i \in List /\ Position(List, i) >= pager.startIndex

LEMMA PagerSteps ==
    ASSUME [Next]_vars
    PROVE  \/ openGroups
           \/ GroupRequest \/ scimGroupsList
           \/ UNCHANGED <<group, pager>>
<1>1. CASE Seed
  BY <1>1 DEF Seed, storeVars, groupVars
<1>2. CASE Open \/ OpenFails \/ Crash
  BY <1>2 DEF Open, OpenFails, Crash, storeVars, groupVars
<1>3. CASE Requests /\ ~GroupRequest /\ ~scimGroupsList
  BY <1>3 DEF Requests, TokenRequest, ScopeRequest, SecretRequest, NextPage,
       MLflowRequest, FileRequest, ObjectRequest, ClusterPolicyRequest, Only, groupVars
<1>4. CASE UNCHANGED vars
  BY <1>4 DEF vars, storeVars, groupVars
<1> QED BY <1>1, <1>2, <1>3, <1>4 DEF Next, Requests, NextPage

(***************************************************************************)
(* A group that is created comes last, one that is deleted excuses the     *)
(* client, and a page moves it past what the page showed.                  *)
(***************************************************************************)
LEMMA RequestsKeepPager ==
    ASSUME GroupInv, PagerInv, GroupRequest \/ scimGroupsList PROVE PagerInv'
<1>0. /\ pager \in Pager /\ List \in SUBSET Id /\ 1 \in Index
      /\ \A i \in Id : i \in Nat
  BY GroupAssumption DEF PagerInv, List, Index, Id
<1>1. ASSUME NEW d \in DisplayNames, scimGroupsCreate(d) PROVE PagerInv'
  <2>1. /\ group' = group \/ group' = [group EXCEPT ![nextID + 1] = d]
        /\ UNCHANGED pager
    BY <1>1 DEF scimGroupsCreate, Create
  <2>2. group \in Groups /\ nextID \in Nat /\ \A i \in List : i <= nextID
    BY <1>1, GroupAssumption DEF GroupInv, Fits, List, scimGroupsCreate
  <2>3. List \subseteq List' /\ \A j \in List' : j \in List \/ j > nextID
    BY <1>1, <2>1, <2>2, GroupAssumption DEF List, Groups
  <2>4. ASSUME NEW i \in List PROVE Position(List', i) = Position(List, i)
    <3>1. {j \in List' : j <= i} = {j \in List : j <= i}
      BY <1>0, <2>2, <2>3 DEF List
    <3> QED BY <3>1 DEF Position
  <2> QED BY <2>1, <2>3, <2>4 DEF PagerInv
<1>2. ASSUME NEW i \in Id, scimGroupsDelete(i) PROVE PagerInv'
  <2>1. pager' = [pager EXCEPT !.had = @ \cap pager.seen]
    BY <1>2 DEF scimGroupsDelete, Delete
  <2>2. pager' \in Pager /\ (pager').had = pager.had \cap pager.seen /\ (pager').seen = pager.seen
    BY <1>0, <2>1 DEF Pager
  <2> QED BY <2>2 DEF PagerInv
<1>3. ASSUME StartPaging PROVE PagerInv'
  <2>1. pager' = [NotPaging EXCEPT !.on = TRUE, !.had = List] /\ List' = List
    BY <1>3 DEF StartPaging, List
  <2>2. pager' = [on |-> TRUE, startIndex |-> 1, seen |-> {}, had |-> List]
    BY <2>1 DEF NotPaging
  <2>3. pager' \in Pager
    BY <1>0, <2>2 DEF Pager
  <2>4. ASSUME NEW i \in List PROVE Position(List, i) >= 1
    <3>1. Cardinality(List) \in Nat /\ Position(List, i) \in 1..Cardinality(List)
      BY <1>0, GroupAssumption, Positions
    <3> QED BY <3>1
  <2>5. (pager').on /\ (pager').startIndex = 1 /\ (pager').had \ (pager').seen = List
    BY <2>2
  <2>6. List' = List
    BY <2>1
  <2> QED BY <2>3, <2>4, <2>5, <2>6 DEF PagerInv
<1>4. ASSUME scimGroupsList PROVE PagerInv'
  <2> DEFINE page == PageOf(List, pager.startIndex, PageSize)
             start == pager.startIndex
             next  == start + Cardinality(page)
  <2>1. /\ pager' = [pager EXCEPT !.seen = @ \cup page,
                                  !.startIndex = IF next \in Index THEN next ELSE @,
                                  !.on = Cardinality(page) >= PageSize]
        /\ List' = List
    BY <1>4 DEF scimGroupsList, List
  <2>2. start \in Index /\ page \in SUBSET List
    BY <1>0 DEF Pager, PageOf
  <2>3. /\ Cardinality(page) \in 0..PageSize
        /\ (\E i \in List : Position(List, i) >= start + PageSize)
              => Cardinality(page) = PageSize
        /\ Cardinality(page) = PageSize => start + PageSize \in Index
    BY <1>0, <2>2, FullPages
  <2>4. ASSUME NEW i \in List
        PROVE  /\ Position(List, i) \in Nat
               /\ Position(List, i) \in start..(start + PageSize - 1) => i \in page
    <3>1. Cardinality(List) \in Nat /\ Position(List, i) \in 1..Cardinality(List)
      BY <1>0, GroupAssumption, Positions
    <3>2. Position(List, i) \in start..(start + PageSize - 1) => i \in page
      BY DEF PageOf
    <3> QED BY <3>1, <3>2
  <2>5. start \in Nat /\ PageSize \in Nat /\ PageSize # 0
    BY <2>2, GroupAssumption DEF Index
  <2> DEFINE newStart == IF next \in Index THEN next ELSE start
             more     == Cardinality(page) >= PageSize
  <2> HIDE DEF page
  <2>6. /\ (pager').had = pager.had /\ (pager').seen = pager.seen \cup page
        /\ (pager').on = more /\ (pager').startIndex = newStart
        /\ pager' \in Pager
    <3>1. pager = [on |-> pager.on, startIndex |-> start, seen |-> pager.seen, had |-> pager.had]
          /\ pager.had \in SUBSET Id /\ pager.seen \in SUBSET Id
      BY <1>0 DEF Pager
    <3>2. pager' = [on |-> more, startIndex |-> newStart, seen |-> pager.seen \cup page,
                    had |-> pager.had]
      BY <2>1, <3>1
    <3>3. newStart \in Index /\ more \in BOOLEAN /\ pager.seen \cup page \in SUBSET Id
      BY <1>0, <2>2, <3>1
    <3> HIDE DEF newStart, more
    <3> QED BY <3>1, <3>2, <3>3 DEF Pager
  <2>7. ASSUME NEW i \in (pager').had \ (pager').seen
        PROVE  i \in List /\ Position(List, i) >= start + PageSize
    <3>1. i \in pager.had \ pager.seen /\ i \notin page
      BY <2>6
    <3>2. i \in List /\ Position(List, i) >= start
      BY <3>1 DEF PagerInv
    <3> QED BY <2>4, <2>5, <3>1, <3>2
  <2>8. CASE Cardinality(page) = PageSize
    <3>1. (pager').on /\ (pager').startIndex = start + PageSize
      <4>1. Cardinality(page) >= PageSize /\ next = start + PageSize /\ next \in Index
        BY <2>3, <2>5, <2>8
      <4> HIDE DEF next
      <4>2. more /\ newStart = next
        BY <4>1
      <4> HIDE DEF more, newStart
      <4> QED BY <2>6, <4>1, <4>2
    <3>2. List' = List
      BY <2>1
    <3> QED BY <2>6, <2>7, <3>1, <3>2 DEF PagerInv
  <2>9. CASE Cardinality(page) # PageSize
    <3>1. (pager').had \ (pager').seen = {}
      BY <2>3, <2>7, <2>9
    <3> QED BY <2>6, <3>1 DEF PagerInv
  <2> QED BY <2>8, <2>9
<1> QED BY <1>1, <1>2, <1>3, <1>4 DEF GroupRequest

(***************************************************************************)
(* A client that has read its short page has seen every group that was     *)
(* there all along, though others create groups between its requests.      *)
(***************************************************************************)
THEOREM PagesShowEveryGroup == Spec => []PagingSeesAll
<1>1. NotPaging \in Pager /\ NotPaging.had = {} /\ NotPaging.seen = {}
  BY GroupAssumption DEF NotPaging, Pager, Index
<1>2. Init => PagerInv
  BY <1>1 DEF Init, GroupInit, PagerInv
<1>3. GroupInv /\ PagerInv /\ [Next]_vars => PagerInv'
  <2> SUFFICES ASSUME GroupInv, PagerInv, [Next]_vars PROVE PagerInv'
    OBVIOUS
  <2>1. CASE openGroups
    BY <1>1, <2>1 DEF openGroups, PagerInv
  <2>2. CASE UNCHANGED <<group, pager>>
    BY <2>2 DEF PagerInv, List
  <2> QED BY <2>1, <2>2, PagerSteps, RequestsKeepPager
<1>4. PagerInv => PagingSeesAll
  BY DEF PagerInv, PagingSeesAll
<1> QED BY <1>2, <1>3, <1>4, GroupInvariant, PTL DEF Spec

--------------------------------------------------------------------------------
(* Workspace objects                                                           *)

WorkspaceInv == WorkspaceTypeOK /\ MetadataFollowsBytes

LEMMA WorkspaceSteps ==
    ASSUME [Next]_vars
    PROVE  \/ openWorkspace
           \/ WorkspaceRequest
           \/ UNCHANGED workspaceVars
<1>1. CASE Seed \/ Open \/ OpenFails \/ Crash
  BY <1>1 DEF Seed, Open, OpenFails, Crash, storeVars
<1>2. CASE Requests
  BY <1>2 DEF Requests, TokenRequest, ScopeRequest, SecretRequest, GroupRequest, NextPage,
       MLflowRequest, FileRequest, ObjectRequest, ClusterPolicyRequest, Only
<1>3. CASE UNCHANGED vars
  BY <1>3 DEF vars, storeVars
<1> QED BY <1>1, <1>2, <1>3 DEF Next, Requests

(***************************************************************************)
(* Put writes the bytes and then the metadata of one path.                 *)
(***************************************************************************)
LEMMA PutKeepsObjects ==
    ASSUME WorkspaceInv, NEW p \in WPaths, NEW kind \in Kinds, PutObject(p, kind),
           importer' \in [Importers -> Imports \cup {NoImport}]
    PROVE  WorkspaceInv'
<1>1. /\ bytes \in [WPaths -> Kinds \cup {Absent, Torn}] /\ damaged \subseteq WPaths
      /\ meta \in [WPaths -> Kinds \cup {Absent, Torn}] /\ MetadataFollowsBytes
  BY DEF WorkspaceInv, WorkspaceTypeOK
<1>2. PICK o \in WriteFile(bytes[p], kind) :
         /\ bytes' = [bytes EXCEPT ![p] = o.file]
         /\ IF o.end # "ok"
            THEN /\ damaged' = IF o.file = bytes[p] THEN damaged ELSE damaged \cup {p}
                 /\ UNCHANGED meta
            ELSE \E n \in WriteFile(meta[p], kind) :
                    /\ meta' = [meta EXCEPT ![p] = n.file]
                    /\ damaged' = IF n.end = "ok" THEN damaged \ {p} ELSE damaged \cup {p}
  BY DEF PutObject, PutMeta
<1>3. o.file \in {kind, bytes[p], Torn} /\ (o.end = "ok" => o.file = kind)
  BY <1>2 DEF WriteFile
<1>4. /\ bytes' \in [WPaths -> Kinds \cup {Absent, Torn}] /\ bytes'[p] = o.file
      /\ \A q \in WPaths \ {p} : bytes'[q] = bytes[q]
  BY <1>1, <1>2, <1>3
<1>5. CASE o.end # "ok"
  <2>1. damaged' \subseteq WPaths /\ damaged \subseteq damaged' /\ UNCHANGED meta
        /\ (p \in damaged' \/ bytes'[p] = bytes[p])
    BY <1>1, <1>2, <1>4, <1>5
  <2>2. MetadataFollowsBytes'
    BY <1>1, <1>4, <2>1 DEF MetadataFollowsBytes, TypeOf
  <2> QED BY <1>1, <1>4, <2>1, <2>2 DEF WorkspaceInv, WorkspaceTypeOK
<1>6. CASE o.end = "ok"
  <2>1. PICK n \in WriteFile(meta[p], kind) :
                    /\ meta' = [meta EXCEPT ![p] = n.file]
                    /\ damaged' = IF n.end = "ok" THEN damaged \ {p} ELSE damaged \cup {p}
    BY <1>2, <1>6
  <2>2. n.file \in {kind, meta[p], Torn} /\ (n.end = "ok" => n.file = kind)
    BY <2>1 DEF WriteFile
  <2>3. /\ meta' \in [WPaths -> Kinds \cup {Absent, Torn}] /\ meta'[p] = n.file
        /\ \A q \in WPaths \ {p} : meta'[q] = meta[q]
    BY <1>1, <2>1, <2>2
  <2>4. MetadataFollowsBytes'
    <3> SUFFICES ASSUME NEW q \in WPaths \ damaged'
                 PROVE  IF bytes'[q] = Absent THEN meta'[q] = Absent
                        ELSE (IF meta'[q] \in {Absent, Torn} THEN "FILE" ELSE meta'[q]) = bytes'[q]
      BY DEF MetadataFollowsBytes, TypeOf
    <3>1. CASE q = p
      BY <1>3, <1>4, <1>6, <2>1, <2>2, <2>3, <3>1, WorkspaceAssumption
    <3>2. CASE q # p
      <4>1. q \in WPaths \ damaged
        BY <2>1, <3>2
      <4> QED BY <1>1, <1>4, <2>3, <3>2, <4>1 DEF MetadataFollowsBytes, TypeOf
    <3> QED BY <3>1, <3>2
  <2> QED BY <1>1, <1>4, <2>1, <2>3, <2>4 DEF WorkspaceInv, WorkspaceTypeOK
<1> QED BY <1>5, <1>6

LEMMA WorkspaceRequestKeepsObjects == ASSUME WorkspaceInv, WorkspaceRequest PROVE WorkspaceInv'
<1>1. /\ bytes \in [WPaths -> Kinds \cup {Absent, Torn}] /\ damaged \subseteq WPaths
      /\ meta \in [WPaths -> Kinds \cup {Absent, Torn}] /\ MetadataFollowsBytes
      /\ importer \in [Importers -> Imports \cup {NoImport}]
  BY DEF WorkspaceInv, WorkspaceTypeOK
<1>2. ASSUME NEW m \in Importers, NEW p \in WPaths, NEW k \in Kinds, NEW w \in BOOLEAN,
             LookForObject(m, p, k, w)
      PROVE  WorkspaceInv'
  <2>1. [at |-> "put", path |-> p, kind |-> k] \in Imports
    BY DEF Imports
  <2>2. importer' \in [Importers -> Imports \cup {NoImport}] /\ UNCHANGED <<bytes, meta, damaged>>
    BY <1>1, <1>2, <2>1 DEF LookForObject
  <2> QED BY <1>1, <2>2 DEF WorkspaceInv, WorkspaceTypeOK, MetadataFollowsBytes, TypeOf
<1>3. ASSUME NEW m \in Importers, workspaceImport(m) PROVE WorkspaceInv'
  <2>1. importer[m] \in Imports
    BY <1>1, <1>3 DEF workspaceImport
  <2>2. importer[m].path \in WPaths /\ importer[m].kind \in Kinds
    BY <2>1 DEF Imports
  <2>3. importer' \in [Importers -> Imports \cup {NoImport}]
    BY <1>1, <1>3 DEF workspaceImport
  <2> QED BY <1>3, <2>2, <2>3, PutKeepsObjects DEF workspaceImport
<1>4. ASSUME NEW p \in WPaths, workspaceFilesImport(p) PROVE WorkspaceInv'
  <2>1. "FILE" \in Kinds
    BY DEF Kinds
  <2> QED BY <1>1, <1>4, <2>1, PutKeepsObjects DEF workspaceFilesImport
<1>5. ASSUME NEW p \in WPaths, workspaceDeleteObject(p) PROVE WorkspaceInv'
  <2>1. PICK m \in {Absent, meta[p]} :
           /\ meta' = [meta EXCEPT ![p] = m]
           /\ \/ /\ bytes' = [bytes EXCEPT ![p] = Absent]
                 /\ damaged' = IF m = Absent THEN damaged \ {p} ELSE damaged \cup {p}
              \/ /\ damaged' = damaged \cup {p}
                 /\ UNCHANGED bytes
    BY <1>5 DEF workspaceDeleteObject
  <2>2. /\ meta' \in [WPaths -> Kinds \cup {Absent, Torn}] /\ meta'[p] = m
        /\ \A q \in WPaths \ {p} : meta'[q] = meta[q]
        /\ bytes' \in [WPaths -> Kinds \cup {Absent, Torn}]
        /\ \A q \in WPaths \ {p} : bytes'[q] = bytes[q]
        /\ damaged' \subseteq WPaths
        /\ \A q \in WPaths \ {p} : q \in damaged' <=> q \in damaged
        /\ p \in damaged' \/ (m = Absent /\ bytes'[p] = Absent)
    BY <1>1, <2>1
  <2>3. MetadataFollowsBytes'
    BY <1>1, <2>2 DEF MetadataFollowsBytes, TypeOf
  <2> QED BY <1>1, <1>5, <2>2, <2>3 DEF WorkspaceInv, WorkspaceTypeOK, workspaceDeleteObject
<1> QED BY <1>2, <1>3, <1>4, <1>5 DEF WorkspaceRequest

(***************************************************************************)
(* An object is reported as what its bytes were imported as, whatever      *)
(* imports and deletes overlap, unless a write of it was cut short.        *)
(***************************************************************************)
THEOREM ObjectsKeepTheirKind == Spec => []MetadataFollowsBytes
<1>1. Init => WorkspaceInv
  BY DEF Init, WorkspaceInit, WorkspaceInv, WorkspaceTypeOK, MetadataFollowsBytes, TypeOf
<1>2. WorkspaceInv /\ [Next]_vars => WorkspaceInv'
  <2> SUFFICES ASSUME WorkspaceInv, [Next]_vars PROVE WorkspaceInv'
    OBVIOUS
  <2>1. CASE openWorkspace
    BY <2>1 DEF openWorkspace, WorkspaceInv, WorkspaceTypeOK, MetadataFollowsBytes, TypeOf
  <2>2. CASE UNCHANGED workspaceVars
    BY <2>2 DEF workspaceVars, WorkspaceInv, WorkspaceTypeOK, MetadataFollowsBytes, TypeOf
  <2> QED BY <2>1, <2>2, WorkspaceSteps, WorkspaceRequestKeepsObjects
<1>3. WorkspaceInv => MetadataFollowsBytes
  BY DEF WorkspaceInv
<1> QED BY <1>1, <1>2, <1>3, PTL DEF Spec

--------------------------------------------------------------------------------
(* Cluster policies                                                            *)

\* What was checked complies with the rules it was checked against, and still
\* does when the defaults are filled in, unless a version left out met them.
ClusterFits(c) ==
    /\ c \in Cluster /\ c.rules # NoPolicy
    /\ \/ EvaluatePolicy(c.rules, c.attrs)
       \/ /\ c.at = "stored" /\ c.attrs.version = "emulator-spark"
          /\ MetByNoVersion(c.rules.version) /\ WorkersComply(c.rules.workers, c.attrs.workers)

PolicyMaps == [PolicyId -> Definitions \cup {NoPolicy}]

PolicyInv ==
    /\ policies \in PolicyMaps
    /\ nextPolicy \in 0..MaxPolicies
    /\ policyFile \in [all : PolicyMaps, nextID : 0..MaxPolicies] \cup {Absent}
    /\ cluster = NoCluster \/ ClusterFits(cluster)

LEMMA PolicySteps ==
    ASSUME [Next]_vars
    PROVE  \/ openPolicies
           \/ PolicyRequest
           \/ UNCHANGED policyVars
<1>1. CASE Seed \/ Open \/ OpenFails \/ Crash
  BY <1>1 DEF Seed, Open, OpenFails, Crash, storeVars
<1>2. CASE Requests
  BY <1>2 DEF Requests, TokenRequest, ScopeRequest, SecretRequest, GroupRequest, NextPage,
       MLflowRequest, FileRequest, ObjectRequest, ClusterPolicyRequest, Only
<1>3. CASE UNCHANGED vars
  BY <1>3 DEF vars, storeVars
<1> QED BY <1>1, <1>2, <1>3 DEF Next, Requests

LEMMA PolicyRequestKeepsPolicies == ASSUME PolicyInv, PolicyRequest PROVE PolicyInv'
<1>1. ASSUME NEW all \in PolicyMaps, NEW next \in 0..MaxPolicies, persistPolicies(all, next)
      PROVE  PolicyInv'
  <2>1. policyFile' \in {[all |-> all, nextID |-> next], policyFile}
    BY <1>1 DEF persistPolicies, WriteAndRename
  <2> QED BY <1>1, <2>1 DEF PolicyInv, persistPolicies
<1>2. ASSUME NEW d \in Definitions, policiesCreate(d) PROVE PolicyInv'
  <2>1. [policies EXCEPT ![nextPolicy + 1] = d] \in PolicyMaps /\ nextPolicy + 1 \in 0..MaxPolicies
    BY <1>2, PolicyAssumption DEF policiesCreate, PolicyInv, PolicyMaps, PolicyId
  <2> QED BY <1>1, <1>2, <2>1 DEF policiesCreate
<1>3. ASSUME NEW i \in PolicyId, NEW d \in Definitions, policiesEdit(i, d) PROVE PolicyInv'
  <2>1. [policies EXCEPT ![i] = d] \in PolicyMaps
    BY DEF PolicyInv, PolicyMaps
  <2> QED BY <1>1, <1>3, <2>1 DEF policiesEdit, PolicyInv
<1>4. ASSUME NEW i \in PolicyId, policiesDelete(i) PROVE PolicyInv'
  <2>1. [policies EXCEPT ![i] = NoPolicy] \in PolicyMaps
    BY DEF PolicyInv, PolicyMaps
  <2> QED BY <1>1, <1>4, <2>1 DEF policiesDelete, PolicyInv
<1>5. ASSUME NEW i \in PolicyId, NEW a \in Attrs, enforcePolicy(i, a) PROVE PolicyInv'
  <2> DEFINE d    == policies[i]
             full == ApplyFixedDefaults(d, a)
             made == [at |-> "checked", policy |-> i, attrs |-> full, rules |-> d]
  <2>1. d \in Definitions /\ d # NoPolicy /\ EvaluatePolicy(d, full) /\ cluster' = made
        /\ UNCHANGED <<policies, nextPolicy, policyFile>>
    BY <1>5 DEF enforcePolicy, PolicyInv, PolicyMaps
  <2>2. d.version \in VersionRule
    BY <2>1, PolicyAssumption DEF Definition
  <2>3. d.version.type = "fixed" => d.version.value \in SparkVersion
    BY <2>2 DEF VersionRule
  <2>4. full \in Attrs
    BY <2>3 DEF ApplyFixedDefaults, Attrs
  <2> HIDE DEF d, full
  <2>5. made \in Cluster /\ made.rules = d /\ made.attrs = full
    BY <2>1, <2>4 DEF Cluster
  <2> HIDE DEF made
  <2>6. ClusterFits(made)
    BY <2>1, <2>5 DEF ClusterFits
  <2> QED BY <2>1, <2>6 DEF PolicyInv
<1>6. ASSUME createCheckedCluster PROVE PolicyInv'
  <2> DEFINE a == cluster.attrs
             d == cluster.rules
             f == EmulatorDefaults(a)
  <2>1. /\ cluster.at = "checked" /\ UNCHANGED <<policies, nextPolicy, policyFile>>
        /\ cluster' = [cluster EXCEPT !.at = "stored", !.attrs = EmulatorDefaults(@)]
    BY <1>6 DEF createCheckedCluster
  <2>2. cluster \in Cluster /\ d # NoPolicy /\ EvaluatePolicy(d, a)
    BY <2>1 DEF PolicyInv, ClusterFits, NoCluster
  <2>3. a \in Attrs /\ d \in Definitions
    BY <2>2 DEF Cluster
  <2>4. f \in Attrs /\ f.workers = a.workers
        /\ (f.version = a.version \/ (a.version = "unset" /\ f.version = "emulator-spark"))
    BY <2>3 DEF EmulatorDefaults, Attrs, SparkVersion
  <2>5. cluster' \in Cluster /\ cluster'.rules = d /\ cluster'.attrs = f /\ cluster'.at = "stored"
    BY <2>1, <2>2, <2>4 DEF Cluster
  <2> HIDE DEF a, d, f
  <2>6. WorkersComply(d.workers, f.workers)
    BY <2>2, <2>4 DEF EvaluatePolicy
  <2>7. \/ VersionComplies(d.version, f.version)
        \/ f.version = "emulator-spark" /\ MetByNoVersion(d.version)
    <3>1. CASE f.version = a.version
      BY <2>2, <3>1 DEF EvaluatePolicy
    <3>2. CASE a.version = "unset" /\ f.version = "emulator-spark"
      BY <2>2, <3>2 DEF EvaluatePolicy, VersionComplies, MetByNoVersion
    <3> QED BY <2>4, <3>1, <3>2
  <2>8. ClusterFits(cluster')
    BY <2>2, <2>5, <2>6, <2>7 DEF ClusterFits, EvaluatePolicy
  <2> QED BY <2>1, <2>8 DEF PolicyInv
<1> QED BY <1>2, <1>3, <1>4, <1>5, <1>6 DEF PolicyRequest

(***************************************************************************)
(* A cluster created under a policy is compliant while the policy is what  *)
(* it was checked against, for any definitions, or it breaks the rule for  *)
(* the version alone, one that the version its client left out had met.    *)
(***************************************************************************)
THEOREM ClustersComply == Spec => []NewClustersComply
<1>1. Init => PolicyInv
  BY PolicyAssumption DEF Init, PolicyInit, PolicyInv, NoPolicies, PolicyMaps
<1>2. PolicyInv /\ [Next]_vars => PolicyInv'
  <2> SUFFICES ASSUME PolicyInv, [Next]_vars PROVE PolicyInv'
    OBVIOUS
  <2>1. CASE openPolicies
    <3>1. PoliciesOnFile \in [all : PolicyMaps, nextID : 0..MaxPolicies]
      BY PolicyAssumption DEF PoliciesOnFile, NoPolicies, PolicyInv, PolicyMaps
    <3> QED BY <2>1, <3>1 DEF openPolicies, PolicyInv
  <2>2. CASE UNCHANGED policyVars
    BY <2>2 DEF policyVars, PolicyInv
  <2> QED BY <2>1, <2>2, PolicySteps, PolicyRequestKeepsPolicies
<1>3. PolicyInv => NewClustersComply
  BY DEF PolicyInv, ClusterFits, NewClustersComply, IsCompliant, NoCluster
<1> QED BY <1>1, <1>2, <1>3, PTL DEF Spec
================================================================================
