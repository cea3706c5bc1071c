-------------------------------- MODULE DataDir --------------------------------
(***************************************************************************)
(* A process on its data directory: store.Open seeds the identity, opens   *)
(* the file-backed stores and serves, until it dies in or between requests *)
(* and is started again on what it left.                                   *)
(***************************************************************************)
EXTENDS IdentityStore, SecretStore, GroupStore, MLflow, DBFS, WorkspaceStore, PolicyStore

CONSTANT Workloads    \* sets of stores; in each behaviour the clients use one

VARIABLES served,     \* some start has succeeded
          load        \* the stores the clients of this behaviour use

dirVars   == <<proc, served, load>>
storeVars == <<secretVars, groupVars, mlVars, dbfsVars, workspaceVars, policyVars>>
vars      == <<dirVars, identityVars, storeVars>>

TypeOK ==
    /\ proc \in NotRunning \cup {"seedPAT", "seedPATFile", "seedClient",
                                 "seedClientFile", "stores", "up"}
    /\ served \in BOOLEAN
    /\ load \in Workloads
    /\ IdentityTypeOK
    /\ SecretTypeOK
    /\ GroupTypeOK
    /\ MLTypeOK
    /\ DBFSTypeOK
    /\ WorkspaceTypeOK
    /\ PolicyTypeOK

Init ==
    /\ proc = "down"
    /\ served = FALSE
    /\ load \in Workloads
    /\ IdentityInit
    /\ SecretInit
    /\ GroupInit
    /\ MLInit
    /\ DBFSInit
    /\ WorkspaceInit
    /\ PolicyInit

--------------------------------------------------------------------------------
(* Open                                                                        *)

\* Bound: a start is cut short only in behaviours whose clients use tokens.
StartMayFail == "tokens" \in load

\* ensureSeeded, a step for each file it writes.
Seed ==
    /\ \/ openIdentity
       \/ openIdentityFails
       \/ SeedPAT
       \/ SeedPATFile
       \/ SeedClient
       \/ SeedClientFile
    /\ StartMayFail \/ proc' \notin NotRunning
    /\ UNCHANGED <<served, load, storeVars>>

\* The other stores are opened after the identity; one that does not parse
\* refuses the start.  The files of MLflow and the policies are renamed into
\* place, the workspace and DBFS read nothing.
Open ==
    /\ proc = "stores"
    /\ scopeFile # Torn
    /\ groupFile # Torn
    /\ openSecrets
    /\ openGroups
    /\ openMLflow
    /\ openDBFS
    /\ openWorkspace
    /\ openPolicies
    /\ proc' = "up"
    /\ served' = TRUE
    /\ UNCHANGED <<load, identityVars>>

OpenFails ==
    /\ proc = "stores"
    /\ Torn \in {scopeFile, groupFile}
    /\ proc' = "refused"
    /\ UNCHANGED <<served, load, identityVars, storeVars>>

\* The process dies between two writes.
Crash ==
    /\ proc \notin NotRunning
    /\ proc = "up" \/ StartMayFail
    /\ proc' = "down"
    /\ UNCHANGED <<served, load, identityVars, storeVars>>

--------------------------------------------------------------------------------
(* Requests                                                                    *)

\* A request to the store s leaves the others as they are.
Only(s) ==
    /\ UNCHANGED <<served, load>>
    /\ s # "identity"  => UNCHANGED identityVars
    /\ s # "secrets"   => UNCHANGED secretVars
    /\ s # "groups"    => UNCHANGED groupVars
    /\ s # "mlflow"    => UNCHANGED mlVars
    /\ s # "dbfs"      => UNCHANGED dbfsVars
    /\ s # "workspace" => UNCHANGED workspaceVars
    /\ s # "policies"  => UNCHANGED policyVars

TokenRequest ==
    /\ "tokens" \in load
    /\ tokenCreate \/ \E t \in Token : tokenDelete(t)
    /\ Only("identity")

ScopeRequest ==
    /\ "secrets" \in load
    /\ \E s \in Scopes :
          \/ \E b \in {"databricks", "vault"} : secretsCreateScope(s, b)
          \/ secretsDeleteScope(s)
    /\ Only("secrets")

SecretRequest ==
    /\ "secrets" \in load
    /\ \/ \E w \in Writers : LookAtScope(w) /\ UNCHANGED proc
       \/ secretsPut
       \/ secretsDelete
       \/ RefuseKey
    /\ Only("secrets")

GroupRequest ==
    /\ "groups" \in load
    /\ \/ \E d \in DisplayNames : scimGroupsCreate(d)
       \/ \E i \in Id : scimGroupsDelete(i)
       \/ StartPaging
    /\ Only("groups")

NextPage == scimGroupsList /\ Only("groups")

\* Bound: the clients of the runs make one experiment for them.
FirstExperiment == ml.nextExp = 0 /\ CreateExperiment(CHOOSE n \in ExpNames : TRUE)

MLflowRequest ==
    /\ \/ "experiments" \in load /\ ExperimentRequest
       \/ "runs" \in load /\ (FirstExperiment \/ RunRequest \/ LogRequest)
       \/ "registry" \in load /\ RegistryRequest
    /\ Only("mlflow")

FileRequest == "dbfs" \in load /\ DBFSRequest /\ Only("dbfs")

ObjectRequest == "workspace" \in load /\ WorkspaceRequest /\ Only("workspace")

ClusterPolicyRequest == "policies" \in load /\ PolicyRequest /\ Only("policies")

Next ==
    \/ Seed \/ Open \/ OpenFails \/ Crash
    \/ TokenRequest \/ ScopeRequest \/ SecretRequest \/ GroupRequest \/ NextPage
    \/ MLflowRequest \/ FileRequest \/ ObjectRequest \/ ClusterPolicyRequest

Spec == Init /\ [][Next]_vars

--------------------------------------------------------------------------------
(* Properties                                                                  *)

\* Once a server has served this directory, and as long as no token was asked
\* to be deleted, a start is refused only for a file that is written in place:
\* identity.json or the groups.  The secrets, which are renamed into place, and
\* the seed files, which are written once, never stand in the way.
OnlyInPlaceWritesRefuseAStart ==
    proc = "refused" /\ served /\ deleted = {} => Torn \in {idFile, groupFile}
================================================================================
