------------------------------ MODULE PolicyStore ------------------------------
(***************************************************************************)
(* Cluster policies (store/policies.go, server/policies.go) and the check  *)
(* a cluster passes when it is created (server/clusters.go): the policy is *)
(* read, the attributes are completed and compared with it, the emulator's *)
(* own defaults are filled in, and the cluster is stored, with no lock     *)
(* from the first step to the last.                                        *)
(*                                                                         *)
(* Of the attributes the Spark version stands for the two that are strings *)
(* and the workers for the one that is a number; autoscale and libraries   *)
(* are refused before a policy is looked at.  A version a client leaves    *)
(* out is the empty string, "unset" here: a rule may hold it like any      *)
(* other.  The versions that are named are not numbers.                    *)
(***************************************************************************)
EXTENDS Files, Integers

CONSTANTS MaxPolicies,    \* bound on the policy ids given out
          MaxWorkers,     \* bound on the workers a client asks for
          Definitions     \* the definitions the clients use

VARIABLES
    policies,      \* Policies.all: the definition under each id
    nextPolicy,    \* Policies.nextID
    policyFile,    \* policies/state.json
    cluster        \* the newest cluster, from its check on

policyVars == <<policies, nextPolicy, policyFile, cluster>>

PolicyId == 1..MaxPolicies
Workers  == 0..MaxWorkers
SparkVersion == {"unset", "emulator-spark", "other"}

\* The rules a definition may have for an attribute; "unlimited" also stands for
\* a definition that does not name it.
VersionRule == [type : {"unlimited", "forbidden", "range"}]
               \cup [type : {"fixed"}, value : SparkVersion]
               \cup [type : {"allowlist"}, values : SUBSET SparkVersion]
WorkersRule == [type : {"unlimited", "forbidden"}]
               \cup [type : {"fixed"}, value : Int]
               \cup [type : {"range"}, min : Int, max : Int]
               \cup [type : {"allowlist"}, values : SUBSET Int]
Definition  == [version : VersionRule, workers : WorkersRule]

ASSUME PolicyAssumption ==
    /\ MaxPolicies \in Nat
    /\ MaxWorkers \in Nat
    /\ Definitions \subseteq Definition

NoPolicy  == [version |-> Absent]
NoCluster == [at |-> "none"]
Attrs     == [version : SparkVersion, workers : Workers]
Cluster   == [at : {"checked", "stored"}, policy : PolicyId, attrs : Attrs, rules : Definitions]

PolicyTypeOK ==
    /\ \A i \in PolicyId : policies[i] \in Definitions \cup {NoPolicy}
    /\ nextPolicy \in 0..MaxPolicies
    /\ cluster \in Cluster \cup {NoCluster}

NoPolicies == [all |-> [i \in PolicyId |-> NoPolicy], nextID |-> 0]

PolicyInit ==
    /\ policies = NoPolicies.all /\ nextPolicy = 0 /\ policyFile = Absent
    /\ cluster = NoCluster

PoliciesOnFile == IF policyFile = Absent THEN NoPolicies ELSE policyFile

\* openPolicies.  Clusters are not persisted.
openPolicies ==
    /\ policies' = PoliciesOnFile.all
    /\ nextPolicy' = PoliciesOnFile.nextID
    /\ cluster' = NoCluster
    /\ UNCHANGED policyFile

--------------------------------------------------------------------------------
(* Policies                                                                    *)

\* The policies become all: the error of the persist is told to the client or,
\* of a delete, dropped; memory keeps the change.
persistPolicies(all, next) ==
    /\ proc = "up"
    /\ policies' = all
    /\ nextPolicy' = next
    /\ \E o \in WriteAndRename(policyFile, [all |-> all, nextID |-> next]) :
          policyFile' = o.file /\ ServedOn(o)
    /\ UNCHANGED cluster

\* Of a definition that ValidateDefinition accepts.
policiesCreate(d) ==
    /\ nextPolicy + 1 \in PolicyId
    /\ persistPolicies([policies EXCEPT ![nextPolicy + 1] = d], nextPolicy + 1)

policiesEdit(i, d) ==
    /\ policies[i] # NoPolicy
    /\ persistPolicies([policies EXCEPT ![i] = d], nextPolicy)

policiesDelete(i) ==
    /\ policies[i] # NoPolicy
    /\ persistPolicies([policies EXCEPT ![i] = NoPolicy], nextPolicy)

--------------------------------------------------------------------------------
(* The check                                                                   *)

\* EvaluatePolicy, attribute by attribute.  A version is not a number, and no
\* workers are not present.
VersionComplies_WhenSet(r, v) ==
    \/ v = "unset"
    \/ r.type = "unlimited"
    \/ r.type = "fixed" /\ v = r.value
    \/ r.type = "allowlist" /\ v \in r.values
VersionComplies(r, v) ==
    \/ r.type = "unlimited"
    \/ r.type = "forbidden" /\ v = "unset"
    \/ r.type = "fixed" /\ v = r.value
    \/ r.type = "allowlist" /\ v \in r.values
WorkersComply(r, n) ==
    \/ r.type = "unlimited"
    \/ r.type = "forbidden" /\ n = 0
    \/ r.type = "fixed" /\ n = r.value
    \/ r.type = "range" /\ r.min <= n /\ n <= r.max
    \/ r.type = "allowlist" /\ n \in r.values
EvaluatePolicy(d, a) ==
    VersionComplies(d.version, a.version) /\ WorkersComply(d.workers, a.workers)

ApplyFixedDefaults(d, a) ==
    IF a.version = "unset" /\ d.version.type = "fixed"
    THEN [a EXCEPT !.version = d.version.value] ELSE a

EmulatorDefaults(a) ==
    IF a.version = "unset" THEN [a EXCEPT !.version = "emulator-spark"] ELSE a

\* enforcePolicy, on the policy as it is now.
enforcePolicy(i, a) ==
    LET full == ApplyFixedDefaults(policies[i], a)
    IN /\ proc = "up"
       /\ cluster.at # "checked"
       /\ policies[i] # NoPolicy
       /\ EvaluatePolicy(policies[i], full)
       /\ cluster' = [at |-> "checked", policy |-> i, attrs |-> full, rules |-> policies[i]]
       /\ UNCHANGED <<proc, policies, nextPolicy, policyFile>>

\* The rest of clustersCreate: the emulator's defaults, then the store.
createCheckedCluster ==
    /\ proc = "up"
    /\ cluster.at = "checked"
    /\ cluster' = [cluster EXCEPT !.at = "stored", !.attrs = EmulatorDefaults(@)]
    /\ UNCHANGED <<proc, policies, nextPolicy, policyFile>>

PolicyRequest ==
    \/ \E d \in Definitions : policiesCreate(d)
    \/ \E i \in PolicyId : policiesDelete(i) \/ \E d \in Definitions : policiesEdit(i, d)
    \/ \E i \in PolicyId, a \in Attrs : enforcePolicy(i, a)
    \/ createCheckedCluster

--------------------------------------------------------------------------------
(* Properties                                                                  *)

\* What policiesGetCompliance answers for the newest cluster.
IsCompliant ==
    /\ policies[cluster.policy] # NoPolicy
    /\ EvaluatePolicy(policies[cluster.policy], cluster.attrs)

\* The rules for the version that a version left out meets.
MetByNoVersion(r) ==
    \/ r.type \in {"unlimited", "forbidden"}
    \/ r.type = "fixed" /\ r.value = "unset"
    \/ r.type = "allowlist" /\ "unset" \in r.values

\* A cluster that was created under a policy is compliant as long as the policy
\* is what it was when it was checked.  There is one way round the check: under
\* a rule that a version left out meets, the check passes a cluster without one
\* and clustersCreate then fills in the emulator's.  It breaks that rule only:
\* the rules that an omitted version does not meet hold of what is filled in
\* after it, and the workers comply in any case.
NewClustersComply ==
    /\ proc = "up" /\ cluster.at = "stored"
    /\ policies[cluster.policy] = cluster.rules
    => \/ IsCompliant
       \/ /\ cluster.attrs.version = "emulator-spark"
          /\ MetByNoVersion(cluster.rules.version)
          /\ WorkersComply(cluster.rules.workers, cluster.attrs.workers)
================================================================================
