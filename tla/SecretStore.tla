------------------------------ MODULE SecretStore ------------------------------
(***************************************************************************)
(* Secret scopes (store/secrets.go) and their endpoints                    *)
(* (server/secrets.go).  A scope keeps its values itself or names a vault  *)
(* that does.  A write is two steps: the handler looks at the backend      *)
(* before it calls the store.                                              *)
(***************************************************************************)
EXTENDS Files, Naturals

CONSTANTS Scopes, Keys, Values,
          NoValue,   \* no value under this key
          Unsure     \* the last request on this key was not confirmed

VARIABLES
    backend,    \* SecretScope.Backend, "none" for a scope that does not exist
    values,     \* SecretScope.keys
    scopeFile,  \* scopes.json
    writer,     \* a handler between its look at the backend and the store
    told        \* what the clients were last told about each key

secretVars == <<backend, values, scopeFile, writer, told>>

Backend  == {"none", "databricks", "vault"}
Key      == Scopes \X Keys
Contents == [backend : [Scopes -> Backend], values : [Key -> Values \cup {NoValue}]]
Idle     == [op |-> "idle"]
Writers  == [op : {"put"}, key : Key, value : Values] \cup [op : {"delete"}, key : Key]

ASSUME SecretAssumption ==
    /\ NoValue \notin Values
    /\ Unsure \notin Values \cup {NoValue}
    /\ \A x \in {Absent, Torn} : x \notin Contents

SecretTypeOK ==
    /\ backend \in [Scopes -> Backend]
    /\ values \in [Key -> Values \cup {NoValue}]
    /\ scopeFile \in Contents \cup {Absent, Torn}
    /\ writer \in Writers \cup {Idle}
    /\ told \in [Key -> Values \cup {NoValue, Unsure}]

NoContents == [backend |-> [s \in Scopes |-> "none"], values |-> [k \in Key |-> NoValue]]

SecretInit ==
    /\ backend = NoContents.backend
    /\ values = NoContents.values
    /\ scopeFile = Absent
    /\ writer = Idle
    /\ told = NoContents.values

\* What a start reads.
OnFile == IF scopeFile = Absent THEN NoContents ELSE scopeFile

\* openSecrets; a file that does not parse ends the start, see DataDir.
openSecrets ==
    /\ backend' = OnFile.backend
    /\ values' = OnFile.values
    /\ writer' = Idle
    /\ UNCHANGED <<scopeFile, told>>

\* The values of a vault's scope are not written.
persistSecrets(b, v) ==
    WriteAndRename(scopeFile,
        [backend |-> b,
         values  |-> [k \in Key |-> IF b[k[1]] = "vault" THEN NoValue ELSE v[k]]])

\* After a request about the keys ks that would leave them with value v.
Told(o, ks, v) ==
    told' = [k \in Key |-> IF k \notin ks THEN told[k]
                           ELSE IF o.end = "ok" THEN v ELSE Unsure]

--------------------------------------------------------------------------------
(* Scopes                                                                      *)

\* A scope that could not be persisted is refused and stays in memory.
create(s, b) ==
    /\ backend[s] = "none"
    /\ backend' = [backend EXCEPT ![s] = b]
    /\ values' = [k \in Key |-> IF k[1] = s THEN NoValue ELSE values[k]]
    /\ \E o \in persistSecrets(backend', values') :
          /\ scopeFile' = o.file
          /\ ServedOn(o)
    /\ UNCHANGED <<writer, told>>

\* A vault scope also needs a vault that accepts the address, which has no
\* effect on the store.
secretsCreateScope(s, b) == proc = "up" /\ create(s, b)

\* A scope whose removal could not be persisted is gone from
\* memory, and the client is told it does not exist.
DeleteScope(s) ==
    /\ backend[s] # "none"
    /\ backend' = [backend EXCEPT ![s] = "none"]
    /\ values' = [k \in Key |-> IF k[1] = s THEN NoValue ELSE values[k]]
    /\ \E o \in persistSecrets(backend', values') :
          /\ scopeFile' = o.file
          /\ ServedOn(o)
          /\ Told(o, {k \in Key : k[1] = s}, NoValue)
    /\ UNCHANGED writer

secretsDeleteScope(s) == proc = "up" /\ DeleteScope(s)

--------------------------------------------------------------------------------
(* Values                                                                      *)

\* The handler's own look at the scope, before the store's.
LookAtScope(w) ==
    /\ proc = "up"
    /\ writer = Idle
    /\ backend[w.key[1]] # "vault"
    /\ writer' = w
    /\ UNCHANGED <<backend, values, scopeFile, told>>

Accepts_AnyBackend(w) ==
    /\ backend[w.key[1]] # "none"
    /\ w.op = "delete" => values[w.key] # NoValue

\* Put and DeleteKey refuse a scope that is missing or a vault's, and DeleteKey
\* a key that is not there.
Accepts(w) ==
    /\ backend[w.key[1]] = "databricks"
    /\ w.op = "delete" => values[w.key] # NoValue

Put_PersistsFirst(k, v) ==
    /\ values' = [values EXCEPT ![k] = v]
    /\ \E o \in persistSecrets(backend, values) :
          scopeFile' = o.file /\ ServedOn(o) /\ Told(o, {k}, v)

Put(k, v) ==
    /\ values' = [values EXCEPT ![k] = v]
    /\ \E o \in persistSecrets(backend, values') :
          scopeFile' = o.file /\ ServedOn(o) /\ Told(o, {k}, v)

DeleteKey(k) ==
    /\ values' = [values EXCEPT ![k] = NoValue]
    /\ \E o \in persistSecrets(backend, values') :
          scopeFile' = o.file /\ ServedOn(o) /\ Told(o, {k}, NoValue)

secretsPut ==
    /\ proc = "up"
    /\ writer.op = "put"
    /\ Accepts(writer)
    /\ Put(writer.key, writer.value)
    /\ writer' = Idle
    /\ UNCHANGED backend

secretsDelete ==
    /\ proc = "up"
    /\ writer.op = "delete"
    /\ Accepts(writer)
    /\ DeleteKey(writer.key)
    /\ writer' = Idle
    /\ UNCHANGED backend

RefuseKey ==
    /\ proc = "up"
    /\ writer # Idle
    /\ ~Accepts(writer)
    /\ writer' = Idle
    /\ UNCHANGED <<proc, backend, values, scopeFile, told>>

--------------------------------------------------------------------------------
(* Properties                                                                  *)

\* What a client was last told about a secret is what a start would read and
\* what a running server resolves: neither a failed write to another secret,
\* nor a crash in the middle of one, nor a refused scope undoes it.
ConfirmedSecretsHold ==
    \A k \in Key : told[k] # Unsure =>
        /\ OnFile.values[k] = told[k]
        /\ proc = "up" => values[k] = told[k]

\* A scope backed by a vault holds no value, in memory or on disk, even when
\* the scope was made again with another backend while a write to the old one
\* was under way.
ValuesStayInTheVault ==
    /\ proc = "up" => \A k \in Key : backend[k[1]] = "vault" => values[k] = NoValue
    /\ \A k \in Key : OnFile.backend[k[1]] = "vault" => OnFile.values[k] = NoValue
================================================================================
