----------------------------- MODULE IdentityStore -----------------------------
(***************************************************************************)
(* Personal access tokens and the OIDC client (store/identity.go), from    *)
(* the seeding of an empty data directory to the token endpoints.  A token *)
(* and a client secret are the number of the random value that was drawn.  *)
(***************************************************************************)
EXTENDS Files, Naturals

CONSTANTS MaxTokens,    \* bound on the personal access tokens ever drawn
          MaxSecrets    \* bound on the client secrets ever drawn

VARIABLES
    tokens,      \* Identity.tokens
    clients,     \* Identity.clients, each by its secret
    idFile,      \* identity.json
    patFile,     \* admin.pat
    clientFile,  \* oidc-client.json
    admin,       \* Store.AdminPAT, what the process hands to dbt and prints
    secret,      \* Store.OIDCSecret
    drawn,       \* how many tokens and secrets were drawn so far
    issued,      \* tokens a client was given by tokenCreate
    deleted,     \* tokens a client asked to delete
    revoked      \* those of them whose removal was persisted and confirmed

history      == <<issued, deleted, revoked>>
identityVars == <<tokens, clients, idFile, patFile, clientFile, admin, secret,
                  drawn, issued, deleted, revoked>>

Token   == 1..MaxTokens
Secret  == 1..MaxSecrets
Identity == [tokens : SUBSET Token, clients : SUBSET Secret]

ASSUME IdentityAssumption ==
    /\ MaxTokens \in Nat
    /\ MaxSecrets \in Nat
    /\ Absent # Torn
    /\ \A x \in {Absent, Torn} : x \notin Nat /\ x \notin Identity

IdentityTypeOK ==
    /\ tokens \subseteq Token
    /\ clients \subseteq Secret
    /\ idFile \in Identity \cup {Absent, Torn}
    /\ patFile \in Token \cup {Absent, Torn}
    /\ clientFile \in Secret \cup {Absent, Torn}
    /\ admin \in Token \cup {Absent, Torn}
    /\ secret \in Secret \cup {Absent}
    /\ drawn \in [tokens : 0..MaxTokens, secrets : 0..MaxSecrets]
    /\ revoked \subseteq deleted
    /\ deleted \subseteq Token
    /\ issued \subseteq Token

IdentityInit ==
    /\ tokens = {} /\ clients = {}
    /\ idFile = Absent /\ patFile = Absent /\ clientFile = Absent
    /\ admin = Absent /\ secret = Absent
    /\ drawn = [tokens |-> 0, secrets |-> 0]
    /\ issued = {} /\ deleted = {} /\ revoked = {}

persist(ts, cs) == WriteFile(idFile, [tokens |-> ts, clients |-> cs])

--------------------------------------------------------------------------------
(* ensureSeeded                                                                *)

\* openIdentity.
OnDisk ==
    IF idFile \in {Absent, Torn} THEN [tokens |-> {}, clients |-> {}] ELSE idFile
Seeded == OnDisk.tokens # {} /\ OnDisk.clients # {}

\* readSecretFile takes what it finds: admin.pat has no format to be torn.
Readable == patFile # Absent /\ clientFile \notin {Absent, Torn}

openIdentity ==
    /\ proc \in NotRunning
    /\ idFile # Torn
    /\ Seeded => Readable
    /\ tokens' = OnDisk.tokens
    /\ clients' = OnDisk.clients
    /\ admin' = IF Seeded THEN patFile ELSE Absent
    /\ secret' = IF Seeded THEN clientFile ELSE Absent
    /\ proc' = IF Seeded THEN "stores" ELSE "seedPAT"
    /\ UNCHANGED <<idFile, patFile, clientFile, drawn, history>>

\* identity.json does not parse, or it has tokens and clients and the secrets
\* that were seeded with them cannot be read back.
openIdentityFails ==
    /\ proc \in NotRunning
    /\ idFile = Torn \/ (Seeded /\ ~Readable)
    /\ proc' = "refused"
    /\ UNCHANGED identityVars

NextToken  == drawn.tokens + 1
NextSecret == drawn.secrets + 1

\* CreatePAT: the token is in memory before it is on disk, and stays in memory
\* when the persist fails.
CreatePATWrites_Before == persist(tokens, clients)
CreatePATWrites == persist(tokens \cup {NextToken}, clients)

CreatePAT(o) ==
    /\ NextToken \in Token
    /\ tokens' = tokens \cup {NextToken}
    /\ drawn' = [drawn EXCEPT !.tokens = NextToken]
    /\ idFile' = o.file
    /\ UNCHANGED <<clients, patFile, clientFile, secret>>

SeedPAT ==
    /\ proc = "seedPAT"
    /\ \E o \in CreatePATWrites : CreatePAT(o) /\ StartedOn(o, "seedPATFile")
    /\ admin' = NextToken
    /\ UNCHANGED history

writeSecretFile_DropsError(o) == proc' = IF o.end = "crash" THEN "down" ELSE "seedClient"
writeSecretFile(o) == StartedOn(o, "seedClient")

SeedPATFile ==
    /\ proc = "seedPATFile"
    /\ \E o \in WriteFile(patFile, admin) : patFile' = o.file /\ writeSecretFile(o)
    /\ UNCHANGED <<tokens, clients, idFile, clientFile, admin, secret, drawn, history>>

addClient ==
    /\ NextSecret \in Secret
    /\ clients' = clients \cup {NextSecret}
    /\ drawn' = [drawn EXCEPT !.secrets = NextSecret]
    /\ \E o \in persist(tokens, clients \cup {NextSecret}) :
          idFile' = o.file /\ StartedOn(o, "seedClientFile")

SeedClient ==
    /\ proc = "seedClient"
    /\ addClient
    /\ secret' = NextSecret
    /\ UNCHANGED <<tokens, patFile, clientFile, admin, history>>

SeedClientFile_DropsError ==
    /\ proc = "seedClientFile"
    /\ \E o \in WriteFile(clientFile, secret) :
          clientFile' = o.file /\ proc' = IF o.end = "crash" THEN "down" ELSE "stores"
    /\ UNCHANGED <<tokens, clients, idFile, patFile, admin, secret, drawn, history>>

SeedClientFile ==
    /\ proc = "seedClientFile"
    /\ \E o \in WriteFile(clientFile, secret) :
          clientFile' = o.file /\ StartedOn(o, "stores")
    /\ UNCHANGED <<tokens, clients, idFile, patFile, admin, secret, drawn, history>>

--------------------------------------------------------------------------------
(* The token endpoints                                                         *)

tokenCreate ==
    /\ proc = "up"
    /\ \E o \in CreatePATWrites :
          /\ CreatePAT(o)
          /\ ServedOn(o)
          /\ issued' = IF o.end = "ok" THEN issued \cup {NextToken} ELSE issued
    /\ UNCHANGED <<admin, deleted, revoked>>

DeletePATWrites(t) == persist(tokens \ {t}, clients)

\* DeletePAT drops the error of persist.
DeletePAT(t, o) ==
    /\ t \in tokens
    /\ tokens' = tokens \ {t}
    /\ idFile' = o.file

\* The client is told the token is gone, whether it is on disk or not.
tokenDelete(t) ==
    /\ proc = "up"
    /\ \E o \in DeletePATWrites(t) :
          /\ DeletePAT(t, o)
          /\ ServedOn(o)
          /\ revoked' = IF o.end = "ok" THEN revoked \cup {t} ELSE revoked
    /\ deleted' = deleted \cup {t}
    /\ UNCHANGED <<clients, patFile, clientFile, admin, secret, drawn, issued>>

--------------------------------------------------------------------------------
(* Properties                                                                  *)

\* A token a client was given and nobody asked to delete is accepted whenever
\* the server is up, through crashes in the middle of later writes, writes that
\* fail and a second seeding.
IssuedTokensWork == proc = "up" => issued \ deleted \subseteq tokens

\* A token whose deletion reached identity.json is not accepted again, whatever
\* is restarted or written afterwards.
RevokedStaysRevoked ==
    /\ proc = "up" => tokens \cap revoked = {}
    /\ idFile \notin {Absent, Torn} => idFile.tokens \cap revoked = {}

\* The tokens of a running server are as the clients were told: the ones given
\* to them work and the ones taken back do not.
TokensAreAsTold == IssuedTokensWork /\ RevokedStaysRevoked

\* Until a client deletes a token, the token and the client secret a running
\* server prints, and gives to dbt tasks, are ones it accepts: whichever step of
\* ensureSeeded an earlier start died in, the files it left agree or are
\* replaced.
SeededSecretsWork ==
    proc = "up" /\ deleted = {} => admin \in tokens /\ secret \in clients
================================================================================
