------------------------------ MODULE CertStore ------------------------------
(***************************************************************************)
(* The Vault secret of one domain, and the requests that use it:           *)
(* POST /acme/deploy stores a certificate, PATCH /certs/{domain}/targets   *)
(* sets its routing, POST /deploy/{domain} hands it to the DeployManager.  *)
(* All share one VaultHandler and its token; none takes a lock.            *)
(***************************************************************************)
EXTENDS Naturals

CONSTANTS
    Requests,  \* the HTTP requests of a behaviour, each served once
    Certs,     \* certificates: a chain and the private key that fits it
    Targets,   \* the registered deployment targets
    Strangers, \* names in requests that are no registered target
    None,      \* no value: a missing field, or an argument not given
    Bodies,    \* the request bodies to consider
    Faults     \* which of "vault" (a call fails) and "restart" can happen

(***************************************************************************)
(* A version of the secret: the PEM fields (written together), and in the  *)
(* metadata the dates, here as the certificate they were read from, and    *)
(* the routing. None stands for a field that is not there.                 *)
(***************************************************************************)
Secret == [chain : Certs \cup {None}, key : Certs \cup {None},
           dates : Certs \cup {None}, targets : (SUBSET Targets) \cup {None}]
NoSecret == [chain |-> None, key |-> None, dates |-> None, targets |-> None]

Store  == [op : {"store"}, cert : Certs]
Names  == Targets \cup Strangers
Patch  == [op : {"patch"}, targets : SUBSET Names]
Deploy == [op : {"deploy"}, chain : Certs \cup {None}, key : Certs \cup {None},
           targets : (SUBSET Names) \cup {None}]
Body   == Store \cup Patch \cup Deploy

ASSUME CertStoreAssumption ==
    /\ None \notin Certs /\ \A names \in SUBSET Names : None # names
    /\ Targets \cap Strangers = {} /\ Faults \subseteq {"vault", "restart"}
    /\ Bodies \subseteq Body

VARIABLES
    pc, arg, res,  \* per request: position, body, answer
    got,           \* per request: the secret it has read
    asked,         \* per request: what it handed to DeployManager.deploy
    secret,        \* the current version in Vault
    exists,        \* whether Vault has the path
    token          \* _client's token: "none", "valid", "due" (80% used) or "dead"

reqVars == <<pc, arg, res, got, asked>>
vars    == <<reqVars, secret, exists, token>>

NoAsk == [chain |-> None, key |-> None, targets |-> {}]

Init ==
    /\ pc = [r \in Requests |-> "new"]
    /\ arg \in [Requests -> Bodies]
    /\ res = [r \in Requests |-> "none"]
    /\ got = [r \in Requests |-> NoSecret]
    /\ asked = [r \in Requests |-> NoAsk]
    /\ secret = NoSecret /\ exists = FALSE
    /\ token = "none"

Goto(r, next)    == pc' = [pc EXCEPT ![r] = next] /\ res' = res
Finish(r, answer) == /\ pc' = [pc EXCEPT ![r] = "done"]
                     /\ res' = [res EXCEPT ![r] = answer]

\* patch_cert_targets answers 422 to a name that is no target.
Reject(r) ==
    /\ pc[r] = "new" /\ arg[r].op = "patch" /\ ~(arg[r].targets \subseteq Targets)
    /\ Finish(r, "error")
    /\ UNCHANGED <<arg, got, asked, secret, exists, token>>

Start(r) ==
    /\ pc[r] = "new" /\ (arg[r].op = "patch" => arg[r].targets \subseteq Targets)
    /\ Goto(r, IF arg[r].op # "deploy" THEN "auth"
               ELSE IF arg[r].chain = None \/ arg[r].key = None THEN "pems" ELSE "route")
    /\ UNCHANGED <<arg, got, asked, secret, exists, token>>

\* _ensure_authenticated: log in unless the token is well within its lease.
Authenticate(r) ==
    /\ pc[r] = "auth"
    /\ token' = "valid"
    /\ Goto(r, IF arg[r].op = "store" THEN "write" ELSE "read")
    /\ UNCHANGED <<arg, got, asked, secret, exists>>

\* The login fails and the exception reaches the endpoint: 502 or 500.
AuthenticateFails(r) ==
    /\ pc[r] = "auth" /\ token # "valid" /\ "vault" \in Faults
    /\ Finish(r, "error")
    /\ UNCHANGED <<arg, got, asked, secret, exists, token>>

\* A call through _client that may not succeed, and one that may fail.
Reachable == token \in {"valid", "due"}
Failing   == token = "dead" \/ "vault" \in Faults

\* Seeded fault: the dates of an unparsed certificate.
StoredUnparsed(c) == [chain |-> c, key |-> c, dates |-> "unknown", targets |-> None]

\* The secret that store_cert writes: there is no targets field in its metadata.
Stored(c) == [chain |-> c, key |-> c, dates |-> c, targets |-> None]

\* store_cert: one write replaces the whole secret.
StoreWrite(r) ==
    /\ pc[r] = "write" /\ arg[r].op = "store" /\ Reachable
    /\ secret' = Stored(arg[r].cert) /\ exists' = TRUE
    /\ Finish(r, "ok")
    /\ UNCHANGED <<arg, got, asked, token>>

\* update_cert_targets, the read: any exception, a missing path among them, is
\* taken for a domain without a secret.
PatchRead(r) ==
    /\ pc[r] = "read"
    /\ \/ Reachable /\ exists /\ got' = [got EXCEPT ![r] = secret]
       \/ (~exists \/ Failing) /\ got' = [got EXCEPT ![r] = NoSecret]
    /\ Goto(r, "write")
    /\ UNCHANGED <<arg, asked, secret, exists, token>>

\* Seeded fault: the write is a merge, which keeps the PEM fields that are
\* there now beside the metadata that was read before.
PatchWriteMerged(r) ==
    /\ pc[r] = "write" /\ arg[r].op = "patch" /\ Reachable
    /\ secret' = [secret EXCEPT !.dates = got[r].dates, !.targets = arg[r].targets]
    /\ exists' = TRUE
    /\ Finish(r, "ok")
    /\ UNCHANGED <<arg, got, asked, token>>

\* The secret that update_cert_targets writes has the metadata only.
Patched(r) ==
    [chain |-> None, key |-> None, dates |-> got[r].dates, targets |-> arg[r].targets]

\* update_cert_targets, the write.
PatchWrite(r) ==
    /\ pc[r] = "write" /\ arg[r].op = "patch" /\ Reachable
    /\ secret' = Patched(r)
    /\ exists' = TRUE
    /\ Finish(r, "ok")
    /\ UNCHANGED <<arg, got, asked, token>>

\* A write raises, whether or not Vault took it: 502, or 500 for the PATCH.
WriteFails(r) ==
    /\ pc[r] = "write" /\ Failing
    /\ \/ UNCHANGED <<secret, exists>>
       \/ /\ token # "dead" /\ exists' = TRUE
          /\ secret' = IF arg[r].op = "store" THEN Stored(arg[r].cert) ELSE Patched(r)
    /\ Finish(r, "error")
    /\ UNCHANGED <<arg, got, asked, token>>

\* deploy_cert_to_targets without both PEMs: read the secret.
ReadPems(r) ==
    /\ pc[r] = "pems" /\ Reachable /\ exists
    /\ got' = [got EXCEPT ![r] = secret]
    /\ Goto(r, "route")
    /\ UNCHANGED <<arg, asked, secret, exists, token>>

\* No client yet, no such path, or the read raises: 502.
ReadPemsFails(r) ==
    /\ pc[r] = "pems" /\ (token = "none" \/ ~exists \/ Failing)
    /\ Finish(r, "error")
    /\ UNCHANGED <<arg, got, asked, secret, exists, token>>

\* Seeded fault: only the field that the request lacks comes from Vault.
PemsMissing(r) ==
    [chain |-> IF arg[r].chain = None THEN got[r].chain ELSE arg[r].chain,
     key   |-> IF arg[r].key = None THEN got[r].key ELSE arg[r].key]

\* Both PEMs from the request, or both from Vault, "" for one that is not there.
Pems(r) ==
    IF arg[r].chain = None \/ arg[r].key = None
    THEN [chain |-> got[r].chain, key |-> got[r].key]
    ELSE [chain |-> arg[r].chain, key |-> arg[r].key]

\* The call of mgr.deploy, to the named targets or to all.
Handed(r, names) ==
    asked' = [asked EXCEPT ![r] = [chain |-> Pems(r).chain, key |-> Pems(r).key,
                                   targets |-> IF names = None THEN Targets ELSE names]]

\* The request names its targets.
RouteNamed(r) ==
    /\ pc[r] = "route" /\ arg[r].targets # None /\ arg[r].targets \subseteq Targets
    /\ Handed(r, arg[r].targets)
    /\ Finish(r, "ok")
    /\ UNCHANGED <<arg, got, secret, exists, token>>

\* It names one that is not registered: KeyError before anything is deployed.
RouteStranger(r) ==
    /\ pc[r] = "route" /\ arg[r].targets # None /\ ~(arg[r].targets \subseteq Targets)
    /\ Finish(r, "error")
    /\ UNCHANGED <<arg, got, asked, secret, exists, token>>

\* It does not: the stored routing, if the second read finds one.
RouteStored(r) ==
    /\ pc[r] = "route" /\ arg[r].targets = None /\ Reachable /\ exists
    /\ Handed(r, secret.targets)
    /\ Finish(r, "ok")
    /\ UNCHANGED <<arg, got, secret, exists, token>>

\* The second read is skipped without a client, and its exceptions are dropped.
RouteUnknown(r) ==
    /\ pc[r] = "route" /\ arg[r].targets = None
    /\ token = "none" \/ ~exists \/ Failing
    /\ Handed(r, None)
    /\ Finish(r, "ok")
    /\ UNCHANGED <<arg, got, secret, exists, token>>

\* The token gets older: past 80% of its lease, then past its end.
TokenAges ==
    /\ token \in {"valid", "due"}
    /\ token' = IF token = "valid" THEN "due" ELSE "dead"
    /\ UNCHANGED <<reqVars, secret, exists>>

\* The server restarts: requests under way are lost, and so is the client.
Restart ==
    /\ "restart" \in Faults
    /\ token' = "none"
    /\ pc' = [r \in Requests |-> IF pc[r] = "new" THEN "new" ELSE "done"]
    /\ UNCHANGED <<arg, res, got, asked, secret, exists>>

AllDone == (\A r \in Requests : pc[r] = "done") /\ UNCHANGED vars

Step(r) ==
    \/ Start(r) \/ Reject(r) \/ Authenticate(r) \/ AuthenticateFails(r) \/ StoreWrite(r)
    \/ PatchRead(r) \/ PatchWrite(r) \/ WriteFails(r) \/ ReadPems(r) \/ ReadPemsFails(r)
    \/ RouteNamed(r) \/ RouteStranger(r) \/ RouteStored(r) \/ RouteUnknown(r)

Next == (\E r \in Requests : Step(r)) \/ TokenAges \/ Restart \/ AllDone

Spec == Init /\ [][Next]_vars

\* A thread that serves a request keeps running.
FairSpec == Spec /\ \A r \in Requests : WF_vars(Step(r))

(***************************************************************************)
(* Properties.                                                             *)
(***************************************************************************)
\* Every variable keeps its type.
TypeOK ==
    /\ pc \in [Requests -> {"new", "auth", "read", "write", "pems", "route", "done"}]
    /\ arg \in [Requests -> Body]
    /\ res \in [Requests -> {"none", "ok", "error"}]
    /\ got \in [Requests -> Secret]
    /\ asked \in [Requests -> [chain : Certs \cup {None}, key : Certs \cup {None},
                               targets : SUBSET Targets]]
    /\ secret \in Secret /\ exists \in BOOLEAN
    /\ token \in {"none", "valid", "due", "dead"}

\* The dates that the monitor reads are those of the certificate beside them,
\* however stores and routing updates interleave.
DatesMatchCert == secret.chain # None => secret.dates = secret.chain /\ secret.key = secret.chain

\* A deployment that takes a PEM from Vault hands over a chain and a key that
\* were stored together, whatever is stored meanwhile.
PairFromVault ==
    \A r \in Requests :
        arg[r].op = "deploy" /\ (arg[r].chain = None \/ arg[r].key = None)
            => asked[r].chain = asked[r].key

\* update_cert_targets "updates the targets field inside the JSON metadata key,
\* and writes it back": setting the routing never loses the certificate.
PatchKeepsCert ==
    [][\A r \in Requests : PatchWrite(r) => secret'.chain = secret.chain]_vars

==============================================================================
