--------------------------- MODULE CertStoreProofs ---------------------------
(***************************************************************************)
(* Theorems about CertStore for any requests, certificates, targets and    *)
(* faults.                                                                 *)
(***************************************************************************)
EXTENDS CertStore, TLAPS

\* What a request is by the time it has come to a position.
PlaceOK(r) ==
    /\ pc[r] \in {"auth", "read", "write"} =>
          \/ arg[r] \in Store /\ pc[r] # "read"
          \/ arg[r] \in Patch /\ arg[r].targets \in SUBSET Targets
    /\ pc[r] \in {"pems", "route"} => arg[r] \in Deploy

TypeInv == TypeOK /\ \A r \in Requests : PlaceOK(r)

\* The kind of a body is told by its op.
LEMMA BodyKinds ==
    ASSUME NEW b \in Body
    PROVE  /\ b.op \in {"store", "patch", "deploy"}
           /\ b.op = "store" => b \in Store
           /\ b.op = "patch" => b \in Patch
           /\ b.op = "deploy" => b \in Deploy
BY DEF Body, Store, Patch, Deploy

\* What the two writes put into Vault.
LEMMA StoredType ==
    ASSUME NEW c \in Certs
    PROVE  Stored(c) \in Secret
BY DEF Stored, Secret

LEMMA PatchedType ==
    ASSUME TypeOK, NEW r \in Requests, arg[r].targets \in SUBSET Targets
    PROVE  Patched(r) \in Secret
<1>1. got[r] \in Secret
  BY DEF TypeOK
<1> QED BY <1>1 DEF Patched, Secret

\* What a deployment hands over.
LEMMA HandedType ==
    ASSUME TypeOK, NEW r \in Requests, arg[r] \in Deploy,
           NEW names \in (SUBSET Targets) \cup {None}, Handed(r, names)
    PROVE  asked' \in [Requests -> [chain : Certs \cup {None}, key : Certs \cup {None},
                                    targets : SUBSET Targets]]
<1>1. got[r] \in Secret
  BY DEF TypeOK
<1>2. Pems(r).chain \in Certs \cup {None} /\ Pems(r).key \in Certs \cup {None}
  BY <1>1 DEF Pems, Secret, Deploy
<1>3. (IF names = None THEN Targets ELSE names) \in SUBSET Targets
  OBVIOUS
<1> QED BY <1>2, <1>3 DEF Handed, TypeOK

\* A request that goes on to another position, and nothing of the other requests
\* changes.
LEMMA OthersStay ==
    ASSUME TypeInv, NEW r \in Requests, NEW p, pc' = [pc EXCEPT ![r] = p], UNCHANGED arg,
           PlaceOK(r)'
    PROVE  \A q \in Requests : PlaceOK(q)'
BY DEF TypeInv, TypeOK, PlaceOK

\* Every step of a request keeps the types.
LEMMA TypeStepRequest ==
    ASSUME TypeInv, NEW r \in Requests, Step(r)
    PROVE  TypeInv'
<1> USE CertStoreAssumption
<1>0. TypeOK /\ PlaceOK(r) /\ arg[r] \in Body /\ pc[r] \in
         {"new", "auth", "read", "write", "pems", "route", "done"}
  BY DEF TypeInv, TypeOK
<1>1. CASE Start(r)
  <2>1. arg[r].op # "deploy" =>
           arg[r] \in Store \/ (arg[r] \in Patch /\ arg[r].targets \in SUBSET Targets)
    BY <1>0, <1>1, BodyKinds DEF Start
  <2>2. arg[r].op = "deploy" => arg[r] \in Deploy
    BY <1>0, BodyKinds
  <2>3. PlaceOK(r)' /\ TypeOK'
    BY <1>0, <1>1, <2>1, <2>2 DEF Start, Goto, PlaceOK, TypeOK
  <2> QED BY <1>1, <2>3, OthersStay DEF Start, Goto, TypeInv
<1>2. CASE Reject(r) \/ AuthenticateFails(r) \/ ReadPemsFails(r) \/ RouteStranger(r)
  <2>1. PlaceOK(r)' /\ TypeOK'
    BY <1>0, <1>2 DEF Reject, AuthenticateFails, ReadPemsFails, RouteStranger, Finish,
                      PlaceOK, TypeOK
  <2> QED BY <1>2, <2>1, OthersStay
          DEF Reject, AuthenticateFails, ReadPemsFails, RouteStranger, Finish, TypeInv
<1>3. CASE Authenticate(r)
  <2>1. PlaceOK(r)' /\ TypeOK'
    BY <1>0, <1>3 DEF Authenticate, Goto, PlaceOK, TypeOK, Store, Patch
  <2> QED BY <1>3, <2>1, OthersStay DEF Authenticate, Goto, TypeInv
<1>4. CASE StoreWrite(r)
  <2>1. arg[r].cert \in Certs
    BY <1>0, <1>4, BodyKinds DEF StoreWrite, Store
  <2>2. PlaceOK(r)' /\ TypeOK'
    BY <1>0, <1>4, <2>1, StoredType DEF StoreWrite, Finish, PlaceOK, TypeOK
  <2> QED BY <1>4, <2>2, OthersStay DEF StoreWrite, Finish, TypeInv
<1>5. CASE PatchRead(r)
  <2>1. NoSecret \in Secret
    BY DEF NoSecret, Secret
  <2>2. PlaceOK(r)' /\ TypeOK'
    BY <1>0, <1>5, <2>1 DEF PatchRead, Goto, PlaceOK, TypeOK
  <2> QED BY <1>5, <2>2, OthersStay DEF PatchRead, Goto, TypeInv
<1>6. CASE PatchWrite(r)
  <2>1. arg[r].targets \in SUBSET Targets
    BY <1>0, <1>6 DEF PatchWrite, PlaceOK, Store
  <2>2. PlaceOK(r)' /\ TypeOK'
    BY <1>0, <1>6, <2>1, PatchedType DEF PatchWrite, Finish, PlaceOK, TypeOK
  <2> QED BY <1>6, <2>2, OthersStay DEF PatchWrite, Finish, TypeInv
<1>7. CASE WriteFails(r)
  <2>1. IF arg[r].op = "store" THEN arg[r].cert \in Certs ELSE arg[r].targets \in SUBSET Targets
    BY <1>0, <1>7 DEF WriteFails, PlaceOK, Store, Patch
  <2>2. secret' \in Secret /\ exists' \in BOOLEAN
    BY <1>0, <1>7, <2>1, StoredType, PatchedType DEF WriteFails, TypeOK
  <2>3. PlaceOK(r)' /\ TypeOK'
    BY <1>0, <1>7, <2>2 DEF WriteFails, Finish, PlaceOK, TypeOK
  <2> QED BY <1>7, <2>3, OthersStay DEF WriteFails, Finish, TypeInv
<1>8. CASE ReadPems(r)
  <2>1. PlaceOK(r)' /\ TypeOK'
    BY <1>0, <1>8 DEF ReadPems, Goto, PlaceOK, TypeOK
  <2> QED BY <1>8, <2>1, OthersStay DEF ReadPems, Goto, TypeInv
<1>9. CASE RouteNamed(r) \/ RouteStored(r) \/ RouteUnknown(r)
  <2>1. arg[r] \in Deploy /\ secret.targets \in (SUBSET Targets) \cup {None}
    BY <1>0, <1>9 DEF RouteNamed, RouteStored, RouteUnknown, PlaceOK, TypeOK, Secret
  <2>2. asked' \in [Requests -> [chain : Certs \cup {None}, key : Certs \cup {None},
                                 targets : SUBSET Targets]]
    BY <1>0, <1>9, <2>1, HandedType DEF RouteNamed, RouteStored, RouteUnknown
  <2>3. PlaceOK(r)' /\ TypeOK'
    BY <1>0, <1>9, <2>2 DEF RouteNamed, RouteStored, RouteUnknown, Finish, PlaceOK, TypeOK
  <2> QED BY <1>9, <2>3, OthersStay DEF RouteNamed, RouteStored, RouteUnknown, Finish, TypeInv
<1> QED BY <1>1, <1>2, <1>3, <1>4, <1>5, <1>6, <1>7, <1>8, <1>9 DEF Step

\* TypeInv is inductive.
LEMMA TypeStep ==
    ASSUME TypeInv, [Next]_vars
    PROVE  TypeInv'
<1>1. CASE TokenAges
  BY <1>1 DEF TokenAges, reqVars, TypeInv, TypeOK, PlaceOK
<1>2. CASE Restart
  <2>1. TypeOK' /\ \A q \in Requests : pc'[q] \in {"new", "done"}
    BY <1>2 DEF Restart, TypeInv, TypeOK
  <2> QED BY <2>1 DEF TypeInv, PlaceOK
<1>3. CASE UNCHANGED vars
  BY <1>3 DEF vars, reqVars, TypeInv, TypeOK, PlaceOK
<1> QED BY <1>1, <1>2, <1>3, TypeStepRequest DEF Next, AllDone

LEMMA TypeInit == Init => TypeInv
<1>1. NoSecret \in Secret /\ NoAsk \in [chain : Certs \cup {None}, key : Certs \cup {None},
                                        targets : SUBSET Targets]
  BY DEF NoSecret, Secret, NoAsk
<1>2. Bodies \subseteq Body
  BY CertStoreAssumption
<1> SUFFICES ASSUME Init PROVE TypeInv
  OBVIOUS
<1>3. \A r \in Requests : pc[r] = "new"
  BY DEF Init
<1>4. \A r \in Requests : PlaceOK(r)
  BY <1>3 DEF PlaceOK
<1>5. arg \in [Requests -> Body]
  BY <1>2 DEF Init
<1>6. got \in [Requests -> Secret] /\ secret \in Secret
  BY <1>1 DEF Init
<1>7. asked \in [Requests -> [chain : Certs \cup {None}, key : Certs \cup {None},
                              targets : SUBSET Targets]]
  BY <1>1 DEF Init
<1>8. pc \in [Requests -> {"new", "auth", "read", "write", "pems", "route", "done"}]
  BY DEF Init
<1>9. res \in [Requests -> {"none", "ok", "error"}]
  BY DEF Init
<1> QED BY <1>4, <1>5, <1>6, <1>7, <1>8, <1>9 DEF Init, TypeInv, TypeOK

\* Every variable of the certificate store keeps its type.
THEOREM TypeCorrect == Spec => []TypeOK
<1>1. TypeInv => TypeOK
  BY DEF TypeInv
<1> QED BY <1>1, TypeInit, TypeStep, PTL DEF Spec

\* A secret whose dates and key are those of its chain.
Whole(s) == s.chain # None => s.dates = s.chain /\ s.key = s.chain

\* Both writes keep the secret whole: store_cert writes everything, and
\* update_cert_targets no chain at all.
LEMMA WholeStep ==
    ASSUME Whole(secret), [Next]_vars
    PROVE  Whole(secret')
<1>1. ASSUME NEW c PROVE Whole(Stored(c))
  BY DEF Whole, Stored
<1>2. ASSUME NEW r PROVE Whole(Patched(r))
  BY DEF Whole, Patched
<1>3. ASSUME NEW r \in Requests, Step(r) PROVE Whole(secret')
  <2>1. secret' = secret \/ secret' = Stored(arg[r].cert) \/ secret' = Patched(r)
    BY <1>3 DEF Step, Start, Reject, Authenticate, AuthenticateFails, StoreWrite, PatchRead,
                PatchWrite, WriteFails, ReadPems, ReadPemsFails, RouteNamed, RouteStranger,
                RouteStored, RouteUnknown
  <2> QED BY <2>1, <1>1, <1>2
<1> QED BY <1>3 DEF Next, TokenAges, Restart, AllDone, vars

\* The monitor never reads the dates of one certificate beside another, however
\* the unlocked reads and writes of stores and routing updates interleave.
THEOREM DatesBelong == Spec => []DatesMatchCert
<1>1. Init => Whole(secret)
  BY DEF Init, Whole, NoSecret
<1>2. Whole(secret) => DatesMatchCert
  BY DEF Whole, DatesMatchCert
<1>3. Whole(secret) /\ [Next]_vars => Whole(secret)'
  BY WholeStep DEF Whole
<1> QED BY <1>1, <1>2, <1>3, PTL DEF Spec

\* Chain and key are a pair: in Vault, in what a request has read, and in what a
\* deployment without PEMs of its own has handed over.
FromVault(r) == arg[r].op = "deploy" /\ (arg[r].chain = None \/ arg[r].key = None)

PairInv ==
    /\ secret.chain = secret.key
    /\ \A r \in Requests : got[r].chain = got[r].key
    /\ PairFromVault

\* PairInv is inductive.
LEMMA PairStep ==
    ASSUME TypeInv, PairInv, [Next]_vars
    PROVE  PairInv'
<1> USE DEF PairFromVault
<1>0. TypeOK
  BY DEF TypeInv
<1>1. ASSUME NEW r \in Requests, Handed(r, arg[r].targets) \/ Handed(r, secret.targets) \/ Handed(r, None),
             UNCHANGED <<arg, got, secret>>
      PROVE  PairInv'
  <2>1. asked'[r].chain = Pems(r).chain /\ asked'[r].key = Pems(r).key
    BY <1>0, <1>1 DEF Handed, TypeOK
  <2>2. \A q \in Requests \ {r} : asked'[q] = asked[q]
    BY <1>0, <1>1 DEF Handed, TypeOK
  <2> QED BY <1>1, <2>1, <2>2 DEF PairInv, Pems
<1>2. ASSUME NEW r \in Requests, Step(r), UNCHANGED <<arg, asked>>,
             got' = got \/ got' = [got EXCEPT ![r] = secret] \/ got' = [got EXCEPT ![r] = NoSecret],
             secret' = secret \/ secret' = Stored(arg[r].cert) \/ secret' = Patched(r)
      PROVE  PairInv'
  <2>1. secret'.chain = secret'.key
    BY <1>2 DEF PairInv, Stored, Patched
  <2>2. \A q \in Requests : got'[q].chain = got'[q].key
    BY <1>0, <1>2 DEF PairInv, TypeOK, NoSecret
  <2> QED BY <1>2, <2>1, <2>2 DEF PairInv
<1>3. ASSUME NEW r \in Requests, Step(r) PROVE PairInv'
  <2>1. CASE RouteNamed(r) \/ RouteStored(r) \/ RouteUnknown(r)
    BY <1>1, <2>1 DEF RouteNamed, RouteStored, RouteUnknown
  <2>2. CASE ~(RouteNamed(r) \/ RouteStored(r) \/ RouteUnknown(r))
    BY <1>2, <1>3, <2>2
    DEF Step, Start, Reject, Authenticate, AuthenticateFails, StoreWrite, PatchRead,
        PatchWrite, WriteFails, ReadPems, ReadPemsFails, RouteStranger
  <2> QED BY <2>1, <2>2
<1> QED BY <1>3 DEF Next, TokenAges, Restart, AllDone, vars, reqVars, PairInv

\* A deployment that takes its PEMs from Vault never mixes two certificates,
\* whatever is stored between its reads.
THEOREM PairsFromVault == Spec => []PairFromVault
<1>1. Init => PairInv
  BY DEF Init, PairInv, PairFromVault, NoSecret, NoAsk
<1>2. PairInv => PairFromVault
  BY DEF PairInv
<1> QED BY <1>1, <1>2, TypeInit, TypeStep, PairStep, PTL DEF Spec
==============================================================================
