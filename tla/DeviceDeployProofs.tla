-------------------------- MODULE DeviceDeployProofs -------------------------
(***************************************************************************)
(* Theorems about DeviceDeploy for any calls, domains, objects, profiles   *)
(* and faults.                                                             *)
(***************************************************************************)
EXTENDS DeviceDeploy, TLAPS

Positions == {"new", "prepare", "list", "posted", "done"} \cup Whats
Reqs      == [call : Calls, what : Whats, profile : Profiles \cup {NoProfile}]

\* What a device that carries out a request has then.
LEMMA AppliesType ==
    ASSUME TypeOK, NEW x \in Reqs, Applies(x)
    PROVE  /\ cert' \in [Objects -> Owners] /\ key' \in [Objects -> Owners]
           /\ ref' \in [Profiles -> References]
           /\ file' \in [Domains -> Owners] /\ active' \in Owners
           /\ installed' \subseteq Calls
<1>1. x.call \in Calls /\ domain[x.call] \in Domains /\ Object(x.call) \in Objects
  BY DeviceAssumption DEF TypeOK, Reqs, Object
<1> QED BY <1>1 DEF TypeOK, Applies, PutsFile, Uses, Imports, Opens, Owners, References, devVars

\* The request that a call is about to send.
LEMMA PendingType ==
    ASSUME TypeOK, NEW c \in Calls
    PROVE  Pending(c) \subseteq Reqs
BY DEF TypeOK, Pending, Request, Reqs, Whats

\* A call goes on, or is answered.
LEMMA GotoType ==
    ASSUME TypeOK, NEW c \in Calls, NEW next \in Positions, Goto(c, next)
    PROVE  pc' \in [Calls -> Positions] /\ res' \in [Calls -> {"none", "ok", "error", "lost"}]
BY DEF TypeOK, Goto, Positions

LEMMA AnswerType ==
    ASSUME TypeOK, NEW c \in Calls, NEW a \in {"ok", "error"}, Answer(c, a)
    PROVE  pc' \in [Calls -> Positions] /\ res' \in [Calls -> {"none", "ok", "error", "lost"}]
BY DEF TypeOK, Answer, Positions

\* A request that is answered keeps the types.
LEMMA SendsType ==
    ASSUME TypeOK, NEW c \in Calls, NEW what \in Whats, NEW next \in Positions,
           Sends(c, what, NoProfile, next), UNCHANGED listed
    PROVE  TypeOK'
<1>1. Request(c, what, NoProfile) \in Reqs
  BY DEF Request, Reqs
<1> QED BY <1>1, AppliesType, GotoType DEF Sends, TypeOK, Positions, Owners

\* Every step of a call keeps the types.
LEMMA TypeStepCall ==
    ASSUME TypeOK, NEW c \in Calls,
           \/ Call(c) \/ Prepare(c) \/ _upload_cert(c) \/ _upload_key(c)
           \/ _find_ssl_profiles_for_domain(c) \/ _update_profile_cert(c)
           \/ upload_script(c) \/ import_script(c) \/ cleanup_script(c)
           \/ PostCertificate(c) \/ PostAnswered(c) \/ Refused(c) \/ TransportFails(c)
    PROVE  TypeOK'
<1>1. CASE Call(c)
  <2>1. met' \subseteq Calls
    BY <1>1 DEF Call, TypeOK
  <2> QED BY <1>1, <2>1, GotoType DEF Call, TypeOK, Positions, devVars, Owners
<1>2. CASE Prepare(c)
  <2>1. First[kind] \in Positions
    BY DeviceAssumption DEF TypeOK, First, Positions, Whats
  <2> QED BY <1>2, <2>1, GotoType, AnswerType DEF Prepare, TypeOK, Positions, devVars, Owners
<1>3. CASE _upload_cert(c)
  BY <1>3, SendsType DEF _upload_cert, Whats, Positions
<1>4. CASE _upload_key(c)
  BY <1>4, SendsType DEF _upload_key, Whats, Positions
<1>5. CASE _find_ssl_profiles_for_domain(c)
  <2>1. listed' \in [Calls -> SUBSET Profiles]
    <3>1. PICK found \in {Matching(domain[c]), {}} : listed' = [listed EXCEPT ![c] = found]
      BY <1>5 DEF _find_ssl_profiles_for_domain
    <3>2. found \in SUBSET Profiles
      BY DEF Matching
    <3> QED BY <3>1, <3>2 DEF TypeOK
  <2>2. pc' \in [Calls -> Positions] /\ res' \in [Calls -> {"none", "ok", "error", "lost"}]
    BY <1>5, GotoType, AnswerType DEF _find_ssl_profiles_for_domain, Whats, Positions
  <2> QED BY <1>5, <2>1, <2>2 DEF _find_ssl_profiles_for_domain, TypeOK, Positions, devVars, Owners
<1>6. CASE _update_profile_cert(c)
  <2>1. PICK p \in listed[c] :
           /\ Applies(Request(c, "ref", p))
           /\ listed' = [listed EXCEPT ![c] = @ \ {p}]
           /\ IF listed[c] = {p} THEN Answer(c, "ok") ELSE Goto(c, "ref")
    BY <1>6 DEF _update_profile_cert
  <2>2. Request(c, "ref", p) \in Reqs
    BY DEF TypeOK, Request, Reqs, Whats
  <2>3. listed' \in [Calls -> SUBSET Profiles]
    BY <2>1 DEF TypeOK
  <2>4. pc' \in [Calls -> Positions] /\ res' \in [Calls -> {"none", "ok", "error", "lost"}]
    BY <2>1, GotoType, AnswerType DEF Whats, Positions
  <2> QED BY <1>6, <2>1, <2>2, <2>3, <2>4, AppliesType
          DEF _update_profile_cert, TypeOK, Positions, Owners
<1>7. CASE upload_script(c)
  BY <1>7, SendsType DEF upload_script, Whats, Positions
<1>8. CASE import_script(c)
  <2>1. Request(c, "import", NoProfile) \in Reqs /\ Applies(Request(c, "import", NoProfile))
    BY <1>8 DEF import_script, Applies, Request, Reqs, Whats
  <2>2. pc' \in [Calls -> Positions] /\ res' \in [Calls -> {"none", "ok", "error", "lost"}]
    BY <1>8, GotoType, AnswerType DEF import_script, Whats, Positions
  <2> QED BY <1>8, <2>1, <2>2, AppliesType DEF import_script, TypeOK, Positions, Owners
<1>9. CASE cleanup_script(c)
  <2>1. Request(c, "remove", NoProfile) \in Reqs
    BY DEF Request, Reqs, Whats
  <2>2. CASE Applies(Request(c, "remove", NoProfile)) /\ UNCHANGED kept
    BY <1>9, <2>1, <2>2, AppliesType, AnswerType DEF cleanup_script, TypeOK, Positions, Owners
  <2>3. CASE kept' = kept \cup {c} /\ UNCHANGED devVars
    BY <1>9, <2>3, AnswerType DEF cleanup_script, TypeOK, Positions, devVars, Owners
  <2> QED BY <1>9, <2>2, <2>3 DEF cleanup_script
<1>10. CASE PostCertificate(c)
  BY <1>10, SendsType DEF PostCertificate, Whats, Positions
<1>11. CASE PostAnswered(c) \/ Refused(c)
  BY <1>11, AnswerType DEF PostAnswered, Refused, TypeOK, Positions, devVars, Owners
<1>12. CASE TransportFails(c)
  BY <1>12, AnswerType, PendingType DEF TransportFails, TypeOK, Positions, Reqs, devVars, Owners
<1> QED BY <1>1, <1>2, <1>3, <1>4, <1>5, <1>6, <1>7, <1>8, <1>9, <1>10, <1>11, <1>12

\* Every action keeps the types: the inductive step of TypeOK.
LEMMA TypeStep ==
    ASSUME TypeOK, [Next]_vars
    PROVE  TypeOK'
<1>1. ASSUME NEW x \in late, Lands(x) PROVE TypeOK'
  <2>1. x \in Reqs
    BY DEF TypeOK, Reqs
  <2> QED BY <1>1, <2>1, AppliesType DEF Lands, TypeOK, callVars, Owners
<1>2. CASE Crash
  <2>1. late' \subseteq Reqs
    BY <1>2, PendingType DEF Crash, TypeOK, Reqs
  <2> QED BY <1>2, <2>1 DEF Crash, TypeOK, Reqs, devVars, Owners
<1>3. CASE UNCHANGED vars
  BY <1>3 DEF vars, callVars, devVars, TypeOK, Owners
<1> QED BY <1>1, <1>2, <1>3, TypeStepCall DEF Next, Done

LEMMA TypeInit == Init => TypeOK
BY DEF Init, TypeOK, Owners

\* Every variable of the calls and of the device keeps its type.
THEOREM TypeCorrect == Spec => []TypeOK
BY TypeInit, TypeStep, PTL DEF Spec

(***************************************************************************)
(* What the positions of calls, their answers and the requests that nobody *)
(* waits for have to do with each other.                                   *)
(***************************************************************************)
StepsOf == [f5 |-> {"cert", "key", "list", "ref"}, ivanti |-> {"post", "posted"},
            exchange |-> {"upload", "import", "remove"}]

PlaceOK(c) ==
    /\ pc[c] \in {"new", "prepare", "done"} \cup StepsOf[kind]
    /\ pc[c] # "done" => res[c] = "none"

LateOK(x) ==
    /\ pc[x.call] = "done" /\ res[x.call] \in {"error", "lost"}
    /\ x.what \in StepsOf[kind] /\ (x.what # "ref" => x.profile = NoProfile)

CallInv == TypeOK /\ (\A c \in Calls : PlaceOK(c)) /\ (\A x \in late : LateOK(x))

CallStep(c) ==
    \/ Call(c) \/ Prepare(c) \/ _upload_cert(c) \/ _upload_key(c)
    \/ _find_ssl_profiles_for_domain(c) \/ _update_profile_cert(c)
    \/ upload_script(c) \/ import_script(c) \/ cleanup_script(c)
    \/ PostCertificate(c) \/ PostAnswered(c) \/ Refused(c) \/ TransportFails(c)

\* A step of a call moves this call only, which has not been answered yet, and
\* leaves its new position in order.
LEMMA CallMoves ==
    ASSUME CallInv, NEW c \in Calls, CallStep(c)
    PROVE  /\ kind' = kind /\ domain' = domain /\ ref0' = ref0
           /\ pc[c] # "done" /\ PlaceOK(c)'
           /\ \A e \in Calls \ {c} : pc'[e] = pc[e] /\ res'[e] = res[e]
<1>0. /\ kind \in {"f5", "ivanti", "exchange"} /\ PlaceOK(c)
      /\ pc \in [Calls -> Positions] /\ res \in [Calls -> {"none", "ok", "error", "lost"}]
  BY DeviceAssumption DEF CallInv, TypeOK, Positions
<1>1. /\ kind' = kind /\ domain' = domain /\ ref0' = ref0
      /\ \/ \E next \in {"prepare", "key", "list", "ref", "import", "remove", "posted"} \cup {First[kind]} :
               Goto(c, next)
         \/ \E a \in {"ok", "error"} : Answer(c, a)
  BY DEF CallStep, Call, Prepare, _upload_cert, _upload_key, _find_ssl_profiles_for_domain,
         _update_profile_cert, upload_script, import_script, cleanup_script, PostCertificate,
         PostAnswered, Refused, TransportFails, Sends
<1>2. \A e \in Calls \ {c} : pc'[e] = pc[e] /\ res'[e] = res[e]
  BY <1>0, <1>1 DEF Goto, Answer
<1>3. pc[c] # "done"
  <2>1. pc[c] = "done" => Pending(c) = {}
    BY DEF Pending, Whats
  <2> QED BY <2>1 DEF CallStep, Call, Prepare, _upload_cert, _upload_key, _find_ssl_profiles_for_domain,
         _update_profile_cert, upload_script, import_script, cleanup_script, PostCertificate,
         PostAnswered, Refused, TransportFails, Sends, Whats
<1>4. PlaceOK(c)'
  <2>1. ASSUME NEW a, Answer(c, a) PROVE PlaceOK(c)'
    BY <1>0, <2>1 DEF Answer, PlaceOK
  <2>2. ASSUME NEW next \in {"prepare"} \cup StepsOf[kind], Goto(c, next) PROVE PlaceOK(c)'
    BY <1>0, <1>1, <1>3, <2>2 DEF Goto, PlaceOK
  <2>3. First[kind] \in StepsOf[kind]
    BY <1>0 DEF First, StepsOf
  <2>4. CASE Call(c) \/ Prepare(c)
    BY <2>1, <2>2, <2>3, <2>4 DEF Call, Prepare
  <2>5. CASE _upload_cert(c) \/ _upload_key(c) \/ _find_ssl_profiles_for_domain(c)
             \/ _update_profile_cert(c)
    <3>1. kind = "f5"
      BY <1>0, <2>5 DEF PlaceOK, StepsOf, _upload_cert, _upload_key,
                        _find_ssl_profiles_for_domain, _update_profile_cert, Sends
    <3>2. {"key", "list", "ref"} \subseteq StepsOf[kind]
      BY <3>1 DEF StepsOf
    <3> QED BY <2>1, <2>2, <2>5, <3>2
            DEF _upload_cert, _upload_key, _find_ssl_profiles_for_domain, _update_profile_cert, Sends
  <2>6. CASE upload_script(c) \/ import_script(c) \/ cleanup_script(c)
    <3>1. kind = "exchange"
      BY <1>0, <2>6 DEF PlaceOK, StepsOf, upload_script, import_script, cleanup_script, Sends
    <3>2. {"import", "remove"} \subseteq StepsOf[kind]
      BY <3>1 DEF StepsOf
    <3> QED BY <2>1, <2>2, <2>6, <3>2 DEF upload_script, import_script, cleanup_script, Sends
  <2>7. CASE PostCertificate(c) \/ PostAnswered(c)
    <3>1. kind = "ivanti"
      BY <1>0, <2>7 DEF PlaceOK, StepsOf, PostCertificate, PostAnswered, Sends
    <3>2. "posted" \in StepsOf[kind]
      BY <3>1 DEF StepsOf
    <3> QED BY <2>1, <2>2, <2>7, <3>2 DEF PostCertificate, PostAnswered, Sends
  <2>8. CASE Refused(c) \/ TransportFails(c)
    BY <2>1, <2>8 DEF Refused, TransportFails
  <2> QED BY <2>4, <2>5, <2>6, <2>7, <2>8 DEF CallStep
<1> QED BY <1>1, <1>2, <1>3, <1>4

\* What a call has pending when it is given up may be late.
LEMMA PendingLate ==
    ASSUME CallInv, NEW c \in Calls, NEW x \in Pending(c)
    PROVE  /\ x.call = c /\ x.what = pc[c] /\ x.what \in StepsOf[kind] /\ x.what \in Whats
           /\ x.what # "ref" => x.profile = NoProfile
           /\ x.what = "ref" => x.profile \in listed[c]
BY DEF CallInv, PlaceOK, Pending, Request, Whats

\* CallInv is inductive.
LEMMA CallInvStep ==
    ASSUME CallInv, [Next]_vars
    PROVE  CallInv'
<1>0. TypeOK /\ TypeOK'
  BY TypeStep DEF CallInv
<1>1. ASSUME NEW c \in Calls, CallStep(c) PROVE CallInv'
  <2>1. \A e \in Calls : PlaceOK(e)'
    BY <1>1, CallMoves DEF CallInv, PlaceOK
  <2>2. \A x \in late : LateOK(x)'
    <3>1. \A x \in late : x.call \in Calls \ {c}
      BY <1>0, <1>1, CallMoves DEF CallInv, LateOK, TypeOK
    <3> QED BY <1>1, <3>1, CallMoves DEF CallInv, LateOK
  <2>3. CASE late' = late
    BY <1>0, <2>1, <2>2, <2>3 DEF CallInv
  <2>4. CASE TransportFails(c)
    <3>1. PICK x \in Pending(c) : late' = late \cup {x}
      BY <2>4 DEF TransportFails
    <3>2. pc'[c] = "done" /\ res'[c] = "error" /\ kind' = kind
      BY <1>0, <2>4 DEF TransportFails, Answer, TypeOK
    <3>3. LateOK(x)'
      BY <3>2, PendingLate DEF LateOK
    <3> QED BY <1>0, <2>1, <2>2, <3>1, <3>3 DEF CallInv
  <2> QED BY <1>1, <2>3, <2>4
          DEF CallStep, Call, Prepare, _upload_cert, _upload_key, _find_ssl_profiles_for_domain,
              _update_profile_cert, upload_script, import_script, cleanup_script,
              PostCertificate, PostAnswered, Refused, Sends
<1>2. ASSUME NEW x \in late, Lands(x) PROVE CallInv'
  BY <1>0, <1>2 DEF Lands, callVars, CallInv, PlaceOK, LateOK
<1>3. CASE Crash
  <2>1. \A c \in Calls : PlaceOK(c)'
    BY <1>0, <1>3 DEF Crash, CallInv, PlaceOK, InFlight, TypeOK
  <2>2. \A x \in late : LateOK(x)'
    BY <1>0, <1>3 DEF Crash, CallInv, LateOK, InFlight, TypeOK
  <2>3. PICK sent \in SUBSET {c \in Calls : InFlight(c)} :
          \E xs \in SUBSET UNION {Pending(c) : c \in sent} : late' = late \cup xs
    BY <1>3 DEF Crash
  <2>4. ASSUME NEW c \in sent, NEW x \in Pending(c) PROVE LateOK(x)'
    <3>1. pc'[c] = "done" /\ res'[c] = "lost" /\ kind' = kind
      BY <1>3 DEF Crash
    <3> QED BY <3>1, PendingLate DEF LateOK
  <2> QED BY <1>0, <2>1, <2>2, <2>3, <2>4 DEF CallInv
<1>4. CASE UNCHANGED vars
  BY <1>0, <1>4 DEF vars, callVars, CallInv, PlaceOK, LateOK
<1> QED BY <1>1, <1>2, <1>3, <1>4 DEF Next, CallStep, Done

LEMMA CallInvInit == Init => CallInv
BY TypeInit DEF Init, CallInv, PlaceOK

(***************************************************************************)
(* Exchange and Ivanti implement DeployTarget: a call's certificate is not *)
(* in use before its import or post, in use after it, and a late import or *)
(* post is always the first one of its call.                               *)
(***************************************************************************)
InstOf(c) ==
    /\ pc[c] \in {"new", "prepare", "upload", "import", "post"} => c \notin installed
    /\ pc[c] \in {"remove", "posted"} => c \in installed

LateInst(x) == x.what \in {"import", "post"} => x.call \notin installed

InstInv ==
    /\ CallInv
    /\ \A c \in Calls : InstOf(c)
    /\ \A x \in late : LateInst(x)
    /\ kind = "f5" => installed = {} /\ active = NoCall

\* A request puts the certificate of its own call to use, or none.
LEMMA AppliesInst ==
    ASSUME NEW x, Applies(x)
    PROVE  \/ UNCHANGED <<active, installed>>
           \/ /\ x.what \in {"import", "post"}
              /\ active' = x.call /\ installed' = installed \cup {x.call}
BY DEF Applies, PutsFile, Uses, Imports, Opens, devVars

\* What a step of a call means to DeployTarget.
LEMMA CallInst ==
    ASSUME InstInv, NEW c \in Calls, CallStep(c)
    PROVE  \/ /\ UNCHANGED <<active, installed>>
              /\ pc'[c] \notin {"remove", "posted"}
           \/ /\ pc[c] \in {"import", "post"} /\ pc'[c] \in {"remove", "posted"} /\ res' = res
              /\ active' = c /\ installed' = installed \cup {c}
<1>0. pc \in [Calls -> Positions] /\ kind \in {"f5", "ivanti", "exchange"}
  BY DeviceAssumption DEF InstInv, CallInv, TypeOK, Positions
<1>1. CASE _upload_cert(c) \/ _upload_key(c) \/ upload_script(c)
  <2>1. PICK what \in {"cert", "key", "upload"} : Applies(Request(c, what, NoProfile))
    BY <1>1 DEF _upload_cert, _upload_key, upload_script, Sends
  <2>2. UNCHANGED <<active, installed>>
    BY <2>1, AppliesInst DEF Request
  <2> QED BY <1>0, <1>1, <2>2 DEF _upload_cert, _upload_key, upload_script, Sends, Goto
<1>2. CASE _update_profile_cert(c)
  <2>1. PICK p : Applies(Request(c, "ref", p))
    BY <1>2 DEF _update_profile_cert
  <2>2. UNCHANGED <<active, installed>>
    BY <2>1, AppliesInst DEF Request
  <2> QED BY <1>0, <1>2, <2>2 DEF _update_profile_cert, Goto, Answer
<1>3. CASE import_script(c)
  BY <1>0, <1>3 DEF import_script, Imports, Opens, Uses, Goto, Answer, devVars
<1>4. CASE cleanup_script(c)
  <2>1. UNCHANGED <<active, installed>>
    BY <1>4, AppliesInst DEF cleanup_script, Request, devVars
  <2> QED BY <1>0, <1>4, <2>1 DEF cleanup_script, Answer
<1>5. CASE PostCertificate(c)
  BY <1>0, <1>5 DEF PostCertificate, Sends, Applies, Request, Uses, Goto
<1>6. CASE Call(c) \/ Prepare(c) \/ _find_ssl_profiles_for_domain(c)
  <2>1. First[kind] \notin {"remove", "posted"}
    BY <1>0 DEF First
  <2> QED BY <1>0, <1>6, <2>1
          DEF Call, Prepare, _find_ssl_profiles_for_domain, Goto, Answer, devVars
<1>7. CASE PostAnswered(c) \/ Refused(c) \/ TransportFails(c)
  BY <1>0, <1>7 DEF PostAnswered, Refused, TransportFails, Answer, devVars
<1> QED BY <1>1, <1>2, <1>3, <1>4, <1>5, <1>6, <1>7 DEF CallStep

\* Late requests of a step of a call: those there were, and one that it has pending.
LEMMA CallLate ==
    ASSUME NEW c \in Calls, CallStep(c)
    PROVE  late' = late \/ (TransportFails(c) /\ \E x \in Pending(c) : late' = late \cup {x})
BY DEF CallStep, Call, Prepare, _upload_cert, _upload_key, _find_ssl_profiles_for_domain,
       _update_profile_cert, upload_script, import_script, cleanup_script, PostCertificate,
       PostAnswered, Refused, TransportFails, Sends

\* InstInv is inductive.
LEMMA InstInvStep ==
    ASSUME InstInv, [Next]_vars
    PROVE  InstInv'
<1>0. CallInv /\ CallInv' /\ TypeOK /\ kind \in {"f5", "ivanti", "exchange"}
  BY CallInvStep, DeviceAssumption DEF InstInv, CallInv, TypeOK
<1>1. ASSUME NEW c \in Calls, CallStep(c) PROVE InstInv'
  <2>1. /\ kind' = kind /\ pc[c] # "done" /\ PlaceOK(c)
        /\ \A e \in Calls \ {c} : pc'[e] = pc[e] /\ res'[e] = res[e]
    BY <1>0, <1>1, CallMoves DEF CallInv
  <2>2. /\ kind = "f5" => UNCHANGED <<active, installed>>
        /\ installed \subseteq installed' /\ installed' \subseteq installed \cup {c}
        /\ c \in installed' /\ c \notin installed => pc'[c] \in {"remove", "posted"}
        /\ pc'[c] \in {"remove", "posted"} => c \in installed'
    BY <1>1, <2>1, CallInst DEF PlaceOK, StepsOf
  <2>3. \A e \in Calls : InstOf(e)'
    <3>1. ASSUME pc'[c] \in {"new", "prepare", "upload", "import", "post"}
          PROVE  c \notin installed'
      <4>1. pc[c] \in {"new", "prepare", "upload", "import", "post"}
        BY <1>0, <1>1, <3>1
           DEF CallStep, Call, Prepare, _upload_cert, _upload_key, _find_ssl_profiles_for_domain,
               _update_profile_cert, upload_script, import_script, cleanup_script,
               PostCertificate, PostAnswered, Refused, TransportFails, Sends, Goto, Answer,
               TypeOK, Whats
      <4> QED BY <2>2, <3>1, <4>1 DEF InstInv, InstOf
    <3>2. InstOf(c)'
      BY <2>2, <3>1 DEF InstOf
    <3> QED BY <2>1, <2>2, <3>2 DEF InstInv, InstOf
  <2>4. \A x \in late : LateInst(x)'
    BY <2>1, <2>2 DEF InstInv, CallInv, LateOK, LateInst
  <2>5. \A x \in late' : LateInst(x)'
    <3>1. CASE late' = late
      BY <2>4, <3>1
    <3>2. CASE TransportFails(c)
      <4>1. PICK x \in Pending(c) : late' = late \cup {x}
        BY <3>2 DEF TransportFails
      <4>2. x.call = c /\ x.what = pc[c]
        BY <1>0, PendingLate
      <4>3. LateInst(x)'
        BY <3>2, <4>2 DEF TransportFails, devVars, InstInv, InstOf, LateInst
      <4> QED BY <2>4, <4>1, <4>3
    <3> QED BY <1>1, <3>1, <3>2, CallLate
  <2> QED BY <1>0, <1>1, <2>1, <2>2, <2>3, <2>5 DEF InstInv
<1>2. ASSUME NEW x \in late, Lands(x) PROVE InstInv'
  <2>1. LateOK(x) /\ Applies(x) /\ UNCHANGED callVars /\ late' = late \ {x} /\ x \in Reqs
    BY <1>0, <1>2 DEF CallInv, Lands, TypeOK, Reqs
  <2>2. CASE UNCHANGED <<active, installed>>
    BY <1>0, <2>1, <2>2 DEF InstInv, InstOf, LateInst, callVars
  <2>3. CASE /\ x.what \in {"import", "post"}
             /\ active' = x.call /\ installed' = installed \cup {x.call}
    <3>1. kind # "f5" /\ kind' = kind
      BY <1>0, <2>1, <2>3 DEF LateOK, StepsOf, callVars
    <3>2. \A e \in Calls : InstOf(e)'
      BY <2>1, <2>3 DEF InstInv, InstOf, LateOK, callVars
    <3>3. \A y \in late' : LateInst(y)'
      <4> SUFFICES ASSUME NEW y \in late', y.what \in {"import", "post"}, y.call \in installed'
                   PROVE  FALSE
        BY DEF LateInst
      <4>1. y \in late /\ y # x /\ y \in Reqs /\ LateOK(y) /\ y.call \notin installed
        BY <1>0, <2>1 DEF InstInv, CallInv, LateInst, TypeOK, Reqs
      <4>2. y.call = x.call
        BY <2>3, <4>1
      <4>3. y.what = x.what /\ y.profile = x.profile
        BY <1>0, <2>1, <2>3, <4>1 DEF LateOK, StepsOf
      <4> QED BY <2>1, <4>1, <4>2, <4>3 DEF Reqs
    <3> QED BY <1>0, <3>1, <3>2, <3>3 DEF InstInv
  <2> QED BY <2>1, <2>2, <2>3, AppliesInst
<1>3. CASE Crash
  <2>1. PICK sent \in SUBSET {c \in Calls : InFlight(c)} :
          \E xs \in SUBSET UNION {Pending(c) : c \in sent} : late' = late \cup xs
    BY <1>3 DEF Crash
  <2>2. ASSUME NEW c \in sent, NEW x \in Pending(c) PROVE LateInst(x)'
    <3>1. x.call = c /\ x.what = pc[c]
      BY <1>0, PendingLate
    <3> QED BY <1>3, <3>1 DEF Crash, devVars, InstInv, InstOf, LateInst
  <2>3. \A x \in late' : LateInst(x)'
    BY <1>3, <2>1, <2>2 DEF Crash, devVars, InstInv, LateInst
  <2>4. \A c \in Calls : InstOf(c)'
    BY <1>3 DEF Crash, devVars, InstInv, InstOf, InFlight
  <2> QED BY <1>0, <1>3, <2>3, <2>4 DEF Crash, devVars, InstInv
<1>4. CASE UNCHANGED vars
  BY <1>0, <1>4 DEF vars, callVars, devVars, InstInv, InstOf, LateInst
<1> QED BY <1>1, <1>2, <1>3, <1>4 DEF Next, CallStep, Done

LEMMA InstInvInit == Init => InstInv
BY CallInvInit DEF Init, InstInv, InstOf, LateInst

Stages  == [c \in Calls |-> Stage(c)]
Answers == [c \in Calls |-> IF kind = "f5" THEN "none" ELSE res[c]]

\* Every step is a step of DeployTarget or a stutter.
LEMMA TargetStep ==
    ASSUME InstInv, [Next]_vars
    PROVE  [Target!Next]_(Target!targetVars)
<1> DEFINE Goal == [Target!Next]_(Target!targetVars)
<1>0. /\ TypeOK /\ kind \in {"f5", "ivanti", "exchange"}
      /\ pc \in [Calls -> Positions] /\ res \in [Calls -> {"none", "ok", "error", "lost"}]
  BY DeviceAssumption DEF InstInv, CallInv, TypeOK, Positions
<1>a. ASSUME kind' = kind, UNCHANGED <<pc, res, active, installed>> PROVE Goal
  BY <1>a DEF Target!targetVars, Stage
<1>b. ASSUME kind = "f5", kind' = kind, UNCHANGED <<active, installed>> PROVE Goal
  BY <1>b DEF Target!targetVars, Stage
<1>1. ASSUME NEW c \in Calls, CallStep(c), kind # "f5" PROVE Goal
  <2>1. /\ kind' = kind /\ pc[c] # "done" /\ res[c] = "none" /\ c \in DOMAIN pc /\ PlaceOK(c)
        /\ \A e \in Calls \ {c} : pc'[e] = pc[e] /\ res'[e] = res[e]
    BY <1>0, <1>1, CallMoves DEF InstInv, CallInv, PlaceOK
  <2>2. \A e \in Calls \ {c} : Stages'[e] = Stages[e] /\ Answers'[e] = Answers[e]
    BY <2>1 DEF Stages, Answers, Stage
  <2>3. pc' \in [Calls -> Positions] /\ res' \in [Calls -> {"none", "ok", "error", "lost"}]
    BY TypeStep, <1>0 DEF TypeOK, Positions
  <2>4. CASE Call(c)
    <3>1. pc[c] = "new" /\ pc'[c] = "prepare" /\ res' = res /\ UNCHANGED <<active, installed>>
      BY <1>0, <2>4 DEF Call, Goto, devVars
    <3>2. Stages' = [Stages EXCEPT ![c] = "open"] /\ Stages[c] = "new" /\ Answers' = Answers
      BY <1>1, <2>1, <2>2, <3>1 DEF Stages, Answers, Stage
    <3>3. Target!Open(c)
      BY <3>1, <3>2 DEF Target!Open, Stages, Answers
    <3> QED BY <3>3 DEF Target!Next
  <2>5. CASE ~Call(c)
    <3>1. pc[c] # "new" /\ Stages[c] = "open"
      BY <1>1, <2>1, <2>5
         DEF CallStep, Prepare, _upload_cert, _upload_key, _find_ssl_profiles_for_domain,
             _update_profile_cert, upload_script, import_script, cleanup_script, PostCertificate,
             PostAnswered, Refused, TransportFails, Sends, Pending, Whats, Stages, Stage
    <3>2. CASE UNCHANGED <<active, installed>>
      <4>1. CASE pc'[c] # "done"
        <5>1. res' = res /\ pc'[c] # "new"
          BY <1>0, <1>1, <2>5, <4>1, <3>1
             DEF CallStep, Prepare, _upload_cert, _upload_key, _find_ssl_profiles_for_domain,
                 _update_profile_cert, upload_script, import_script, cleanup_script,
                 PostCertificate, PostAnswered, Refused, TransportFails, Sends, Goto, Answer,
                 First
        <5>2. Stages' = Stages /\ Answers' = Answers
          BY <1>1, <2>1, <2>2, <3>1, <4>1, <5>1 DEF Stages, Answers, Stage
        <5> QED BY <3>2, <5>2 DEF Target!targetVars, Stages, Answers
      <4>2. CASE pc'[c] = "done"
        <5>1. /\ Stages' = [Stages EXCEPT ![c] = "done"]
              /\ Answers' = [Answers EXCEPT ![c] = res'[c]]
          <6>1. Stages'[c] = "done" /\ Answers'[c] = res'[c]
            BY <1>1, <2>1, <4>2 DEF Stages, Answers, Stage
          <6> QED BY <2>2, <6>1 DEF Stages, Answers
        <5>2. res'[c] \in {"ok", "error"} /\ (res'[c] = "ok" => c \in installed)
          <6>1. pc[c] \in {"new", "prepare", "done"} \cup {"post", "posted"}
                             \cup {"upload", "import", "remove"}
            BY <1>0, <1>1, <2>1 DEF PlaceOK, StepsOf
          <6>2. CASE Prepare(c)
            <7>1. First[kind] # "done"
              BY <1>0 DEF First
            <7> QED BY <1>0, <4>2, <6>2, <7>1 DEF Prepare, Goto, Answer
          <6>3. CASE Refused(c) \/ TransportFails(c)
            BY <1>0, <6>3 DEF Refused, TransportFails, Answer
          <6>4. CASE import_script(c)
            BY <1>0, <4>2, <6>4 DEF import_script, Goto, Answer
          <6>5. CASE cleanup_script(c) \/ PostAnswered(c)
            <7>1. pc[c] \in {"remove", "posted"} /\ res'[c] = "ok"
              BY <1>0, <6>5 DEF cleanup_script, PostAnswered, Answer
            <7> QED BY <7>1 DEF InstInv, InstOf
          <6>6. CASE upload_script(c) \/ PostCertificate(c)
            BY <1>0, <4>2, <6>6 DEF upload_script, PostCertificate, Sends, Goto
          <6>7. CASE \/ _upload_cert(c) \/ _upload_key(c)
                     \/ _find_ssl_profiles_for_domain(c) \/ _update_profile_cert(c)
            BY <6>1, <6>7 DEF _upload_cert, _upload_key, _find_ssl_profiles_for_domain,
                              _update_profile_cert, Sends
          <6> QED BY <1>1, <2>5, <6>2, <6>3, <6>4, <6>5, <6>6, <6>7 DEF CallStep
        <5>3. Target!AnswerOk(c) \/ Target!AnswerError(c)
          BY <3>1, <3>2, <5>1, <5>2 DEF Target!AnswerOk, Target!AnswerError, Stages, Answers
        <5> QED BY <5>3 DEF Target!Next
      <4> QED BY <4>1, <4>2
    <3>3. CASE ~UNCHANGED <<active, installed>>
      <4>1. /\ pc[c] \in {"import", "post"} /\ pc'[c] \in {"remove", "posted"} /\ res' = res
            /\ active' = c /\ installed' = installed \cup {c}
        BY <1>1, <3>3, CallInst
      <4>2. c \notin installed
        BY <4>1 DEF InstInv, InstOf
      <4>3. Stages' = Stages /\ Answers' = Answers
        BY <1>1, <2>1, <2>2, <3>1, <4>1 DEF Stages, Answers, Stage
      <4>4. Target!Install(c)
        BY <3>1, <4>1, <4>2, <4>3 DEF Target!Install, Stages, Answers
      <4> QED BY <4>4 DEF Target!Next
    <3> QED BY <3>2, <3>3
  <2> QED BY <2>4, <2>5
<1>2. ASSUME NEW c \in Calls, CallStep(c), kind = "f5" PROVE Goal
  BY <1>0, <1>2, <1>b, CallMoves, CallInst DEF InstInv, CallInv, PlaceOK, StepsOf
<1>3. ASSUME NEW x \in late, Lands(x) PROVE Goal
  <2>1. x.call \in Calls /\ LateOK(x) /\ Applies(x) /\ UNCHANGED callVars
    BY <1>0, <1>3 DEF Lands, InstInv, CallInv, TypeOK
  <2>2. CASE UNCHANGED <<active, installed>>
    BY <1>a, <2>1, <2>2 DEF callVars
  <2>3. CASE /\ x.what \in {"import", "post"}
             /\ active' = x.call /\ installed' = installed \cup {x.call}
    <3>1. x.call \notin installed /\ kind # "f5"
      BY <1>0, <1>3, <2>1, <2>3 DEF InstInv, LateInst, LateOK, StepsOf
    <3>2. Stages[x.call] # "new" /\ Stages' = Stages /\ Answers' = Answers
      BY <2>1, <3>1 DEF LateOK, Stages, Answers, Stage, callVars
    <3>3. Target!Install(x.call)
      BY <2>3, <3>1, <3>2 DEF Target!Install, Stages, Answers
    <3> QED BY <2>1, <3>3 DEF Target!Next
  <2> QED BY <2>1, <2>2, <2>3, AppliesInst
<1>4. CASE Crash
  <2>1. /\ pc' = [c \in Calls |-> IF InFlight(c) THEN "done" ELSE pc[c]]
        /\ res' = [c \in Calls |-> IF InFlight(c) THEN "lost" ELSE res[c]]
        /\ kind' = kind /\ UNCHANGED <<active, installed>>
    BY <1>4 DEF Crash, devVars
  <2>2. CASE kind # "f5"
    <3>1. \A c \in Calls : InFlight(c) <=> Stages[c] = "open"
      BY <2>2 DEF InFlight, Stages, Stage
    <3>2. Stages' = [c \in Calls |-> IF Stages[c] = "open" THEN "done" ELSE Stages[c]]
      BY <2>1, <2>2, <3>1 DEF Stages, Stage, InFlight
    <3>3. Answers' = [c \in Calls |-> IF Stages[c] = "open" THEN "lost" ELSE Answers[c]]
      BY <2>1, <2>2, <3>1 DEF Answers
    <3>4. Target!Crash
      BY <2>1, <3>2, <3>3 DEF Target!Crash, Stages, Answers
    <3> QED BY <3>4 DEF Target!Next
  <2> QED BY <1>b, <2>1, <2>2
<1>5. CASE UNCHANGED vars
  BY <1>a, <1>5 DEF vars, callVars, devVars
<1> QED BY <1>1, <1>2, <1>3, <1>4, <1>5 DEF Next, CallStep, Done

\* A target of Exchange or Ivanti installs each call's own certificate at most
\* once and answers "ok" only when it has, however calls overlap, whatever the
\* device refuses or carries out late, and whenever the server dies.
THEOREM Implements == Spec => ImplementsTarget
<1>1. Init => Target!Init
  BY DEF Init, Target!Init, Stage
<1>2. Init => InstInv
  BY InstInvInit
<1>3. InstInv /\ [Next]_vars => InstInv'
  BY InstInvStep
<1>4. InstInv /\ [Next]_vars => [Target!Next]_(Target!targetVars)
  BY TargetStep
<1> QED BY <1>1, <1>2, <1>3, <1>4, PTL DEF Spec, ImplementsTarget, Target!Spec

(***************************************************************************)
(* Exchange: whose file is on the server.                                  *)
(***************************************************************************)
FileOK(d, c) == file[d] = c =>
    /\ kind = "exchange" /\ domain[c] = d
    /\ InFlight(c) \/ res[c] \in {"error", "lost"} \/ c \in kept

FileInv == CallInv /\ \A d \in Domains, c \in Calls : FileOK(d, c)

\* A request touches no file but the one of its own domain.
LEMMA AppliesFile ==
    ASSUME NEW x, Applies(x)
    PROVE  \/ file' = file
           \/ x.what = "upload" /\ file' = [file EXCEPT ![domain[x.call]] = x.call]
           \/ x.what = "remove" /\ file' = [file EXCEPT ![domain[x.call]] = NoCall]
BY DEF Applies, PutsFile, Uses, Imports, Opens, devVars

\* What a step of a call does to the files, and how the call can end.
LEMMA CallFile ==
    ASSUME CallInv, NEW c \in Calls, CallStep(c)
    PROVE  /\ kept \subseteq kept'
           /\ \/ file' = file
              \/ pc[c] = "upload" /\ file' = [file EXCEPT ![domain[c]] = c]
              \/ file' = [file EXCEPT ![domain[c]] = NoCall]
           /\ \/ InFlight(c)' \/ res'[c] \in {"error", "lost"} \/ kind # "exchange"
              \/ c \in kept' \/ file' = [file EXCEPT ![domain[c]] = NoCall]
<1>0. /\ pc \in [Calls -> Positions] /\ res \in [Calls -> {"none", "ok", "error", "lost"}]
      /\ kind \in {"f5", "ivanti", "exchange"} /\ PlaceOK(c)
  BY DeviceAssumption DEF CallInv, TypeOK, Positions
<1>1. CASE _upload_cert(c) \/ _upload_key(c) \/ upload_script(c) \/ PostCertificate(c)
  <2>1. PICK what \in {"cert", "key", "upload", "post"} :
           pc[c] = what /\ Applies(Request(c, what, NoProfile)) /\ UNCHANGED kept
    BY <1>1 DEF _upload_cert, _upload_key, upload_script, PostCertificate, Sends
  <2>2. file' = file \/ (pc[c] = "upload" /\ file' = [file EXCEPT ![domain[c]] = c])
    BY <2>1, AppliesFile DEF Request
  <2>3. InFlight(c)'
    BY <1>0, <1>1 DEF _upload_cert, _upload_key, upload_script, PostCertificate, Sends, Goto,
                      InFlight
  <2> QED BY <2>1, <2>2, <2>3
<1>2. CASE _find_ssl_profiles_for_domain(c) \/ _update_profile_cert(c)
  <2>1. kind # "exchange"
    BY <1>0, <1>2 DEF _find_ssl_profiles_for_domain, _update_profile_cert, PlaceOK, StepsOf
  <2>2. file' = file /\ kept' = kept
    <3>1. CASE _update_profile_cert(c)
      <4>1. PICK p : Applies(Request(c, "ref", p))
        BY <3>1 DEF _update_profile_cert
      <4> QED BY <3>1, <4>1, AppliesFile DEF Request, _update_profile_cert
    <3> QED BY <1>2, <3>1 DEF _find_ssl_profiles_for_domain, devVars
  <2> QED BY <2>1, <2>2
<1>3. CASE import_script(c)
  BY <1>0, <1>3 DEF import_script, Imports, Uses, Goto, Answer, InFlight, devVars
<1>4. CASE cleanup_script(c)
  <2>1. CASE Applies(Request(c, "remove", NoProfile)) /\ UNCHANGED kept
    BY <2>1 DEF Applies, Request, PutsFile
  <2>2. CASE kept' = kept \cup {c} /\ UNCHANGED devVars
    BY <2>2 DEF devVars
  <2> QED BY <1>4, <2>1, <2>2 DEF cleanup_script
<1>5. CASE Call(c) \/ Prepare(c)
  <2>1. First[kind] \notin {"new", "done"}
    BY <1>0 DEF First
  <2> QED BY <1>0, <1>5, <2>1 DEF Call, Prepare, Goto, Answer, InFlight, devVars
<1>6. CASE PostAnswered(c)
  BY <1>0, <1>6 DEF PostAnswered, PlaceOK, StepsOf, devVars
<1>7. CASE Refused(c) \/ TransportFails(c)
  BY <1>0, <1>7 DEF Refused, TransportFails, Answer, devVars
<1> QED BY <1>1, <1>2, <1>3, <1>4, <1>5, <1>6, <1>7 DEF CallStep

\* FileInv is inductive.
LEMMA FileInvStep ==
    ASSUME FileInv, [Next]_vars
    PROVE  FileInv'
<1>0. /\ CallInv /\ CallInv' /\ TypeOK
      /\ NoCall \notin Calls /\ file \in [Domains -> Owners] /\ domain \in [Calls -> Domains]
  BY CallInvStep, DeviceAssumption DEF FileInv, CallInv, TypeOK
<1>1. ASSUME NEW c \in Calls, CallStep(c) PROVE FileInv'
  <2>1. /\ kind' = kind /\ domain' = domain /\ pc[c] # "done" /\ PlaceOK(c)
        /\ \A e \in Calls \ {c} : pc'[e] = pc[e] /\ res'[e] = res[e]
    BY <1>0, <1>1, CallMoves DEF CallInv
  <2>2. ASSUME NEW d \in Domains, NEW e \in Calls, file'[d] = e PROVE FileOK(d, e)'
    <3>1. kind = "exchange" /\ domain[e] = d
      <4>1. CASE pc[c] = "upload" /\ file' = [file EXCEPT ![domain[c]] = c]
        <5>1. kind = "exchange"
          <6>1. kind \in {"f5", "ivanti", "exchange"}
            BY <1>0, DeviceAssumption DEF TypeOK
          <6>2. "upload" \in StepsOf[kind]
            BY <2>1, <4>1 DEF PlaceOK
          <6> QED BY <6>1, <6>2 DEF StepsOf
        <5>2. CASE d = domain[c]
          BY <1>0, <2>2, <4>1, <5>1, <5>2
        <5>3. CASE d # domain[c]
          BY <1>0, <2>2, <4>1, <5>3 DEF FileInv, FileOK
        <5> QED BY <5>1, <5>2, <5>3
      <4> QED BY <1>0, <1>1, <2>2, <4>1, CallFile DEF FileInv, FileOK
    <3>2. CASE e = c
      BY <1>0, <1>1, <2>1, <2>2, <3>1, <3>2, CallFile DEF FileOK
    <3>3. CASE e # c
      <4>1. file[d] = e
        BY <1>0, <1>1, <2>2, <3>3, CallFile
      <4> QED BY <1>1, <2>1, <3>1, <3>3, <4>1, CallFile DEF FileInv, FileOK, InFlight
    <3> QED BY <3>2, <3>3
  <2> QED BY <1>0, <2>2 DEF FileInv, FileOK
<1>2. ASSUME NEW x \in late, Lands(x) PROVE FileInv'
  <2>1. /\ x.call \in Calls /\ LateOK(x) /\ Applies(x) /\ UNCHANGED <<callVars, kept>>
    BY <1>0, <1>2 DEF CallInv, Lands, TypeOK
  <2>2. ASSUME NEW d \in Domains, NEW e \in Calls, file'[d] = e PROVE FileOK(d, e)'
    <3>1. CASE file[d] = e
      BY <2>1, <3>1 DEF FileInv, FileOK, InFlight, callVars
    <3>2. CASE file[d] # e
      <4>1. e = x.call /\ x.what = "upload" /\ domain[e] = d
        BY <1>0, <2>1, <2>2, <3>2, AppliesFile
      <4>2. kind = "exchange"
        <5>1. kind \in {"f5", "ivanti", "exchange"}
          BY <1>0, DeviceAssumption DEF TypeOK
        <5>2. "upload" \in StepsOf[kind]
          BY <2>1, <4>1 DEF LateOK
        <5> QED BY <5>1, <5>2 DEF StepsOf
      <4> QED BY <2>1, <4>1, <4>2 DEF LateOK, FileOK, callVars
    <3> QED BY <3>1, <3>2
  <2> QED BY <1>0, <2>2 DEF FileInv, FileOK
<1>3. CASE Crash
  <2>1. ASSUME NEW d \in Domains, NEW e \in Calls PROVE FileOK(d, e)'
    BY <1>3 DEF Crash, FileInv, FileOK, InFlight, devVars
  <2> QED BY <1>0, <2>1 DEF FileInv
<1>4. CASE UNCHANGED vars
  BY <1>0, <1>4 DEF vars, callVars, devVars, FileInv, FileOK, InFlight
<1> QED BY <1>1, <1>2, <1>3, <1>4 DEF Next, CallStep, Done

\* A PFX is left on the Exchange server only by a call that is under way, that
\* failed, or whose own clean-up the server refused: however calls overlap.
THEOREM CleansUp == Spec => []NoFileLeft
<1>1. Init => FileInv
  BY CallInvInit, DeviceAssumption DEF Init, FileInv, FileOK
<1>2. FileInv => NoFileLeft
  BY DEF FileInv, FileOK, NoFileLeft
<1> QED BY <1>1, <1>2, FileInvStep, PTL DEF Spec

(***************************************************************************)
(* F5: the certificate and the key that one object holds. A call that has  *)
(* uploaded its certificate and not its key yet is alone with the object,  *)
(* has met another call, or finds the certificate of a call that was given *)
(* up and reached the device late.                                         *)
(***************************************************************************)
GivenUp(c) == c \in Calls /\ res[c] \in {"error", "lost"}

OwnOK(o)  == \A c \in Calls : c \in {cert[o], key[o]} => Object(c) = o
MetOK(c)  == \A e \in Calls \ {c} :
                InFlight(c) /\ InFlight(e) /\ Object(c) = Object(e) => c \in met
KeyOK(c)  == pc[c] = "key" =>
                cert[Object(c)] = c \/ c \in met \/ GivenUp(cert[Object(c)])
PairOK(o) == cert[o] # key[o] =>
                \E c \in {cert[o], key[o]} \cap Calls : pc[c] = "key" \/ GivenUp(c) \/ c \in met

PairInv ==
    /\ CallInv
    /\ \A o \in Objects : OwnOK(o) /\ PairOK(o)
    /\ \A c \in Calls : MetOK(c) /\ KeyOK(c)

\* A request changes the certificate or the key of its own object only.
LEMMA AppliesPair ==
    ASSUME NEW x, Applies(x)
    PROVE  \/ UNCHANGED <<cert, key>>
           \/ x.what = "cert" /\ cert' = [cert EXCEPT ![Object(x.call)] = x.call] /\ key' = key
           \/ x.what = "key" /\ key' = [key EXCEPT ![Object(x.call)] = x.call] /\ cert' = cert
BY DEF Applies, PutsFile, Uses, Imports, Opens, devVars

\* A step of a call uploads its certificate, or its key, or leaves the objects alone.
LEMMA CallPair ==
    ASSUME CallInv, NEW c \in Calls, CallStep(c)
    PROVE  \/ /\ UNCHANGED <<cert, key>> /\ pc'[c] # "key"
              /\ pc[c] = "key" => res'[c] = "error"
           \/ /\ pc[c] = "cert" /\ pc'[c] = "key"
              /\ cert' = [cert EXCEPT ![Object(c)] = c] /\ key' = key
           \/ /\ pc[c] = "key" /\ pc'[c] = "list"
              /\ key' = [key EXCEPT ![Object(c)] = c] /\ cert' = cert
<1>0. /\ pc \in [Calls -> Positions] /\ res \in [Calls -> {"none", "ok", "error", "lost"}]
      /\ kind \in {"f5", "ivanti", "exchange"}
  BY DeviceAssumption DEF CallInv, TypeOK, Positions
<1>1. CASE _upload_cert(c)
  BY <1>0, <1>1 DEF _upload_cert, Sends, Applies, Request, Goto
<1>2. CASE _upload_key(c)
  BY <1>0, <1>2 DEF _upload_key, Sends, Applies, Request, Goto
<1>3. CASE upload_script(c) \/ PostCertificate(c)
  BY <1>0, <1>3 DEF upload_script, PostCertificate, Sends, Applies, Request, Goto, PutsFile, Uses
<1>4. CASE _update_profile_cert(c)
  <2>1. PICK p : Applies(Request(c, "ref", p))
    BY <1>4 DEF _update_profile_cert
  <2> QED BY <1>0, <1>4, <2>1, AppliesPair DEF Request, _update_profile_cert, Goto, Answer
<1>5. CASE import_script(c) \/ cleanup_script(c)
  BY <1>0, <1>5, AppliesPair
     DEF import_script, Imports, Uses, cleanup_script, Request, Goto, Answer, devVars
<1>6. CASE Call(c) \/ Prepare(c) \/ _find_ssl_profiles_for_domain(c)
  <2>1. First[kind] # "key"
    BY <1>0 DEF First
  <2> QED BY <1>0, <1>6, <2>1
          DEF Call, Prepare, _find_ssl_profiles_for_domain, Goto, Answer, devVars
<1>7. CASE PostAnswered(c) \/ Refused(c) \/ TransportFails(c)
  BY <1>0, <1>7 DEF PostAnswered, Refused, TransportFails, Answer, devVars
<1> QED BY <1>1, <1>2, <1>3, <1>4, <1>5, <1>6, <1>7 DEF CallStep

\* Two calls in flight for one object have met.
LEMMA CallMet ==
    ASSUME PairInv, NEW c \in Calls, CallStep(c)
    PROVE  met \subseteq met' /\ \A e \in Calls : MetOK(e)'
<1>0. /\ domain' = domain /\ pc[c] # "done"
      /\ \A e \in Calls \ {c} : pc'[e] = pc[e]
  BY CallMoves DEF PairInv
<1>1. CASE Call(c)
  <2> DEFINE others == {e \in Calls \ {c} : InFlight(e) /\ Object(e) = Object(c)}
  <2>1. met' = IF others = {} THEN met ELSE met \cup others \cup {c}
    BY <1>1 DEF Call
  <2>2. ASSUME NEW e \in Calls, NEW f \in Calls \ {e},
               InFlight(e)', InFlight(f)', Object(e) = Object(f)
        PROVE  e \in met'
    <3>1. CASE e = c
      BY <1>0, <2>1, <2>2, <3>1 DEF InFlight
    <3>2. CASE f = c
      BY <1>0, <2>1, <2>2, <3>2 DEF InFlight
    <3>3. CASE e # c /\ f # c
      BY <1>0, <2>1, <2>2, <3>3 DEF PairInv, MetOK, InFlight
    <3> QED BY <3>1, <3>2, <3>3
  <2> QED BY <1>0, <2>1, <2>2 DEF MetOK, Object
<1>2. CASE ~Call(c)
  <2>1. met' = met
    BY <1>2 DEF CallStep, Prepare, _upload_cert, _upload_key, _find_ssl_profiles_for_domain,
                _update_profile_cert, upload_script, import_script, cleanup_script,
                PostCertificate, PostAnswered, Refused, TransportFails, Sends
  <2>2. pc[c] # "new"
    BY <1>2 DEF CallStep, Prepare, _upload_cert, _upload_key, _find_ssl_profiles_for_domain,
                _update_profile_cert, upload_script, import_script, cleanup_script,
                PostCertificate, PostAnswered, Refused, TransportFails, Sends, Pending, Whats
  <2> QED BY <1>0, <2>1, <2>2 DEF PairInv, MetOK, InFlight, Object
<1> QED BY <1>1, <1>2

\* PairInv is inductive.
LEMMA PairInvStep ==
    ASSUME PairInv, [Next]_vars
    PROVE  PairInv'
<1>0. /\ CallInv /\ CallInv' /\ TypeOK
      /\ NoCall \notin Calls /\ cert \in [Objects -> Owners] /\ key \in [Objects -> Owners]
      /\ \A c \in Calls : Object(c) \in Objects
  BY CallInvStep, DeviceAssumption DEF PairInv, CallInv, TypeOK, Object
<1>1. ASSUME NEW c \in Calls, CallStep(c) PROVE PairInv'
  <2>1. /\ domain' = domain /\ pc[c] # "done" /\ res[c] = "none"
        /\ \A e \in Calls \ {c} : pc'[e] = pc[e] /\ res'[e] = res[e]
    <3>1. PlaceOK(c)
      BY <1>0 DEF CallInv
    <3> QED BY <1>0, <1>1, <3>1, CallMoves DEF PlaceOK
  <2>2. met \subseteq met' /\ \A e \in Calls : MetOK(e)' /\ Object(e)' = Object(e)
    BY <1>1, <2>1, CallMet DEF Object
  <2>3. \A e \in Calls : GivenUp(e) => GivenUp(e)'
    BY <2>1 DEF GivenUp
  <2>4. CASE UNCHANGED <<cert, key>> /\ pc'[c] # "key" /\ (pc[c] = "key" => res'[c] = "error")
    <3>1. \A o \in Objects : OwnOK(o)' /\ PairOK(o)'
      BY <2>1, <2>2, <2>3, <2>4 DEF PairInv, OwnOK, PairOK, GivenUp
    <3>2. \A e \in Calls : KeyOK(e)'
      BY <2>1, <2>2, <2>3, <2>4 DEF PairInv, KeyOK, GivenUp
    <3> QED BY <1>0, <2>2, <3>1, <3>2 DEF PairInv
  <2>5. CASE /\ pc[c] = "cert" /\ pc'[c] = "key"
             /\ cert' = [cert EXCEPT ![Object(c)] = c] /\ key' = key
    <3>1. \A o \in Objects : OwnOK(o)'
      BY <1>0, <2>2, <2>5 DEF PairInv, OwnOK
    <3>2. ASSUME NEW o \in Objects PROVE PairOK(o)'
      <4>1. CASE o = Object(c)
        BY <1>0, <2>5, <4>1 DEF PairOK
      <4>2. CASE o # Object(c)
        BY <1>0, <2>1, <2>2, <2>3, <2>5, <4>2 DEF PairInv, PairOK, OwnOK
      <4> QED BY <4>1, <4>2
    <3>3. ASSUME NEW e \in Calls, pc'[e] = "key" PROVE KeyOK(e)'
      <4>1. CASE Object(e) = Object(c) /\ e # c
        <5>1. InFlight(e)' /\ InFlight(c)'
          BY <2>5, <3>3 DEF InFlight
        <5>2. e \in met'
          BY <2>2, <4>1, <5>1 DEF MetOK
        <5> QED BY <5>2 DEF KeyOK
      <4>2. CASE Object(e) # Object(c)
        <5>1. pc[e] = "key" /\ cert'[Object(e)] = cert[Object(e)]
          BY <1>0, <2>1, <2>5, <3>3, <4>2
        <5> QED BY <2>2, <2>3, <5>1 DEF PairInv, KeyOK, GivenUp
      <4>3. CASE e = c
        BY <1>0, <2>2, <2>5, <4>3 DEF KeyOK
      <4> QED BY <4>1, <4>2, <4>3
    <3> QED BY <1>0, <2>2, <3>1, <3>2, <3>3 DEF PairInv, KeyOK
  <2>6. CASE /\ pc[c] = "key" /\ pc'[c] = "list"
             /\ key' = [key EXCEPT ![Object(c)] = c] /\ cert' = cert
    <3>1. \A o \in Objects : OwnOK(o)'
      BY <1>0, <2>2, <2>6 DEF PairInv, OwnOK
    <3>2. ASSUME NEW o \in Objects PROVE PairOK(o)'
      <4>1. CASE o = Object(c)
        <5>1. cert[o] = c \/ c \in met \/ GivenUp(cert[o])
          BY <2>6, <4>1 DEF PairInv, KeyOK
        <5>2. key'[o] = c
          BY <1>0, <2>6, <4>1
        <5> QED BY <2>2, <2>3, <2>6, <5>1, <5>2 DEF PairOK, GivenUp
      <4>2. CASE o # Object(c)
        <5>1. cert'[o] = cert[o] /\ key'[o] = key[o] /\ c \notin {cert[o], key[o]}
          BY <1>0, <2>6, <4>2 DEF PairInv, OwnOK
        <5> QED BY <2>1, <2>2, <2>3, <5>1 DEF PairInv, PairOK
      <4> QED BY <4>1, <4>2
    <3>3. \A e \in Calls : KeyOK(e)'
      BY <2>1, <2>2, <2>3, <2>6 DEF PairInv, KeyOK, GivenUp
    <3> QED BY <1>0, <2>2, <3>1, <3>2, <3>3 DEF PairInv
  <2> QED BY <1>0, <1>1, <2>4, <2>5, <2>6, CallPair
<1>2. ASSUME NEW x \in late, Lands(x) PROVE PairInv'
  <2>1. /\ x.call \in Calls /\ GivenUp(x.call) /\ Applies(x)
        /\ UNCHANGED <<pc, res, domain, met>>
    BY <1>0, <1>2 DEF CallInv, Lands, TypeOK, LateOK, GivenUp, callVars
  <2>2. \A e \in Calls : MetOK(e)' /\ Object(e)' = Object(e)
    BY <2>1 DEF PairInv, MetOK, InFlight, Object
  <2>3. ASSUME NEW o \in Objects PROVE OwnOK(o)' /\ PairOK(o)'
    <3>1. CASE o = Object(x.call)
      <4>1. \/ cert'[o] = cert[o] /\ key'[o] = key[o]
            \/ x.call \in {cert'[o], key'[o]}
        BY <1>0, <2>1, <3>1, AppliesPair
      <4>2. cert'[o] \in {cert[o], x.call} /\ key'[o] \in {key[o], x.call}
        BY <1>0, <2>1, AppliesPair
      <4> QED BY <2>1, <2>2, <3>1, <4>1, <4>2 DEF PairInv, OwnOK, PairOK, GivenUp
    <3>2. CASE o # Object(x.call)
      <4>1. cert'[o] = cert[o] /\ key'[o] = key[o]
        BY <1>0, <2>1, <3>2, AppliesPair
      <4> QED BY <2>1, <2>2, <4>1 DEF PairInv, OwnOK, PairOK, GivenUp
    <3> QED BY <3>1, <3>2
  <2>4. ASSUME NEW e \in Calls PROVE KeyOK(e)'
    <3>1. cert'[Object(e)] \in {cert[Object(e)], x.call}
      BY <1>0, <2>1, AppliesPair
    <3> QED BY <2>1, <2>2, <3>1 DEF PairInv, KeyOK, GivenUp
  <2> QED BY <1>0, <2>2, <2>3, <2>4 DEF PairInv
<1>3. CASE Crash
  <2>1. /\ UNCHANGED <<domain, cert, key, met>>
        /\ \A c \in Calls : ~InFlight(c)' /\ pc'[c] # "key"
        /\ \A c \in Calls : GivenUp(c) \/ pc[c] = "key" => GivenUp(c)'
    BY <1>3 DEF Crash, devVars, InFlight, GivenUp
  <2>2. \A c \in Calls : MetOK(c)' /\ KeyOK(c)' /\ Object(c)' = Object(c)
    BY <2>1 DEF MetOK, KeyOK, Object
  <2>3. \A o \in Objects : OwnOK(o)' /\ PairOK(o)'
    BY <2>1, <2>2 DEF PairInv, OwnOK, PairOK
  <2> QED BY <1>0, <2>2, <2>3 DEF PairInv
<1>4. CASE UNCHANGED vars
  BY <1>0, <1>4 DEF vars, callVars, devVars, PairInv, OwnOK, PairOK, MetOK, KeyOK, GivenUp,
                    InFlight, Object
<1> QED BY <1>1, <1>2, <1>3, <1>4 DEF Next, CallStep, Done

\* The certificate and the key of one F5 object belong together unless one of
\* their calls is between its uploads, was given up, or met another call for the
\* same name: two deployments that do not overlap and succeed never mix.
THEOREM PairsBelong == Spec => []PairsMatch
<1>1. Init => PairInv
  BY CallInvInit, DeviceAssumption DEF Init, PairInv, OwnOK, PairOK, MetOK, KeyOK, InFlight
<1>2. PairInv => PairsMatch
  BY DEF PairInv, PairOK, PairsMatch, GivenUp
<1> QED BY <1>1, <1>2, PairInvStep, PTL DEF Spec

(***************************************************************************)
(* F5: what the profiles refer to. Every profile that a call means to      *)
(* move, now or in a late request, had a first reference that contains the *)
(* call's domain: a chain of related domains collapses, because            *)
(* containment is transitive.                                              *)
(***************************************************************************)
Follows(p, d) == ref0[p] = None \/ <<ref0[p], d>> \in Contains

RefOK(p) == ref[p] # ref0[p] /\ ref0[p] # None =>
    \E d \in Domains : <<ref0[p], d>> \in Contains /\ ref[p] = NameOf[d]

ProfileInv ==
    /\ CallInv
    /\ \A p \in Profiles : RefOK(p)
    /\ \A c \in Calls : \A p \in listed[c] : Follows(p, domain[c])
    /\ \A x \in late : x.what = "ref" => Follows(x.profile, domain[x.call])
                                         /\ x.profile \in Profiles

\* A request moves the profile it names, to its own object, or none.
LEMMA AppliesRef ==
    ASSUME NEW x, Applies(x)
    PROVE  \/ ref' = ref
           \/ x.what = "ref" /\ ref' = [ref EXCEPT ![x.profile] = Object(x.call)]
BY DEF Applies, PutsFile, Uses, Imports, Opens, devVars

\* A step of a call lists profiles, moves one of its list, or does neither.
LEMMA CallRef ==
    ASSUME NEW c \in Calls, CallStep(c)
    PROVE  \/ UNCHANGED <<ref, listed>>
           \/ \E found \in {Matching(domain[c]), {}} :
                 ref' = ref /\ listed' = [listed EXCEPT ![c] = found]
           \/ \E p \in listed[c] : /\ ref' \in {ref, [ref EXCEPT ![p] = Object(c)]}
                                   /\ listed' = [listed EXCEPT ![c] = @ \ {p}]
<1>1. CASE _upload_cert(c) \/ _upload_key(c) \/ upload_script(c) \/ PostCertificate(c)
  BY <1>1, AppliesRef
     DEF _upload_cert, _upload_key, upload_script, PostCertificate, Sends, Request
<1>2. CASE _find_ssl_profiles_for_domain(c)
  BY <1>2 DEF _find_ssl_profiles_for_domain, devVars
<1>3. CASE _update_profile_cert(c)
  <2>1. PICK p \in listed[c] : Applies(Request(c, "ref", p)) /\ listed' = [listed EXCEPT ![c] = @ \ {p}]
    BY <1>3 DEF _update_profile_cert
  <2>2. ref' \in {ref, [ref EXCEPT ![p] = Object(c)]}
    BY <2>1, AppliesRef DEF Request
  <2> QED BY <2>1, <2>2
<1>4. CASE import_script(c) \/ cleanup_script(c)
  BY <1>4, AppliesRef DEF import_script, Imports, Uses, cleanup_script, Request, devVars
<1>5. CASE Call(c) \/ Prepare(c) \/ PostAnswered(c) \/ Refused(c) \/ TransportFails(c)
  BY <1>5 DEF Call, Prepare, PostAnswered, Refused, TransportFails, devVars
<1> QED BY <1>1, <1>2, <1>3, <1>4, <1>5 DEF CallStep

\* A profile may move to the name of a domain that its first reference contains.
LEMMA MoveOK ==
    ASSUME TypeOK, NEW p \in Profiles, NEW c \in Calls, NEW q \in Profiles,
           ref' = [ref EXCEPT ![p] = Object(c)], ref0' = ref0,
           Follows(p, domain[c]), RefOK(q)
    PROVE  RefOK(q)'
<1>1. domain[c] \in Domains /\ ref \in [Profiles -> References]
  BY DEF TypeOK
<1>2. CASE q = p
  <2>1. ref'[q] = NameOf[domain[c]]
    BY <1>1, <1>2 DEF Object
  <2> QED BY <1>1, <1>2, <2>1 DEF RefOK, Follows
<1>3. CASE q # p
  BY <1>1, <1>3 DEF RefOK
<1> QED BY <1>2, <1>3

\* A profile that the listing finds had a first reference that contains the domain.
LEMMA ListedFollows ==
    ASSUME ProfileInv, NEW d \in Domains, NEW p \in Matching(d)
    PROVE  Follows(p, d)
<1>1. p \in Profiles /\ (ref[p] = None \/ <<ref[p], d>> \in Contains) /\ RefOK(p)
  BY DEF Matching, ProfileInv
<1>2. CASE ref0[p] # None /\ ref[p] # ref0[p]
  <2>1. PICK e \in Domains : <<ref0[p], e>> \in Contains /\ ref[p] = NameOf[e]
    BY <1>1, <1>2 DEF RefOK
  <2>2. ref0[p] \in Objects /\ NameOf[e] \in Objects /\ ref[p] # None
    BY <1>1, <1>2, <2>1, DeviceAssumption DEF ProfileInv, CallInv, TypeOK
  <2>3. <<ref0[p], d>> \in Contains
    BY <1>1, <2>1, <2>2, DeviceAssumption
  <2> QED BY <2>3 DEF Follows
<1> QED BY <1>1, <1>2 DEF Follows

\* ProfileInv is inductive.
LEMMA ProfileInvStep ==
    ASSUME ProfileInv, [Next]_vars
    PROVE  ProfileInv'
<1>0. /\ CallInv /\ CallInv' /\ TypeOK
      /\ domain \in [Calls -> Domains] /\ listed \in [Calls -> SUBSET Profiles]
  BY CallInvStep DEF ProfileInv, CallInv, TypeOK
<1>1. ASSUME NEW c \in Calls, CallStep(c) PROVE ProfileInv'
  <2>1. domain' = domain /\ ref0' = ref0
    BY <1>0, <1>1, CallMoves
  <2>2. \A p \in Profiles : RefOK(p)'
    <3>1. CASE ref' = ref
      BY <2>1, <3>1 DEF ProfileInv, RefOK
    <3>2. ASSUME NEW p \in listed[c], ref' = [ref EXCEPT ![p] = Object(c)]
          PROVE  \A q \in Profiles : RefOK(q)'
      <4>1. p \in Profiles /\ Follows(p, domain[c])
        BY <1>0 DEF ProfileInv
      <4> QED BY <1>0, <2>1, <3>2, <4>1, MoveOK DEF ProfileInv
    <3> QED BY <1>1, <3>1, <3>2, CallRef
  <2>3. \A e \in Calls : \A p \in listed'[e] : Follows(p, domain[e])
    <3>1. ASSUME NEW found \in {Matching(domain[c]), {}}, listed' = [listed EXCEPT ![c] = found]
          PROVE  \A e \in Calls : \A p \in listed'[e] : Follows(p, domain[e])
      BY <1>0, <3>1, ListedFollows DEF ProfileInv
    <3>2. ASSUME NEW p \in listed[c], listed' = [listed EXCEPT ![c] = @ \ {p}]
          PROVE  \A e \in Calls : \A q \in listed'[e] : Follows(q, domain[e])
      BY <1>0, <3>2 DEF ProfileInv
    <3> QED BY <1>1, <3>1, <3>2, CallRef DEF ProfileInv
  <2>4. \A x \in late' : x.what = "ref" => Follows(x.profile, domain[x.call])
                                           /\ x.profile \in Profiles
    <3>1. ASSUME NEW x \in Pending(c), x.what = "ref"
          PROVE  Follows(x.profile, domain[x.call]) /\ x.profile \in Profiles
      BY <1>0, <3>1, PendingLate DEF ProfileInv
    <3> QED BY <1>1, <3>1, CallLate DEF ProfileInv
  <2> QED BY <1>0, <2>1, <2>2, <2>3, <2>4 DEF ProfileInv, Follows
<1>2. ASSUME NEW x \in late, Lands(x) PROVE ProfileInv'
  <2>1. /\ x.call \in Calls /\ Applies(x) /\ late' = late \ {x}
        /\ UNCHANGED <<domain, listed, ref0>>
    BY <1>0, <1>2 DEF Lands, TypeOK, callVars
  <2>2. \A p \in Profiles : RefOK(p)'
    <3>1. CASE ref' = ref
      BY <2>1, <3>1 DEF ProfileInv, RefOK
    <3>2. CASE x.what = "ref" /\ ref' = [ref EXCEPT ![x.profile] = Object(x.call)]
      BY <1>0, <2>1, <3>2, MoveOK DEF ProfileInv
    <3> QED BY <2>1, <3>1, <3>2, AppliesRef
  <2> QED BY <1>0, <2>1, <2>2 DEF ProfileInv, Follows
<1>3. CASE Crash
  <2>1. PICK sent \in SUBSET {c \in Calls : InFlight(c)} :
          \E xs \in SUBSET UNION {Pending(c) : c \in sent} : late' = late \cup xs
    BY <1>3 DEF Crash
  <2>2. ASSUME NEW c \in sent, NEW x \in Pending(c), x.what = "ref"
        PROVE  Follows(x.profile, domain[x.call]) /\ x.profile \in Profiles
    BY <1>0, <2>2, PendingLate DEF ProfileInv
  <2>3. UNCHANGED <<domain, listed, ref, ref0>>
    BY <1>3 DEF Crash, devVars
  <2> QED BY <1>0, <2>1, <2>2, <2>3 DEF ProfileInv, RefOK, Follows
<1>4. CASE UNCHANGED vars
  BY <1>0, <1>4 DEF vars, callVars, devVars, ProfileInv, RefOK, Follows
<1> QED BY <1>1, <1>2, <1>3, <1>4 DEF Next, CallStep, Done

\* A profile that had a certificate only ever moves to a domain that its first
\* certificate's name contains, through any chain of deployments, also late ones.
THEOREM ProfilesFollow == Spec => []ProfilesFollowTheirName
<1>1. Init => ProfileInv
  BY CallInvInit DEF Init, ProfileInv, RefOK
<1>2. ProfileInv => ProfilesFollowTheirName
  BY DEF ProfileInv, RefOK, ProfilesFollowTheirName
<1> QED BY <1>1, <1>2, ProfileInvStep, PTL DEF Spec
==============================================================================
