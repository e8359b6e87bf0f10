----------------------------- MODULE DeviceDeploy ----------------------------
(***************************************************************************)
(* F5Target, IvantiTarget and ExchangeTarget: the deploy calls that run at *)
(* the same time on one target, without any lock, and the device they talk *)
(* to. Every request to the device may be refused, or end in a transport   *)
(* error; then the device carries it out at once, later, or never.         *)
(* The certificate of a call is named after the call.                      *)
(***************************************************************************)
EXTENDS Integers

CONSTANTS
    Kinds,     \* of "f5", "ivanti", "exchange": the targets to consider
    Calls,     \* deploy calls, each with its own certificate
    Domains,
    Wild,      \* domains with a "*", which is no character of a file name
    Objects,   \* names of certificate and key objects on the F5
    NameOf,    \* the object name of a domain: sanitize_name
    Contains,  \* <<object, domain>> when the object's name contains the domain,
               \* or its sanitized form
    Profiles,  \* client SSL profiles of the F5
    None,      \* the reference "none" of a profile
    Empty,     \* that of a profile without one: the code reads it as ""
    NoCall, NoProfile,
    Faults     \* "prepare" (password, API key or PEM), "refuse", "net", "crash"

ASSUME DeviceAssumption ==
    /\ Kinds \subseteq {"f5", "ivanti", "exchange"}
    /\ Wild \subseteq Domains /\ NameOf \in [Domains -> Objects]
    /\ Contains \subseteq Objects \X Domains
    /\ \A d \in Domains : <<NameOf[d], d>> \in Contains
    /\ \A o \in Objects, d, e \in Domains :   \* containment is transitive
          <<o, d>> \in Contains /\ <<NameOf[d], e>> \in Contains => <<o, e>> \in Contains
    /\ None \notin Objects /\ Empty \notin Objects /\ None # Empty
    /\ NoCall \notin Calls /\ NoProfile \notin Profiles
    /\ Faults \subseteq {"prepare", "refuse", "net", "crash"}

VARIABLES
    kind,       \* the target's provider
    domain,     \* the domain of a call
    pc, res,    \* its position and its answer
    listed,     \* F5: the profiles it still has to update
    late,       \* requests that may still reach the device
    cert, key,  \* F5: whose certificate and whose key an object holds
    ref,        \* F5: the object a profile refers to
    file,       \* Exchange: whose PFX lies on the server under a domain's name
    active,     \* Exchange, Ivanti: whose certificate is in use
    installed,  \* history: the calls whose certificate was ever in use
    met,        \* history: calls that were under way together with another of
                \* the same domain
    kept,       \* history: Exchange calls whose clean-up the server refused
    ref0        \* history: the references that the profiles had at first

callVars == <<kind, domain, pc, res, listed>>
devVars  == <<cert, key, ref, file, active, installed>>
vars     == <<callVars, late, devVars, met, kept, ref0>>

First == [f5 |-> "cert", ivanti |-> "post", exchange |-> "upload"]
References == Objects \cup {None, Empty}

Whats == {"cert", "key", "ref", "post", "upload", "import", "remove"}

Init ==
    /\ kind \in Kinds /\ domain \in [Calls -> Domains]
    /\ pc = [c \in Calls |-> "new"] /\ res = [c \in Calls |-> "none"]
    /\ listed = [c \in Calls |-> {}] /\ late = {} /\ met = {} /\ kept = {}
    /\ cert = [o \in Objects |-> NoCall] /\ key = cert
    /\ ref \in [Profiles -> References] /\ ref0 = ref
    /\ file = [d \in Domains |-> NoCall]
    /\ active = NoCall /\ installed = {}

InFlight(c) == pc[c] \notin {"new", "done"}

Goto(c, next) == pc' = [pc EXCEPT ![c] = next] /\ UNCHANGED res

Answer(c, answer) ==
    /\ pc' = [pc EXCEPT ![c] = "done"]
    /\ res' = [res EXCEPT ![c] = answer]

(***************************************************************************)
(* The device carries out a request.                                       *)
(***************************************************************************)
Request(c, what, p) == [call |-> c, what |-> what, profile |-> p]

PutsFile(d, c) ==
    /\ file' = [file EXCEPT ![d] = c]
    /\ UNCHANGED <<cert, key, ref, active, installed>>

Uses(c) ==
    /\ active' = c /\ installed' = installed \cup {c}
    /\ UNCHANGED <<cert, key, ref, file>>

\* Seeded fault: all calls share one PFX password.
OpensShared(c) == file[domain[c]] # NoCall

\* Import-ExchangeCertificate opens the file with the password of the call's
\* own PFX.
Opens(c) == file[domain[c]] = c

\* ... and Enable-ExchangeCertificate puts the certificate to use.
Imports(c) == IF Opens(c) THEN Uses(file[domain[c]]) ELSE UNCHANGED devVars

\* Seeded fault: the domain is taken for the object's name as it is.
ObjectRaw(c) == domain[c]

\* The certificate and key objects that a call uploads (sanitize_name).
Object(c) == NameOf[domain[c]]

Applies(x) ==
    LET c == x.call
        o == Object(c)
    IN \/ /\ x.what = "cert" /\ cert' = [cert EXCEPT ![o] = c]
          /\ UNCHANGED <<key, ref, file, active, installed>>
       \/ /\ x.what = "key" /\ key' = [key EXCEPT ![o] = c]
          /\ UNCHANGED <<cert, ref, file, active, installed>>
       \/ /\ x.what = "ref" /\ ref' = [ref EXCEPT ![x.profile] = o]
          /\ UNCHANGED <<cert, key, file, active, installed>>
       \/ x.what = "upload" /\ PutsFile(domain[c], c)
       \/ x.what = "remove" /\ PutsFile(domain[c], NoCall)
       \/ x.what = "import" /\ Imports(c)
       \/ x.what = "post" /\ Uses(c)

(***************************************************************************)
(* Steps of a call.                                                        *)
(***************************************************************************)
\* deploy is called.
Call(c) ==
    /\ pc[c] = "new" /\ Goto(c, "prepare")
    /\ LET others == {e \in Calls \ {c} : InFlight(e) /\ Object(e) = Object(c)}
       IN met' = IF others = {} THEN met ELSE met \cup others \cup {c}
    /\ UNCHANGED <<kind, domain, listed, late, devVars, kept, ref0>>

\* The password file or the API key is read, unless an earlier call has, and the
\* PFX is made from the PEMs.
Prepare(c) ==
    /\ pc[c] = "prepare"
    /\ Goto(c, First[kind]) \/ ("prepare" \in Faults /\ Answer(c, "error"))
    /\ UNCHANGED <<kind, domain, listed, late, devVars, met, kept, ref0>>

\* A request to the device is answered; the call goes on.
Sends(c, what, p, next) ==
    /\ pc[c] = what
    /\ Applies(Request(c, what, p))
    /\ Goto(c, next)
    /\ UNCHANGED <<kind, domain, late, met, kept, ref0>>

_upload_cert(c) == Sends(c, "cert", NoProfile, "key") /\ UNCHANGED listed
_upload_key(c)  == Sends(c, "key", NoProfile, "list") /\ UNCHANGED listed

\* Seeded fault: the domain is looked for the wrong way round, so that the
\* profile of a parent domain is taken as well.
MatchingReversed(d) ==
    {p \in Profiles : ref[p] = None \/ \E e \in Domains :
        <<NameOf[d], e>> \in Contains /\ ref[p] = NameOf[e]}

\* The profiles whose reference contains the domain, or is "none". An empty one
\* contains no domain, and is not "none".
Matching(d) == {p \in Profiles : ref[p] = None \/ <<ref[p], d>> \in Contains}

\* The listing; a failure of it is caught and gives no profile. Without
\* profiles the call is over, with "ok".
_find_ssl_profiles_for_domain(c) ==
    /\ pc[c] = "list"
    /\ \E found \in {Matching(domain[c]), {}} :
          /\ found = Matching(domain[c]) \/ Faults \cap {"refuse", "net"} # {}
          /\ listed' = [listed EXCEPT ![c] = found]
          /\ IF found = {} THEN Answer(c, "ok") ELSE Goto(c, "ref")
    /\ UNCHANGED <<kind, domain, late, devVars, met, kept, ref0>>

\* _update_profile_cert, for the next profile of the list.
_update_profile_cert(c) ==
    /\ pc[c] = "ref"
    /\ \E p \in listed[c] :
          /\ Applies(Request(c, "ref", p))
          /\ listed' = [listed EXCEPT ![c] = @ \ {p}]
          /\ IF listed[c] = {p} THEN Answer(c, "ok") ELSE Goto(c, "ref")
    /\ UNCHANGED <<kind, domain, late, met, kept, ref0>>

\* Exchange: [IO.File]::WriteAllBytes.
upload_script(c) ==
    domain[c] \notin Wild /\ Sends(c, "upload", NoProfile, "import") /\ UNCHANGED listed

\* Exchange: the import succeeds if the file is still the call's own.
import_script(c) ==
    /\ pc[c] = "import"
    /\ Imports(c)
    /\ IF Opens(c) THEN Goto(c, "remove") ELSE Answer(c, "error")
    /\ UNCHANGED <<kind, domain, listed, late, met, kept, ref0>>

\* Seeded fault: no clean-up.
cleanup_script_missing(c) ==
    /\ pc[c] = "remove" /\ Answer(c, "ok")
    /\ UNCHANGED <<kind, domain, listed, late, devVars, met, kept, ref0>>

\* Exchange: Remove-Item; its status is not looked at.
cleanup_script(c) ==
    /\ pc[c] = "remove"
    /\ Answer(c, "ok")
    /\ \/ Applies(Request(c, "remove", NoProfile)) /\ UNCHANGED kept
       \/ "refuse" \in Faults /\ kept' = kept \cup {c} /\ UNCHANGED devVars
    /\ UNCHANGED <<kind, domain, listed, late, met, ref0>>

\* Ivanti: the upload of the device certificate, and its good answer.
PostCertificate(c) == Sends(c, "post", NoProfile, "posted") /\ UNCHANGED listed

PostAnswered(c) ==
    /\ pc[c] = "posted" /\ Answer(c, "ok")
    /\ UNCHANGED <<kind, domain, listed, late, devVars, met, kept, ref0>>

\* Seeded fault: an error of the key's upload is not raised.
RefusedUnlessKey(c) ==
    /\ "refuse" \in Faults /\ pc[c] \in Whats \ {"remove"}
    /\ IF pc[c] = "key" THEN Goto(c, "list") ELSE Answer(c, "error")
    /\ UNCHANGED <<kind, domain, listed, late, devVars, met, kept, ref0>>

\* The device answers a request with an error: raise_for_status, or a status
\* code of PowerShell that is not 0.
Refused(c) ==
    /\ pc[c] \in Whats \ {"remove"}
    /\ "refuse" \in Faults \/ (pc[c] = "upload" /\ domain[c] \in Wild)
    /\ Answer(c, "error")
    /\ UNCHANGED <<kind, domain, listed, late, devVars, met, kept, ref0>>

\* The request that a call is about to send, or has just sent.
Pending(c) ==
    {Request(c, pc[c], p) : p \in IF pc[c] = "ref" THEN listed[c]
                                  ELSE IF pc[c] \in Whats THEN {NoProfile} ELSE {}}

\* A transport error: the call ends, whatever becomes of its request.
TransportFails(c) ==
    /\ "net" \in Faults
    /\ \E x \in Pending(c) : late' = late \cup {x}
    /\ Answer(c, "error")
    /\ UNCHANGED <<kind, domain, listed, devVars, met, kept, ref0>>

\* The device carries out a request that nobody waits for any more.
Lands(x) ==
    /\ x \in late /\ late' = late \ {x}
    /\ Applies(x)
    /\ UNCHANGED <<callVars, met, kept, ref0>>

\* The server process ends.
Crash ==
    /\ "crash" \in Faults /\ \E c \in Calls : InFlight(c)
    /\ pc' = [c \in Calls |-> IF InFlight(c) THEN "done" ELSE pc[c]]
    /\ res' = [c \in Calls |-> IF InFlight(c) THEN "lost" ELSE res[c]]
    /\ \E sent \in SUBSET {c \in Calls : InFlight(c)} :
          \E xs \in SUBSET UNION {Pending(c) : c \in sent} :
             /\ \A x, y \in xs : x.call = y.call => x = y
             /\ late' = late \cup xs
    /\ UNCHANGED <<kind, domain, listed, devVars, met, kept, ref0>>

Done == (\A c \in Calls : pc[c] = "done") /\ late = {} /\ UNCHANGED vars

Next ==
    \/ \E c \in Calls :
          \/ Call(c) \/ Prepare(c) \/ _upload_cert(c) \/ _upload_key(c)
          \/ _find_ssl_profiles_for_domain(c) \/ _update_profile_cert(c)
          \/ upload_script(c) \/ import_script(c) \/ cleanup_script(c)
          \/ PostCertificate(c) \/ PostAnswered(c) \/ Refused(c) \/ TransportFails(c)
    \/ \E x \in late : Lands(x)
    \/ Crash \/ Done

Spec == Init /\ [][Next]_vars

(***************************************************************************)
(* Properties.                                                             *)
(***************************************************************************)
Owners == Calls \cup {NoCall}

\* Every variable keeps its type.
TypeOK ==
    /\ kind \in Kinds /\ domain \in [Calls -> Domains]
    /\ pc \in [Calls -> {"new", "prepare", "list", "posted", "done"} \cup Whats]
    /\ res \in [Calls -> {"none", "ok", "error", "lost"}]
    /\ listed \in [Calls -> SUBSET Profiles]
    /\ late \subseteq [call : Calls, what : Whats, profile : Profiles \cup {NoProfile}]
    /\ cert \in [Objects -> Owners] /\ key \in [Objects -> Owners]
    /\ ref \in [Profiles -> References] /\ ref0 \in [Profiles -> References]
    /\ file \in [Domains -> Owners] /\ active \in Owners
    /\ installed \subseteq Calls /\ met \subseteq Calls /\ kept \subseteq Calls

\* F5: the certificate and the key under one name belong together, unless the
\* call that one of them comes from is between its uploads, failed, or
\* overlapped with another call for that name.
PairsMatch == \A o \in Objects :
    cert[o] # key[o] =>
        \E c \in {cert[o], key[o]} \cap Calls :
            pc[c] = "key" \/ res[c] \in {"error", "lost"} \/ c \in met

\* F5: a profile is only ever moved to the name of a domain that its first
\* reference contains, through any number of deployments of related domains.
ProfilesFollowTheirName == \A p \in Profiles :
    ref[p] # ref0[p] /\ ref0[p] # None =>
        \E d \in Domains : <<ref0[p], d>> \in Contains /\ ref[p] = NameOf[d]

\* Exchange: a PFX, with the private key in it, is left on the server only by a
\* call that is under way, that did not answer "ok", or whose clean-up the
\* server itself refused: never by another call of the same file name.
NoFileLeft == \A d \in Domains, c \in Calls :
    file[d] = c => InFlight(c) \/ res[c] \in {"error", "lost"} \/ c \in kept

Stage(c) == IF kind = "f5" \/ pc[c] = "new" THEN "new"
            ELSE IF pc[c] = "done" THEN "done" ELSE "open"

Target == INSTANCE DeployTarget WITH
    stage <- [c \in Calls |-> Stage(c)],
    res   <- [c \in Calls |-> IF kind = "f5" THEN "none" ELSE res[c]],
    took  <- installed

\* Ivanti and Exchange implement the promise of DeployTarget.deploy, however
\* calls overlap. (F5 does not: its two uploads are two moments.)
ImplementsTarget == Target!Spec
==============================================================================
