----------------------------- MODULE MCCertStore -----------------------------
(***************************************************************************)
(* Instances of CertStore: two certificates, two targets, and the request  *)
(* bodies that differ in what they leave out.                              *)
(***************************************************************************)
EXTENDS CertStore

CONSTANTS c1, c2, t1, t2, stranger

Stores  == {[op |-> "store", cert |-> c] : c \in {c1, c2}}
Patches == {[op |-> "patch", targets |-> ts] : ts \in {{t1}, {stranger}}}
Deploys == {[op |-> "deploy", chain |-> c, key |-> k, targets |-> ts] :
                c \in {c1, None}, k \in {c1, None}, ts \in {None, {}, {t2, stranger}}}

AllBodies   == Stores \cup Patches \cup Deploys
NoStrangers == {b \in AllBodies : b.op = "store" \/ b.targets = None \/ stranger \notin b.targets}
==============================================================================
