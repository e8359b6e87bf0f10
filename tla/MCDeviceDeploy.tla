---------------------------- MODULE MCDeviceDeploy ---------------------------
(***************************************************************************)
(* Instances of DeviceDeploy: a domain and its wildcard, whose object name *)
(* contains the domain's, and a profile that may refer to either, to a     *)
(* foreign certificate or to none.                                         *)
(***************************************************************************)
EXTENDS DeviceDeploy

Base     == "example.com"
Wildcard == "*.example.com"

MCDomains  == {Base, Wildcard}
MCObjects  == {Base, "wildcard.example.com", "other"}
MCNameOf   == [d \in MCDomains |-> IF d = Wildcard THEN "wildcard.example.com" ELSE d]
MCContains == {<<Base, Base>>, <<"wildcard.example.com", Base>>,
               <<"wildcard.example.com", Wildcard>>}
==============================================================================
