---------------------------- MODULE MCPropagation ----------------------------
(***************************************************************************)
(* Instances of Propagation: two valid nameservers and an invalid one. The *)
(* request names any of them, one of them twice, or none; the              *)
(* configuration two, none, or the invalid one.                            *)
(***************************************************************************)
EXTENDS Propagation

CONSTANTS ns1, ns2, private

OneServer   == <<ns2>>
AllConfigs  == {<<ns1, ns2>>, <<private>>, <<>>}
AllRequests == {<<>>, <<private>>, <<private, ns1>>, <<ns1, ns2>>, <<ns1, ns1>>}
==============================================================================
