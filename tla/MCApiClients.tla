---------------------------- MODULE MCApiClients ----------------------------
(***************************************************************************)
(* Instances of ApiClients for TLC: grants that name a route's resource,   *)
(* one for a resource and all below it, and one for everything.            *)
(***************************************************************************)
EXTENDS ApiClients, TLC

MCGrants == {
    Grant(<<"*">>, "manage"),
    Grant(<<"iot">>, "read"), Grant(<<"iot", "*">>, "read") }

MCResource == {<<"users">>, <<"iot">>, <<"iot", "dock">>, <<"api_clients">>}

Symmetry == Permutations(Call) \cup Permutations(Client)
=============================================================================
