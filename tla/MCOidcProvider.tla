--------------------------- MODULE MCOidcProvider ---------------------------
(***************************************************************************)
(* Instances of OidcProvider for TLC: a confidential client and a public   *)
(* one, each with a redirect URI of its own.                               *)
(***************************************************************************)
EXTENDS OidcProvider, TLC

CONSTANTS gitlab, spa, callback, local

MCClient == {gitlab, spa}
MCPublic == {spa}
MCURI == {callback, local}
MCRedirects == (gitlab :> {callback}) @@ (spa :> {local})

Symmetry == Permutations(Request) \cup Permutations(User) \cup Permutations(Verifier)
=============================================================================
