--------------------------- MODULE MCTokenGrants ---------------------------
(***************************************************************************)
(* One account, two clients, two scopes, two handlers, a code, a token    *)
(* from before family_id and two more to rotate into.                      *)
(***************************************************************************)
EXTENDS TokenGrants, TLC

CONSTANTS u1, c1, c2, read, write, k1, t0, t1, t2, h1, h2

Interchangeable == Permutations({t1, t2}) \cup Permutations({h1, h2})
=============================================================================
