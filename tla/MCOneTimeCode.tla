--------------------------- MODULE MCOneTimeCode ---------------------------
(* Two interchangeable handlers.                                            *)
EXTENDS OneTimeCode, TLC

CONSTANTS h1, h2

Interchangeable == Permutations({h1, h2})
=============================================================================
