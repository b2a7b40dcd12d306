----------------------------- MODULE MCSessions -----------------------------
(* Two administrators, who are also the users signed in and out; two        *)
(* interchangeable handlers; wrong passwords are typed at one door.         *)
EXTENDS Sessions, TLC

CONSTANTS ann, bob, h1, h2

MCGuessed == {<<"signin", ann>>}
Interchangeable == Permutations({h1, h2})
=============================================================================
