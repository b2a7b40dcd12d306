----------------------------- MODULE MCAccounts -----------------------------
(***************************************************************************)
(* Two browsers; two mail addresses, two Telegram accounts and a handle;   *)
(* and an Iranian and an Omani line, whose numbers begin with their own    *)
(* calling codes, typed in each of the ways sms.Normalise is to read       *)
(* alike.                                                                  *)
(***************************************************************************)
EXTENDS PhoneDoor, TLC

CONSTANTS b1, b2, e1, e2, t1, t2, h1

MCLines ==
    {[dial |-> <<9, 8>>, national |-> <<9, 8, 1, 2, 3, 4, 5, 6, 7, 8>>],
     [dial |-> <<9, 6, 8>>, national |-> <<9, 6, 8, 1, 2, 3, 4, 5>>]}
MCTyped == UNION {Typing(line) : line \in MCLines}
MCCanon == [t \in MCTyped |-> Canonical(t)]

Interchangeable ==
    Permutations({b1, b2}) \cup Permutations({e1, e2}) \cup Permutations({t1, t2})
=============================================================================
