---------------------------- MODULE MCCrmOutbox ----------------------------
(***************************************************************************)
(* Two senders and the reports of two accounts, so that a batch can break  *)
(* off half way.  The backfill run declares the senders interchangeable;   *)
(* the run that also checks liveness may not.                              *)
(***************************************************************************)
EXTENDS CrmOutbox, TLC

CONSTANTS s1, s2

Interchangeable == Permutations({s1, s2})
=============================================================================
