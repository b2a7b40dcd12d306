------------------------------ MODULE MCWallet ------------------------------
(***************************************************************************)
(* Two accounts, an id without one, two handlers.  The amounts bring the   *)
(* balance to 0, to below 0 and past the largest int64 (MaxCents = 3); one *)
(* key is a request's own, the other is sent for two different wallets.    *)
(***************************************************************************)
EXTENDS Wallet

CONSTANTS alice, bob, stranger, k1, k2

MCUsers == {alice, bob}
MCStrangers == {stranger}
MCKeys == {k1, k2}

MCRequests ==
    { [caller |-> Service, user |-> alice, kind |-> "topup", cents |-> 2, key |-> k1],
      [caller |-> Service, user |-> alice, kind |-> "topup", cents |-> 2, key |-> NoKey],
      [caller |-> alice, user |-> None, kind |-> "debit", cents |-> 1, key |-> NoKey],
      [caller |-> alice, user |-> alice, kind |-> "debit", cents |-> 2, key |-> k2],
      [caller |-> Service, user |-> bob, kind |-> "topup", cents |-> 2, key |-> k2],
      [caller |-> Service, user |-> stranger, kind |-> "topup", cents |-> 1, key |-> NoKey],
      [caller |-> alice, user |-> bob, kind |-> "debit", cents |-> 1, key |-> NoKey] }
=============================================================================
