---------------------------- MODULE WalletLedger ----------------------------
(***************************************************************************)
(* What the wallet promises its callers: a balance per account and a set   *)
(* of idempotency keys that have been used up.  Money moves in one atomic  *)
(* step that keeps the balance within 0..MaxCents and never uses a key a   *)
(* second time.  Wallet.tla is shown to implement this specification.      *)
(***************************************************************************)
EXTENDS Integers

CONSTANTS Users,      \* the accounts that can own a wallet
          Keys,       \* idempotency keys a caller may send
          NoKey,      \* "no key": an empty idempotency_key
          MaxCents    \* the largest value a BIGINT column / int64 can hold

VARIABLES balance,    \* balance[u]: the cents u's wallet holds
          spent       \* the keys some applied movement carried

vars == <<balance, spent>>

Init ==
    /\ balance = [u \in Users |-> 0]
    /\ spent = {}

(* One movement of money: signed cents, never none, applied once per key.  *)
Move(u, cents, key) ==
    /\ cents # 0
    /\ key \notin spent
    /\ balance[u] + cents \in 0..MaxCents
    /\ balance' = [balance EXCEPT ![u] = @ + cents]
    /\ spent' = spent \cup ({key} \ {NoKey})

Next ==
    \E u \in Users, cents \in (-MaxCents)..MaxCents, key \in Keys \cup {NoKey} :
        Move(u, cents, key)

Spec == Init /\ [][Next]_vars
=============================================================================
