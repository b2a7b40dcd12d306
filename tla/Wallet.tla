------------------------------- MODULE Wallet -------------------------------
(***************************************************************************)
(* The wallet: POST /api/v1/wallet/topup and /debit                        *)
(* (internal/server/wallet.go) and the transaction that moves the money    *)
(* (Store.Adjust in internal/store/store.go) over the tables wallets and   *)
(* wallet_transactions.                                                    *)
(*                                                                         *)
(* One step is one SQL statement of the transaction, run under READ        *)
(* COMMITTED.  What a transaction writes is private to it until it         *)
(* commits; the upsert takes the wallet's row lock and holds it to the     *)
(* end; the unique index on idempotency_key makes an INSERT wait for       *)
(* another open transaction that inserted the same key.  A handler can die *)
(* between any two statements, and a reply can be lost after the commit.   *)
(***************************************************************************)
EXTENDS Integers, Sequences

CONSTANTS Users,      \* the rows of users
          Strangers,  \* user ids a service may name that no row of users has
          Service,    \* the subject "client:..." of a service token
          Procs,      \* handlers, each on a database connection of its own
          Requests,   \* the request bodies the callers send (and send again)
          Keys,       \* idempotency keys
          NoKey,      \* an empty idempotency_key
          None,       \* no user_id in the body; no handler holds the row
          MaxCents,   \* largest int64: balances wrap past it
          MaxPosts    \* bound: no new call once the ledger holds this many rows

Request == [caller : Users \cup {Service},
            user   : Users \cup Strangers \cup {None},
            kind   : {"topup", "debit"},
            cents  : (-MaxCents)..MaxCents,
            key    : Keys \cup {NoKey}]

ASSUME WalletAssumption ==
    /\ MaxCents \in Nat
    /\ MaxPosts \in Nat
    /\ Requests \subseteq Request
    /\ Requests # {}
    /\ Users \cap Strangers = {}
    /\ Service \notin Users \cup Strangers \cup {None}
    /\ None \notin Users \cup Strangers \cup Procs
    /\ NoKey \notin Keys

VARIABLES opened,     \* users with a row in wallets
          balance,    \* committed balance_cents (0 where there is no row)
          ledger,     \* ledger[u]: committed wallet_transactions of u, by id
          lock,       \* lock[u]: the handler whose open transaction holds the row
          call,       \* call[p]: where handler p is, and what it read
          told        \* the 200 answers callers have received

vars == <<opened, balance, ledger, lock, call, told>>

Int64 == (-MaxCents - 1)..MaxCents

Entry == [cents : Int64, after : Int64, key : Keys \cup {NoKey}]
NoEntry == [cents |-> 0, after |-> 0, key |-> NoKey]

(* Go's int64 addition: the sum of two int64 values, wrapped once.         *)
UnwrappedAdd(x, y) == x + y
Add64(x, y) ==
    LET sum == x + y IN
    CASE sum > MaxCents      -> sum - 2 * (MaxCents + 1)
      [] sum < -MaxCents - 1 -> sum + 2 * (MaxCents + 1)
      [] OTHER               -> sum

(* The handler passes a positive amount and the endpoint gives the sign.   *)
Cents(r) == IF r.kind = "debit" THEN -r.cents ELSE r.cents

(* walletSubject: a user's token acts on its own wallet, a service's token *)
(* on the wallet it names.                                                 *)
Subject(r) == IF r.caller = Service THEN r.user ELSE r.caller

(* The refusals that end the handler before it reaches the database.       *)
Admitted(r) ==
    /\ r.cents > 0
    /\ r.caller = Service => r.user # None
    /\ r.caller # Service => r.user \in {None, r.caller}
    /\ r.kind = "topup" => r.caller = Service

Posted(key) == \E u \in Users : \E i \in DOMAIN ledger[u] : ledger[u][i].key = key

Idle == [pc |-> "idle", req |-> CHOOSE r \in Requests : TRUE,
         seen |-> 0, entry |-> NoEntry]

Owner(p) == Subject(call[p].req)

(* What becomes of a transaction that ends: the row lock is given up and   *)
(* the handler is done.                                                    *)
Finish(p) ==
    /\ lock' = [u \in Users |-> IF lock[u] = p THEN None ELSE lock[u]]
    /\ call' = [call EXCEPT ![p] = Idle]

Rollback(p) == Finish(p) /\ UNCHANGED <<opened, balance, ledger, told>>

Answer(p, entry) == told' = told \cup {[req |-> call[p].req, entry |-> entry]}

-----------------------------------------------------------------------------
Init ==
    /\ opened \in SUBSET Users
    /\ balance = [u \in Users |-> 0]
    /\ ledger = [u \in Users |-> << >>]
    /\ lock = [u \in Users |-> None]
    /\ call = [p \in Procs |-> Idle]
    /\ told = {}

(* A request is admitted and the transaction begins.  The same request may *)
(* come any number of times: that is what a caller's retry is.             *)
Begin(p, r) ==
    /\ call[p].pc = "idle"
    /\ Admitted(r)
    /\ \A u \in Users : Len(ledger[u]) < MaxPosts
    /\ call' = [call EXCEPT ![p].pc = "begun", ![p].req = r]
    /\ UNCHANGED <<opened, balance, ledger, lock, told>>

(* INSERT INTO wallets ... ON CONFLICT DO UPDATE: waits for the row, takes *)
(* its lock.  An id without an account fails on the foreign key.           *)
UpsertUnlocked(p) ==
    /\ call[p].pc = "begun"
    /\ Owner(p) \in Users
    /\ call' = [call EXCEPT ![p].pc = "locked"]
    /\ UNCHANGED <<opened, balance, ledger, lock, told>>

Upsert(p) ==
    /\ call[p].pc = "begun"
    /\ Owner(p) \in Users
    /\ lock[Owner(p)] = None
    /\ lock' = [lock EXCEPT ![Owner(p)] = p]
    /\ call' = [call EXCEPT ![p].pc = "locked"]
    /\ UNCHANGED <<opened, balance, ledger, told>>

UpsertUnknown(p) ==
    /\ call[p].pc = "begun"
    /\ Owner(p) \notin Users
    /\ Rollback(p)

(* SELECT balance_cents ... FOR UPDATE, on the row the upsert locked.      *)
ReadBalance(p) ==
    /\ call[p].pc = "locked"
    /\ call' = [call EXCEPT ![p].pc = "read", ![p].seen = balance[Owner(p)]]
    /\ UNCHANGED <<opened, balance, ledger, lock, told>>

NewBalance(p) == Add64(call[p].seen, Cents(call[p].req))

(* SELECT ... WHERE idempotency_key = $1 over every wallet's committed     *)
(* rows, then the balance check, which reads only what the handler holds.  *)
Replayable(p) == call[p].req.key # NoKey /\ Posted(call[p].req.key)

LookupHit(p) ==
    /\ call[p].pc = "read"
    /\ Replayable(p)
    /\ \E u \in Users : \E i \in DOMAIN ledger[u] :
          /\ ledger[u][i].key = call[p].req.key
          /\ call' = [call EXCEPT ![p].pc = "found", ![p].entry = ledger[u][i]]
    /\ UNCHANGED <<opened, balance, ledger, lock, told>>

LookupMissUnchecked(p) ==
    /\ call[p].pc = "read"
    /\ ~Replayable(p)
    /\ call' = [call EXCEPT ![p].pc = "posting"]
    /\ UNCHANGED <<opened, balance, ledger, lock, told>>

LookupMiss(p) ==
    /\ call[p].pc = "read"
    /\ ~Replayable(p)
    /\ NewBalance(p) >= 0
    /\ call' = [call EXCEPT ![p].pc = "posting"]
    /\ UNCHANGED <<opened, balance, ledger, lock, told>>

(* ErrInsufficientFunds: 402, and the deferred rollback.                   *)
Insufficient(p) ==
    /\ call[p].pc = "read"
    /\ ~Replayable(p)
    /\ NewBalance(p) < 0
    /\ Rollback(p)

(* UPDATE wallets and INSERT INTO wallet_transactions.  The unique index   *)
(* makes the INSERT wait while another open transaction has inserted the   *)
(* key, and fail (ErrDuplicate, a 500) when that one has committed.        *)
NewEntry(p) == [cents |-> Cents(call[p].req), after |-> NewBalance(p),
                key |-> call[p].req.key]

KeyTaken(p) ==
    /\ call[p].req.key # NoKey
    /\ \E q \in Procs \ {p} : call[q].pc = "posted" /\ call[q].req.key = call[p].req.key

PostUnindexed(p) ==
    /\ call[p].pc = "posting"
    /\ call' = [call EXCEPT ![p].pc = "posted", ![p].entry = NewEntry(p)]
    /\ UNCHANGED <<opened, balance, ledger, lock, told>>

Post(p) ==
    /\ call[p].pc = "posting"
    /\ ~KeyTaken(p)
    /\ ~Replayable(p)
    /\ call' = [call EXCEPT ![p].pc = "posted", ![p].entry = NewEntry(p)]
    /\ UNCHANGED <<opened, balance, ledger, lock, told>>

DuplicateLeavesTxOpen(p) ==
    /\ call[p].pc = "posting"
    /\ ~KeyTaken(p)
    /\ Replayable(p)
    /\ call' = [call EXCEPT ![p] = Idle]
    /\ UNCHANGED <<opened, balance, ledger, lock, told>>

Duplicate(p) ==
    /\ call[p].pc = "posting"
    /\ ~KeyTaken(p)
    /\ Replayable(p)
    /\ Rollback(p)

(* tx.Commit(): the upserted row, the new balance and the new entry become *)
(* visible together; a call that found its key commits only the row.  The  *)
(* reply reaches the caller or is lost.                                    *)
AnswerWithoutCommit(p) ==
    /\ call[p].pc = "posted"
    /\ Finish(p)
    /\ Answer(p, call[p].entry)
    /\ UNCHANGED <<opened, balance, ledger>>

CommitEntryOnly(p) ==
    /\ call[p].pc = "posted"
    /\ opened' = opened \cup {Owner(p)}
    /\ ledger' = [ledger EXCEPT ![Owner(p)] = Append(@, call[p].entry)]
    /\ Finish(p)
    /\ Answer(p, call[p].entry)
    /\ UNCHANGED balance

Commit(p) ==
    /\ call[p].pc = "posted"
    /\ opened' = opened \cup {Owner(p)}
    /\ balance' = [balance EXCEPT ![Owner(p)] = call[p].entry.after]
    /\ ledger' = [ledger EXCEPT ![Owner(p)] = Append(@, call[p].entry)]
    /\ Finish(p)
    /\ Answer(p, call[p].entry) \/ UNCHANGED told

CommitFound(p) ==
    /\ call[p].pc = "found"
    /\ opened' = opened \cup {Owner(p)}
    /\ Finish(p)
    /\ Answer(p, call[p].entry) \/ UNCHANGED told
    /\ UNCHANGED <<balance, ledger>>

(* The process dies, the connection breaks or the caller hangs up (which   *)
(* cancels the request's context): the open transaction is rolled back.    *)
Die(p) ==
    /\ call[p].pc # "idle"
    /\ Rollback(p)

(* WalletFor: GET /api/v1/wallet upserts the row in a statement of its own.*)
Read(u) ==
    /\ lock[u] = None
    /\ opened' = opened \cup {u}
    /\ UNCHANGED <<balance, ledger, lock, call, told>>

Step(p) ==
    \/ Upsert(p)
    \/ UpsertUnknown(p)
    \/ ReadBalance(p)
    \/ LookupHit(p)
    \/ LookupMiss(p)
    \/ Insufficient(p)
    \/ Post(p)
    \/ Duplicate(p)
    \/ Commit(p)
    \/ CommitFound(p)

Next ==
    \/ \E p \in Procs, r \in Requests : Begin(p, r)
    \/ \E p \in Procs : Step(p)
    \/ \E p \in Procs : Die(p)
    \/ \E u \in Users : Read(u)

Spec == Init /\ [][Next]_vars

(* A handler keeps running, and PostgreSQL grants a row lock or an index   *)
(* wait to those who queue for it: strong fairness of the statements that  *)
(* can wait.  Nobody has to begin a call, and nothing has to die.          *)
Fairness ==
    \A p \in Procs : /\ WF_vars(Step(p))
                     /\ SF_vars(Upsert(p))
                     /\ SF_vars(Post(p) \/ Duplicate(p))

FairSpec == Spec /\ Fairness

-----------------------------------------------------------------------------
PC == {"idle", "begun", "locked", "read", "found", "posting", "posted"}

(* Every variable holds a value of its column's or its Go variable's type; *)
(* a stored balance is an int64.                                           *)
TypeOK ==
    /\ opened \in SUBSET Users
    /\ balance \in [Users -> Int64]
    /\ ledger \in [Users -> Seq(Entry)]
    /\ lock \in [Users -> Procs \cup {None}]
    /\ call \in [Procs -> [pc : PC, req : Requests, seen : Int64, entry : Entry]]
    /\ told \in SUBSET [req : Requests, entry : Entry]

(* The balance a wallet had before the entry at position i of its ledger.  *)
Before(u, i) == IF i = 1 THEN 0 ELSE ledger[u][i - 1].after

(* "The ledger sums to the balance" (schema.sql): each entry's              *)
(* balance_after is the one before it plus its own amount, in true          *)
(* integers and with no wrap, and the wallet holds the last one, however    *)
(* concurrent calls, replies to retries and crashes interleave.             *)
BalanceIsLedger ==
    \A u \in Users :
        /\ \A i \in DOMAIN ledger[u] : ledger[u][i].after = Before(u, i) + ledger[u][i].cents
        /\ balance[u] = Before(u, Len(ledger[u]) + 1)

(* No wallet is ever overdrawn by concurrent debits, and a top-up past      *)
(* int64 is refused instead of wrapping to a debt (ErrInsufficientFunds).   *)
NeverOverdrawn == \A u \in Users : balance[u] >= 0

(* "Retrying a debit must not charge twice" (schema.sql): over all wallets  *)
(* one ledger row at most carries a given idempotency key, whatever is      *)
(* retried, in flight twice, or died before its reply.                      *)
KeyPostedOnce ==
    \A u, v \in Users : \A i \in DOMAIN ledger[u], j \in DOMAIN ledger[v] :
        ledger[u][i].key = ledger[v][j].key /\ ledger[u][i].key # NoKey => u = v /\ i = j

(* The caller's side of the bargain: a key stands for one movement of one   *)
(* wallet ("a stable key per request").                                     *)
StableKey(r) ==
    \A s \in Requests :
        Admitted(s) /\ s.key = r.key /\ r.key # NoKey =>
            Subject(s) = Subject(r) /\ Cents(s) = Cents(r)

(* A 200 answer to a call is the truth and stays so: the entry it shows is  *)
(* in the ledger of the wallet the call named, with the call's own amount   *)
(* and key, be it the first answer or one to a retry.                       *)
AnswerIsPosted ==
    \A t \in told : StableKey(t.req) =>
        /\ \E i \in DOMAIN ledger[Subject(t.req)] : ledger[Subject(t.req)][i] = t.entry
        /\ t.entry.cents = Cents(t.req)
        /\ t.entry.key = t.req.key

(* The wallet as the callers see it: one atomic movement at a time, each    *)
(* key spent once (WalletLedger).                                           *)
Promise == INSTANCE WalletLedger WITH
    spent <- {k \in Keys : Posted(k)}

ImplementsLedger == Promise!Spec

(* Every call ends: no two calls can wait for each other's wallet row and   *)
(* idempotency key for ever.                                                *)
CallsEnd == \A p \in Procs : call[p].pc # "idle" ~> call[p].pc = "idle"
=============================================================================
