---------------------------- MODULE WalletProofs ----------------------------
(***************************************************************************)
(* Proofs about Wallet for any accounts, handlers, requests and width of   *)
(* the balance: the safety invariants the model checker runs on a small    *)
(* instance, from one inductive invariant, and the refinement of           *)
(* WalletLedger.                                                           *)
(***************************************************************************)
EXTENDS Wallet, TLAPS

(* The statements between which a transaction holds the row of its wallet. *)
Holding == {"locked", "read", "found", "posting", "posted"}

(* A transaction past its upsert holds the row lock of its own wallet: the *)
(* key to everything below, for a row has one holder.                      *)
HoldsRow ==
    \A p \in Procs : call[p].pc \in Holding => Owner(p) \in Users /\ lock[Owner(p)] = p

(* Only admitted requests run.                                             *)
RunsAdmitted == \A p \in Procs : call[p].pc # "idle" => Admitted(call[p].req)

(* What SELECT ... FOR UPDATE returned is still the committed balance.     *)
SeenIsCurrent ==
    \A p \in Procs :
        call[p].pc \in {"read", "found", "posting", "posted"} =>
            call[p].seen = balance[Owner(p)]

(* A transaction past the balance check leaves no debt.                    *)
Covered == \A p \in Procs : call[p].pc \in {"posting", "posted"} => NewBalance(p) >= 0

(* An inserted but uncommitted entry: what it says, and that its key is    *)
(* neither in a committed row nor in another open transaction's.           *)
InsertedEntry ==
    \A p \in Procs : call[p].pc = "posted" =>
        /\ call[p].entry = NewEntry(p)
        /\ call[p].req.key # NoKey => ~Posted(call[p].req.key)

InsertedKeysDiffer ==
    \A p, q \in Procs :
        /\ call[p].pc = "posted" /\ call[q].pc = "posted"
        /\ call[p].req.key = call[q].req.key
        /\ call[p].req.key # NoKey
        => p = q

(* A found entry is a committed one with the call's key.                   *)
FoundEntry ==
    \A p \in Procs : call[p].pc = "found" =>
        /\ call[p].req.key # NoKey
        /\ \E u \in Users : \E i \in DOMAIN ledger[u] :
              /\ ledger[u][i] = call[p].entry
              /\ ledger[u][i].key = call[p].req.key

(* Every keyed row was posted for an admitted request with that key.       *)
RowHasRequest ==
    \A u \in Users : \A i \in DOMAIN ledger[u] : ledger[u][i].key # NoKey =>
        \E r \in Requests : /\ Admitted(r)
                            /\ r.key = ledger[u][i].key
                            /\ Subject(r) = u
                            /\ Cents(r) = ledger[u][i].cents

ToldUsers == \A t \in told : Subject(t.req) \in Users

TxInv == HoldsRow /\ RunsAdmitted /\ SeenIsCurrent /\ Covered
KeyInv == KeyPostedOnce /\ InsertedEntry /\ InsertedKeysDiffer
AnswerInv == FoundEntry /\ RowHasRequest /\ ToldUsers /\ AnswerIsPosted

IInv == TypeOK /\ TxInv /\ BalanceIsLedger /\ NeverOverdrawn /\ KeyInv /\ AnswerInv

-----------------------------------------------------------------------------
(* The amount of any request is an int64 whose magnitude MaxCents bounds.  *)
LEMMA CentsRange ==
    ASSUME NEW r \in Requests
    PROVE  Cents(r) \in (-MaxCents)..MaxCents /\ Cents(r) \in Int64
<1>1. r \in Request /\ MaxCents \in Nat
  BY WalletAssumption
<1>2. QED
  BY <1>1 DEF Cents, Request, Int64

(* Int64 addition stays within int64.                                      *)
LEMMA Add64Type ==
    ASSUME NEW x \in Int64, NEW y \in Int64
    PROVE  Add64(x, y) \in Int64
BY WalletAssumption DEF Add64, Int64

(* Adding to a balance that is no debt, a result that is no debt is exact: *)
(* had the sum wrapped, it would be negative.                              *)
LEMMA Add64Exact ==
    ASSUME NEW x \in 0..MaxCents, NEW y \in (-MaxCents)..MaxCents, Add64(x, y) >= 0
    PROVE  Add64(x, y) = x + y
BY WalletAssumption DEF Add64

(* The idle handler is well typed: there is a request to remember.         *)
LEMMA IdleType == Idle \in [pc : PC, req : Requests, seen : Int64, entry : Entry] /\ Idle.pc = "idle"
<1>1. (CHOOSE r \in Requests : TRUE) \in Requests
  BY WalletAssumption
<1>2. 0 \in Int64
  BY WalletAssumption DEF Int64
<1>3. QED
  BY <1>1, <1>2 DEF Idle, PC, NoEntry, Entry

(* So are the balance and the entry a handler computes.                    *)
LEMMA NewEntryType ==
    ASSUME TypeOK, NEW p \in Procs
    PROVE  NewBalance(p) \in Int64 /\ NewEntry(p) \in Entry
<1>1. call[p].seen \in Int64 /\ call[p].req \in Requests
  BY DEF TypeOK
<1>2. Cents(call[p].req) \in Int64
  BY <1>1, CentsRange
<1>3. NewBalance(p) \in Int64
  BY <1>1, <1>2, Add64Type DEF NewBalance
<1>4. call[p].req.key \in Keys \cup {NoKey}
  BY <1>1, WalletAssumption DEF Request
<1>5. QED
  BY <1>2, <1>3, <1>4 DEF NewEntry, Entry

(* Every step keeps the types.                                             *)
LEMMA TypeStep == IInv /\ [Next]_vars => TypeOK'
<1> SUFFICES ASSUME IInv, [Next]_vars PROVE TypeOK'
  OBVIOUS
<1>t. TypeOK /\ HoldsRow
  BY DEF IInv, TxInv
<1>f. ASSUME NEW p \in Procs, Finish(p)
      PROVE  /\ lock' \in [Users -> Procs \cup {None}]
             /\ call' \in [Procs -> [pc : PC, req : Requests, seen : Int64, entry : Entry]]
  BY <1>t, <1>f, IdleType DEF Finish, TypeOK
<1>1. ASSUME NEW p \in Procs, NEW r \in Requests, Begin(p, r) PROVE TypeOK'
  BY <1>t, <1>1 DEF Begin, TypeOK, PC
<1>2. ASSUME NEW p \in Procs, Upsert(p) PROVE TypeOK'
  BY <1>t, <1>2 DEF Upsert, TypeOK, PC
<1>3. ASSUME NEW p \in Procs, Rollback(p) PROVE TypeOK'
  BY <1>t, <1>3, <1>f DEF Rollback, TypeOK
<1>4. ASSUME NEW p \in Procs, ReadBalance(p) PROVE TypeOK'
  <2>1. balance[Owner(p)] \in Int64
    BY <1>t, <1>4 DEF ReadBalance, HoldsRow, Holding, TypeOK
  <2>2. QED
    BY <1>t, <1>4, <2>1 DEF ReadBalance, TypeOK, PC
<1>5. ASSUME NEW p \in Procs, LookupHit(p) PROVE TypeOK'
  <2>1. \A u \in Users : \A i \in DOMAIN ledger[u] : ledger[u][i] \in Entry
    BY <1>t DEF TypeOK
  <2>2. PICK e \in Entry : call' = [call EXCEPT ![p].pc = "found", ![p].entry = e]
    BY <1>5, <2>1 DEF LookupHit
  <2>3. call' \in [Procs -> [pc : PC, req : Requests, seen : Int64, entry : Entry]]
    BY <1>t, <2>2 DEF TypeOK, PC
  <2>4. UNCHANGED <<opened, balance, ledger, lock, told>>
    BY <1>5 DEF LookupHit
  <2>5. QED
    BY <1>t, <2>3, <2>4 DEF TypeOK
<1>6. ASSUME NEW p \in Procs, LookupMiss(p) PROVE TypeOK'
  BY <1>t, <1>6 DEF LookupMiss, TypeOK, PC
<1>7. ASSUME NEW p \in Procs, Post(p) PROVE TypeOK'
  BY <1>t, <1>7, NewEntryType DEF Post, TypeOK, PC
<1>8. ASSUME NEW p \in Procs, Commit(p) PROVE TypeOK'
  <2>1. Owner(p) \in Users /\ call[p].entry \in Entry /\ call[p].req \in Requests
    BY <1>t, <1>8 DEF Commit, HoldsRow, Holding, TypeOK
  <2>2. call[p].entry.after \in Int64
    BY <2>1 DEF Entry
  <2>3. ledger' \in [Users -> Seq(Entry)]
    BY <1>t, <1>8, <2>1 DEF Commit, TypeOK
  <2>4. balance' \in [Users -> Int64] /\ opened' \in SUBSET Users
    BY <1>t, <1>8, <2>1, <2>2 DEF Commit, TypeOK
  <2>5. told' \in SUBSET [req : Requests, entry : Entry]
    BY <1>t, <1>8, <2>1 DEF Commit, Answer, TypeOK
  <2>6. QED
    BY <1>f, <1>8, <2>3, <2>4, <2>5 DEF Commit, TypeOK
<1>9. ASSUME NEW p \in Procs, CommitFound(p) PROVE TypeOK'
  <2>1. Owner(p) \in Users /\ call[p].entry \in Entry /\ call[p].req \in Requests
    BY <1>t, <1>9 DEF CommitFound, HoldsRow, Holding, TypeOK
  <2>2. QED
    BY <1>f, <1>t, <1>9, <2>1 DEF CommitFound, Answer, TypeOK
<1>10. ASSUME NEW u \in Users, Read(u) PROVE TypeOK'
  BY <1>t, <1>10 DEF Read, TypeOK
<1>11. CASE UNCHANGED vars
  BY <1>t, <1>11 DEF vars, TypeOK
<1>12. QED
  BY <1>1, <1>2, <1>3, <1>4, <1>5, <1>6, <1>7, <1>8, <1>9, <1>10, <1>11
  DEF Next, Step, UpsertUnknown, Insufficient, Duplicate, Die

-----------------------------------------------------------------------------
(* Who holds what: a step of one handler leaves the row, the request and   *)
(* the balance another handler has read as they are.                       *)
LEMMA TxStep == IInv /\ [Next]_vars => TxInv'
<1> SUFFICES ASSUME IInv, [Next]_vars PROVE TxInv'
  OBVIOUS
<1> USE DEF TxInv, HoldsRow, Holding, RunsAdmitted, SeenIsCurrent, Covered, Owner, NewBalance
<1>t. TypeOK /\ TxInv /\ None \notin Procs
  BY WalletAssumption DEF IInv
<1>f. ASSUME NEW p \in Procs, Finish(p),
             \A u \in Users : lock[u] # p => balance'[u] = balance[u]
      PROVE  TxInv'
  <2>1. call'[p].pc = "idle" /\ \A q \in Procs \ {p} : call'[q] = call[q]
    BY <1>t, <1>f, IdleType DEF Finish, TypeOK
  <2>2. \A u \in Users : lock[u] # p => lock'[u] = lock[u]
    BY <1>t, <1>f DEF Finish
  <2>3. QED
    BY <1>t, <1>f, <2>1, <2>2
<1>1. ASSUME NEW p \in Procs, NEW r \in Requests, Begin(p, r) PROVE TxInv'
  BY <1>t, <1>1 DEF Begin, TypeOK
<1>2. ASSUME NEW p \in Procs, Upsert(p) PROVE TxInv'
  BY <1>t, <1>2 DEF Upsert, TypeOK
<1>3. ASSUME NEW p \in Procs, Rollback(p) PROVE TxInv'
  BY <1>f, <1>3 DEF Rollback
<1>4. ASSUME NEW p \in Procs, ReadBalance(p) PROVE TxInv'
  BY <1>t, <1>4 DEF ReadBalance, TypeOK
<1>5. ASSUME NEW p \in Procs, LookupHit(p) PROVE TxInv'
  <2>1. PICK e : call' = [call EXCEPT ![p].pc = "found", ![p].entry = e]
    BY <1>5 DEF LookupHit
  <2>2. call[p].pc = "read" /\ UNCHANGED <<lock, balance>>
    BY <1>5 DEF LookupHit
  <2>3. QED
    BY <1>t, <2>1, <2>2 DEF TypeOK
<1>6. ASSUME NEW p \in Procs, LookupMiss(p) PROVE TxInv'
  BY <1>t, <1>6 DEF LookupMiss, TypeOK
<1>7. ASSUME NEW p \in Procs, Post(p) PROVE TxInv'
  BY <1>t, <1>7 DEF Post, TypeOK
<1>8. ASSUME NEW p \in Procs, Commit(p) PROVE TxInv'
  <2>1. lock[Owner(p)] = p /\ Finish(p)
    BY <1>t, <1>8 DEF Commit
  <2>2. \A u \in Users : lock[u] # p => balance'[u] = balance[u]
    BY <1>t, <1>8, <2>1 DEF Commit, TypeOK
  <2>3. QED
    BY <1>f, <2>1, <2>2
<1>9. ASSUME NEW p \in Procs, CommitFound(p) PROVE TxInv'
  BY <1>f, <1>9 DEF CommitFound
<1>10. ASSUME NEW u \in Users, Read(u) PROVE TxInv'
  BY <1>t, <1>10 DEF Read
<1>11. CASE UNCHANGED vars
  BY <1>t, <1>11 DEF vars
<1>12. QED
  BY <1>1, <1>2, <1>3, <1>4, <1>5, <1>6, <1>7, <1>8, <1>9, <1>10, <1>11
  DEF Next, Step, UpsertUnknown, Insufficient, Duplicate, Die

-----------------------------------------------------------------------------
(* Only Commit touches the ledger and the balances.                        *)
LEMMA OnlyCommitWrites ==
    ASSUME [Next]_vars, \A p \in Procs : ~Commit(p)
    PROVE  UNCHANGED <<balance, ledger>>
BY DEF Next, vars, Step, Begin, Upsert, UpsertUnknown, ReadBalance, LookupHit, LookupMiss,
       Insufficient, Post, Duplicate, CommitFound, Die, Read, Rollback

(* The entry a commit appends continues the chain of its wallet exactly.   *)
LEMMA CommittedEntry ==
    ASSUME IInv, NEW p \in Procs, call[p].pc = "posted"
    PROVE  /\ Owner(p) \in Users
           /\ call[p].entry \in Entry
           /\ call[p].entry.key = call[p].req.key
           /\ call[p].entry.cents = Cents(call[p].req)
           /\ call[p].entry.cents \in (-MaxCents)..MaxCents \ {0}
           /\ call[p].entry.after = balance[Owner(p)] + call[p].entry.cents
           /\ call[p].entry.after \in 0..MaxCents
<1>1. TypeOK /\ TxInv /\ NeverOverdrawn /\ KeyInv
  BY DEF IInv
<1>2. Owner(p) \in Users /\ call[p].seen = balance[Owner(p)] /\ NewBalance(p) >= 0
  BY <1>1 DEF TxInv, HoldsRow, Holding, SeenIsCurrent, Covered
<1>3. call[p].entry = NewEntry(p) /\ NewEntry(p) \in Entry
  BY <1>1, NewEntryType DEF KeyInv, InsertedEntry
<1>4. call[p].seen \in 0..MaxCents
  BY <1>1, <1>2, WalletAssumption DEF TypeOK, NeverOverdrawn, Int64
<1>5. Cents(call[p].req) \in (-MaxCents)..MaxCents \ {0}
  <2>1. call[p].req.cents > 0
    BY <1>1 DEF TxInv, RunsAdmitted, Admitted
  <2>2. call[p].req \in Requests /\ call[p].req.cents \in Int
    BY <1>1, WalletAssumption DEF TypeOK, Request
  <2>3. QED
    BY <2>1, <2>2, CentsRange DEF Cents
<1>6. NewBalance(p) = call[p].seen + Cents(call[p].req)
  BY <1>2, <1>4, <1>5, Add64Exact DEF NewBalance
<1>7. NewBalance(p) \in 0..MaxCents
  BY <1>1, <1>2, NewEntryType, WalletAssumption DEF Int64
<1>8. QED
  BY <1>2, <1>3, <1>5, <1>6, <1>7 DEF NewEntry

(* What a commit does to the two tables.                                   *)
LEMMA CommitEffect ==
    ASSUME IInv, NEW p \in Procs, Commit(p)
    PROVE  /\ \A u \in Users \ {Owner(p)} : balance'[u] = balance[u] /\ ledger'[u] = ledger[u]
           /\ balance'[Owner(p)] = call[p].entry.after
           /\ Len(ledger'[Owner(p)]) = Len(ledger[Owner(p)]) + 1
           /\ DOMAIN ledger'[Owner(p)] = 1..(Len(ledger[Owner(p)]) + 1)
           /\ DOMAIN ledger[Owner(p)] = 1..Len(ledger[Owner(p)])
           /\ Len(ledger[Owner(p)]) \in Nat
           /\ \A i \in DOMAIN ledger[Owner(p)] : ledger'[Owner(p)][i] = ledger[Owner(p)][i]
           /\ ledger'[Owner(p)][Len(ledger[Owner(p)]) + 1] = call[p].entry
<1>1. Owner(p) \in Users /\ call[p].entry \in Entry
  BY CommittedEntry DEF Commit
<1>2. TypeOK
  BY DEF IInv
<1>3. ledger'[Owner(p)] = Append(ledger[Owner(p)], call[p].entry) /\ ledger[Owner(p)] \in Seq(Entry)
  BY <1>1, <1>2 DEF Commit, TypeOK
<1>4. QED
  BY <1>1, <1>2, <1>3 DEF Commit, TypeOK

(* A commit extends the ledger by the balance it writes; nothing else does. *)
LEMMA LedgerStep == IInv /\ [Next]_vars => BalanceIsLedger' /\ NeverOverdrawn'
<1> SUFFICES ASSUME IInv, [Next]_vars PROVE BalanceIsLedger' /\ NeverOverdrawn'
  OBVIOUS
<1>t. TypeOK /\ BalanceIsLedger /\ NeverOverdrawn
  BY DEF IInv
<1>1. ASSUME NEW p \in Procs, Commit(p) PROVE BalanceIsLedger' /\ NeverOverdrawn'
  <2>0. PICK o, n, e : o = Owner(p) /\ n = Len(ledger[o]) /\ e = call[p].entry
    OBVIOUS
  <2>1. /\ o \in Users
        /\ e.after = balance[o] + e.cents
        /\ e.after \in 0..MaxCents
    BY <1>1, <2>0, CommittedEntry DEF Commit
  <2>2. /\ \A u \in Users \ {o} : balance'[u] = balance[u] /\ ledger'[u] = ledger[u]
        /\ balance'[o] = e.after
        /\ Len(ledger'[o]) = n + 1
        /\ DOMAIN ledger'[o] = 1..(n + 1)
        /\ DOMAIN ledger[o] = 1..n
        /\ n \in Nat
        /\ \A i \in DOMAIN ledger[o] : ledger'[o][i] = ledger[o][i]
        /\ ledger'[o][n + 1] = e
    BY <1>1, <2>0, CommitEffect
  <2>3. NeverOverdrawn'
    BY <1>t, <2>1, <2>2 DEF NeverOverdrawn
  <2>4. ASSUME NEW u \in Users \ {o}
        PROVE  /\ \A i \in DOMAIN ledger'[u] : ledger'[u][i].after = Before(u, i)' + ledger'[u][i].cents
               /\ balance'[u] = Before(u, Len(ledger[u]) + 1)'
    BY <1>t, <2>2 DEF BalanceIsLedger, Before
  <2>5. ASSUME NEW i \in DOMAIN ledger'[o]
        PROVE  ledger'[o][i].after = Before(o, i)' + ledger'[o][i].cents
    <3>1. CASE i \in 1..n
      <4>1. ledger[o][i].after = Before(o, i) + ledger[o][i].cents
        BY <2>1, <2>2, <3>1, <1>t DEF BalanceIsLedger
      <4>2. Before(o, i)' = Before(o, i)
        <5>1. CASE i = 1
          BY <5>1 DEF Before
        <5>2. CASE i # 1
          <6>1. i - 1 \in 1..n
            BY <2>2, <3>1, <5>2
          <6>2. QED
            BY <2>2, <5>2, <6>1 DEF Before
        <5>3. QED
          BY <5>1, <5>2
      <4>3. QED
        BY <2>2, <3>1, <4>1, <4>2
    <3>2. CASE i = n + 1
      <4>1. balance[o] = Before(o, n + 1)
        BY <1>t, <2>0, <2>1 DEF BalanceIsLedger
      <4>2. Before(o, n + 1)' = Before(o, n + 1)
        <5>1. CASE n = 0
          BY <5>1 DEF Before
        <5>2. CASE n # 0
          <6>1. n \in 1..n /\ n + 1 # 1 /\ (n + 1) - 1 = n
            BY <2>2, <5>2
          <6>2. ledger'[o][n] = ledger[o][n]
            BY <2>2, <6>1
          <6>3. QED
            BY <6>1, <6>2 DEF Before
        <5>3. QED
          BY <5>1, <5>2
      <4>3. QED
        BY <2>1, <2>2, <3>2, <4>1, <4>2
    <3>3. QED
      BY <2>2, <2>5, <3>1, <3>2
  <2>6. balance'[o] = Before(o, Len(ledger[o]) + 1)'
    BY <2>1, <2>2 DEF Before
  <2>7. BalanceIsLedger'
    BY <2>4, <2>5, <2>6 DEF BalanceIsLedger
  <2>8. QED
    BY <2>3, <2>7
<1>2. CASE \A p \in Procs : ~Commit(p)
  BY <1>t, <1>2, OnlyCommitWrites DEF BalanceIsLedger, NeverOverdrawn, Before
<1>3. QED
  BY <1>1, <1>2

-----------------------------------------------------------------------------
(* A commit adds its own key to the posted ones and no other.              *)
LEMMA PostedByCommit ==
    ASSUME IInv, NEW p \in Procs, Commit(p)
    PROVE  \A k : Posted(k)' <=> Posted(k) \/ k = call[p].entry.key
<1>0. PICK o, n, e : o = Owner(p) /\ n = Len(ledger[o]) /\ e = call[p].entry
  OBVIOUS
<1>1. o \in Users
  BY <1>0, CommittedEntry DEF Commit
<1>2. /\ \A u \in Users \ {o} : ledger'[u] = ledger[u]
      /\ DOMAIN ledger'[o] = 1..(n + 1)
      /\ DOMAIN ledger[o] = 1..n
      /\ n \in Nat
      /\ \A i \in DOMAIN ledger[o] : ledger'[o][i] = ledger[o][i]
      /\ ledger'[o][n + 1] = e
  BY <1>0, CommitEffect
<1>3. ASSUME NEW k, Posted(k)' PROVE Posted(k) \/ k = e.key
  <2>1. PICK u \in Users : \E i \in DOMAIN ledger'[u] : ledger'[u][i].key = k
    BY <1>3 DEF Posted
  <2>2. PICK i \in DOMAIN ledger'[u] : ledger'[u][i].key = k
    BY <2>1
  <2>3. CASE u = o /\ i = n + 1
    BY <1>2, <2>2, <2>3
  <2>4. CASE ~(u = o /\ i = n + 1)
    <3>1. i \in DOMAIN ledger[u] /\ ledger[u][i] = ledger'[u][i]
      BY <1>2, <2>4
    <3>2. QED
      BY <2>2, <3>1 DEF Posted
  <2>5. QED
    BY <2>3, <2>4
<1>4. ASSUME NEW k, Posted(k) PROVE Posted(k)'
  <2>1. PICK u \in Users : \E i \in DOMAIN ledger[u] : ledger[u][i].key = k
    BY <1>4 DEF Posted
  <2>2. PICK i \in DOMAIN ledger[u] : ledger[u][i].key = k
    BY <2>1
  <2>3. i \in DOMAIN ledger'[u] /\ ledger[u][i] = ledger'[u][i]
    BY <1>2
  <2>4. QED
    BY <2>2, <2>3 DEF Posted
<1>5. Posted(e.key)'
  <2>1. n + 1 \in DOMAIN ledger'[o] /\ ledger'[o][n + 1].key = e.key
    BY <1>2
  <2>2. QED
    BY <1>1, <2>1 DEF Posted
<1>6. QED
  BY <1>0, <1>3, <1>4, <1>5

(* The unique index keeps every key to one row, committed or about to be.  *)
LEMMA KeyStep == IInv /\ [Next]_vars => KeyInv'
<1> SUFFICES ASSUME IInv, [Next]_vars PROVE KeyInv'
  OBVIOUS
<1>t. TypeOK /\ KeyInv
  BY DEF IInv
<1>f. ASSUME UNCHANGED ledger,
             \A q \in Procs : call'[q].pc = "posted" => call'[q] = call[q]
      PROVE  KeyInv'
  <2>1. KeyPostedOnce' /\ \A k : Posted(k)' <=> Posted(k)
    BY <1>t, <1>f DEF KeyInv, KeyPostedOnce, Posted
  <2>2. InsertedEntry'
    BY <1>t, <1>f, <2>1 DEF KeyInv, InsertedEntry, NewEntry, NewBalance
  <2>3. InsertedKeysDiffer'
    BY <1>t, <1>f DEF KeyInv, InsertedKeysDiffer
  <2>4. QED
    BY <2>1, <2>2, <2>3 DEF KeyInv
<1>1. ASSUME NEW p \in Procs, NEW r \in Requests, Begin(p, r) PROVE KeyInv'
  BY <1>t, <1>f, <1>1 DEF Begin, TypeOK
<1>2. ASSUME NEW p \in Procs, Upsert(p) PROVE KeyInv'
  BY <1>t, <1>f, <1>2 DEF Upsert, TypeOK
<1>3. ASSUME NEW p \in Procs, Rollback(p) PROVE KeyInv'
  BY <1>t, <1>f, <1>3, IdleType DEF Rollback, Finish, TypeOK
<1>4. ASSUME NEW p \in Procs, ReadBalance(p) PROVE KeyInv'
  BY <1>t, <1>f, <1>4 DEF ReadBalance, TypeOK
<1>5. ASSUME NEW p \in Procs, LookupHit(p) PROVE KeyInv'
  <2>1. PICK e : call' = [call EXCEPT ![p].pc = "found", ![p].entry = e]
    BY <1>5 DEF LookupHit
  <2>2. UNCHANGED ledger
    BY <1>5 DEF LookupHit
  <2>3. QED
    BY <1>t, <1>f, <2>1, <2>2 DEF TypeOK
<1>6. ASSUME NEW p \in Procs, LookupMiss(p) PROVE KeyInv'
  BY <1>t, <1>f, <1>6 DEF LookupMiss, TypeOK
<1>7. ASSUME NEW p \in Procs, Post(p) PROVE KeyInv'
  <2>1. /\ call'[p] = [call[p] EXCEPT !.pc = "posted", !.entry = NewEntry(p)]
        /\ \A q \in Procs \ {p} : call'[q] = call[q]
        /\ UNCHANGED ledger
    BY <1>t, <1>7 DEF Post, TypeOK
  <2>2. /\ call'[p].req = call[p].req
        /\ call'[p].seen = call[p].seen
        /\ call'[p].entry = NewEntry(p)
    BY <1>t, <2>1 DEF TypeOK
  <2>3. KeyPostedOnce' /\ \A k : Posted(k)' <=> Posted(k)
    BY <1>t, <2>1 DEF KeyInv, KeyPostedOnce, Posted
  <2>4. NewEntry(p)' = NewEntry(p)
    BY <2>2 DEF NewEntry, NewBalance
  <2>5. ASSUME NEW q \in Procs, q # p, call'[q].pc = "posted"
        PROVE  /\ call'[q].entry = NewEntry(q)'
               /\ call'[q].req.key # NoKey => ~Posted(call[q].req.key)'
    <3>1. call'[q] = call[q]
      BY <2>1, <2>5
    <3>2. call[q].entry = NewEntry(q) /\ (call[q].req.key # NoKey => ~Posted(call[q].req.key))
      BY <1>t, <2>5, <3>1 DEF KeyInv, InsertedEntry
    <3>3. NewEntry(q)' = NewEntry(q)
      BY <3>1 DEF NewEntry, NewBalance
    <3>4. PICK k : k = call[q].req.key
      OBVIOUS
    <3>5. k # NoKey => ~Posted(k)'
      BY <2>3, <3>2, <3>4
    <3>6. QED
      BY <3>1, <3>2, <3>3, <3>4, <3>5
  <2>6. /\ call'[p].entry = NewEntry(p)'
        /\ call'[p].req.key # NoKey => ~Posted(call[p].req.key)'
    <3>1. PICK k : k = call[p].req.key
      OBVIOUS
    <3>2. k # NoKey => ~Posted(k)'
      BY <1>7, <2>3, <3>1 DEF Post, Replayable
    <3>3. QED
      BY <2>2, <2>4, <3>1, <3>2
  <2>9. InsertedEntry'
    BY <2>5, <2>6 DEF InsertedEntry
  <2>7. InsertedKeysDiffer'
    <3>1. ASSUME NEW q \in Procs, q # p, call'[q].pc = "posted", call[p].req.key # NoKey
          PROVE  call'[q].req.key # call'[p].req.key
      BY <1>7, <2>1, <2>2, <3>1 DEF Post, KeyTaken
    <3>2. ASSUME NEW q \in Procs, q # p, NEW r \in Procs, r # p,
                 call'[q].pc = "posted", call'[r].pc = "posted",
                 call'[q].req.key = call'[r].req.key, call'[q].req.key # NoKey
          PROVE  q = r
      BY <1>t, <2>1, <3>2 DEF KeyInv, InsertedKeysDiffer
    <3>3. QED
      BY <2>2, <3>1, <3>2 DEF InsertedKeysDiffer
  <2>8. QED
    BY <2>3, <2>7, <2>9 DEF KeyInv
<1>8. ASSUME NEW p \in Procs, Commit(p) PROVE KeyInv'
  <2>0. PICK o, n, e : o = Owner(p) /\ n = Len(ledger[o]) /\ e = call[p].entry
    OBVIOUS
  <2>1. o \in Users /\ e.key = call[p].req.key /\ call[p].pc = "posted"
    BY <1>8, <2>0, CommittedEntry DEF Commit
  <2>2. /\ \A u \in Users \ {o} : ledger'[u] = ledger[u]
        /\ DOMAIN ledger'[o] = 1..(n + 1)
        /\ DOMAIN ledger[o] = 1..n
        /\ n \in Nat
        /\ \A i \in DOMAIN ledger[o] : ledger'[o][i] = ledger[o][i]
        /\ ledger'[o][n + 1] = e
    BY <1>8, <2>0, CommitEffect
  <2>3. e.key # NoKey => ~Posted(e.key)
    BY <1>t, <2>1 DEF KeyInv, InsertedEntry
  <2>4. KeyPostedOnce'
    <3> SUFFICES ASSUME NEW u \in Users, NEW v \in Users,
                        NEW i \in DOMAIN ledger'[u], NEW j \in DOMAIN ledger'[v],
                        ledger'[u][i].key = ledger'[v][j].key, ledger'[u][i].key # NoKey
                 PROVE  u = v /\ i = j
      BY DEF KeyPostedOnce
    <3>1. ASSUME NEW w \in Users, NEW k \in DOMAIN ledger'[w], ~(w = o /\ k = n + 1)
          PROVE  k \in DOMAIN ledger[w] /\ ledger'[w][k] = ledger[w][k]
      BY <2>2, <3>1
    <3>2. ASSUME NEW w \in Users, NEW k \in DOMAIN ledger'[w], ~(w = o /\ k = n + 1),
                 e.key # NoKey
          PROVE  ledger'[w][k].key # e.key
      BY <2>3, <3>1, <3>2 DEF Posted
    <3>3. CASE u = o /\ i = n + 1 /\ ~(v = o /\ j = n + 1)
      BY <2>2, <3>2, <3>3
    <3>4. CASE v = o /\ j = n + 1 /\ ~(u = o /\ i = n + 1)
      BY <2>2, <3>2, <3>4
    <3>5. CASE ~(u = o /\ i = n + 1) /\ ~(v = o /\ j = n + 1)
      BY <1>t, <3>1, <3>5 DEF KeyInv, KeyPostedOnce
    <3>6. QED
      BY <3>3, <3>4, <3>5
  <2>5. /\ call'[p].pc = "idle"
        /\ \A q \in Procs \ {p} : call'[q] = call[q]
    BY <1>t, <1>8, IdleType DEF Commit, Finish, TypeOK
  <2>6. InsertedKeysDiffer'
    BY <1>t, <2>5 DEF KeyInv, InsertedKeysDiffer
  <2>7. ASSUME NEW q \in Procs, call'[q].pc = "posted"
        PROVE  /\ call'[q].entry = NewEntry(q)'
               /\ call'[q].req.key # NoKey => ~Posted(call[q].req.key)'
    <3>1. q # p /\ call'[q] = call[q]
      BY <2>5, <2>7
    <3>2. call[q].req.key # NoKey => ~Posted(call[q].req.key) /\ call[q].req.key # e.key
      BY <1>t, <2>1, <2>7, <3>1 DEF KeyInv, InsertedEntry, InsertedKeysDiffer
    <3>3. PICK k : k = call[q].req.key
      OBVIOUS
    <3>4. k # NoKey => ~Posted(k)'
      BY <1>8, <2>0, <3>2, <3>3, PostedByCommit
    <3>5. call[q].entry = NewEntry(q)
      BY <1>t, <2>7, <3>1 DEF KeyInv, InsertedEntry
    <3>6. NewEntry(q)' = NewEntry(q)
      BY <3>1 DEF NewEntry, NewBalance
    <3>7. QED
      BY <3>1, <3>3, <3>4, <3>5, <3>6
  <2>8. InsertedEntry'
    BY <2>7 DEF InsertedEntry
  <2>9. QED
    BY <2>4, <2>6, <2>8 DEF KeyInv
<1>9. ASSUME NEW p \in Procs, CommitFound(p) PROVE KeyInv'
  BY <1>t, <1>f, <1>9, IdleType DEF CommitFound, Finish, TypeOK
<1>10. ASSUME NEW u \in Users, Read(u) PROVE KeyInv'
  BY <1>f, <1>10 DEF Read
<1>11. CASE UNCHANGED vars
  BY <1>f, <1>11 DEF vars
<1>12. QED
  BY <1>1, <1>2, <1>3, <1>4, <1>5, <1>6, <1>7, <1>8, <1>9, <1>10, <1>11
  DEF Next, Step, UpsertUnknown, Insufficient, Duplicate, Die

-----------------------------------------------------------------------------
(* No step changes or removes a ledger row.                                *)
LEMMA LedgerGrows ==
    ASSUME IInv, [Next]_vars, NEW u \in Users, NEW i \in DOMAIN ledger[u]
    PROVE  i \in DOMAIN ledger'[u] /\ ledger'[u][i] = ledger[u][i]
<1>1. CASE \A p \in Procs : ~Commit(p)
  BY <1>1, OnlyCommitWrites
<1>2. ASSUME NEW p \in Procs, Commit(p)
      PROVE  i \in DOMAIN ledger'[u] /\ ledger'[u][i] = ledger[u][i]
  <2>1. CASE u = Owner(p)
    <3>1. PICK o : o = Owner(p)
      OBVIOUS
    <3>2. /\ DOMAIN ledger'[o] = 1..(Len(ledger[o]) + 1)
          /\ DOMAIN ledger[o] = 1..Len(ledger[o])
          /\ Len(ledger[o]) \in Nat
          /\ \A j \in DOMAIN ledger[o] : ledger'[o][j] = ledger[o][j]
      BY <1>2, <3>1, CommitEffect
    <3>3. QED
      BY <2>1, <3>1, <3>2
  <2>2. CASE u # Owner(p)
    BY <1>2, <2>2, CommitEffect
  <2>3. QED
    BY <2>1, <2>2
<1>3. QED
  BY <1>1, <1>2

(* What callers have been told stays true, and what a step tells them is.  *)
LEMMA AnswerStep == IInv /\ [Next]_vars => AnswerInv'
<1> SUFFICES ASSUME IInv, [Next]_vars PROVE AnswerInv'
  OBVIOUS
<1>t. TypeOK /\ TxInv /\ AnswerInv
  BY DEF IInv
<1>g. \A u \in Users : \A i \in DOMAIN ledger[u] :
         i \in DOMAIN ledger'[u] /\ ledger'[u][i] = ledger[u][i]
  BY LedgerGrows
<1>a. ASSUME UNCHANGED told PROVE ToldUsers' /\ AnswerIsPosted'
  <2>1. ToldUsers'
    BY <1>t, <1>a DEF AnswerInv, ToldUsers
  <2>2. ASSUME NEW t \in told, StableKey(t.req)
        PROVE  /\ \E i \in DOMAIN ledger'[Subject(t.req)] : ledger'[Subject(t.req)][i] = t.entry
               /\ t.entry.cents = Cents(t.req)
               /\ t.entry.key = t.req.key
    BY <1>t, <1>g, <2>2 DEF AnswerInv, ToldUsers, AnswerIsPosted
  <2>3. QED
    BY <1>a, <2>1, <2>2 DEF AnswerIsPosted
<1>r. ASSUME UNCHANGED ledger PROVE RowHasRequest'
  BY <1>t, <1>r DEF AnswerInv, RowHasRequest
<1>d. ASSUME \A q \in Procs : call'[q].pc = "found" => call'[q] = call[q]
      PROVE  FoundEntry'
  <2> SUFFICES ASSUME NEW q \in Procs, call'[q].pc = "found"
               PROVE  /\ call'[q].req.key # NoKey
                      /\ \E u \in Users : \E i \in DOMAIN ledger'[u] :
                            /\ ledger'[u][i] = call'[q].entry
                            /\ ledger'[u][i].key = call'[q].req.key
    BY DEF FoundEntry
  <2>1. call'[q] = call[q]
    BY <1>d
  <2>2. call[q].req.key # NoKey
    BY <1>t, <2>1 DEF AnswerInv, FoundEntry
  <2>3. PICK u \in Users : \E i \in DOMAIN ledger[u] :
            ledger[u][i] = call[q].entry /\ ledger[u][i].key = call[q].req.key
    BY <1>t, <2>1 DEF AnswerInv, FoundEntry
  <2>4. QED
    BY <1>g, <2>1, <2>2, <2>3
<1>n. ASSUME NEW p \in Procs, told' = told \/ Answer(p, call[p].entry),
             Owner(p) \in Users,
             StableKey(call[p].req) =>
                /\ \E i \in DOMAIN ledger'[Owner(p)] : ledger'[Owner(p)][i] = call[p].entry
                /\ call[p].entry.cents = Cents(call[p].req)
                /\ call[p].entry.key = call[p].req.key
      PROVE  ToldUsers' /\ AnswerIsPosted'
  <2>1. CASE told' = told
    BY <1>a, <2>1
  <2>2. CASE Answer(p, call[p].entry)
    <3>1. PICK r, e : r = call[p].req /\ e = call[p].entry
      OBVIOUS
    <3>2. told' = told \cup {[req |-> r, entry |-> e]}
      BY <2>2, <3>1 DEF Answer
    <3>3. Subject(r) \in Users
      BY <1>n, <3>1 DEF Owner
    <3>4. ToldUsers'
      BY <1>t, <3>2, <3>3 DEF AnswerInv, ToldUsers
    <3>5. ASSUME NEW t \in told, StableKey(t.req)
          PROVE  /\ \E i \in DOMAIN ledger'[Subject(t.req)] : ledger'[Subject(t.req)][i] = t.entry
                 /\ t.entry.cents = Cents(t.req)
                 /\ t.entry.key = t.req.key
      BY <1>t, <1>g, <3>5 DEF AnswerInv, ToldUsers, AnswerIsPosted
    <3>6. StableKey(r) => /\ \E i \in DOMAIN ledger'[Subject(r)] : ledger'[Subject(r)][i] = e
                          /\ e.cents = Cents(r)
                          /\ e.key = r.key
      BY <1>n, <3>1 DEF Owner
    <3>7. AnswerIsPosted'
      BY <3>2, <3>5, <3>6 DEF AnswerIsPosted
    <3>8. QED
      BY <3>4, <3>7
  <2>3. QED
    BY <1>n, <2>1, <2>2
<1>1. ASSUME NEW p \in Procs, NEW r \in Requests, Begin(p, r) PROVE AnswerInv'
  BY <1>t, <1>a, <1>r, <1>d, <1>1 DEF Begin, TypeOK, AnswerInv
<1>2. ASSUME NEW p \in Procs, Upsert(p) PROVE AnswerInv'
  BY <1>t, <1>a, <1>r, <1>d, <1>2 DEF Upsert, TypeOK, AnswerInv
<1>3. ASSUME NEW p \in Procs, Rollback(p) PROVE AnswerInv'
  BY <1>t, <1>a, <1>r, <1>d, <1>3, IdleType DEF Rollback, Finish, TypeOK, AnswerInv
<1>4. ASSUME NEW p \in Procs, ReadBalance(p) PROVE AnswerInv'
  BY <1>t, <1>a, <1>r, <1>d, <1>4 DEF ReadBalance, TypeOK, AnswerInv
<1>5. ASSUME NEW p \in Procs, LookupHit(p) PROVE AnswerInv'
  <2>1. UNCHANGED <<ledger, told>> /\ call[p].req.key # NoKey
    BY <1>5 DEF LookupHit, Replayable
  <2>2. PICK u \in Users : \E i \in DOMAIN ledger[u] :
          /\ ledger[u][i].key = call[p].req.key
          /\ call' = [call EXCEPT ![p].pc = "found", ![p].entry = ledger[u][i]]
    BY <1>5 DEF LookupHit
  <2>3. PICK i \in DOMAIN ledger[u] :
          /\ ledger[u][i].key = call[p].req.key
          /\ call' = [call EXCEPT ![p].pc = "found", ![p].entry = ledger[u][i]]
    BY <2>2
  <2>4. /\ call'[p].req = call[p].req
        /\ call'[p].entry = ledger[u][i]
        /\ \A q \in Procs \ {p} : call'[q] = call[q]
    BY <1>t, <2>3 DEF TypeOK
  <2>5. \E v \in Users : \E j \in DOMAIN ledger'[v] :
            ledger'[v][j] = call'[p].entry /\ ledger'[v][j].key = call'[p].req.key
    BY <2>1, <2>3, <2>4
  <2>6. ASSUME NEW q \in Procs, q # p, call'[q].pc = "found"
        PROVE  /\ call'[q].req.key # NoKey
               /\ \E v \in Users : \E j \in DOMAIN ledger'[v] :
                      ledger'[v][j] = call'[q].entry /\ ledger'[v][j].key = call'[q].req.key
    BY <1>t, <2>1, <2>4, <2>6 DEF AnswerInv, FoundEntry
  <2>7. FoundEntry'
    BY <2>1, <2>4, <2>5, <2>6 DEF FoundEntry
  <2>8. QED
    BY <1>a, <1>r, <2>1, <2>7 DEF AnswerInv
<1>6. ASSUME NEW p \in Procs, LookupMiss(p) PROVE AnswerInv'
  BY <1>t, <1>a, <1>r, <1>d, <1>6 DEF LookupMiss, TypeOK, AnswerInv
<1>7. ASSUME NEW p \in Procs, Post(p) PROVE AnswerInv'
  BY <1>t, <1>a, <1>r, <1>d, <1>7 DEF Post, TypeOK, AnswerInv
<1>8. ASSUME NEW p \in Procs, Commit(p) PROVE AnswerInv'
  <2>0. PICK o, n, e, r :
            o = Owner(p) /\ n = Len(ledger[o]) /\ e = call[p].entry /\ r = call[p].req
    OBVIOUS
  <2>1. /\ o \in Users /\ e.key = r.key /\ e.cents = Cents(r) /\ o = Subject(r)
        /\ r \in Requests /\ Admitted(r)
    BY <1>t, <1>8, <2>0, CommittedEntry DEF Commit, TxInv, RunsAdmitted, TypeOK, Owner
  <2>2. /\ \A u \in Users \ {o} : ledger'[u] = ledger[u]
        /\ DOMAIN ledger'[o] = 1..(n + 1)
        /\ DOMAIN ledger[o] = 1..n
        /\ n \in Nat
        /\ \A i \in DOMAIN ledger[o] : ledger'[o][i] = ledger[o][i]
        /\ ledger'[o][n + 1] = e
    BY <1>8, <2>0, CommitEffect
  <2>3. FoundEntry'
    BY <1>t, <1>d, <1>8, IdleType DEF Commit, Finish, TypeOK
  <2>4. ASSUME NEW u \in Users, NEW i \in DOMAIN ledger'[u], ledger'[u][i].key # NoKey
        PROVE  \E s \in Requests : /\ Admitted(s)
                                   /\ s.key = ledger'[u][i].key
                                   /\ Subject(s) = u
                                   /\ Cents(s) = ledger'[u][i].cents
    <3>1. CASE u = o /\ i = n + 1
      BY <2>1, <2>2, <3>1
    <3>2. CASE ~(u = o /\ i = n + 1)
      <4>1. i \in DOMAIN ledger[u] /\ ledger'[u][i] = ledger[u][i]
        BY <2>2, <3>2
      <4>2. QED
        BY <1>t, <2>4, <4>1 DEF AnswerInv, RowHasRequest
    <3>3. QED
      BY <3>1, <3>2
  <2>5. RowHasRequest'
    BY <2>4 DEF RowHasRequest
  <2>6. n + 1 \in DOMAIN ledger'[o] /\ ledger'[o][n + 1] = e
    BY <2>2
  <2>7. ToldUsers' /\ AnswerIsPosted'
    <3>1. told' = told \/ Answer(p, call[p].entry)
      BY <1>8 DEF Commit
    <3>2. Owner(p) \in Users
      BY <2>0, <2>1
    <3>3. \E i \in DOMAIN ledger'[Owner(p)] : ledger'[Owner(p)][i] = call[p].entry
      BY <2>0, <2>6
    <3>4. call[p].entry.cents = Cents(call[p].req) /\ call[p].entry.key = call[p].req.key
      BY <2>0, <2>1
    <3>5. QED
      BY <1>n, <3>1, <3>2, <3>3, <3>4
  <2>8. QED
    BY <2>3, <2>5, <2>7 DEF AnswerInv
<1>9. ASSUME NEW p \in Procs, CommitFound(p) PROVE AnswerInv'
  <2>1. UNCHANGED ledger /\ Owner(p) \in Users /\ call[p].req \in Requests /\ Admitted(call[p].req)
    BY <1>t, <1>9 DEF CommitFound, TxInv, HoldsRow, Holding, RunsAdmitted, TypeOK
  <2>2. FoundEntry'
    BY <1>t, <1>d, <1>9, IdleType DEF CommitFound, Finish, TypeOK
  <2>3. PICK u \in Users : \E i \in DOMAIN ledger[u] :
            ledger[u][i] = call[p].entry /\ ledger[u][i].key = call[p].req.key
    BY <1>t, <1>9 DEF AnswerInv, FoundEntry, CommitFound
  <2>4. PICK i \in DOMAIN ledger[u] :
            ledger[u][i] = call[p].entry /\ ledger[u][i].key = call[p].req.key
    BY <2>3
  <2>5. call[p].req.key # NoKey
    BY <1>t, <1>9 DEF AnswerInv, FoundEntry, CommitFound
  <2>6. PICK s \in Requests : /\ Admitted(s)
                              /\ s.key = ledger[u][i].key
                              /\ Subject(s) = u
                              /\ Cents(s) = ledger[u][i].cents
    BY <1>t, <2>4, <2>5 DEF AnswerInv, RowHasRequest
  <2>7. ASSUME StableKey(call[p].req)
        PROVE  /\ \E j \in DOMAIN ledger'[Owner(p)] : ledger'[Owner(p)][j] = call[p].entry
               /\ call[p].entry.cents = Cents(call[p].req)
               /\ call[p].entry.key = call[p].req.key
    <3>1. Subject(s) = Owner(p) /\ Cents(s) = Cents(call[p].req)
      BY <2>4, <2>5, <2>6, <2>7 DEF StableKey, Owner
    <3>2. QED
      BY <2>1, <2>4, <2>6, <3>1
  <2>8. ToldUsers' /\ AnswerIsPosted'
    <3>1. told' = told \/ Answer(p, call[p].entry)
      BY <1>9 DEF CommitFound
    <3>2. QED
      BY <1>n, <2>1, <2>7, <3>1
  <2>9. QED
    BY <1>r, <2>1, <2>2, <2>8 DEF AnswerInv
<1>10. ASSUME NEW u \in Users, Read(u) PROVE AnswerInv'
  BY <1>a, <1>r, <1>d, <1>10 DEF Read, AnswerInv
<1>11. CASE UNCHANGED vars
  BY <1>a, <1>r, <1>d, <1>11 DEF vars, AnswerInv
<1>12. QED
  BY <1>1, <1>2, <1>3, <1>4, <1>5, <1>6, <1>7, <1>8, <1>9, <1>10, <1>11
  DEF Next, Step, UpsertUnknown, Insufficient, Duplicate, Die

-----------------------------------------------------------------------------
LEMMA InitIInv == Init => IInv
<1> SUFFICES ASSUME Init PROVE IInv
  OBVIOUS
<1>1. 0 \in Int64
  BY WalletAssumption DEF Int64
<1>2. TypeOK
  BY <1>1, IdleType DEF Init, TypeOK
<1>3. \A p \in Procs : call[p].pc = "idle"
  BY IdleType DEF Init
<1>4. \A u \in Users : DOMAIN ledger[u] = {} /\ Len(ledger[u]) = 0
  <2>1. \A u \in Users : ledger[u] = << >>
    BY DEF Init
  <2>2. DOMAIN << >> = {} /\ Len(<< >>) = 0
    <3>1. Len(<< >>) = 0 /\ << >> \in Seq({})
      OBVIOUS
    <3>2. DOMAIN << >> = 1..0
      BY <3>1
    <3>3. QED
      BY <3>1, <3>2
  <2>3. QED
    BY <2>1, <2>2
<1>5. TxInv
  BY <1>3 DEF TxInv, HoldsRow, Holding, RunsAdmitted, SeenIsCurrent, Covered
<1>6. BalanceIsLedger /\ NeverOverdrawn
  BY <1>4 DEF Init, BalanceIsLedger, NeverOverdrawn, Before
<1>7. KeyInv
  BY <1>3, <1>4 DEF KeyInv, KeyPostedOnce, InsertedEntry, InsertedKeysDiffer
<1>8. AnswerInv
  BY <1>3, <1>4 DEF Init, AnswerInv, FoundEntry, RowHasRequest, ToldUsers, AnswerIsPosted
<1>9. QED
  BY <1>2, <1>5, <1>6, <1>7, <1>8 DEF IInv

(* The inductive invariant holds throughout.                               *)
THEOREM Inductive == Spec => []IInv
<1>1. IInv /\ [Next]_vars => IInv'
  BY TypeStep, TxStep, LedgerStep, KeyStep, AnswerStep DEF IInv
<1>2. QED
  BY InitIInv, <1>1, PTL DEF Spec

(* Every stored balance is an int64 and every row and handler is well      *)
(* formed, whatever the handlers do.                                       *)
THEOREM TypeCorrect == Spec => []TypeOK
<1>1. IInv => TypeOK
  BY DEF IInv
<1>2. QED
  BY Inductive, <1>1, PTL

(* The ledger sums to the balance, for any number of concurrent handlers.  *)
THEOREM LedgerSumsToBalance == Spec => []BalanceIsLedger
<1>1. IInv => BalanceIsLedger
  BY DEF IInv
<1>2. QED
  BY Inductive, <1>1, PTL

(* No interleaving of debits and no wrap of int64 overdraws a wallet.      *)
THEOREM NoOverdraft == Spec => []NeverOverdrawn
<1>1. IInv => NeverOverdrawn
  BY DEF IInv
<1>2. QED
  BY Inductive, <1>1, PTL

(* Retrying a keyed call never posts it twice, on one wallet or on two.    *)
THEOREM RetryPostsOnce == Spec => []KeyPostedOnce
<1>1. IInv => KeyPostedOnce
  BY DEF IInv, KeyInv
<1>2. QED
  BY Inductive, <1>1, PTL

(* A 200 answer shows an entry that is in the ledger of its wallet.        *)
THEOREM AnswersAreTrue == Spec => []AnswerIsPosted
<1>1. IInv => AnswerIsPosted
  BY DEF IInv, AnswerInv
<1>2. QED
  BY Inductive, <1>1, PTL

-----------------------------------------------------------------------------
(* The refinement: a commit of a posted entry is one atomic movement of    *)
(* WalletLedger, and every other step leaves what the caller sees as it is.*)
LEMMA CommitMoves ==
    ASSUME IInv, NEW p \in Procs, Commit(p)
    PROVE  Promise!Next
<1>0. PICK o, e : o = Owner(p) /\ e = call[p].entry
  OBVIOUS
<1>1. /\ o \in Users
      /\ e \in Entry
      /\ e.key = call[p].req.key
      /\ e.cents \in (-MaxCents)..MaxCents \ {0}
      /\ e.after = balance[o] + e.cents
      /\ e.after \in 0..MaxCents
  BY <1>0, CommittedEntry DEF Commit
<1>2. e.key \in Keys \cup {NoKey}
  BY <1>1 DEF Entry
<1>3. e.key \notin {k \in Keys : Posted(k)}
  BY <1>0, <1>1, WalletAssumption DEF IInv, KeyInv, InsertedEntry, Commit
<1>4. balance' = [balance EXCEPT ![o] = @ + e.cents]
  BY <1>0, <1>1 DEF Commit, IInv, TypeOK
<1>5. \A k : Posted(k)' <=> Posted(k) \/ k = e.key
  BY <1>0, PostedByCommit
<1>6. {k \in Keys : Posted(k)}' = {k \in Keys : Posted(k)} \cup ({e.key} \ {NoKey})
  BY <1>2, <1>5, WalletAssumption
<1>7. Promise!Move(o, e.cents, e.key)
  BY <1>1, <1>3, <1>4, <1>6 DEF Promise!Move
<1>8. QED
  BY <1>1, <1>2, <1>7 DEF Promise!Next

(* Wallet implements WalletLedger: concurrent handlers, retries, crashes   *)
(* and lost replies look to every caller like single atomic movements.     *)
THEOREM Refinement == Spec => ImplementsLedger
<1>1. Init => Promise!Init
  <2> SUFFICES ASSUME Init PROVE Promise!Init
    OBVIOUS
  <2>1. \A k : ~Posted(k)
    BY DEF Init, Posted
  <2>2. QED
    BY <2>1 DEF Init, Promise!Init
<1>2. IInv /\ [Next]_vars => [Promise!Next]_Promise!vars
  <2> SUFFICES ASSUME IInv, [Next]_vars PROVE [Promise!Next]_Promise!vars
    OBVIOUS
  <2>1. CASE \E p \in Procs : Commit(p)
    BY <2>1, CommitMoves
  <2>2. CASE \A p \in Procs : ~Commit(p)
    <3>1. UNCHANGED <<balance, ledger>>
      BY <2>2, OnlyCommitWrites
    <3>2. {k \in Keys : Posted(k)}' = {k \in Keys : Posted(k)}
      BY <3>1 DEF Posted
    <3>3. QED
      BY <3>1, <3>2 DEF Promise!vars
  <2>3. QED
    BY <2>1, <2>2
<1>3. QED
  BY <1>1, <1>2, Inductive, PTL DEF Spec, ImplementsLedger, Promise!Spec
=============================================================================
