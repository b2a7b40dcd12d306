--------------------------- MODULE SessionsProofs ---------------------------
(***************************************************************************)
(* What Sessions promises, for any number of users, administrators,        *)
(* handlers, sessions and decisions.  A handler acts on what it read       *)
(* before bcrypt; so what is kept is said of the sessions and of the       *)
(* handlers about to start one alike, and wrong passwords are counted with *)
(* the handlers that have compared one and not counted it yet.             *)
(***************************************************************************)
EXTENDS Sessions, FiniteSetTheorems, TLAPS

Account == [active: BOOLEAN, known: BOOLEAN]
Call == [pc: Pcs, user: Users, by: {"none", "signin", "change", "proof"},
         id: 0..MaxSessions, era: Nat, late: BOOLEAN, admin: SUBSET Admins]

(* A handler knows of no decision that was not taken; if it is about to    *)
(* start a session and has not seen one that is carried out, it was under  *)
(* way then.  Whoever disables an account is another administrator.        *)
CallOK(c) ==
    /\ c \in Call
    /\ c.era <= era[c.user]
    /\ c.pc = "enter" /\ c.era < closed[c.user] => c.late
    /\ c.pc = "wrong" => c.by \in {"signin", "change"}
    /\ c.pc = "disable" => c.admin \ {c.user} # {}

SessionOK(s) ==
    /\ s \in Session
    /\ s.id <= issued
    /\ s.era <= era[s.user]
    /\ s.era < closed[s.user] => s.late

Unique == \A s, t \in sessions : s.id = t.id => s = t

Typed ==
    /\ account \in [Users -> Account]
    /\ tries \in [Keys -> Nat] /\ guesses \in [Keys -> Nat]
    /\ issued \in 0..MaxSessions
    /\ era \in [Users -> 0..MaxEras]
    /\ closed \in [Users -> Nat] /\ \A u \in Users : closed[u] <= era[u]
    /\ crossed \in BOOLEAN

CallInv ==
    /\ call \in [Procs -> Call]
    /\ \A p \in Procs : CallOK(call[p])

(* The handlers that have compared a wrong password for k and are yet to   *)
(* count it.                                                               *)
AtKey(p, k) == call[p].pc = "wrong" /\ Key(p) = k
Uncounted(k) == Cardinality({p \in Procs : AtKey(p, k)})

LockInv ==
    \A k \in Keys :
        /\ guesses[k] <= tries[k] + Uncounted(k)
        /\ tries[k] + Uncounted(k) <= MaxTries + Cardinality(Procs) - 1

Inv ==
    /\ Typed
    /\ CallInv
    /\ \A s \in sessions : SessionOK(s)
    /\ Unique
    /\ LockInv
    /\ AdministratorLeft

-----------------------------------------------------------------------------
LEMMA Bounds ==
    /\ Cardinality(Procs) \in Nat /\ MaxTries \in Nat \ {0}
    /\ MaxSessions \in Nat /\ MaxEras \in Nat
  BY SessionsAssumption, FS_CardinalityType

LEMMA SomeUser == Idle.user \in Users
  BY SessionsAssumption DEF Idle

LEMMA IdleOK ==
    ASSUME Typed
    PROVE  CallOK(Idle) /\ Idle.pc = "idle" /\ Idle.era = 0
  <1> DEFINE u == CHOOSE v \in Users : TRUE
  <1>1. u \in Users  BY SessionsAssumption
  <1> HIDE DEF u
  <1>2. Idle = [pc |-> "idle", user |-> u, by |-> "none",
                id |-> 0, era |-> 0, late |-> FALSE, admin |-> {}]
        BY DEF Idle, u
  <1>3. Idle \in Call  BY <1>1, <1>2, Bounds DEF Call, Pcs
  <1> QED  BY <1>1, <1>2, <1>3, Bounds DEF CallOK, Typed

LEMMA UncountedBounded ==
    ASSUME NEW k
    PROVE  /\ Uncounted(k) \in Nat /\ Uncounted(k) <= Cardinality(Procs)
           /\ Uncounted(k)' \in Nat /\ Uncounted(k)' <= Cardinality(Procs)
  <1> DEFINE S == {p \in Procs : AtKey(p, k)}
  <1>1. S \in SUBSET Procs /\ S' \in SUBSET Procs  OBVIOUS
  <1> QED  BY <1>1, SessionsAssumption, FS_Subset, FS_CardinalityType DEF Uncounted

(* What one handler's step does to the number of those yet to count.       *)
LEMMA UncountedMoves ==
    ASSUME NEW k, NEW p \in Procs, \A q \in Procs \ {p} : AtKey(q, k)' <=> AtKey(q, k)
    PROVE  Uncounted(k)' = Uncounted(k) - (IF AtKey(p, k) THEN 1 ELSE 0)
                                        + (IF AtKey(p, k)' THEN 1 ELSE 0)
  <1> DEFINE S == {q \in Procs : AtKey(q, k)}
             Rest == S \ {p}
  <1>1. IsFiniteSet(S)
    <2>1. S \in SUBSET Procs  OBVIOUS
    <2> QED  BY <2>1, SessionsAssumption, FS_Subset
  <1>2. Cardinality(S) \in Nat /\ Uncounted(k) = Cardinality(S)
        BY <1>1, FS_CardinalityType DEF Uncounted
  <1>3. /\ IsFiniteSet(Rest)
        /\ Cardinality(Rest) = Cardinality(S) - (IF AtKey(p, k) THEN 1 ELSE 0)
    <2>1. /\ IsFiniteSet(Rest)
          /\ Cardinality(Rest) = IF p \in S THEN Cardinality(S) - 1 ELSE Cardinality(S)
          BY <1>1, FS_RemoveElement
    <2>2. p \in S <=> AtKey(p, k)  OBVIOUS
    <2> QED  BY <1>2, <2>1, <2>2
  <1>4. Uncounted(k)' = Cardinality(S')  BY DEF Uncounted
  <1>5. CASE AtKey(p, k)'
    <2>1. S' = Rest \cup {p}  BY <1>5
    <2>2. Cardinality(Rest \cup {p}) = Cardinality(Rest) + 1  BY <1>3, FS_AddElement
    <2> HIDE DEF Rest, S
    <2> QED  BY <1>2, <1>3, <1>4, <1>5, <2>1, <2>2
  <1>6. CASE ~AtKey(p, k)'
    <2>1. S' = Rest  BY <1>6
    <2> HIDE DEF Rest, S
    <2> QED  BY <1>2, <1>3, <1>4, <1>6, <2>1
  <1> QED  BY <1>5, <1>6

(* Handler p takes a step that is not about a wrong password; the others   *)
(* are where they were.  A count is kept or starts over.                   *)
Elsewhere(p) ==
    \A q \in Procs \ {p} : /\ call'[q].pc = call[q].pc
                           /\ call'[q].by = call[q].by /\ call'[q].user = call[q].user

CountsKept(k) == tries'[k] = tries[k] /\ guesses'[k] = guesses[k]
CountsReset(k) == tries'[k] = 0 /\ guesses'[k] = 0

LEMMA LockKeeps ==
    ASSUME Inv, NEW p \in Procs, Elsewhere(p), call[p].pc # "wrong", call'[p].pc # "wrong",
           \A k \in Keys : CountsKept(k) \/ CountsReset(k)
    PROVE  LockInv'
  <1> SUFFICES ASSUME NEW k \in Keys
               PROVE  /\ guesses'[k] <= tries'[k] + Uncounted(k)'
                      /\ tries'[k] + Uncounted(k)' <= MaxTries + Cardinality(Procs) - 1
      BY DEF LockInv
  <1>1. Uncounted(k)' = Uncounted(k)
    <2>1. \A q \in Procs \ {p} : AtKey(q, k)' <=> AtKey(q, k)  BY DEF Elsewhere, AtKey, Key
    <2>2. ~AtKey(p, k) /\ ~AtKey(p, k)'  BY DEF AtKey
    <2> QED  BY <2>1, <2>2, UncountedMoves, UncountedBounded
  <1>2. tries[k] \in Nat /\ guesses[k] \in Nat  BY DEF Inv, Typed
  <1>3. /\ guesses[k] <= tries[k] + Uncounted(k)
        /\ tries[k] + Uncounted(k) <= MaxTries + Cardinality(Procs) - 1
        BY DEF Inv, LockInv
  <1> QED  BY <1>1, <1>2, <1>3, UncountedBounded, Bounds DEF CountsKept, CountsReset

(* No handler moves.                                                       *)
LEMMA LockStays ==
    ASSUME Inv, UNCHANGED call, \A k \in Keys : CountsKept(k) \/ CountsReset(k)
    PROVE  LockInv'
  <1> SUFFICES ASSUME NEW k \in Keys
               PROVE  /\ guesses'[k] <= tries'[k] + Uncounted(k)'
                      /\ tries'[k] + Uncounted(k)' <= MaxTries + Cardinality(Procs) - 1
      BY DEF LockInv
  <1>1. Uncounted(k)' = Uncounted(k)  BY DEF Uncounted, AtKey, Key
  <1>2. tries[k] \in Nat /\ guesses[k] \in Nat  BY DEF Inv, Typed
  <1>3. /\ guesses[k] <= tries[k] + Uncounted(k)
        /\ tries[k] + Uncounted(k) <= MaxTries + Cardinality(Procs) - 1
        BY DEF Inv, LockInv
  <1> QED  BY <1>1, <1>2, <1>3, UncountedBounded, Bounds DEF CountsKept, CountsReset

(* One handler's step, no decision's work being done meanwhile.            *)
ErasGrow ==
    /\ closed' = closed
    /\ \A u \in Users : era[u] \in Nat /\ era'[u] \in Nat /\ era[u] <= era'[u]

LEMMA ErasStay == ASSUME Inv, UNCHANGED <<era, closed>> PROVE ErasGrow
  BY Bounds DEF Inv, Typed, ErasGrow

LEMMA CallStillOK ==
    ASSUME NEW c, CallOK(c), ErasGrow
    PROVE  CallOK(c)'
  <1>1. c.user \in Users /\ c.era \in Nat  BY DEF CallOK, Call
  <1> QED  BY <1>1 DEF CallOK, ErasGrow

LEMMA CallKeeps ==
    ASSUME Inv, NEW p \in Procs, NEW r,
           call' = [call EXCEPT ![p] = r], CallOK(r)', ErasGrow
    PROVE  /\ CallInv' /\ call'[p] = r
           /\ \A q \in Procs \ {p} : call'[q] = call[q]
           /\ Elsewhere(p)
  <1>1. call'[p] = r /\ \A q \in Procs \ {p} : call'[q] = call[q]  BY DEF Inv, CallInv
  <1>2. Elsewhere(p)  BY <1>1 DEF Elsewhere
  <1>3. r \in Call  BY DEF CallOK
  <1>4. call' \in [Procs -> Call]  BY <1>3 DEF Inv, CallInv
  <1>5. ASSUME NEW q \in Procs PROVE CallOK(call[q])'
    <2>1. CASE q = p
      <3>1. call'[q] = r  BY <1>1, <2>1
      <3> QED  BY <3>1 DEF CallOK
    <2>2. CASE q # p
      <3>1. call'[q] = call[q]  BY <1>1, <2>2
      <3>2. PICK c : c = call[q]  OBVIOUS
      <3>3. CallOK(c)'  BY <3>2, CallStillOK DEF Inv, CallInv
      <3> QED  BY <3>1, <3>2, <3>3 DEF CallOK
    <2> QED  BY <2>1, <2>2
  <1> QED  BY <1>1, <1>2, <1>4, <1>5 DEF CallInv

-----------------------------------------------------------------------------
(* A handler goes on or gives up, having changed nothing but, perhaps,     *)
(* enabled an account.                                                     *)
Quiet(p, r) ==
    /\ call' = [call EXCEPT ![p] = r] /\ CallOK(r)
    /\ call[p].pc # "wrong" /\ r.pc # "wrong"
    /\ account' \in [Users -> Account]
    /\ \A u \in Users : account[u].active => account'[u].active
    /\ UNCHANGED <<sessions, tries, guesses, issued, era, closed, crossed>>

LEMMA QuietKeeps ==
    ASSUME Inv, NEW p \in Procs, NEW r, Quiet(p, r)
    PROVE  Inv'
  <1>1. UNCHANGED <<sessions, tries, guesses, issued, era, closed, crossed>>  BY DEF Quiet
  <1>2. Typed'  BY <1>1 DEF Inv, Typed, Quiet
  <1>3. ErasGrow  BY <1>1, ErasStay
  <1>4. CallOK(r)'  BY <1>3, CallStillOK DEF Quiet
  <1>5. CallInv' /\ call'[p] = r /\ Elsewhere(p)  BY <1>3, <1>4, CallKeeps DEF Quiet
  <1>6. LockInv'
    <2>1. \A k \in Keys : CountsKept(k)  BY <1>1 DEF CountsKept
    <2> QED  BY <1>5, <2>1, LockKeeps DEF Quiet
  <1>7. (\A s \in sessions : SessionOK(s))' /\ Unique'  BY <1>1 DEF Inv, SessionOK, Unique
  <1>8. AdministratorLeft'
        BY <1>1, SessionsAssumption DEF Quiet, Inv, AdministratorLeft
  <1> QED  BY <1>2, <1>5, <1>6, <1>7, <1>8 DEF Inv

(* A wrong password was compared: it is on its way to be counted, and was  *)
(* let through because the count was below the limit.                      *)
LEMMA GuessKeeps ==
    ASSUME Inv, NEW p \in Procs, NEW k \in Keys, Guess(p, k), Free(p), ~Blocked(k),
           UNCHANGED <<account, sessions, tries, issued, eras, crossed>>
    PROVE  Inv'
  <1>0. PICK r : r = [Idle EXCEPT !.pc = "wrong", !.user = k[2], !.by = k[1]]  OBVIOUS
  <1>1. /\ call' = [call EXCEPT ![p] = r] /\ guesses' = [guesses EXCEPT ![k] = @ + 1]
        /\ UNCHANGED <<account, sessions, tries, issued, era, closed, crossed>>
        /\ call[p].pc = "idle" /\ tries[k] < MaxTries
    <2>1. tries[k] \in Nat  BY DEF Inv, Typed
    <2> QED  BY <1>0, <2>1, Bounds DEF Guess, Go, Free, Blocked, eras
  <1>2. k[1] \in {"signin", "change"} /\ k[2] \in Users /\ k = <<k[1], k[2]>>  BY DEF Keys
  <1>3. CallOK(r) /\ r.pc = "wrong" /\ r.by = k[1] /\ r.user = k[2]
    <2>1. Idle \in Call /\ Idle.era = 0  BY IdleOK DEF Inv, CallOK
    <2>2. r \in Call /\ r.era = 0 /\ r.pc = "wrong" /\ r.by = k[1] /\ r.user = k[2]
          BY <1>0, <1>2, <2>1 DEF Call, Pcs
    <2>3. era[k[2]] \in Nat /\ closed[k[2]] \in Nat  BY <1>2, Bounds DEF Inv, Typed
    <2> QED  BY <1>2, <2>2, <2>3 DEF CallOK
  <1>4. Typed'  BY <1>1 DEF Inv, Typed
  <1>5. CallInv' /\ call'[p] = r /\ Elsewhere(p)
    <2>1. ErasGrow  BY <1>1, ErasStay
    <2>2. CallOK(r)'  BY <1>3, <2>1, CallStillOK
    <2> QED  BY <1>1, <2>1, <2>2, CallKeeps
  <1>6. LockInv'
    <2> SUFFICES ASSUME NEW j \in Keys
                 PROVE  /\ guesses'[j] <= tries'[j] + Uncounted(j)'
                        /\ tries'[j] + Uncounted(j)' <= MaxTries + Cardinality(Procs) - 1
        BY DEF LockInv
    <2>1. \A q \in Procs \ {p} : AtKey(q, j)' <=> AtKey(q, j)
          BY <1>5 DEF Elsewhere, AtKey, Key
    <2>2. ~AtKey(p, j) /\ (AtKey(p, j)' <=> j = k)
          BY <1>1, <1>2, <1>3, <1>5 DEF AtKey, Key
    <2>3. Uncounted(j)' = Uncounted(j) + (IF j = k THEN 1 ELSE 0)
          BY <2>1, <2>2, UncountedMoves, UncountedBounded
    <2>4. tries[j] \in Nat /\ guesses[j] \in Nat /\ tries'[j] = tries[j]
          BY <1>1 DEF Inv, Typed
    <2>5. guesses'[j] = guesses[j] + (IF j = k THEN 1 ELSE 0)  BY <1>1, <2>4 DEF Inv, Typed
    <2>6. /\ guesses[j] <= tries[j] + Uncounted(j)
          /\ tries[j] + Uncounted(j) <= MaxTries + Cardinality(Procs) - 1
          BY DEF Inv, LockInv
    <2> QED  BY <1>1, <2>3, <2>4, <2>5, <2>6, UncountedBounded, Bounds
  <1>7. (\A s \in sessions : SessionOK(s))' /\ Unique'  BY <1>1 DEF Inv, SessionOK, Unique
  <1>8. AdministratorLeft'  BY <1>1 DEF Inv, AdministratorLeft
  <1> QED  BY <1>4, <1>5, <1>6, <1>7, <1>8 DEF Inv

(* It is counted.                                                          *)
LEMMA FailKeeps ==
    ASSUME Inv, NEW p \in Procs, Fail(p)
    PROVE  Inv'
  <1>1. /\ call[p].pc = "wrong" /\ call' = [call EXCEPT ![p] = Idle]
        /\ tries' = [tries EXCEPT ![Key(p)] = @ + 1]
        /\ UNCHANGED <<account, sessions, guesses, issued, era, closed, crossed>>
        BY DEF Fail, At, Done, eras
  <1>2. PICK k \in Keys : k = Key(p)
    <2>1. call[p].by \in {"signin", "change"} /\ call[p].user \in Users
          BY <1>1 DEF Inv, CallInv, CallOK, Call
    <2> QED  BY <2>1 DEF Key, Keys
  <1>3. Typed'
    <2>1. tries' \in [Keys -> Nat]  BY <1>1, <1>2 DEF Inv, Typed
    <2> QED  BY <1>1, <2>1 DEF Inv, Typed
  <1>4. CallInv' /\ call'[p] = Idle /\ Elsewhere(p)
    <2>1. ErasGrow  BY <1>1, ErasStay
    <2>2. CallOK(Idle)'  BY <2>1, IdleOK, CallStillOK DEF Inv
    <2> QED  BY <1>1, <2>1, <2>2, CallKeeps
  <1>5. LockInv'
    <2> SUFFICES ASSUME NEW j \in Keys
                 PROVE  /\ guesses'[j] <= tries'[j] + Uncounted(j)'
                        /\ tries'[j] + Uncounted(j)' <= MaxTries + Cardinality(Procs) - 1
        BY DEF LockInv
    <2>1. \A q \in Procs \ {p} : AtKey(q, j)' <=> AtKey(q, j)
          BY <1>4 DEF Elsewhere, AtKey, Key
    <2>2. ~AtKey(p, j)' /\ (AtKey(p, j) <=> j = k)
          BY <1>1, <1>2, <1>4, IdleOK DEF AtKey, Inv
    <2>3. Uncounted(j)' = Uncounted(j) - (IF j = k THEN 1 ELSE 0)
          BY <2>1, <2>2, UncountedMoves, UncountedBounded
    <2>4. tries[j] \in Nat /\ guesses[j] \in Nat /\ guesses'[j] = guesses[j]
          BY <1>1 DEF Inv, Typed
    <2>5. tries'[j] = tries[j] + (IF j = k THEN 1 ELSE 0)  BY <1>1, <1>2, <2>4 DEF Inv, Typed
    <2>6. /\ guesses[j] <= tries[j] + Uncounted(j)
          /\ tries[j] + Uncounted(j) <= MaxTries + Cardinality(Procs) - 1
          BY DEF Inv, LockInv
    <2> QED  BY <2>3, <2>4, <2>5, <2>6, UncountedBounded, Bounds
  <1>6. (\A s \in sessions : SessionOK(s))' /\ Unique'  BY <1>1 DEF Inv, SessionOK, Unique
  <1>7. AdministratorLeft'  BY <1>1 DEF Inv, AdministratorLeft
  <1> QED  BY <1>3, <1>4, <1>5, <1>6, <1>7 DEF Inv

-----------------------------------------------------------------------------
(* Signing in: what the handler knows is as new as the account it read.    *)
LEMMA GoInKeeps ==
    ASSUME Inv, NEW p \in Procs, NEW u \in Users, NEW by \in {"signin", "proof"},
           Free(p), GoIn(p, u, by),
           UNCHANGED <<account, sessions, throttle, issued, eras, crossed>>
    PROVE  Inv'
  <1>1. PICK r : r = [Idle EXCEPT !.pc = "enter", !.user = u, !.by = by, !.era = era[u]]
        OBVIOUS
  <1>2. /\ era[u] \in Nat /\ closed[u] \in Nat /\ closed[u] <= era[u]
        /\ account \in [Users -> Account]
        BY Bounds DEF Inv, Typed
  <1>3. Idle \in Call  BY IdleOK DEF Inv, CallOK
  <1>4. r \in Call /\ r.pc = "enter" /\ r.user = u /\ r.era = era[u]
        BY <1>1, <1>2, <1>3 DEF Call, Pcs
  <1>5. CallOK(r)  BY <1>2, <1>4 DEF CallOK
  <1>6. Quiet(p, r)  BY <1>1, <1>2, <1>4, <1>5 DEF Quiet, GoIn, Free, throttle, eras
  <1> QED  BY <1>6, QuietKeeps

LEMMA SignInKeeps ==
    ASSUME Inv, NEW p \in Procs, NEW u \in Users, SignIn(p, u) \/ SignInByProof(p, u)
    PROVE  Inv'
  <1>1. CASE SignInByProof(p, u)  BY <1>1, GoInKeeps DEF SignInByProof
  <1>2. CASE SignIn(p, u) /\ Guess(p, <<"signin", u>>)
    <2>1. <<"signin", u>> \in Keys  BY DEF Keys
    <2> QED  BY <1>2, <2>1, GuessKeeps DEF SignIn
  <1>3. CASE SignIn(p, u) /\ GoIn(p, u, "signin") /\ UNCHANGED guesses
        BY <1>3, GoInKeeps DEF SignIn, throttle
  <1> QED  BY <1>1, <1>2, <1>3 DEF SignIn

(* The steps that only read, and Enable, which lets an account back in.    *)
LEMMA QuietStepKeeps ==
    ASSUME Inv, NEW p \in Procs,
           \/ Enable(p) \/ DecideFails(p) \/ Die(p)
           \/ \E u \in Users : Command(p, u)
           \/ \E s \in sessions, u \in Users, active \in BOOLEAN : Toggle(p, s, u, active)
    PROVE  Inv'
  <1>1. account \in [Users -> Account] /\ \A u \in Users : era[u] \in Nat /\ closed[u] \in Nat
        BY Bounds DEF Inv, Typed
  <1>2. CallOK(Idle) /\ Idle \in Call /\ Idle.pc = "idle" /\ Idle.era = 0
        BY IdleOK DEF Inv, CallOK
  <1>3. call[p] \in Call /\ CallOK(call[p])  BY DEF Inv, CallInv, CallOK
  <1>4. CASE Enable(p)
    <2>1. account' = [account EXCEPT ![call[p].user].active = TRUE]  BY <1>4 DEF Enable
    <2>2. account' \in [Users -> Account] /\ \A u \in Users : account[u].active => account'[u].active
      <3>1. call[p].user \in Users  BY <1>3 DEF Call
      <3> QED  BY <1>1, <2>1, <3>1 DEF Account
    <2>3. Quiet(p, Idle)
          BY <1>2, <1>4, <2>2 DEF Enable, At, Done, throttle, eras, Quiet
    <2> QED  BY <2>3, QuietKeeps
  <1>5. CASE DecideFails(p)
    <2>1. PICK r : r = [call[p] EXCEPT !.pc = "revoke"]  OBVIOUS
    <2>2. r \in Call /\ r.pc = "revoke" /\ r.user = call[p].user /\ r.era = call[p].era
          BY <1>3, <2>1 DEF Call, Pcs
    <2>3. CallOK(r)  BY <1>3, <2>2 DEF CallOK
    <2>4. Quiet(p, r)
          BY <1>1, <1>5, <2>1, <2>2, <2>3 DEF DecideFails, At, Goto, throttle, eras, Quiet
    <2> QED  BY <2>4, QuietKeeps
  <1>6. CASE Die(p)
    <2>1. Quiet(p, Idle)  BY <1>1, <1>2, <1>6 DEF Die, At, Done, throttle, eras, Quiet
    <2> QED  BY <2>1, QuietKeeps
  <1>7. CASE \E u \in Users : Command(p, u)
    <2>1. PICK u \in Users : Command(p, u)  BY <1>7
    <2>2. PICK r : r = [Idle EXCEPT !.pc = "reset", !.user = u, !.by = "none"]  OBVIOUS
    <2>3. r \in Call /\ r.pc = "reset" /\ r.user = u /\ r.era = 0
          BY <1>2, <2>2 DEF Call, Pcs
    <2>4. CallOK(r)  BY <1>1, <2>3 DEF CallOK
    <2>5. Quiet(p, r)
          BY <1>1, <2>1, <2>2, <2>3, <2>4 DEF Command, Free, Go, throttle, eras, Quiet
    <2> QED  BY <2>5, QuietKeeps
  <1>8. CASE \E s \in sessions, u \in Users, active \in BOOLEAN : Toggle(p, s, u, active)
    <2>1. PICK s \in sessions, u \in Users, active \in BOOLEAN : Toggle(p, s, u, active)
          BY <1>8
    <2>2. PICK r : r = [Idle EXCEPT !.pc = IF active THEN "enable" ELSE "disable",
                                    !.user = u, !.admin = {s.user}]
          OBVIOUS
    <2>3. s.user \in Admins /\ u # s.user  BY <2>1 DEF Toggle
    <2>4. /\ r \in Call /\ r.pc \in {"enable", "disable"} /\ r.user = u /\ r.era = 0
          /\ r.admin = {s.user}
          BY <1>2, <2>2, <2>3 DEF Call, Pcs
    <2>5. CallOK(r)  BY <1>1, <2>3, <2>4 DEF CallOK
    <2>6. Quiet(p, r)
          BY <1>1, <2>1, <2>2, <2>4, <2>5 DEF Toggle, Free, throttle, eras, Quiet
    <2> QED  BY <2>6, QuietKeeps
  <1> QED  BY <1>4, <1>5, <1>6, <1>7, <1>8

LEMMA ChangeAsksKeeps ==
    ASSUME Inv, NEW p \in Procs, NEW s \in sessions, ChangeAsks(p, s)
    PROVE  Inv'
  <1>1. s.user \in Users /\ s.id \in 0..MaxSessions
        BY Bounds DEF Inv, SessionOK, Session
  <1>2. CASE Guess(p, <<"change", s.user>>)
    <2>1. PICK k \in Keys : k = <<"change", s.user>>  BY <1>1 DEF Keys
    <2> QED  BY <1>2, <2>1, GuessKeeps DEF ChangeAsks
  <1>3. CASE ~Guess(p, <<"change", s.user>>)
    <2>1. PICK r : r = [Idle EXCEPT !.pc = "change", !.user = s.user, !.by = "change", !.id = s.id]
          OBVIOUS
    <2>2. Idle \in Call /\ Idle.era = 0  BY IdleOK DEF Inv, CallOK
    <2>3. r \in Call /\ r.pc = "change" /\ r.user = s.user /\ r.era = 0
          BY <1>1, <2>1, <2>2 DEF Call, Pcs
    <2>4. era[s.user] \in Nat /\ account \in [Users -> Account]  BY <1>1, Bounds DEF Inv, Typed
    <2>5. CallOK(r)  BY <2>3, <2>4 DEF CallOK
    <2>6. Quiet(p, r)
          BY <1>3, <2>1, <2>3, <2>4, <2>5 DEF ChangeAsks, Free, throttle, eras, Quiet
    <2> QED  BY <2>6, QuietKeeps
  <1> QED  BY <1>2, <1>3

(* The session starts with what the handler knew.                          *)
LEMMA EnterKeeps ==
    ASSUME Inv, NEW p \in Procs, Enter(p)
    PROVE  Inv'
  <1>1. PICK new : new = [id |-> issued + 1, user |-> call[p].user, era |-> call[p].era,
                          fresh |-> TRUE, late |-> call[p].late]
        OBVIOUS
  <1>2. /\ call[p].pc = "enter" /\ call' = [call EXCEPT ![p] = Idle]
        /\ issued < MaxSessions /\ issued' = issued + 1
        /\ sessions' = sessions \cup {new}
        /\ UNCHANGED <<account, era, closed, crossed>>
        BY <1>1 DEF Enter, At, Done, eras
  <1>3. /\ CallOK(call[p]) /\ call[p] \in Call /\ issued \in Nat /\ issued' \in 1..MaxSessions
        BY <1>2, Bounds DEF Inv, Typed, CallInv, CallOK
  <1>4. SessionOK(new)'
    <2>1. new \in Session  BY <1>1, <1>2, <1>3 DEF Session, Call
    <2>2. new.era <= era[new.user] /\ (new.era < closed[new.user] => new.late)
          BY <1>1, <1>2, <1>3 DEF CallOK
    <2> QED  BY <1>1, <1>2, <1>3, <2>1, <2>2 DEF SessionOK
  <1>5. \A s \in sessions : SessionOK(s)' /\ s.id # new.id
    <2> TAKE s \in sessions
    <2>1. SessionOK(s) /\ s.id \in Nat  BY DEF Inv, SessionOK, Session
    <2> QED  BY <1>1, <1>2, <1>3, <2>1 DEF SessionOK
  <1>6. \A k \in Keys : CountsKept(k) \/ CountsReset(k)
    <2>1. CASE call[p].by = "signin"
      <3>1. tries' = [tries EXCEPT ![Key(p)] = 0] /\ guesses' = [guesses EXCEPT ![Key(p)] = 0]
            BY <2>1 DEF Enter, Reset
      <3> QED  BY <3>1 DEF Inv, Typed, CountsKept, CountsReset
    <2>2. CASE call[p].by # "signin"  BY <2>2 DEF Enter, throttle, CountsKept
    <2> QED  BY <2>1, <2>2
  <1>7. tries' \in [Keys -> Nat] /\ guesses' \in [Keys -> Nat]
        BY DEF Enter, Reset, throttle, Inv, Typed
  <1>8. Typed'  BY <1>2, <1>3, <1>7, Bounds DEF Inv, Typed
  <1>9. CallInv' /\ call'[p] = Idle /\ Elsewhere(p)
    <2>1. ErasGrow  BY <1>2, ErasStay
    <2>2. CallOK(Idle)'  BY <2>1, IdleOK, CallStillOK DEF Inv
    <2> QED  BY <1>2, <2>1, <2>2, CallKeeps
  <1>10. LockInv'  BY <1>2, <1>6, <1>9, IdleOK, LockKeeps DEF Inv
  <1>11. (\A s \in sessions : SessionOK(s))'
    <2> SUFFICES ASSUME NEW s \in sessions' PROVE SessionOK(s)'  OBVIOUS
    <2>1. CASE s \in sessions  BY <1>5, <2>1
    <2>2. CASE s = new  BY <1>4, <2>2
    <2> QED  BY <1>2, <2>1, <2>2
  <1>12. Unique'  BY <1>2, <1>5 DEF Inv, Unique
  <1>13. AdministratorLeft'  BY <1>2 DEF Inv, AdministratorLeft
  <1> QED  BY <1>8, <1>9, <1>10, <1>11, <1>12, <1>13 DEF Inv

(* Sessions go, age, or a lock ends, and no handler moves.                 *)
LEMMA OutsideKeeps ==
    ASSUME Inv,
           \/ \E s \in sessions : SignOut(s) \/ Age(s)
           \/ \E k \in Keys : LockEnds(k)
           \/ UNCHANGED vars
    PROVE  Inv'
  <1>1. UNCHANGED <<account, call, issued, era, closed, crossed>>
        BY DEF SignOut, Age, LockEnds, vars, eras
  <1>2. /\ \A k \in Keys : CountsKept(k) \/ CountsReset(k)
        /\ tries' \in [Keys -> Nat] /\ guesses' \in [Keys -> Nat]
    <2>1. CASE \E k \in Keys : LockEnds(k)
      <3>1. PICK k \in Keys : /\ tries' = [tries EXCEPT ![k] = 0]
                              /\ guesses' = [guesses EXCEPT ![k] = 0]
            BY <2>1 DEF LockEnds, Reset
      <3> QED  BY <3>1 DEF Inv, Typed, CountsKept, CountsReset
    <2>2. CASE ~\E k \in Keys : LockEnds(k)
          BY <2>2 DEF SignOut, Age, vars, throttle, Inv, Typed, CountsKept
    <2> QED  BY <2>1, <2>2
  <1>3. LockInv'  BY <1>1, <1>2, LockStays
  <1>4. Typed' /\ CallInv' /\ AdministratorLeft'
        BY <1>1, <1>2 DEF Inv, Typed, CallInv, CallOK, AdministratorLeft
  <1>5. (\A s \in sessions : SessionOK(s))' /\ Unique'
    <2>1. CASE sessions' \subseteq sessions  BY <1>1, <2>1 DEF Inv, SessionOK, Unique
    <2>2. CASE \E s \in sessions : Age(s)
      <3>1. PICK s \in sessions : Age(s)  BY <2>2
      <3>2. PICK t : t = [s EXCEPT !.fresh = FALSE]  OBVIOUS
      <3>3. sessions' = (sessions \ {s}) \cup {t}  BY <3>1, <3>2 DEF Age
      <3>4. SessionOK(s) /\ s \in Session  BY DEF Inv, SessionOK
      <3>5. /\ t \in Session /\ t.id = s.id /\ t.era = s.era /\ t.user = s.user
            /\ t.late = s.late
            BY <3>2, <3>4 DEF Session
      <3>6. SessionOK(t)'  BY <1>1, <3>4, <3>5 DEF SessionOK
      <3>7. \A r \in sessions : SessionOK(r)'  BY <1>1 DEF Inv, SessionOK
      <3>8. Unique'  BY <3>3, <3>5 DEF Inv, Unique
      <3>9. (\A r \in sessions : SessionOK(r))'
        <4> SUFFICES ASSUME NEW r \in sessions' PROVE SessionOK(r)'  OBVIOUS
        <4> QED  BY <3>3, <3>6, <3>7
      <3> QED  BY <3>8, <3>9
    <2> QED  BY <2>1, <2>2 DEF SignOut, LockEnds, vars
  <1> QED  BY <1>3, <1>4, <1>5 DEF Inv

-----------------------------------------------------------------------------
(* A decision against u has done its work: handlers that have not seen it  *)
(* and are about to start a session of u are marked.                       *)
ErasMove(u) ==
    /\ \A v \in Users : era[v] \in Nat /\ era'[v] \in Nat /\ era[v] <= era'[v]
    /\ \A v \in Users : v # u => closed'[v] = closed[v]

LEMMA DoneAgainstKeeps ==
    ASSUME Inv, NEW p \in Procs, NEW u \in Users, DoneAgainst(p, u), ErasMove(u)
    PROVE  CallInv' /\ call'[p] = Idle /\ Elsewhere(p)
  <1>1. call'[p] = Idle /\ \A q \in Procs \ {p} : call'[q] = Straggle(call[q], u)
        BY DEF DoneAgainst
  <1>2. CallOK(Idle) /\ Idle \in Call /\ Idle.pc = "idle" /\ Idle.era = 0
        BY IdleOK DEF Inv, CallOK
  <1>3. CallOK(Idle)'
    <2>1. Idle.user \in Users  BY <1>2 DEF Call
    <2> QED  BY <1>2, <2>1 DEF CallOK, ErasMove
  <1>4. ASSUME NEW q \in Procs \ {p}
        PROVE  /\ call'[q] \in Call /\ CallOK(call[q])'
               /\ call'[q].pc = call[q].pc /\ call'[q].by = call[q].by
               /\ call'[q].user = call[q].user
    <2>1. PICK c : c = call[q]  OBVIOUS
    <2>2. CallOK(c) /\ c \in Call  BY <2>1 DEF Inv, CallInv, CallOK
    <2>3. c.user \in Users /\ c.era \in Nat  BY <2>2 DEF Call
    <2>4. PICK d : d = Straggle(c, u)  OBVIOUS
    <2>5. /\ d \in Call /\ d.pc = c.pc /\ d.by = c.by /\ d.user = c.user
          /\ d.era = c.era /\ d.admin = c.admin
          BY <2>2, <2>4 DEF Straggle, Call
    <2>6. d.pc = "enter" /\ d.era < closed'[d.user] => d.late
      <3>1. CASE c.pc = "enter" /\ c.user = u
        <4>1. d = [c EXCEPT !.late = TRUE]  BY <2>4, <3>1 DEF Straggle
        <4> QED  BY <2>2, <4>1 DEF Call
      <3>2. CASE ~(c.pc = "enter" /\ c.user = u)
        <4>1. d = c  BY <2>4, <3>2 DEF Straggle
        <4> QED  BY <2>2, <2>3, <3>2, <4>1 DEF CallOK, ErasMove
      <3> QED  BY <3>1, <3>2
    <2>7. CallOK(d)'  BY <2>2, <2>3, <2>5, <2>6 DEF CallOK, ErasMove
    <2>8. call'[q] = d  BY <1>1, <2>1, <2>4
    <2> QED  BY <2>1, <2>5, <2>7, <2>8 DEF CallOK
  <1>5. call' \in [Procs -> Call]
    <2>1. call' = [q \in Procs |-> call'[q]]  BY DEF DoneAgainst
    <2>2. \A q \in Procs : call'[q] \in Call  BY <1>1, <1>2, <1>4
    <2> QED  BY <2>1, <2>2
  <1>6. \A q \in Procs : CallOK(call[q])'
    <2> TAKE q \in Procs
    <2>1. CASE q = p  BY <1>1, <1>3, <2>1 DEF CallOK
    <2>2. CASE q # p  BY <1>4, <2>2
    <2> QED  BY <2>1, <2>2
  <1>7. Elsewhere(p)  BY <1>4 DEF Elsewhere
  <1> QED  BY <1>1, <1>5, <1>6, <1>7 DEF CallInv

(* The sessions of others are as they were.                                *)
LEMMA OthersStillOK ==
    ASSUME Inv, NEW u \in Users, ErasMove(u), issued' = issued,
           NEW s \in sessions, s.user # u
    PROVE  SessionOK(s)'
  <1>1. SessionOK(s) /\ s.user \in Users /\ s.era \in Nat  BY DEF Inv, SessionOK, Session
  <1> QED  BY <1>1 DEF SessionOK, ErasMove

(* ChangePassword carries the session that asked over into the new era.    *)
LEMMA ChangeKeeps ==
    ASSUME Inv, NEW p \in Procs, Change(p)
    PROVE  Inv'
  <1>1. call[p] \in Call  BY DEF Inv, CallInv
  <1>2. PICK u \in Users, n \in 0..MaxSessions : u = call[p].user /\ n = call[p].id
        BY <1>1 DEF Call
  <1>3. PICK e \in Nat : e = era[u] + 1 /\ era[u] \in Nat
        BY Bounds DEF Inv, Typed
  <1>4. /\ call[p].pc = "change" /\ era[u] < MaxEras
        /\ account' = [account EXCEPT ![u].known = TRUE]
        /\ era' = [era EXCEPT ![u] = e]
        /\ closed' = [closed EXCEPT ![u] = IF e > @ THEN e ELSE @]
        /\ DoneAgainst(p, u)
        /\ tries' = [tries EXCEPT ![Key(p)] = 0] /\ guesses' = [guesses EXCEPT ![Key(p)] = 0]
        /\ UNCHANGED <<issued, crossed>>
        BY <1>2, <1>3 DEF Change, At, Close, Reset
  <1>5. sessions' = {s \in sessions : s.user # u}
                    \cup {[s EXCEPT !.era = e] : s \in {t \in sessions : t.user = u /\ t.id = n}}
        BY <1>2, <1>3 DEF Change
  <1>6. era'[u] = e /\ closed'[u] = e /\ ErasMove(u)
    <2>1. closed[u] \in Nat /\ closed[u] <= era[u]  BY DEF Inv, Typed
    <2>2. \A v \in Users : era[v] \in Nat  BY Bounds DEF Inv, Typed
    <2> QED  BY <1>3, <1>4, <2>1, <2>2 DEF Inv, Typed, ErasMove
  <1>7. Typed'
    <2>1. era' \in [Users -> 0..MaxEras] /\ closed' \in [Users -> Nat]
          BY <1>3, <1>4, Bounds DEF Inv, Typed
    <2>2. \A v \in Users : closed'[v] <= era'[v]
      <3> TAKE v \in Users
      <3>1. CASE v = u  BY <1>3, <1>6, <3>1
      <3>2. CASE v # u
        <4>1. closed'[v] = closed[v] /\ era'[v] = era[v]  BY <1>4, <3>2 DEF Inv, Typed
        <4> QED  BY <4>1 DEF Inv, Typed
      <3> QED  BY <3>1, <3>2
    <2>3. account' \in [Users -> Account]  BY <1>4 DEF Inv, Typed, Account
    <2> QED  BY <1>4, <2>1, <2>2, <2>3 DEF Inv, Typed
  <1>8. CallInv' /\ call'[p] = Idle /\ Elsewhere(p)  BY <1>4, <1>6, DoneAgainstKeeps
  <1>9. LockInv'
    <2>1. \A j \in Keys : CountsKept(j) \/ CountsReset(j)
          BY <1>4 DEF Inv, Typed, CountsKept, CountsReset
    <2> QED  BY <1>4, <1>8, <2>1, IdleOK, LockKeeps DEF Inv
  <1>10. ASSUME NEW s \in sessions'
         PROVE  SessionOK(s)' /\ \E t \in sessions :
                   s.id = t.id /\ s = IF t.user = u THEN [t EXCEPT !.era = e] ELSE t
    <2>1. CASE s \in sessions /\ s.user # u
      <3>1. SessionOK(s)'  BY <1>4, <1>6, <2>1, OthersStillOK
      <3> QED  BY <2>1, <3>1
    <2>2. CASE \E t \in sessions : t.user = u /\ s = [t EXCEPT !.era = e]
      <3>1. PICK t \in sessions : t.user = u /\ s = [t EXCEPT !.era = e]  BY <2>2
      <3>2. SessionOK(t) /\ t \in Session  BY DEF Inv, SessionOK
      <3>3. s \in Session /\ s.id = t.id /\ s.user = u /\ s.era = e
            BY <3>1, <3>2 DEF Session
      <3>4. SessionOK(s)'  BY <1>4, <1>6, <3>2, <3>3 DEF SessionOK
      <3> QED  BY <3>1, <3>3, <3>4
    <2> QED  BY <1>5, <2>1, <2>2
  <1>11. Unique'
    <2> SUFFICES ASSUME NEW s \in sessions', NEW t \in sessions', s.id = t.id PROVE s = t
        BY DEF Unique
    <2>1. PICK s0 \in sessions : s.id = s0.id /\ s = IF s0.user = u THEN [s0 EXCEPT !.era = e] ELSE s0
          BY <1>10
    <2>2. PICK t0 \in sessions : t.id = t0.id /\ t = IF t0.user = u THEN [t0 EXCEPT !.era = e] ELSE t0
          BY <1>10
    <2>3. s0 = t0  BY <2>1, <2>2 DEF Inv, Unique
    <2> QED  BY <2>1, <2>2, <2>3
  <1>12. AdministratorLeft'
    <2>1. \A v \in Users : account'[v].active = account[v].active
          BY <1>4 DEF Inv, Typed, Account
    <2> QED  BY <1>4, <2>1, SessionsAssumption DEF Inv, AdministratorLeft
  <1> QED  BY <1>7, <1>8, <1>9, <1>10, <1>11, <1>12 DEF Inv

(* The decision is in the table; its work is still to be done.  A disable  *)
(* leaves the administrator who asked for it, unless he was disabled       *)
(* himself meanwhile.                                                      *)
LEMMA DecideKeeps ==
    ASSUME Inv, NEW p \in Procs, Decide(p)
    PROVE  Inv'
  <1>1. call[p] \in Call /\ CallOK(call[p])  BY DEF Inv, CallInv, CallOK
  <1>2. PICK u \in Users : u = call[p].user  BY <1>1 DEF Call
  <1>3. PICK e \in Nat : e = era[u] + 1 /\ era[u] \in Nat
        BY Bounds DEF Inv, Typed
  <1>4. PICK r : r = [call[p] EXCEPT !.pc = "revoke", !.era = e]  OBVIOUS
  <1>5. /\ call[p].pc \in {"disable", "reset"} /\ era[u] < MaxEras
        /\ account' = IF call[p].pc = "disable" THEN [account EXCEPT ![u].active = FALSE]
                                               ELSE [account EXCEPT ![u].known = TRUE]
        /\ era' = [era EXCEPT ![u] = e] /\ era'[u] = e
        /\ call' = [call EXCEPT ![p] = r]
        /\ crossed' = (crossed \/ \E a \in call[p].admin : ~account[a].active)
        /\ UNCHANGED <<sessions, tries, guesses, issued, closed>>
    <2>1. era' = [era EXCEPT ![u] = e] /\ era'[u] = e
          BY <1>2, <1>3 DEF Decide, Inv, Typed
    <2> QED  BY <1>2, <1>4, <2>1 DEF Decide, At, throttle
  <1>6. r \in Call /\ r.pc = "revoke" /\ r.user = u /\ r.era = e
        BY <1>1, <1>2, <1>4 DEF Call, Pcs
  <1>7. ErasGrow /\ ErasMove(u)
    <2>1. \A v \in Users : era[v] \in Nat /\ era'[v] = IF v = u THEN e ELSE era[v]
          BY <1>5, Bounds DEF Inv, Typed
    <2> QED  BY <1>3, <1>5, <2>1 DEF ErasGrow, ErasMove
  <1>8. Typed'
    <2>1. era' \in [Users -> 0..MaxEras]  BY <1>3, <1>5, Bounds DEF Inv, Typed
    <2>2. \A v \in Users : closed'[v] <= era'[v]
      <3> TAKE v \in Users
      <3>1. closed[v] \in Nat /\ closed[v] <= era[v]  BY DEF Inv, Typed
      <3> QED  BY <1>5, <1>7, <3>1 DEF ErasGrow
    <2>3. account' \in [Users -> Account]  BY <1>5 DEF Inv, Typed, Account
    <2>4. crossed' \in BOOLEAN  BY <1>5 DEF Inv, Typed
    <2> QED  BY <1>5, <2>1, <2>2, <2>3, <2>4 DEF Inv, Typed
  <1>9. CallInv' /\ call'[p] = r /\ Elsewhere(p)
    <2>1. CallOK(r)'  BY <1>5, <1>6 DEF CallOK
    <2> QED  BY <1>5, <1>7, <2>1, CallKeeps
  <1>10. LockInv'
    <2>1. \A k \in Keys : CountsKept(k)  BY <1>5 DEF CountsKept
    <2> QED  BY <1>5, <1>6, <1>9, <2>1, LockKeeps
  <1>11. (\A s \in sessions : SessionOK(s))' /\ Unique'
    <2>1. \A s \in sessions : SessionOK(s)'
      <3> TAKE s \in sessions
      <3>1. SessionOK(s) /\ s.user \in Users /\ s.era \in Nat  BY DEF Inv, SessionOK, Session
      <3> QED  BY <1>5, <1>7, <3>1 DEF SessionOK, ErasGrow
    <2> QED  BY <1>5, <2>1 DEF Inv, Unique
  <1>12. AdministratorLeft'
    <2>1. CASE call[p].pc = "disable"
      <3>1. PICK a \in call[p].admin : a # u  BY <1>1, <1>2, <2>1 DEF CallOK
      <3>2. a \in Admins /\ a \in Users  BY <1>1, <3>1, SessionsAssumption DEF Call
      <3>3. account'[a] = account[a]  BY <1>5, <2>1, <3>1, <3>2 DEF Inv, Typed
      <3> QED  BY <1>5, <3>1, <3>2, <3>3 DEF AdministratorLeft
    <2>2. CASE call[p].pc # "disable"
      <3>1. \A v \in Users : account'[v].active = account[v].active
            BY <1>5, <2>2 DEF Inv, Typed, Account
      <3>2. crossed => crossed'  BY <1>5
      <3> QED  BY <3>1, <3>2, SessionsAssumption DEF Inv, AdministratorLeft
    <2> QED  BY <2>1, <2>2
  <1> QED  BY <1>8, <1>9, <1>10, <1>11, <1>12 DEF Inv

LEMMA RevokeKeeps ==
    ASSUME Inv, NEW p \in Procs, Revoke(p)
    PROVE  Inv'
  <1>1. call[p] \in Call /\ CallOK(call[p])  BY DEF Inv, CallInv, CallOK
  <1>2. PICK u \in Users, e \in Nat : u = call[p].user /\ e = call[p].era /\ e <= era[u]
        BY <1>1 DEF Call, CallOK
  <1>3. /\ call[p].pc = "revoke" /\ DoneAgainst(p, u)
        /\ sessions' = {s \in sessions : s.user # u}
        /\ closed' = [closed EXCEPT ![u] = IF e > @ THEN e ELSE @]
        /\ UNCHANGED <<account, tries, guesses, issued, era, crossed>>
        BY <1>2 DEF Revoke, At, Close, throttle
  <1>4. ErasMove(u)
    <2>1. \A v \in Users : era[v] \in Nat  BY Bounds DEF Inv, Typed
    <2> QED  BY <1>3, <2>1 DEF Inv, Typed, ErasMove
  <1>5. Typed'
    <2>1. \A v \in Users : closed[v] \in Nat /\ closed[v] <= era[v]  BY DEF Inv, Typed
    <2>2. \A v \in Users : closed'[v] \in Nat /\ closed'[v] <= era[v]
      <3> TAKE v \in Users
      <3>1. closed'[v] = IF v = u THEN IF e > closed[u] THEN e ELSE closed[u] ELSE closed[v]
            BY <1>3 DEF Inv, Typed
      <3> QED  BY <1>2, <2>1, <3>1
    <2>3. closed' \in [Users -> Nat]  BY <1>3, <2>2 DEF Inv, Typed
    <2> QED  BY <1>3, <2>2, <2>3 DEF Inv, Typed
  <1>6. CallInv' /\ call'[p] = Idle /\ Elsewhere(p)  BY <1>3, <1>4, DoneAgainstKeeps
  <1>7. LockInv'
    <2>1. \A k \in Keys : CountsKept(k)  BY <1>3 DEF CountsKept
    <2> QED  BY <1>3, <1>6, <2>1, IdleOK, LockKeeps DEF Inv
  <1>8. \A s \in sessions : s.user # u => SessionOK(s)'  BY <1>3, <1>4, OthersStillOK
  <1>9. (\A s \in sessions : SessionOK(s))' /\ Unique'  BY <1>3, <1>8 DEF Inv, Unique
  <1>10. AdministratorLeft'  BY <1>3 DEF Inv, AdministratorLeft
  <1> QED  BY <1>5, <1>6, <1>7, <1>9, <1>10 DEF Inv

-----------------------------------------------------------------------------
LEMMA InitGood == Init => Inv
  <1> SUFFICES ASSUME Init PROVE Inv  OBVIOUS
  <1>1. Typed
    <2>1. account \in [Users -> Account]
      <3>1. \A u \in Users : [active |-> TRUE, known |-> u \notin Passwordless] \in Account
            BY DEF Account
      <3> QED  BY <3>1 DEF Init
    <2>2. /\ tries \in [Keys -> Nat] /\ guesses \in [Keys -> Nat]
          /\ issued \in 0..MaxSessions
          BY Bounds DEF Init
    <2>3. /\ era \in [Users -> 0..MaxEras] /\ closed \in [Users -> Nat]
          /\ \A u \in Users : closed[u] <= era[u]
          BY Bounds DEF Init
    <2>4. crossed \in BOOLEAN  BY DEF Init
    <2> QED  BY <2>1, <2>2, <2>3, <2>4 DEF Typed
  <1>2. CallOK(Idle) /\ Idle \in Call /\ Idle.pc = "idle"  BY <1>1, IdleOK DEF CallOK
  <1>3. CallInv  BY <1>2 DEF Init, CallInv
  <1>4. LockInv
    <2> SUFFICES ASSUME NEW k \in Keys
                 PROVE  /\ guesses[k] <= tries[k] + Uncounted(k)
                        /\ tries[k] + Uncounted(k) <= MaxTries + Cardinality(Procs) - 1
        BY DEF LockInv
    <2>1. tries[k] = 0 /\ guesses[k] = 0  BY DEF Init
    <2> QED  BY <2>1, Bounds, UncountedBounded
  <1>5. AdministratorLeft  BY SessionsAssumption DEF Init, AdministratorLeft
  <1> QED  BY <1>1, <1>3, <1>4, <1>5 DEF Init, Inv, Unique

LEMMA NextKeeps == Inv /\ [Next]_vars => Inv'
  <1> SUFFICES ASSUME Inv, [Next]_vars PROVE Inv'  OBVIOUS
  <1>1. CASE \E p \in Procs : Fail(p)  BY <1>1, FailKeeps
  <1>2. CASE \E p \in Procs : Enter(p)  BY <1>2, EnterKeeps
  <1>3. CASE \E p \in Procs : Change(p)  BY <1>3, ChangeKeeps
  <1>4. CASE \E p \in Procs : Decide(p)  BY <1>4, DecideKeeps
  <1>5. CASE \E p \in Procs : Revoke(p)  BY <1>5, RevokeKeeps
  <1>6. CASE \E p \in Procs :
                \/ Enable(p) \/ DecideFails(p) \/ Die(p)
                \/ \E u \in Users : Command(p, u)
                \/ \E s \in sessions, u \in Users, active \in BOOLEAN : Toggle(p, s, u, active)
        BY <1>6, QuietStepKeeps
  <1>7. CASE \E p \in Procs, u \in Users : SignIn(p, u) \/ SignInByProof(p, u)
        BY <1>7, SignInKeeps
  <1>8. CASE \E p \in Procs, s \in sessions : ChangeAsks(p, s)  BY <1>8, ChangeAsksKeeps
  <1>9. CASE \/ \E s \in sessions : SignOut(s) \/ Age(s)
             \/ \E k \in Keys : LockEnds(k)
             \/ UNCHANGED vars
        BY <1>9, OutsideKeeps
  <1> QED  BY <1>1, <1>2, <1>3, <1>4, <1>5, <1>6, <1>7, <1>8, <1>9 DEF Next

(* Sessions, handlers and counts are as the comments at their definitions  *)
(* say, in every state that handlers, decisions and deaths can reach.      *)
THEOREM Invariant == Spec => []Inv
  <1>1. Inv /\ [][Next]_vars => []Inv  BY NextKeeps, PTL
  <1> QED  BY <1>1, InitGood, PTL DEF Spec

(* Everything is well formed: session ids stay unique through changes and  *)
(* ageing, and nothing is ahead of the decisions taken.                    *)
THEOREM TypeCorrect == Spec => []TypeOK
  <1>1. Inv => TypeOK
    <2> SUFFICES ASSUME Inv PROVE TypeOK  OBVIOUS
    <2>1. sessions \in SUBSET Session /\ \A s \in sessions : s.id <= issued /\ s.era <= era[s.user]
          BY DEF Inv, SessionOK
    <2>2. \A u \in Users : closed[u] \in 0..era[u]  BY Bounds DEF Inv, Typed
    <2> QED  BY <2>1, <2>2 DEF Inv, Typed, CallInv, Unique, TypeOK, Call, Account
  <1> QED  BY <1>1, Invariant, PTL

(* Once a change, a disable or a reset has done its work, every session    *)
(* begun before it is gone, except one whose sign-in had read the account  *)
(* and was still to start it (ChangePassword, RevokeUserSessions,          *)
(* startSession); for any number of handlers and decisions.                *)
THEOREM DecisionsAlwaysCut == Spec => []DecisionsCut
  <1>1. Inv => DecisionsCut  BY DEF Inv, SessionOK, DecisionsCut
  <1> QED  BY <1>1, Invariant, PTL

(* Wrong passwords at one key are compared MaxTries times before the lock, *)
(* and once more for each handler beside the first (throttle.blocked,      *)
(* throttle.fail).                                                         *)
THEOREM LockoutAlwaysHolds == Spec => []LockoutHolds
  <1>1. Inv => LockoutHolds
    <2> SUFFICES ASSUME Inv, NEW k \in Keys
                 PROVE  guesses[k] <= MaxTries + Cardinality(Procs) - 1
        BY DEF LockoutHolds
    <2>1. tries[k] \in Nat /\ guesses[k] \in Nat  BY DEF Inv, Typed
    <2> QED  BY <2>1, UncountedBounded, Bounds DEF Inv, LockInv
  <1> QED  BY <1>1, Invariant, PTL

(* An administrator is left who can sign in, however many disable each     *)
(* other, unless one of them acted when he was disabled already            *)
(* (handleAdminToggleUser).                                                *)
THEOREM AdministratorStays == Spec => []AdministratorLeft
  <1>1. Inv => AdministratorLeft  BY DEF Inv
  <1> QED  BY <1>1, Invariant, PTL
=============================================================================
