------------------------------ MODULE Sessions ------------------------------
(***************************************************************************)
(* Browser sessions and what ends them: signing in by password or by a     *)
(* proof of an address, changing a password, an administrator disabling an *)
(* account, the reset-password command, signing out, and the lockout of    *)
(* wrong passwords (internal/server ui.go, password.go, admin.go,          *)
(* server.go, internal/store/store.go, cmd/nabuauth/main.go).              *)
(*                                                                         *)
(* A handler reads the account, compares a password for as long as bcrypt  *)
(* takes, and only then writes.  Every decision against an account         *)
(* (disable, reset, change) begins a new era of it; a session belongs to   *)
(* the era its sign-in read the account in.  Refresh tokens, which the     *)
(* same handlers revoke, are TokenGrants'.                                 *)
(***************************************************************************)
EXTENDS Naturals, FiniteSets

CONSTANTS Users,
          Admins,       \* users with is_admin
          Passwordless, \* users whose account was made without a known password
          Procs,        \* request handlers and command-line tools
          MaxTries,     \* maxAttempts of the throttle: 8
          Guessed,      \* bound: the throttle keys at which wrong passwords are tried
          MaxSessions,  \* bound: sessions ever started
          MaxEras       \* bound: decisions ever taken

Keys == {"signin", "change"} \X Users

ASSUME SessionsAssumption ==
    /\ Users # {}
    /\ Admins \subseteq Users /\ Passwordless \subseteq Users
    /\ IsFiniteSet(Procs)
    /\ MaxTries \in Nat \ {0}
    /\ Guessed \subseteq Keys
    /\ MaxSessions \in Nat /\ MaxEras \in Nat

VARIABLES account,   \* account[u]: active, and whether its owner knows its password
          sessions,  \* the rows of sessions
          tries,     \* tries[k]: the throttle's count (in memory)
          call,      \* call[p]: where handler p is, and what it read
          issued,    \* history: sessions started so far
          era,       \* history: decisions taken against each account
          closed,    \* history: the newest era whose handler has done its work
          guesses,   \* history: wrong passwords compared since the last lock or reset
          crossed    \* history: a disabled administrator's decision took effect

vars == <<account, sessions, tries, call, issued, era, closed, guesses, crossed>>
throttle == <<tries, guesses>>
eras == <<era, closed>>

(* late: the sign-in was under way when a decision it had not seen was     *)
(* carried out.                                                            *)
Session == [id: 1..MaxSessions, user: Users, era: Nat, fresh: BOOLEAN, late: BOOLEAN]

Idle == [pc |-> "idle", user |-> CHOOSE u \in Users : TRUE, by |-> "none",
         id |-> 0, era |-> 0, late |-> FALSE, admin |-> {}]

Free(p) == call[p].pc = "idle"
At(p, pc) == call[p].pc = pc
Goto(p, pc) == call' = [call EXCEPT ![p].pc = pc]
Done(p) == call' = [call EXCEPT ![p] = Idle]
Go(p, pc, u, by) == call' = [call EXCEPT ![p] = [Idle EXCEPT !.pc = pc, !.user = u, !.by = by]]
GoIn(p, u, by) == call' = [call EXCEPT ![p] =
    [Idle EXCEPT !.pc = "enter", !.user = u, !.by = by, !.era = era[u]]]

Key(p) == <<call[p].by, call[p].user>>
Blocked(k) == tries[k] >= MaxTries

(* SessionUser: the row is there and its account active.                   *)
Resolves(s) == account[s.user].active

-----------------------------------------------------------------------------
Init ==
    /\ account = [u \in Users |-> [active |-> TRUE, known |-> u \notin Passwordless]]
    /\ sessions = {} /\ issued = 0
    /\ tries = [k \in Keys |-> 0]
    /\ guesses = [k \in Keys |-> 0]
    /\ call = [p \in Procs |-> Idle]
    /\ era = [u \in Users |-> 0]
    /\ closed = [u \in Users |-> 0]
    /\ crossed = FALSE

(* A wrong password is compared; throttle.fail counts it afterwards.       *)
Guess(p, k) ==
    /\ k \in Guessed
    /\ Go(p, "wrong", k[2], k[1])
    /\ guesses' = [guesses EXCEPT ![k] = @ + 1]

FailUncounted(p) ==
    /\ At(p, "wrong")
    /\ Done(p)
    /\ UNCHANGED <<account, sessions, throttle, issued, eras, crossed>>

Fail(p) ==
    /\ At(p, "wrong")
    /\ tries' = [tries EXCEPT ![Key(p)] = @ + 1]
    /\ Done(p)
    /\ UNCHANGED <<account, sessions, guesses, issued, eras, crossed>>

(* throttle.reset                                                          *)
Reset(k) ==
    /\ tries' = [tries EXCEPT ![k] = 0]
    /\ guesses' = [guesses EXCEPT ![k] = 0]

-----------------------------------------------------------------------------
(* finishPassword: the account is read and the password compared.          *)
SignIn(p, u) ==
    /\ Free(p)
    /\ ~Blocked(<<"signin", u>>)
    /\ \/ Guess(p, <<"signin", u>>)
       \/ account[u].active /\ GoIn(p, u, "signin") /\ UNCHANGED guesses
    /\ UNCHANGED <<account, sessions, tries, issued, eras, crossed>>

(* The doors that prove an address instead: a code, a provider, Telegram.  *)
SignInByProof(p, u) ==
    /\ Free(p)
    /\ account[u].active
    /\ GoIn(p, u, "proof")
    /\ UNCHANGED <<account, sessions, throttle, issued, eras, crossed>>

(* startSession, which looks at nothing again.                             *)
EnterKnownToken(p) ==
    /\ At(p, "enter")
    /\ issued < MaxSessions
    /\ issued' = issued + 1
    /\ sessions' = sessions \cup {[id |-> 1, user |-> call[p].user, era |-> call[p].era,
                                   fresh |-> TRUE, late |-> call[p].late]}
    /\ IF call[p].by = "signin" THEN Reset(Key(p)) ELSE UNCHANGED throttle
    /\ Done(p)
    /\ UNCHANGED <<account, eras, crossed>>

Enter(p) ==
    /\ At(p, "enter")
    /\ issued < MaxSessions
    /\ issued' = issued + 1
    /\ sessions' = sessions \cup {[id |-> issued', user |-> call[p].user, era |-> call[p].era,
                                   fresh |-> TRUE, late |-> call[p].late]}
    /\ IF call[p].by = "signin" THEN Reset(Key(p)) ELSE UNCHANGED throttle
    /\ Done(p)
    /\ UNCHANGED <<account, eras, crossed>>

(* endSession, and the end of a session's life.                            *)
SignOut(s) ==
    /\ s \in sessions
    /\ sessions' = sessions \ {s}
    /\ UNCHANGED <<account, throttle, call, issued, eras, crossed>>

(* freshSignIn passes, which tells only while nobody knows the password.   *)
Age(s) ==
    /\ s \in sessions /\ s.fresh /\ ~account[s.user].known
    /\ sessions' = (sessions \ {s}) \cup {[s EXCEPT !.fresh = FALSE]}
    /\ UNCHANGED <<account, throttle, call, issued, eras, crossed>>

(* lockFor passes since the last count.                                    *)
LockEnds(k) ==
    /\ tries[k] > 0
    /\ Reset(k)
    /\ UNCHANGED <<account, sessions, call, issued, eras, crossed>>

-----------------------------------------------------------------------------
(* The work of a decision against u is done: sessions that must be gone    *)
(* are gone, and sign-ins still under way have not seen it.                *)
Close(u, e) ==
    /\ closed' = [closed EXCEPT ![u] = IF e > @ THEN e ELSE @]
Straggle(c, u) == IF c.pc = "enter" /\ c.user = u THEN [c EXCEPT !.late = TRUE] ELSE c
DoneAgainst(p, u) == call' = [q \in Procs |-> IF q = p THEN Idle ELSE Straggle(call[q], u)]

(* handlePasswordChange up to the comparison: the session resolves, and    *)
(* the current password is asked for unless nobody knows it.               *)
ChangeAsks(p, s) ==
    LET k == <<"change", s.user>> IN
    /\ Free(p)
    /\ s \in sessions /\ Resolves(s)
    /\ ~Blocked(k)
    /\ \/ account[s.user].known /\ Guess(p, k)
       \/ /\ account[s.user].known \/ s.fresh
          /\ call' = [call EXCEPT ![p] = [Idle EXCEPT !.pc = "change", !.user = s.user,
                                                      !.by = "change", !.id = s.id]]
          /\ UNCHANGED guesses
    /\ UNCHANGED <<account, sessions, tries, issued, eras, crossed>>

(* ChangePassword: one transaction.  The session that asked stays, with    *)
(* the new password proved, if it is still there.                          *)
ChangeEndsItself(p) ==
    LET u == call[p].user  e == era[u] + 1 IN
    /\ At(p, "change")
    /\ era[u] < MaxEras
    /\ account' = [account EXCEPT ![u].known = TRUE]
    /\ era' = [era EXCEPT ![u] = e]
    /\ sessions' = {s \in sessions : s.user # u \/ s.id # call[p].id}
    /\ Close(u, e)
    /\ DoneAgainst(p, u)
    /\ Reset(Key(p))
    /\ UNCHANGED <<issued, crossed>>

Change(p) ==
    LET u == call[p].user  e == era[u] + 1 IN
    /\ At(p, "change")
    /\ era[u] < MaxEras
    /\ account' = [account EXCEPT ![u].known = TRUE]
    /\ era' = [era EXCEPT ![u] = e]
    /\ sessions' = {s \in sessions : s.user # u}
                   \cup {[s EXCEPT !.era = e] : s \in {t \in sessions : t.user = u /\ t.id = call[p].id}}
    /\ Close(u, e)
    /\ DoneAgainst(p, u)
    /\ Reset(Key(p))
    /\ UNCHANGED <<issued, crossed>>

-----------------------------------------------------------------------------
(* handleAdminToggleUser: requireAdmin resolves the session; an            *)
(* administrator may not disable himself.                                  *)
ToggleSelf(p, s, u, active) ==
    /\ Free(p)
    /\ s \in sessions /\ Resolves(s) /\ s.user \in Admins
    /\ call' = [call EXCEPT ![p] = [Idle EXCEPT !.pc = IF active THEN "enable" ELSE "disable",
                                                !.user = u, !.admin = {s.user}]]
    /\ UNCHANGED <<account, sessions, throttle, issued, eras, crossed>>

Toggle(p, s, u, active) ==
    /\ Free(p)
    /\ s \in sessions /\ Resolves(s) /\ s.user \in Admins
    /\ u # s.user
    /\ call' = [call EXCEPT ![p] = [Idle EXCEPT !.pc = IF active THEN "enable" ELSE "disable",
                                                !.user = u, !.admin = {s.user}]]
    /\ UNCHANGED <<account, sessions, throttle, issued, eras, crossed>>

Enable(p) ==
    /\ At(p, "enable")
    /\ account' = [account EXCEPT ![call[p].user].active = TRUE]
    /\ Done(p)
    /\ UNCHANGED <<sessions, throttle, issued, eras, crossed>>

(* resetPassword, the command: no session is asked for.                    *)
Command(p, u) ==
    /\ Free(p)
    /\ Go(p, "reset", u, "none")
    /\ UNCHANGED <<account, sessions, throttle, issued, eras, crossed>>

(* First the decision: SetActive or SetPassword.                           *)
Decide(p) ==
    LET u == call[p].user IN
    /\ call[p].pc \in {"disable", "reset"}
    /\ era[u] < MaxEras
    /\ account' = IF At(p, "disable") THEN [account EXCEPT ![u].active = FALSE]
                                      ELSE [account EXCEPT ![u].known = TRUE]
    /\ era' = [era EXCEPT ![u] = @ + 1]
    /\ call' = [call EXCEPT ![p].pc = "revoke", ![p].era = era'[u]]
    /\ crossed' = (crossed \/ \E a \in call[p].admin : ~account[a].active)
    /\ UNCHANGED <<sessions, throttle, issued, closed>>

(* SetActive fails, which is only logged.                                  *)
DecideFails(p) ==
    /\ At(p, "disable")
    /\ Goto(p, "revoke")
    /\ UNCHANGED <<account, sessions, throttle, issued, eras, crossed>>

(* Then RevokeUserSessions.                                                *)
Revoke(p) ==
    LET u == call[p].user IN
    /\ At(p, "revoke")
    /\ sessions' = {s \in sessions : s.user # u}
    /\ Close(u, call[p].era)
    /\ DoneAgainst(p, u)
    /\ UNCHANGED <<account, throttle, issued, era, crossed>>

(* A crash, a failed statement, a caller who hangs up.  The throttle       *)
(* counts a wrong password in memory right after comparing it.             *)
Die(p) ==
    /\ ~Free(p) /\ ~At(p, "wrong")
    /\ Done(p)
    /\ UNCHANGED <<account, sessions, throttle, issued, eras, crossed>>

Next ==
    \/ \E p \in Procs :
          \/ Fail(p) \/ Enter(p) \/ Change(p) \/ Enable(p)
          \/ Decide(p) \/ DecideFails(p) \/ Revoke(p) \/ Die(p)
    \/ \E p \in Procs, u \in Users : SignIn(p, u) \/ SignInByProof(p, u) \/ Command(p, u)
    \/ \E p \in Procs, s \in sessions : ChangeAsks(p, s)
    \/ \E p \in Procs, s \in sessions, u \in Users, active \in BOOLEAN : Toggle(p, s, u, active)
    \/ \E s \in sessions : SignOut(s) \/ Age(s)
    \/ \E k \in Keys : LockEnds(k)

Spec == Init /\ [][Next]_vars

-----------------------------------------------------------------------------
Pcs == {"idle", "wrong", "enter", "change", "enable", "disable", "reset", "revoke"}

(* Everything is well formed; session ids are unique, and no account or     *)
(* session is ahead of the decisions taken.                                 *)
TypeOK ==
    /\ account \in [Users -> [active: BOOLEAN, known: BOOLEAN]]
    /\ sessions \in SUBSET Session
    /\ \A s, t \in sessions : s.id = t.id => s = t
    /\ \A s \in sessions : s.id <= issued /\ s.era <= era[s.user]
    /\ tries \in [Keys -> Nat] /\ guesses \in [Keys -> Nat]
    /\ call \in [Procs -> [pc: Pcs, user: Users, by: {"none", "signin", "change", "proof"},
                           id: 0..MaxSessions, era: Nat, late: BOOLEAN, admin: SUBSET Admins]]
    /\ issued \in 0..MaxSessions
    /\ era \in [Users -> 0..MaxEras]
    /\ \A u \in Users : closed[u] \in 0..era[u]
    /\ crossed \in BOOLEAN

(* "that has to end that somebody's access too" (ChangePassword), "must not *)
(* keep a live browser session" (admin.go), "leaving their session alive    *)
(* would defeat it" (main.go): once a change, a disable or a reset has done *)
(* its work, no session begun before it is left but those whose sign-in was *)
(* under way at that moment, also after the account is enabled again.       *)
DecisionsCut ==
    \A s \in sessions : s.era < closed[s.user] => s.late

(* The lockout: wrong passwords for one key are compared MaxTries times     *)
(* before the lock, and further only by handlers already past the check.    *)
LockoutHolds ==
    \A k \in Keys : guesses[k] <= MaxTries + Cardinality(Procs) - 1

(* "that is the end of administration" (admin.go): somebody who can         *)
(* administer is left, unless one administrator disabled another while the  *)
(* other's own request to disable somebody was under way.                   *)
AdministratorLeft ==
    crossed \/ Admins = {} \/ \E a \in Admins : account[a].active
=============================================================================
