------------------------------ MODULE Accounts ------------------------------
(***************************************************************************)
(* The doors of the sign-in page and what stands behind them: finding or   *)
(* making the account for a password, a mail code, a phone code, an OIDC   *)
(* provider or Telegram (internal/server ui.go, register.go, email.go,     *)
(* phone.go, provider.go, telegram.go), accounts made by an administrator  *)
(* (admin.go) or from the shell (main.go), and connecting and              *)
(* disconnecting Telegram, over the table users (internal/store/store.go). *)
(*                                                                         *)
(* A browser has one session, one round-trip cookie and at most one        *)
(* request under way; every statement on the database is a step of its     *)
(* own, and the answer that carries a handler's cookies home may be lost.  *)
(* The codes of the mail and phone doors are OneTimeCode's, lockout        *)
(* and the ending of sessions Sessions', the wallet and the CRM report of  *)
(* a new account's transaction Wallet's and CrmOutbox'.                    *)
(***************************************************************************)
EXTENDS Naturals, Sequences, FiniteSets

CONSTANTS Browsers,
          Emails,       \* lowercase, trimmed
          Typed,        \* phone numbers as they may be typed
          Canon,        \* Canon[t]: what sms.Normalise makes of t, or None
          Telegrams,    \* Telegram ids
          Handles,      \* usernames
          None,
          MaxAccounts,  \* bound: accounts ever made
          MaxTrips,     \* bound: round trips to a provider or to Telegram
          MaxRequests   \* bound: requests ever begun; a trip and its first callback are one

Phones == {Canon[t] : t \in Typed} \ {None}

ASSUME AccountsAssumption ==
    /\ IsFiniteSet(Browsers) /\ IsFiniteSet(Emails) /\ IsFiniteSet(Typed)
    /\ DOMAIN Canon = Typed
    /\ None \notin Emails \cup Telegrams \cup Handles
    /\ MaxAccounts \in Nat /\ MaxTrips \in Nat /\ MaxRequests \in Nat

VARIABLES open,      \* server.allow_registration of this deployment
          users,     \* the table, in the order of its ids
          signed,    \* signed[b]: the account b's session cookie opens, or 0
          cookie,    \* cookie[b]: the trip b's round-trip cookies are of, or 0
          ending,    \* ending[b]: the trip b's request is the callback of, or 0
          call,      \* call[b]: where b's request is, and what it has read
          made,      \* history: how each account came about
          through,   \* history: what b proved to get its session
          answered,  \* history: addresses and numbers that answered a code
          trips,     \* history: the trips started, and where each one ended
          requests   \* requests begun so far

vars == <<open, users, signed, cookie, ending, call, made, through, answered, trips, requests>>
tables == <<open, users, made>>
seats == <<signed, through>>
travel == <<cookie, ending, trips>>

Ids == 1..Len(users)
NoUser == 0
Nothing == [key |-> "none", value |-> None]
Places == {"provider", "telegram"}
OwnDoors == {"password", "register", "mail", "phone", "provider", "telegram"}

Blank == [email |-> None, phone |-> None, telegram |-> None, username |-> None,
          admin |-> FALSE, active |-> TRUE, known |-> FALSE, verified |-> {}]

Idle == [pc |-> "idle", door |-> "none", key |-> "none", value |-> None, handle |-> None,
         user |-> NoUser, first |-> FALSE, empty |-> FALSE]

At(b, pc) == call[b].pc = pc
Free(b) == At(b, "idle")
Goto(b, pc) == call' = [call EXCEPT ![b].pc = pc]
Done(b) == call' = [call EXCEPT ![b] = Idle]

(* The answer reaches the browser.  What a callback said of its cookie,    *)
(* that it is to go, comes with the answer and not before.                 *)
AnswerKeepsCookie(b) ==
    LET n == ending[b] IN
    /\ Done(b)
    /\ IF n = 0 THEN UNCHANGED travel
       ELSE /\ ending' = [ending EXCEPT ![b] = 0]
            /\ trips' = [trips EXCEPT ![n].closed = TRUE]
            /\ UNCHANGED cookie

Answer(b) ==
    LET n == ending[b] IN
    /\ Done(b)
    /\ IF n = 0 THEN UNCHANGED travel
       ELSE /\ ending' = [ending EXCEPT ![b] = 0]
            /\ trips' = [trips EXCEPT ![n].closed = TRUE]
            /\ cookie' = [cookie EXCEPT ![b][trips[n].where] = 0]

(* A browser without a request under way begins one.                       *)
Begin(b) ==
    /\ Free(b)
    /\ requests < MaxRequests
    /\ requests' = requests + 1

(* The request of b goes on about the account u, or to make one.           *)
Go(b, pc, key, value, u) ==
    call' = [call EXCEPT ![b] = [Idle EXCEPT !.pc = pc, !.key = key, !.value = value, !.user = u]]
Close(b) == Go(b, "reply", "none", None, NoUser)  \* all that is left is the answer
Make(b, pc, door, key, value, admin, handle) ==
    call' = [call EXCEPT ![b] = [pc |-> pc, door |-> door, key |-> key, value |-> value,
        handle |-> handle, user |-> NoUser, first |-> admin, empty |-> Len(users) = 0]]
Ask(b, door, key, value) == Make(b, "open", door, key, value, FALSE, None)

(* UserByEmail, UserByPhone, UserByUsername, UserByTelegramID              *)
Holders(key, value) == {u \in Ids : value # None /\ users[u][key] = value}
Found(key, value) == Holders(key, value) # {}
Holder(key, value) == CHOOSE u \in Holders(key, value) : TRUE

(* currentUser: the session is there and its account active.               *)
SignedIn(b) == signed[b] # NoUser /\ users[signed[b]].active

(* registrationOpen                                                        *)
RegistrationOpen == open \/ Len(users) = 0

-----------------------------------------------------------------------------
Init ==
    /\ open \in BOOLEAN
    /\ users = <<>> /\ made = <<>>
    /\ signed = [b \in Browsers |-> NoUser]
    /\ cookie = [b \in Browsers |-> [w \in Places |-> 0]]
    /\ ending = [b \in Browsers |-> 0]
    /\ call = [b \in Browsers |-> Idle]
    /\ through = [b \in Browsers |-> Nothing]
    /\ answered = {} /\ trips = <<>> /\ requests = 0

(* Finding or making an account                                            *)

(* finishPassword for an address or a handle.  The row is read, and the    *)
(* password compared with the hash in it: it can only match where somebody *)
(* knows it.                                                               *)
Password(b, key, value) ==
    /\ Begin(b)
    /\ \/ \E u \in Holders(key, value) :
             /\ users[u].known /\ users[u].active
             /\ Go(b, "enter", key, value, u)
       \/ /\ ~Found(key, value) /\ key = "email"
          /\ Ask(b, "password", key, value)
    /\ UNCHANGED <<tables, seats, travel, answered>>

(* classifyIdentifier: what the one box may hold.  A number leads to the   *)
(* phone code, an address or a handle to a password.                       *)
Identifiers == ({"email"} \X Emails) \cup ({"username"} \X Handles)

(* handleLoginSubmit, handleLoginPassword                                  *)
SignInForm(b) == \E i \in Identifiers : Password(b, i[1], i[2])

(* handleRegisterSubmit: no lookup, the insert tells.                      *)
Register(b, e) ==
    /\ Begin(b)
    /\ Ask(b, "register", "email", e)
    /\ UNCHANGED <<tables, seats, travel, answered>>

(* userForEmail, userForPhone, userForProvider and the lookup of           *)
(* handleTelegramCallback: the account that holds what was proved, turned  *)
(* away when disabled, or the question whether to make one.                *)
Prove(b, door, key, value) ==
    \/ \E u \in Holders(key, value) :
        IF users[u].active
        THEN Go(b, IF door \in {"mail", "phone"} THEN "mark" ELSE "enter", key, value, u)
        ELSE Close(b)
    \/ ~Found(key, value) /\ Ask(b, door, key, value)

MailCode(b, e) ==
    /\ Begin(b)
    /\ answered' = answered \cup {e}
    /\ Prove(b, "mail", "email", e)
    /\ UNCHANGED <<tables, seats, travel>>

(* The code goes to the canonical number.                                  *)
PhoneCode(b, t) ==
    /\ Begin(b)
    /\ Canon[t] # None
    /\ answered' = answered \cup {Canon[t]}
    /\ Prove(b, "phone", "phone", Canon[t])
    /\ UNCHANGED <<tables, seats, travel>>

(* Nobody holds what was proved: is sign-up open?                          *)
AskOpen(b) ==
    /\ At(b, "open")
    /\ IF RegistrationOpen THEN Goto(b, "count") /\ UNCHANGED travel ELSE Answer(b)
    /\ UNCHANGED <<tables, seats, answered, requests>>

CountOneMore(b) ==
    /\ At(b, "count")
    /\ call' = [call EXCEPT ![b].pc = "insert", ![b].first = (Len(users) <= 1)]
    /\ UNCHANGED <<tables, seats, travel, answered, requests>>

(* CountUsers, in createAccount and the other makers: after the bcrypt of  *)
(* the new password, before the insert.                                    *)
Count(b) ==
    /\ At(b, "count")
    /\ call' = [call EXCEPT ![b].pc = "insert", ![b].first = (Len(users) = 0)]
    /\ UNCHANGED <<tables, seats, travel, answered, requests>>

NewRowVerified(c) ==
    [Blank EXCEPT ![c.key] = c.value, !.admin = c.first, !.verified = {c.key} \cap {"email"}]

(* What CreateUser inserts, and where its caller goes on.  A password      *)
(* nobody has seen does not count as known.                                *)
NewRow(c) ==
    [Blank EXCEPT ![c.key] = c.value, !.admin = c.first,
                  !.known = c.door \in {"password", "register", "admin", "shell"}]

AfterInsert(c) ==
    CASE c.door \in {"mail", "phone"} -> "mark"
      [] c.door \in {"password", "register", "provider", "telegram"} -> "enter"
      [] c.door = "admin" /\ c.handle # None -> "handle"
      [] OTHER -> "idle"

(* The unique indexes refuse a second holder, of whatever key.             *)
TakenElsewhere(key, value) == key # "telegram" /\ Found(key, value)
Taken(key, value) == Found(key, value)

Insert(b) ==
    LET c == call[b] IN
    /\ At(b, "insert")
    /\ ~Taken(c.key, c.value)
    /\ Len(users) < MaxAccounts
    /\ users' = Append(users, NewRow(c))
    /\ made' = Append(made, [own |-> c.door \in OwnDoors, empty |-> c.empty,
                             held |-> IF c.key = "telegram" THEN {c.value} ELSE {}])
    /\ CASE AfterInsert(c) = "idle" -> Done(b)
         [] AfterInsert(c) = "handle" -> Go(b, "handle", "username", c.handle, Len(users'))
         [] OTHER -> Go(b, AfterInsert(c), c.key, c.value, Len(users'))
    /\ UNCHANGED <<open, seats, travel, answered, requests>>

DuplicateEnters(b) ==
    /\ At(b, "insert")
    /\ Taken(call[b].key, call[b].value)
    /\ Goto(b, "enter")
    /\ UNCHANGED <<tables, seats, travel, answered, requests>>

(* ErrDuplicate: another request made the account.  Only the Telegram      *)
(* callback looks it up once more, and takes it as it is.                  *)
Duplicate(b) ==
    LET c == call[b] IN
    /\ At(b, "insert")
    /\ Taken(c.key, c.value)
    /\ IF c.door = "telegram" THEN Goto(b, "again") /\ UNCHANGED travel ELSE Answer(b)
    /\ UNCHANGED <<tables, seats, answered, requests>>

LookAgainNewest(b) ==
    LET c == call[b] IN
    /\ At(b, "again")
    /\ Go(b, "enter", c.key, c.value, Len(users))
    /\ UNCHANGED <<tables, seats, travel, answered, requests>>

LookAgain(b) ==
    LET c == call[b] IN
    /\ At(b, "again")
    /\ IF Found(c.key, c.value)
       THEN Go(b, "enter", c.key, c.value, Holder(c.key, c.value)) /\ UNCHANGED travel
       ELSE Answer(b)
    /\ UNCHANGED <<tables, seats, answered, requests>>

(* MarkPhoneVerified, MarkEmailVerified                                    *)
Mark(b) ==
    LET c == call[b] IN
    /\ At(b, "mark")
    /\ users' = [users EXCEPT ![c.user].verified = @ \cup {c.key}]
    /\ Goto(b, "enter")
    /\ UNCHANGED <<open, made, seats, travel, answered, requests>>

(* A failure to mark is logged, and the sign-in goes on.                   *)
MarkFails(b) ==
    /\ At(b, "mark")
    /\ Goto(b, "enter")
    /\ UNCHANGED <<tables, seats, travel, answered, requests>>

(* startSession: the session's cookie comes with the answer.               *)
Enter(b) ==
    LET c == call[b] IN
    /\ At(b, "enter")
    /\ signed' = [signed EXCEPT ![b] = c.user]
    /\ through' = [through EXCEPT ![b] = [key |-> c.key, value |-> c.value]]
    /\ Answer(b)
    /\ UNCHANGED <<tables, answered, requests>>

(* A page that says no, or sends the browser back to its account.          *)
Reply(b) ==
    /\ At(b, "reply")
    /\ Answer(b)
    /\ UNCHANGED <<tables, seats, answered, requests>>

(* The process dies, or the connection does: what was done stays, and no   *)
(* cookie is set or cleared.                                               *)
BreakOff(b) ==
    /\ ~Free(b)
    /\ Done(b)
    /\ ending' = [ending EXCEPT ![b] = 0]
    /\ UNCHANGED <<tables, seats, cookie, trips, answered, requests>>

-----------------------------------------------------------------------------
(* Round trips: a cookie stays in the browser.  To a provider its state    *)
(* travels along and comes back in the callback's address.  To Telegram    *)
(* nothing travels: the page a browser comes back to puts in the nonce of  *)
(* the cookie it holds by then (handleTelegramReturn), so what Telegram    *)
(* signed may be of an earlier trip, or of another browser's.              *)

Leave(b, where, mode) ==
    /\ Begin(b)
    /\ Len(trips) < MaxTrips
    /\ trips' = Append(trips, [by |-> b, where |-> where, mode |-> mode,
                             ended |-> <<>>, closed |-> FALSE])
    /\ cookie' = [cookie EXCEPT ![b][where] = Len(trips')]
    /\ UNCHANGED <<tables, seats, call, ending, answered>>

(* handleProviderStart, handleTelegramStart, handleTelegramLink            *)
LeaveForProvider(b) == Leave(b, "provider", "signin")
LeaveForTelegram(b) == Leave(b, "telegram", "signin")
LeaveToLink(b) == SignedIn(b) /\ Leave(b, "telegram", "link")

(* The state or nonce that comes back has to be the one in the cookie.     *)
(* Nothing on the server remembers it: while the cookie is there, the same *)
(* callback may come again, and may be believed again.                     *)
StateMatches(b, where, n) == cookie[b][where] = n

Back(b, where, n) ==
    /\ Free(b)
    /\ n \in DOMAIN trips /\ trips[n].where = where
    /\ StateMatches(b, where, n)
    /\ trips' = [trips EXCEPT ![n].ended = Append(@, b)]
    /\ ending' = [ending EXCEPT ![b] = n]
    /\ IF trips[n].ended = <<>> THEN UNCHANGED requests ELSE Begin(b)
    /\ UNCHANGED cookie

(* A callback with another state, or one that proves nothing, is answered  *)
(* too: the cookie goes.                                                   *)
BackRefused(b, where) ==
    /\ Free(b)
    /\ cookie[b][where] # 0
    /\ cookie' = [cookie EXCEPT ![b][where] = 0]
    /\ UNCHANGED <<tables, seats, call, ending, answered, trips, requests>>

(* exchangeWithProvider fails, or the profile has no verified address.     *)
ProviderRefused(b) == BackRefused(b, "provider")

(* verifyTelegram: a wrong signature, or one older than its limit.         *)
TelegramRefused(b) == BackRefused(b, "telegram")

(* handleProviderCallback: the provider vouches for the address e.         *)
ProviderCallback(b, n, e) ==
    /\ Back(b, "provider", n)
    /\ Prove(b, "provider", "email", e)
    /\ UNCHANGED <<tables, seats, answered>>

(* handleTelegramCallback                                                  *)
TelegramCallback(b, n, t) ==
    /\ Back(b, "telegram", n)
    /\ trips[n].mode = "signin"
    /\ Prove(b, "telegram", "telegram", t)
    /\ UNCHANGED <<tables, seats, answered>>

(* linkTelegram, for whoever is signed in by now.                          *)
LinkCallback(b, n, t) ==
    /\ Back(b, "telegram", n)
    /\ trips[n].mode = "link"
    /\ IF SignedIn(b) THEN Go(b, "link", "telegram", t, signed[b]) ELSE Close(b)
    /\ UNCHANGED <<tables, seats, answered>>

(* LinkTelegram: an update over whatever the account held.                 *)
Link(b) ==
    LET c == call[b] IN
    /\ At(b, "link")
    /\ IF Holders("telegram", c.value) \subseteq {c.user}
       THEN /\ users' = [users EXCEPT ![c.user].telegram = c.value]
            /\ made' = [made EXCEPT ![c.user].held = @ \cup {c.value}]
       ELSE UNCHANGED <<users, made>>
    /\ Close(b)
    /\ UNCHANGED <<open, seats, travel, answered, requests>>

(* handleTelegramUnlink: refused when the row the session read has nothing *)
(* else; the update itself does not look again.                            *)
LastWayInIfKnown(row) == row.known /\ row.email = None /\ row.phone = None
LastWayIn(row) == ~row.known /\ row.email = None /\ row.phone = None

AskUnlink(b) ==
    /\ Begin(b) /\ SignedIn(b)
    /\ ~LastWayIn(users[signed[b]])
    /\ Go(b, "unlink", "none", None, signed[b])
    /\ UNCHANGED <<tables, seats, travel, answered>>

Unlink(b) ==
    /\ At(b, "unlink")
    /\ users' = [users EXCEPT ![call[b].user].telegram = None]
    /\ Done(b)
    /\ UNCHANGED <<open, made, seats, travel, answered, requests>>

-----------------------------------------------------------------------------
(* Accounts made for somebody else, and what else happens to one           *)

(* handleAdminCreateUser: requireAdmin, then the insert.                   *)
AdminCreate(b, e, admin, h) ==
    /\ Begin(b) /\ SignedIn(b) /\ users[signed[b]].admin
    /\ Make(b, "insert", "admin", "email", e, admin, h)
    /\ UNCHANGED <<tables, seats, travel, answered>>

(* SetUsername: a handle that is taken leaves the account without one.     *)
SetUsername(b) ==
    LET c == call[b] IN
    /\ At(b, "handle")
    /\ users' = IF Taken("username", c.value) THEN users
                ELSE [users EXCEPT ![c.user].username = c.value]
    /\ Done(b)
    /\ UNCHANGED <<open, made, seats, travel, answered, requests>>

(* nabuauth -create-user                                                   *)
ShellCreate(b, e, admin) ==
    /\ Begin(b)
    /\ Make(b, "insert", "shell", "email", e, admin, None)
    /\ UNCHANGED <<tables, seats, travel, answered>>

(* handlePasswordChange, for an account without a known password too.      *)
ChoosePassword(b) ==
    /\ Begin(b) /\ SignedIn(b)
    /\ users' = [users EXCEPT ![signed[b]].known = TRUE]
    /\ UNCHANGED <<open, made, call, seats, travel, answered>>

(* handleAdminToggleUser: disabling deletes the account's sessions.        *)
Toggle(b, u) ==
    /\ Begin(b) /\ SignedIn(b) /\ users[signed[b]].admin
    /\ u # signed[b]
    /\ users' = [users EXCEPT ![u].active = ~@]
    /\ LET out == {d \in Browsers : users[u].active /\ signed[d] = u} IN
       /\ signed' = [d \in Browsers |-> IF d \in out THEN NoUser ELSE signed[d]]
       /\ through' = [d \in Browsers |-> IF d \in out THEN Nothing ELSE through[d]]
    /\ UNCHANGED <<open, made, call, travel, answered>>

(* handleLogoutSubmit                                                      *)
SignOut(b) ==
    /\ Begin(b) /\ signed[b] # NoUser
    /\ signed' = [signed EXCEPT ![b] = NoUser]
    /\ through' = [through EXCEPT ![b] = Nothing]
    /\ UNCHANGED <<tables, call, travel, answered>>

Next ==
    \E b \in Browsers :
        \/ SignInForm(b)
        \/ \E e \in Emails : Register(b, e) \/ MailCode(b, e)
        \/ \E t \in Typed : PhoneCode(b, t)
        \/ AskOpen(b) \/ Count(b) \/ Insert(b) \/ Duplicate(b) \/ LookAgain(b)
        \/ Mark(b) \/ MarkFails(b) \/ Enter(b) \/ Reply(b) \/ BreakOff(b)
        \/ LeaveForProvider(b) \/ LeaveForTelegram(b) \/ LeaveToLink(b)
        \/ ProviderRefused(b) \/ TelegramRefused(b)
        \/ \E n \in DOMAIN trips, e \in Emails : ProviderCallback(b, n, e)
        \/ \E n \in DOMAIN trips, t \in Telegrams : TelegramCallback(b, n, t) \/ LinkCallback(b, n, t)
        \/ Link(b) \/ AskUnlink(b) \/ Unlink(b)
        \/ \E e \in Emails, admin \in BOOLEAN, h \in Handles \cup {None} : AdminCreate(b, e, admin, h)
        \/ \E e \in Emails, admin \in BOOLEAN : ShellCreate(b, e, admin)
        \/ SetUsername(b) \/ ChoosePassword(b) \/ SignOut(b)
        \/ \E u \in Ids : Toggle(b, u)

Spec == Init /\ [][Next]_vars

-----------------------------------------------------------------------------
Keys == {"email", "phone", "telegram", "username"}

Row == [email: Emails \cup {None}, phone: Phones \cup {None},
        telegram: Telegrams \cup {None}, username: Handles \cup {None},
        admin: BOOLEAN, active: BOOLEAN, known: BOOLEAN, verified: SUBSET {"email", "phone"}]

(* The type of the state: the table and its history grow together, and a   *)
(* request past its lookup is about an account that is there.              *)
TypeOK ==
    /\ \A u \in Ids : users[u] \in Row
    /\ Len(made) = Len(users) /\ Len(users) <= MaxAccounts
    /\ signed \in [Browsers -> {NoUser} \cup Ids]
    /\ cookie \in [Browsers -> [Places -> 0..Len(trips)]]
    /\ ending \in [Browsers -> 0..Len(trips)]
    /\ \A b \in Browsers : call[b].pc \in {"mark", "enter", "link", "unlink", "handle"} =>
         call[b].user \in Ids

(* However a mail address, a number, a Telegram account or a handle is     *)
(* proved and through whichever doors at once, it opens one account at     *)
(* most: "one Telegram account opens exactly one Nabu account"             *)
(* (schema.sql), and the same for the others.                              *)
OneAccountEach ==
    \A key \in Keys : \A u, v \in Ids :
        users[u][key] # None /\ users[u][key] = users[v][key] => u = v

(* A session opens the account that holds what its browser proved; with    *)
(* Telegram, which can be moved to another account meanwhile, one that has *)
(* held it.                                                                *)
OpensItsOwn ==
    \A b \in Browsers : signed[b] # NoUser =>
        LET row == users[signed[b]] IN
        IF through[b].key = "telegram"
        THEN through[b].value \in made[signed[b]].held
        ELSE through[b].value = row[through[b].key]

(* Disconnecting Telegram leaves an account nobody can open only where its *)
(* owner has chosen a password before: an account with neither an address, *)
(* a number, a handle nor Telegram has a known password.                   *)
Unreachable(row) == \A key \in Keys : row[key] = None

LockedOutByChoice ==
    \A u \in Ids : Unreachable(users[u]) => users[u].known

(* What handleTelegramUnlink says of itself (telegram.go:383): Telegram is *)
(* not disconnected where it is the only way left into the account.  A     *)
(* password is a way in only with an address or a handle to type it with.  *)
AlwaysAWayIn ==
    \A u \in Ids : ~Unreachable(users[u])

(* The first account made at a door is an administrator, unless the shell  *)
(* made the first of all; and an administrator made at a door, or, where   *)
(* sign-up is closed, any account made at one, was asked for before there  *)
(* was any account: count and insert are two statements.                   *)
ClaimedWhileEmpty ==
    \A u \in Ids : made[u].own =>
        /\ u = 1 => users[u].admin
        /\ users[u].admin \/ ~open => made[u].empty

(* email_verified and phone_verified are never asserted falsely: the       *)
(* account's own address or number answered a code.                        *)
VerifiedAnswered ==
    \A u \in Ids : \A key \in users[u].verified : users[u][key] \in answered

(* A callback goes through only for the last trip its own browser began to *)
(* that place, and never once that browser has had the answer to an        *)
(* earlier one of the same trip.  Until then it may go through again:      *)
(* takeProviderState and clearTelegramFlow clear a cookie with the answer, *)
(* which may be lost.                                                      *)
Latest(n) ==
    \A m \in DOMAIN trips : m > n => trips[m].by # trips[n].by \/ trips[m].where # trips[n].where

TripsComeHome ==
    [][\A n \in DOMAIN trips : trips'[n].ended # trips[n].ended =>
          /\ Latest(n) /\ ~trips[n].closed
          /\ trips'[n].ended = Append(trips[n].ended, trips[n].by)]_vars
=============================================================================
