--------------------------- MODULE AccountsProofs ---------------------------
(***************************************************************************)
(* What Accounts promises, for any number of browsers, accounts, addresses *)
(* and round trips.  A request looks something up, and acts on it several  *)
(* statements later; so whatever a request relies on has to be something   *)
(* no step of another can take away, and the invariant says what that is   *)
(* for each place a request can be at.                                     *)
(***************************************************************************)
EXTENDS PhoneDoor, SequenceTheorems, TLAPS

Doors == OwnDoors \cup {"admin", "shell", "none"}
Pcs == {"idle", "open", "count", "insert", "again", "mark", "enter", "link", "unlink", "handle", "reply"}
Making == {"open", "count", "insert"}

Call == [pc: Pcs, door: Doors, key: Keys \cup {"none"},
         value: Emails \cup Phones \cup Telegrams \cup Handles \cup {None},
         handle: Handles \cup {None}, user: Nat, first: BOOLEAN, empty: BOOLEAN]
Origin == [own: BOOLEAN, empty: BOOLEAN, held: SUBSET Telegrams]
Trip == [by: Browsers, where: Places, mode: {"signin", "link"}, ended: Seq(Browsers),
         closed: BOOLEAN]

KeyOf(door) ==
    CASE door = "phone" -> "phone" [] door = "telegram" -> "telegram" [] OTHER -> "email"
Values(key) ==
    CASE key = "email" -> Emails [] key = "phone" -> Phones
      [] key = "telegram" -> Telegrams [] OTHER -> Handles

(* The table                                                               *)
Rows ==
    /\ users \in Seq(Row) /\ made \in Seq(Origin)
    /\ Len(made) = Len(users) /\ Len(users) <= MaxAccounts
    /\ open \in BOOLEAN

(* What an account has by Telegram it has held.                            *)
TelegramHeld ==
    \A u \in Ids : users[u].telegram # None => users[u].telegram \in made[u].held

TableInv ==
    /\ Rows /\ TelegramHeld
    /\ OneAccountEach /\ LockedOutByChoice /\ ClaimedWhileEmpty /\ VerifiedAnswered

(* What was proved opens the account u, and goes on to.                    *)
Opens(u, key, value) ==
    /\ u \in Ids /\ key \in Keys /\ value # None
    /\ IF key = "telegram" THEN value \in made[u].held ELSE users[u][key] = value

(* A request about to make an account knows what for; at a door of the     *)
(* sign-in page, that the table was empty when it was asked for if it is   *)
(* empty now, and why it may be made at all.                               *)
MakingOK(c) ==
    /\ c.key = KeyOf(c.door) /\ c.value \in Values(c.key)
    /\ c.door \in {"mail", "phone"} => c.value \in answered
    /\ c.door # "none"
    /\ c.door \in OwnDoors =>
          /\ Len(users) = 0 => c.empty
          /\ c.pc # "open" /\ ~open => c.empty
          /\ c.pc = "insert" => (Len(users) = 0 => c.first) /\ (c.first => c.empty)

(* What a request past its lookup relies on, whatever else happens to the  *)
(* account meanwhile.                                                      *)
CallOK(c) ==
    /\ c \in Call
    /\ c.pc \in Making => MakingOK(c)
    /\ c.pc = "again" => c.key = "telegram" /\ c.value \in Telegrams
    /\ c.pc \in {"mark", "enter"} => Opens(c.user, c.key, c.value)
    /\ c.pc = "mark" => c.key \in {"email", "phone"} /\ c.value \in answered
    /\ c.pc = "link" => c.user \in Ids /\ c.value \in Telegrams
    /\ c.pc = "unlink" => c.user \in Ids /\ ~LastWayIn(users[c.user])
    /\ c.pc = "handle" => c.user \in Ids /\ c.value \in Handles /\ users[c.user].username = None

(* A new account is given its handle by the request that made it.          *)
OneNames ==
    \A b, d \in Browsers : At(b, "handle") /\ At(d, "handle") /\ call[b].user = call[d].user => b = d

CallInv ==
    /\ call \in [Browsers -> Call]
    /\ \A b \in Browsers : CallOK(call[b])
    /\ OneNames

(* A session opens what its browser proved.                                *)
SeatInv ==
    /\ signed \in [Browsers -> Nat] /\ DOMAIN through = Browsers
    /\ \A b \in Browsers : signed[b] # NoUser => Opens(signed[b], through[b].key, through[b].value)

(* A cookie is for the last trip of its browser to that place, and no      *)
(* answer to a callback of that trip has arrived; a callback under way is  *)
(* of a trip of its browser.                                               *)
CookieOK(b, w) ==
    LET n == cookie[b][w] IN
    n # 0 => /\ n \in DOMAIN trips /\ Latest(n)
             /\ trips[n].by = b /\ trips[n].where = w /\ ~trips[n].closed

TravelInv ==
    /\ trips \in Seq(Trip)
    /\ cookie \in [Browsers -> [Places -> Nat]]
    /\ ending \in [Browsers -> Nat]
    /\ \A b \in Browsers, w \in Places : CookieOK(b, w)
    /\ \A b \in Browsers : ending[b] # 0 => ending[b] \in DOMAIN trips /\ trips[ending[b]].by = b

Inv == TableInv /\ CallInv /\ SeatInv /\ TravelInv

-----------------------------------------------------------------------------
(* What a step does to the table that no request need fear: rows stay, and *)
(* so do addresses, numbers, handles and the knowledge of a password.      *)
Later(u) ==
    /\ users'[u].email = users[u].email /\ users'[u].phone = users[u].phone
    /\ users[u].username # None => users'[u].username = users[u].username
    /\ users[u].known => users'[u].known
    /\ made[u].held \subseteq made'[u].held

Grows ==
    /\ open' = open /\ answered \subseteq answered'
    /\ Len(users) \in Nat /\ Len(users') \in Nat /\ Len(users) <= Len(users')
    /\ \A u \in Ids : Later(u)

LEMMA IdsGrow == ASSUME Grows PROVE Ids \subseteq Ids'
  BY DEF Grows, Ids

LEMMA OpensStays ==
    ASSUME Grows, NEW u, NEW key, NEW value, Opens(u, key, value)
    PROVE  Opens(u, key, value)'
  <1>1. u \in Ids /\ u \in Ids' /\ Later(u)  BY IdsGrow DEF Opens, Grows
  <1>2. key \in {"email", "phone", "telegram", "username"}  BY DEF Opens, Keys
  <1>3. CASE key = "telegram"  BY <1>1, <1>3 DEF Opens, Later
  <1>4. CASE key = "email"  BY <1>1, <1>4 DEF Opens, Later
  <1>5. CASE key = "phone"  BY <1>1, <1>5 DEF Opens, Later
  <1>6. CASE key = "username"  BY <1>1, <1>6 DEF Opens, Later
  <1> QED  BY <1>2, <1>3, <1>4, <1>5, <1>6

LEMMA CallStays ==
    ASSUME Grows, NEW c, CallOK(c),
           c.pc = "handle" => users'[c.user].username = users[c.user].username
    PROVE  CallOK(c)'
  <1>1. c \in Call  BY DEF CallOK
  <1>2. c.pc \in Making => MakingOK(c)'
    <2> SUFFICES ASSUME c.pc \in Making PROVE MakingOK(c)'  OBVIOUS
    <2>1. MakingOK(c)  BY DEF CallOK
    <2>2. Len(users') = 0 => Len(users) = 0  BY DEF Grows
    <2> QED  BY <2>1, <2>2 DEF MakingOK, Grows
  <1>3. c.pc \in {"mark", "enter"} => Opens(c.user, c.key, c.value)'
        BY OpensStays DEF CallOK
  <1>4. c.pc = "mark" => c.key \in {"email", "phone"} /\ c.value \in answered'
        BY DEF CallOK, Grows
  <1>5. c.pc = "unlink" => c.user \in Ids' /\ ~LastWayIn(users'[c.user])
        BY IdsGrow DEF CallOK, Grows, Later, LastWayIn
  <1>6. c.pc \in {"link", "handle"} => c.user \in Ids'  BY IdsGrow DEF CallOK
  <1> QED  BY <1>1, <1>2, <1>3, <1>4, <1>5, <1>6 DEF CallOK

LEMMA RowsType ==
    ASSUME Rows
    PROVE  /\ Len(users) \in Nat /\ Ids = DOMAIN users /\ DOMAIN made = Ids
           /\ \A u \in Ids : users[u] \in Row /\ made[u] \in Origin
  BY DEF Rows, Ids

LEMMA TableStays ==
    ASSUME TableInv, UNCHANGED tables, answered \subseteq answered'
    PROVE  TableInv' /\ Grows
  <1>1. users' = users /\ made' = made /\ open' = open  BY DEF tables
  <1>2. Grows  BY <1>1, RowsType DEF Grows, Later, TableInv
  <1>3. VerifiedAnswered'  BY <1>1 DEF TableInv, VerifiedAnswered, Ids
  <1> QED  BY <1>1, <1>2, <1>3
           DEF TableInv, Rows, TelegramHeld, OneAccountEach, LockedOutByChoice, ClaimedWhileEmpty,
               Ids, Unreachable

LEMMA SeatsStay ==
    ASSUME SeatInv, Grows, UNCHANGED seats
    PROVE  SeatInv'
  <1>1. signed' = signed /\ through' = through  BY DEF seats
  <1>2. ASSUME NEW b \in Browsers, signed[b] # NoUser
        PROVE  Opens(signed[b], through[b].key, through[b].value)'
    <2>1. PICK u, key, value : u = signed[b] /\ key = through[b].key /\ value = through[b].value
          OBVIOUS
    <2>2. Opens(u, key, value)'  BY <1>2, <2>1, OpensStays DEF SeatInv
    <2> QED  BY <1>1, <2>1, <2>2
  <1> QED  BY <1>1, <1>2 DEF SeatInv

LEMMA TravelStays == ASSUME TravelInv, UNCHANGED travel PROVE TravelInv'
  BY DEF travel, TravelInv, CookieOK, Latest

(* A trip keeps its browser and its place, whatever else becomes of it.    *)
LEMMA TripReplaced ==
    ASSUME TravelInv, NEW n \in DOMAIN trips, NEW trip \in Trip,
           trip.by = trips[n].by, trip.where = trips[n].where,
           trips' = [trips EXCEPT ![n] = trip]
    PROVE  /\ trips' \in Seq(Trip) /\ DOMAIN trips' = DOMAIN trips
           /\ \A m \in DOMAIN trips :
                 /\ trips'[m] = IF m = n THEN trip ELSE trips[m]
                 /\ Latest(m) => Latest(m)'
  <1>1. trips \in Seq(Trip) /\ n \in 1..Len(trips) /\ DOMAIN trips = 1..Len(trips)  BY DEF TravelInv
  <1>2. /\ trips' \in Seq(Trip) /\ DOMAIN trips' = DOMAIN trips
        /\ \A m \in DOMAIN trips : trips'[m] = IF m = n THEN trip ELSE trips[m]
        BY <1>1, ExceptSeq
  <1>3. \A m \in DOMAIN trips : trips'[m].by = trips[m].by /\ trips'[m].where = trips[m].where
        BY <1>2
  <1>4. \A m \in DOMAIN trips : Latest(m) => Latest(m)'  BY <1>2, <1>3 DEF Latest
  <1> QED  BY <1>2, <1>4

LEMMA CookieCleared ==
    ASSUME TravelInv, NEW b \in Browsers, NEW where \in Places,
           cookie' = [cookie EXCEPT ![b][where] = 0]
    PROVE  /\ cookie' \in [Browsers -> [Places -> Nat]] /\ cookie'[b][where] = 0
           /\ \A d \in Browsers, w \in Places :
                 ~(d = b /\ w = where) => cookie'[d][w] = cookie[d][w]
  BY DEF TravelInv

(* The answer closes its trip and takes the only cookie of it: any other   *)
(* would be of the same browser and place.                                 *)
LEMMA AnswerTravels ==
    ASSUME TravelInv, NEW b \in Browsers, Answer(b)
    PROVE  TravelInv'
  <1>1. CASE ending[b] = 0  BY <1>1, TravelStays DEF Answer
  <1>2. CASE ending[b] # 0
    <2>1. PICK n \in DOMAIN trips : n = ending[b] /\ trips[n].by = b  BY <1>2 DEF TravelInv
    <2>2. trips[n] \in Trip  BY <2>1, ElementOfSeq DEF TravelInv
    <2>3. PICK trip, where : trip = [trips[n] EXCEPT !.closed = TRUE] /\ where = trips[n].where
          OBVIOUS
    <2>4. /\ trip \in Trip /\ trip.by = trips[n].by /\ trip.where = trips[n].where
          /\ where \in Places
          BY <2>2, <2>3 DEF Trip
    <2>5. /\ trips' = [trips EXCEPT ![n] = trip]
          /\ cookie' = [cookie EXCEPT ![b][where] = 0]
          /\ ending' = [ending EXCEPT ![b] = 0]
          BY <1>2, <2>1, <2>3 DEF Answer
    <2>6. /\ trips' \in Seq(Trip) /\ DOMAIN trips' = DOMAIN trips
          /\ \A m \in DOMAIN trips :
                /\ trips'[m] = IF m = n THEN trip ELSE trips[m]
                /\ Latest(m) => Latest(m)'
          BY <2>4, <2>5, TripReplaced
    <2>7. ASSUME NEW d \in Browsers, NEW w \in Places PROVE CookieOK(d, w)'
      <3> SUFFICES ASSUME cookie'[d][w] # 0 PROVE CookieOK(d, w)'  BY DEF CookieOK
      <3>1. ~(d = b /\ w = where) /\ cookie'[d][w] = cookie[d][w]
            BY <2>4, <2>5, CookieCleared
      <3>2. PICK m : m = cookie[d][w]  OBVIOUS
      <3>3. /\ m \in DOMAIN trips /\ Latest(m) /\ trips[m].by = d /\ trips[m].where = w
            /\ ~trips[m].closed
            BY <3>1, <3>2 DEF TravelInv, CookieOK
      <3>4. m # n  BY <2>1, <2>3, <3>1, <3>3
      <3> QED  BY <2>6, <3>1, <3>2, <3>3, <3>4 DEF CookieOK
    <2>8. ASSUME NEW d \in Browsers, ending'[d] # 0
          PROVE  ending'[d] \in DOMAIN trips' /\ trips'[ending'[d]].by = d
      <3>1. ending'[d] = ending[d]  BY <2>5, <2>8 DEF TravelInv
      <3>2. ending[d] \in DOMAIN trips /\ trips[ending[d]].by = d  BY <2>8, <3>1 DEF TravelInv
      <3> QED  BY <2>4, <2>6, <3>1, <3>2
    <2>9. cookie' \in [Browsers -> [Places -> Nat]] /\ ending' \in [Browsers -> Nat]
          BY <2>4, <2>5, CookieCleared DEF TravelInv
    <2> QED  BY <2>6, <2>7, <2>8, <2>9 DEF TravelInv
  <1> QED  BY <1>1, <1>2

(* No answer: the trip may end again.                                      *)
LEMMA BreakOffTravels ==
    ASSUME TravelInv, NEW b \in Browsers, BreakOff(b)
    PROVE  TravelInv'
  BY DEF BreakOff, TravelInv, CookieOK, Latest

(* Every request but b's stands where it stood, and no step of b's takes   *)
(* away what it relies on.                                                 *)
NamesKept(b) ==
    \A d \in Browsers \ {b} : call[d].pc = "handle" =>
        users'[call[d].user].username = users[call[d].user].username

LEMMA CallMoves ==
    ASSUME CallInv, Grows, NEW b \in Browsers, NEW r, call' = [call EXCEPT ![b] = r],
           CallOK(r)', NamesKept(b),
           r.pc = "handle" => \A d \in Browsers : call[d].pc = "handle" => call[d].user # r.user
    PROVE  CallInv'
  <1>1. call'[b] = r /\ \A d \in Browsers : d # b => call'[d] = call[d]  BY DEF CallInv
  <1>2. r \in Call  BY DEF CallOK
  <1>3. call' \in [Browsers -> Call]  BY <1>2 DEF CallInv
  <1>4. ASSUME NEW d \in Browsers PROVE CallOK(call[d])'
    <2>1. CASE d = b  BY <1>1, <2>1
    <2>2. CASE d # b
      <3>1. PICK c : c = call[d]  OBVIOUS
      <3>2. CallOK(c)'  BY <2>2, <3>1, CallStays DEF CallInv, NamesKept
      <3>3. call'[d] = c  BY <1>1, <2>2, <3>1
      <3> QED  BY <3>2, <3>3
    <2> QED  BY <2>1, <2>2
  <1>5. OneNames'  BY <1>1 DEF CallInv, OneNames, At
  <1> QED  BY <1>3, <1>4, <1>5 DEF CallInv

LEMMA CallsStay ==
    ASSUME CallInv, Grows, UNCHANGED call,
           \A d \in Browsers : call[d].pc = "handle" =>
              users'[call[d].user].username = users[call[d].user].username
    PROVE  CallInv'
  <1>1. ASSUME NEW d \in Browsers PROVE CallOK(call[d])'
    <2>1. PICK c : c = call[d]  OBVIOUS
    <2>2. CallOK(c)'  BY <2>1, CallStays DEF CallInv
    <2> QED  BY <2>1, <2>2
  <1> QED  BY <1>1 DEF CallInv, OneNames, At

-----------------------------------------------------------------------------
(* A request goes on to r, and the table stays as it is.                   *)
Quiet(b, r) ==
    /\ UNCHANGED tables /\ answered \subseteq answered'
    /\ \/ call' = [call EXCEPT ![b] = r] /\ CallOK(r)' /\ r.pc # "handle"
       \/ UNCHANGED call

LEMMA QuietKeeps ==
    ASSUME Inv, NEW b \in Browsers, NEW r, Quiet(b, r)
    PROVE  TableInv' /\ CallInv' /\ Grows
  <1>1. TableInv' /\ Grows  BY TableStays DEF Inv, Quiet
  <1>2. users' = users  BY DEF Quiet, tables
  <1>3. CallInv'
    <2>1. CASE UNCHANGED call  BY <1>1, <1>2, <2>1, CallsStay DEF Inv
    <2>2. CASE call' = [call EXCEPT ![b] = r] /\ CallOK(r)' /\ r.pc # "handle"
      <3>1. NamesKept(b)  BY <1>2 DEF NamesKept
      <3> QED  BY <1>1, <2>2, <3>1, CallMoves DEF Inv
    <2> QED  BY <2>1, <2>2 DEF Quiet
  <1> QED  BY <1>1, <1>3

LEMMA QuietStays ==
    ASSUME Inv, NEW b \in Browsers, NEW r, Quiet(b, r), UNCHANGED <<seats, travel>>
    PROVE  Inv'
  BY QuietKeeps, SeatsStay, TravelStays DEF Inv

LEMMA QuietTravels ==
    ASSUME Inv, NEW b \in Browsers, NEW r, Quiet(b, r), UNCHANGED seats, TravelInv'
    PROVE  Inv'
  BY QuietKeeps, SeatsStay DEF Inv

LEMMA IdleOK == CallOK(Idle) /\ CallOK(Idle)'
  <1>1. Idle \in Call /\ Idle.pc = "idle"  BY DEF Idle, Call, Pcs, Doors, NoUser
  <1> QED  BY <1>1 DEF CallOK, Making

LEMMA DoneIsQuiet ==
    ASSUME NEW b \in Browsers, Done(b), UNCHANGED tables, answered \subseteq answered'
    PROVE  Quiet(b, Idle)
  <1>1. Idle.pc # "handle"  BY DEF Idle
  <1> QED  BY <1>1, IdleOK DEF Done, Quiet

(* All that is left is the answer.                                         *)
Closing == [Idle EXCEPT !.pc = "reply", !.key = "none", !.value = None, !.user = NoUser]

LEMMA ClosingOK == CallOK(Closing)' /\ Closing.pc # "handle"
  <1>1. Closing \in Call /\ Closing.pc = "reply"
        BY IdleOK DEF Closing, CallOK, Idle, Call, Pcs, NoUser
  <1> QED  BY <1>1 DEF CallOK, Making

LEMMA CloseIsQuiet ==
    ASSUME NEW b \in Browsers, Close(b), UNCHANGED tables, answered \subseteq answered'
    PROVE  Quiet(b, Closing)
  BY ClosingOK DEF Close, Go, Closing, Quiet

(* Going on about an account that holds what was proved.                   *)
LEMMA GoIsQuiet ==
    ASSUME Inv, NEW b \in Browsers, NEW key \in Keys, NEW value, NEW u, NEW pc \in {"mark", "enter"},
           Opens(u, key, value), value \in Values(key),
           pc = "mark" => key \in {"email", "phone"} /\ value \in answered',
           Go(b, pc, key, value, u), UNCHANGED tables, answered \subseteq answered'
    PROVE  \E r : Quiet(b, r)
  <1>1. PICK r : r = [Idle EXCEPT !.pc = pc, !.key = key, !.value = value, !.user = u]  OBVIOUS
  <1>2. u \in Nat /\ value \in Emails \cup Phones \cup Telegrams \cup Handles \cup {None}
        BY DEF Opens, Values, Ids
  <1>3. /\ r \in Call /\ r.pc = pc /\ r.key = key /\ r.value = value /\ r.user = u
        BY <1>1, <1>2, IdleOK DEF Idle, Call, Pcs, CallOK
  <1>4. Opens(u, key, value)'
    <2>1. Grows  BY TableStays DEF Inv
    <2> QED  BY <2>1, OpensStays
  <1>5. CallOK(r)'  BY <1>3, <1>4 DEF CallOK, Making
  <1> QED  BY <1>1, <1>3, <1>5 DEF Go, Quiet

(* Asking for a new account.                                               *)
LEMMA MakeIsQuiet ==
    ASSUME Inv, NEW b \in Browsers, NEW door \in Doors \ {"none"}, NEW key, NEW value,
           NEW pc \in {"open", "insert"}, NEW admin \in BOOLEAN, NEW h \in Handles \cup {None},
           key = KeyOf(door), value \in Values(key),
           door \in {"mail", "phone"} => value \in answered',
           pc = "insert" => door \notin OwnDoors,
           Make(b, pc, door, key, value, admin, h), UNCHANGED tables, answered \subseteq answered'
    PROVE  \E r : Quiet(b, r)
  <1>1. PICK r : r = [pc |-> pc, door |-> door, key |-> key, value |-> value, handle |-> h,
                      user |-> NoUser, first |-> admin, empty |-> (Len(users) = 0)]
        OBVIOUS
  <1>2. /\ key \in Keys
        /\ value \in Emails \cup Phones \cup Telegrams \cup Handles \cup {None}
        BY DEF KeyOf, Values, Keys
  <1>3. /\ r \in Call /\ r.pc = pc /\ r.door = door /\ r.key = key /\ r.value = value
        /\ r.first = admin /\ r.empty = (Len(users) = 0)
        BY <1>1, <1>2 DEF Call, Pcs, NoUser
  <1>4. users' = users  BY DEF tables
  <1>5. MakingOK(r)'  BY <1>3, <1>4 DEF MakingOK
  <1>6. CallOK(r)'  BY <1>3, <1>5 DEF CallOK
  <1> QED  BY <1>1, <1>3, <1>6 DEF Make, Quiet

(* The account that holds what was proved, or the question whether to make *)
(* one.                                                                    *)
LEMMA ProveIsQuiet ==
    ASSUME Inv, NEW b \in Browsers, NEW door \in {"mail", "phone", "provider", "telegram"},
           NEW key, NEW value, key = KeyOf(door), value \in Values(key),
           door \in {"mail", "phone"} => value \in answered',
           Prove(b, door, key, value), UNCHANGED tables, answered \subseteq answered'
    PROVE  \E r : Quiet(b, r)
  <1>1. key \in Keys /\ (door \in {"mail", "phone"} => key \in {"email", "phone"})
        BY DEF KeyOf, Keys
  <1>2. CASE \E u \in Holders(key, value) :
                IF users[u].active
                THEN Go(b, IF door \in {"mail", "phone"} THEN "mark" ELSE "enter", key, value, u)
                ELSE Close(b)
    <2>1. PICK u \in Holders(key, value) :
                IF users[u].active
                THEN Go(b, IF door \in {"mail", "phone"} THEN "mark" ELSE "enter", key, value, u)
                ELSE Close(b)
          BY <1>2
    <2>2. u \in Ids /\ value # None /\ users[u][key] = value  BY <2>1 DEF Holders
    <2>3. Opens(u, key, value)
          BY <1>1, <2>2 DEF Opens, Inv, TableInv, TelegramHeld
    <2>4. PICK pc \in {"mark", "enter"} : pc = IF door \in {"mail", "phone"} THEN "mark" ELSE "enter"
          OBVIOUS
    <2>5. CASE Go(b, pc, key, value, u)  BY <1>1, <2>3, <2>4, <2>5, GoIsQuiet
    <2>6. CASE Close(b)  BY <2>6, CloseIsQuiet
    <2> QED  BY <2>1, <2>4, <2>5, <2>6
  <1>3. CASE Ask(b, door, key, value)
    <2>1. door \in Doors \ {"none"}  BY DEF Doors, OwnDoors
    <2> QED  BY <1>3, <2>1, MakeIsQuiet DEF Ask
  <1> QED  BY <1>2, <1>3 DEF Prove

-----------------------------------------------------------------------------
LEMMA FormsKeep ==
    ASSUME Inv, NEW b \in Browsers,
           \/ SignInForm(b)
           \/ \E e \in Emails : Register(b, e) \/ MailCode(b, e)
           \/ \E t \in Typed : PhoneCode(b, t)
    PROVE  Inv'
  <1>1. CASE SignInForm(b)
    <2>1. PICK key, value : Password(b, key, value) /\ <<key, value>> \in Identifiers
          BY <1>1 DEF SignInForm, Identifiers
    <2>2. /\ key \in {"email", "username"} /\ key \in Keys /\ value \in Values(key)
          BY <2>1 DEF Identifiers, Values, Keys
    <2>3. UNCHANGED <<tables, seats, travel, answered>>  BY <2>1 DEF Password
    <2>4. \E r : Quiet(b, r)
      <3>1. CASE \E u \in Holders(key, value) : Go(b, "enter", key, value, u)
        <4>1. PICK u \in Holders(key, value) : Go(b, "enter", key, value, u)  BY <3>1
        <4>2. Opens(u, key, value)  BY <2>2, <4>1 DEF Holders, Opens
        <4> QED  BY <2>2, <2>3, <4>1, <4>2, GoIsQuiet
      <3>2. CASE key = "email" /\ Ask(b, "password", key, value)
        <4>1. "password" \in Doors \ {"none"} /\ key = KeyOf("password")
              BY <3>2 DEF Doors, OwnDoors, KeyOf
        <4> QED  BY <2>2, <2>3, <3>2, <4>1, MakeIsQuiet DEF Ask
      <3> QED  BY <2>1, <3>1, <3>2 DEF Password
    <2> QED  BY <2>3, <2>4, QuietStays
  <1>2. ASSUME NEW e \in Emails, Register(b, e) PROVE Inv'
    <2>1. "register" \in Doors \ {"none"} /\ "email" = KeyOf("register") /\ e \in Values("email")
          BY DEF Doors, OwnDoors, KeyOf, Values
    <2>2. UNCHANGED <<tables, seats, travel, answered>>  BY <1>2 DEF Register
    <2>3. \E r : Quiet(b, r)  BY <1>2, <2>1, <2>2, MakeIsQuiet DEF Register, Ask
    <2> QED  BY <2>2, <2>3, QuietStays
  <1>3. ASSUME NEW e \in Emails, MailCode(b, e) PROVE Inv'
    <2>1. "email" = KeyOf("mail") /\ e \in Values("email")  BY DEF KeyOf, Values
    <2>2. UNCHANGED <<tables, seats, travel>> /\ answered \subseteq answered' /\ e \in answered'
          BY <1>3 DEF MailCode
    <2>3. \E r : Quiet(b, r)  BY <1>3, <2>1, <2>2, ProveIsQuiet DEF MailCode
    <2> QED  BY <2>2, <2>3, QuietStays
  <1>4. ASSUME NEW t \in Typed, PhoneCode(b, t) PROVE Inv'
    <2>1. "phone" = KeyOf("phone") /\ Canon[t] \in Values("phone")
          BY <1>4 DEF KeyOf, Values, PhoneCode, Phones
    <2>2. UNCHANGED <<tables, seats, travel>> /\ answered \subseteq answered' /\ Canon[t] \in answered'
          BY <1>4 DEF PhoneCode
    <2>3. \E r : Quiet(b, r)  BY <1>4, <2>1, <2>2, ProveIsQuiet DEF PhoneCode
    <2> QED  BY <2>2, <2>3, QuietStays
  <1> QED  BY <1>1, <1>2, <1>3, <1>4

(* The steps between the form and the insert, and the ways out.            *)
LEMMA LookingKeeps ==
    ASSUME Inv, NEW b \in Browsers,
           \/ AskOpen(b) \/ Count(b) \/ Duplicate(b) \/ LookAgain(b)
           \/ MarkFails(b) \/ Reply(b) \/ BreakOff(b)
    PROVE  Inv'
  <1>0. TravelInv'
    <2>1. UNCHANGED travel \/ Answer(b) \/ BreakOff(b)
          BY DEF AskOpen, Count, Duplicate, LookAgain, MarkFails, Reply, travel
    <2> QED  BY <2>1, TravelStays, AnswerTravels, BreakOffTravels DEF Inv
  <1>1. UNCHANGED <<tables, seats, answered>>
        BY DEF AskOpen, Count, Duplicate, LookAgain, MarkFails, Reply, BreakOff
  <1>2. call[b] \in Call /\ CallOK(call[b])  BY DEF Inv, CallInv, CallOK
  <1>3. Grows  BY <1>1, TableStays DEF Inv
  <1>4. Len(users') = Len(users) /\ open' = open /\ answered' = answered  BY <1>1 DEF tables
  <1>5. Done(b) => \E r : Quiet(b, r)  BY <1>1, DoneIsQuiet
  <1>6. CASE AskOpen(b) /\ Goto(b, "count")
    <2>1. PICK r : r = [call[b] EXCEPT !.pc = "count"]  OBVIOUS
    <2>2. /\ r \in Call /\ r.pc = "count" /\ r.door = call[b].door /\ r.key = call[b].key
          /\ r.value = call[b].value /\ r.empty = call[b].empty
          BY <1>2, <2>1 DEF Call, Pcs
    <2>3. MakingOK(call[b]) /\ call[b].pc = "open"  BY <1>2, <1>6 DEF AskOpen, At, CallOK, Making
    <2>4. ~open => Len(users) = 0
      <3>1. CASE RegistrationOpen  BY <3>1 DEF RegistrationOpen
      <3>2. CASE ~RegistrationOpen
        <4>1. call' = [call EXCEPT ![b] = r] /\ call' = [call EXCEPT ![b] = Idle]
              BY <1>6, <2>1, <3>2 DEF AskOpen, Goto, Done, Answer
        <4>2. call'[b] = r /\ call'[b] = Idle  BY <4>1 DEF Inv, CallInv
        <4> QED  BY <2>2, <4>2 DEF Idle
      <3> QED  BY <3>1, <3>2
    <2>5. MakingOK(r)'  BY <1>4, <2>2, <2>3, <2>4 DEF MakingOK
    <2>6. CallOK(r)'  BY <2>2, <2>5 DEF CallOK
    <2>7. Quiet(b, r)  BY <1>1, <1>6, <2>1, <2>2, <2>6 DEF Goto, Quiet
    <2> QED  BY <1>1, <2>7, <1>0, QuietTravels
  <1>7. CASE Count(b)
    <2>1. PICK r : r = [call[b] EXCEPT !.pc = "insert", !.first = (Len(users) = 0)]  OBVIOUS
    <2>2. /\ r \in Call /\ r.pc = "insert" /\ r.door = call[b].door /\ r.key = call[b].key
          /\ r.value = call[b].value /\ r.empty = call[b].empty /\ r.first = (Len(users) = 0)
          BY <1>2, <2>1 DEF Call, Pcs
    <2>3. MakingOK(call[b]) /\ call[b].pc = "count"  BY <1>2, <1>7 DEF Count, At, CallOK, Making
    <2>4. MakingOK(r)'  BY <1>4, <2>2, <2>3 DEF MakingOK
    <2>5. CallOK(r)'  BY <2>2, <2>4 DEF CallOK
    <2>6. Quiet(b, r)  BY <1>1, <1>7, <2>1, <2>2, <2>5 DEF Count, Quiet
    <2> QED  BY <1>1, <2>6, <1>0, QuietTravels
  <1>8. CASE Duplicate(b) /\ Goto(b, "again") /\ call[b].door = "telegram"
    <2>1. PICK r : r = [call[b] EXCEPT !.pc = "again"]  OBVIOUS
    <2>2. r \in Call /\ r.pc = "again" /\ r.key = call[b].key /\ r.value = call[b].value
          BY <1>2, <2>1 DEF Call, Pcs
    <2>3. MakingOK(call[b])  BY <1>2, <1>8 DEF Duplicate, At, CallOK, Making
    <2>4. r.key = "telegram" /\ r.value \in Telegrams
          BY <1>8, <2>2, <2>3 DEF MakingOK, KeyOf, Values
    <2>5. CallOK(r)'  BY <2>2, <2>4 DEF CallOK, Making
    <2>6. Quiet(b, r)  BY <1>1, <1>8, <2>1, <2>2, <2>5 DEF Goto, Quiet
    <2> QED  BY <1>1, <2>6, <1>0, QuietTravels
  <1>9. CASE LookAgain(b) /\ Found(call[b].key, call[b].value)
    <2>1. PICK key, value, u : key = call[b].key /\ value = call[b].value /\ u = Holder(key, value)
          OBVIOUS
    <2>2. key = "telegram" /\ value \in Telegrams  BY <1>2, <1>9, <2>1 DEF LookAgain, At, CallOK
    <2>3. u \in Holders(key, value)  BY <1>9, <2>1 DEF Found, Holder
    <2>4. Opens(u, key, value)
          BY <2>2, <2>3 DEF Holders, Opens, Keys, Inv, TableInv, TelegramHeld
    <2>5. Go(b, "enter", key, value, u)  BY <1>9, <2>1 DEF LookAgain
    <2>6. key \in Keys /\ value \in Values(key)  BY <2>2 DEF Keys, Values
    <2> QED  BY <1>1, <2>4, <2>5, <2>6, GoIsQuiet, <1>0, QuietTravels
  <1>10. CASE MarkFails(b)
    <2>1. PICK r : r = [call[b] EXCEPT !.pc = "enter"]  OBVIOUS
    <2>2. /\ r \in Call /\ r.pc = "enter" /\ r.key = call[b].key /\ r.value = call[b].value
          /\ r.user = call[b].user
          BY <1>2, <2>1 DEF Call, Pcs
    <2>3. Opens(r.user, r.key, r.value)  BY <1>2, <1>10, <2>2 DEF MarkFails, At, CallOK
    <2>4. CallOK(r)'  BY <1>3, <2>2, <2>3, OpensStays DEF CallOK, Making
    <2>5. Quiet(b, r)  BY <1>1, <1>10, <2>1, <2>2, <2>4 DEF MarkFails, Goto, Quiet
    <2> QED  BY <1>1, <2>5, <1>0, QuietTravels
  <1>11. CASE Done(b)  BY <1>1, <1>5, <1>11, <1>0, QuietTravels
  <1> QED  BY <1>6, <1>7, <1>8, <1>9, <1>10, <1>11
           DEF AskOpen, Duplicate, LookAgain, Reply, BreakOff, Answer

(* The administrator's form, the shell, and the question before Unlink.    *)
LEMMA AskingKeeps ==
    ASSUME Inv, NEW b \in Browsers,
           \/ AskUnlink(b)
           \/ \E e \in Emails, admin \in BOOLEAN, h \in Handles \cup {None} : AdminCreate(b, e, admin, h)
           \/ \E e \in Emails, admin \in BOOLEAN : ShellCreate(b, e, admin)
    PROVE  Inv'
  <1>1. ASSUME NEW e \in Emails, NEW admin \in BOOLEAN, NEW h \in Handles \cup {None},
               NEW door \in {"admin", "shell"}, Make(b, "insert", door, "email", e, admin, h),
               UNCHANGED <<tables, seats, travel, answered>>
        PROVE  Inv'
    <2>1. /\ door \in Doors \ {"none"} /\ door \notin OwnDoors
          /\ "email" = KeyOf(door) /\ e \in Values("email")
          BY DEF Doors, OwnDoors, KeyOf, Values
    <2>2. \E r : Quiet(b, r)  BY <1>1, <2>1, MakeIsQuiet
    <2> QED  BY <1>1, <2>2, QuietStays
  <1>2. CASE AskUnlink(b)
    <2>1. UNCHANGED <<tables, seats, travel, answered>>  BY <1>2 DEF AskUnlink
    <2>2. PICK u : u = signed[b]  OBVIOUS
    <2>3. u \in Ids /\ ~LastWayIn(users[u])
          BY <1>2, <2>2 DEF AskUnlink, SignedIn, Inv, SeatInv, Opens
    <2>4. PICK r : r = [Idle EXCEPT !.pc = "unlink", !.key = "none", !.value = None, !.user = u]
          OBVIOUS
    <2>5. r \in Call /\ r.pc = "unlink" /\ r.user = u
      <3>1. u \in Nat  BY <2>3, RowsType DEF Inv, TableInv, Ids
      <3> QED  BY <2>4, <3>1, IdleOK DEF CallOK, Call, Pcs, Idle
    <2>6. users' = users  BY <2>1 DEF tables
    <2>7. CallOK(r)'  BY <2>3, <2>5, <2>6 DEF CallOK, Making, Ids
    <2>8. Quiet(b, r)  BY <1>2, <2>1, <2>2, <2>4, <2>5, <2>7 DEF AskUnlink, Go, Quiet
    <2> QED  BY <2>1, <2>8, QuietStays
  <1> QED  BY <1>1, <1>2 DEF AdminCreate, ShellCreate

-----------------------------------------------------------------------------
(* The steps that write a row                                              *)

(* One row of the table is replaced by row, and what its account has held  *)
(* by Telegram by held: nothing is taken from it that somebody relies on,  *)
(* and a handle or a Telegram id it did not have before is nobody else's.  *)
Replaces(u, row, held) ==
    /\ users' = [users EXCEPT ![u] = row]
    /\ \/ made' = [made EXCEPT ![u].held = held]
       \/ made' = made /\ held = made[u].held
    /\ row \in Row /\ held \in SUBSET Telegrams
    /\ row.email = users[u].email /\ row.phone = users[u].phone
    /\ row.admin = users[u].admin
    /\ users[u].known => row.known
    /\ made[u].held \subseteq held
    /\ row.telegram # None => row.telegram \in held
    /\ \A v \in Ids : row.telegram # None /\ users[v].telegram = row.telegram => v = u
    /\ \A v \in Ids : row.username # None /\ users[v].username = row.username => v = u
    /\ users[u].username # None => row.username = users[u].username
    /\ Unreachable(row) => row.known
    /\ \A key \in row.verified : row[key] \in answered

LEMMA RowReplaced ==
    ASSUME Rows, NEW u \in Ids, NEW row, NEW held, Replaces(u, row, held)
    PROVE  /\ users' \in Seq(Row) /\ made' \in Seq(Origin) /\ Ids' = Ids
           /\ Len(users') = Len(users) /\ Len(made') = Len(users)
           /\ \A v \in Ids : users'[v] = IF v = u THEN row ELSE users[v]
           /\ \A v \in Ids : /\ made'[v].held = IF v = u THEN held ELSE made[v].held
                             /\ made'[v].own = made[v].own /\ made'[v].empty = made[v].empty
  <1>1. /\ users \in Seq(Row) /\ made \in Seq(Origin) /\ Len(made) = Len(users)
        /\ u \in 1..Len(users) /\ u \in 1..Len(made) /\ row \in Row
        BY DEF Rows, Ids, Replaces
  <1>2. /\ users' \in Seq(Row) /\ Len(users') = Len(users)
        /\ \A v \in 1..Len(users) : users'[v] = IF v = u THEN row ELSE users[v]
        BY <1>1, ExceptSeq DEF Replaces
  <1>3. PICK o : o = [made[u] EXCEPT !.held = held]  OBVIOUS
  <1>4. made[u] \in Origin  BY <1>1, ElementOfSeq
  <1>5. o \in Origin /\ o.held = held /\ o.own = made[u].own /\ o.empty = made[u].empty
        BY <1>3, <1>4 DEF Origin, Replaces
  <1>6. /\ made' \in Seq(Origin) /\ Len(made') = Len(made)
        /\ \A v \in 1..Len(made) : /\ made'[v].held = IF v = u THEN held ELSE made[v].held
                                   /\ made'[v].own = made[v].own /\ made'[v].empty = made[v].empty
    <2>1. CASE made' = [made EXCEPT ![u].held = held]
      <3>1. made' = [made EXCEPT ![u] = o]  BY <1>1, <1>3, <2>1
      <3>2. /\ made' \in Seq(Origin) /\ Len(made') = Len(made)
            /\ \A v \in 1..Len(made) : made'[v] = IF v = u THEN o ELSE made[v]
            BY <1>1, <1>5, <3>1, ExceptSeq
      <3> QED  BY <1>5, <3>2
    <2>2. CASE made' = made /\ held = made[u].held  BY <1>1, <2>2
    <2> QED  BY <2>1, <2>2 DEF Replaces
  <1> QED  BY <1>1, <1>2, <1>6 DEF Ids

LEMMA ReplacingKeeps ==
    ASSUME TableInv, NEW u \in Ids, NEW row, NEW held, Replaces(u, row, held),
           open' = open, answered' = answered
    PROVE  TableInv' /\ Grows
  <1>1. Rows  BY DEF TableInv
  <1>2. /\ users' \in Seq(Row) /\ made' \in Seq(Origin) /\ Ids' = Ids
        /\ Len(users') = Len(users) /\ Len(made') = Len(users)
        BY <1>1, RowReplaced
  <1>3. /\ \A v \in Ids : users'[v] = IF v = u THEN row ELSE users[v]
        /\ \A v \in Ids : /\ made'[v].held = IF v = u THEN held ELSE made[v].held
                          /\ made'[v].own = made[v].own /\ made'[v].empty = made[v].empty
        BY <1>1, RowReplaced
  <1>4. Rows'  BY <1>1, <1>2 DEF Rows
  <1>5. TelegramHeld'  BY <1>2, <1>3 DEF TableInv, TelegramHeld, Replaces
  <1>6. OneAccountEach'
    <2> SUFFICES ASSUME NEW key \in Keys, NEW v \in Ids, NEW w \in Ids,
                        users'[v][key] # None, users'[v][key] = users'[w][key]
                 PROVE  v = w
        BY <1>2 DEF OneAccountEach
    <2>1. users[v][key] # None /\ users[v][key] = users[w][key] => v = w
          BY DEF TableInv, OneAccountEach
    <2>2. CASE key \in {"email", "phone"}
      <3>1. users'[v][key] = users[v][key] /\ users'[w][key] = users[w][key]
            BY <1>3, <2>2 DEF Replaces
      <3> QED  BY <2>1, <3>1
    <2>3. CASE key = "telegram"  BY <1>3, <2>1, <2>3 DEF Replaces
    <2>4. CASE key = "username"  BY <1>3, <2>1, <2>4 DEF Replaces
    <2> QED  BY <2>2, <2>3, <2>4 DEF Keys
  <1>7. LockedOutByChoice'
    <2>1. ASSUME NEW v \in Ids, Unreachable(users[v])' PROVE users'[v].known
      <3>1. CASE v = u
        <4>1. Unreachable(row)  BY <1>3, <2>1, <3>1 DEF Unreachable
        <4> QED  BY <1>3, <3>1, <4>1 DEF Replaces
      <3>2. CASE v # u
        <4>1. Unreachable(users[v])  BY <1>3, <2>1, <3>2 DEF Unreachable
        <4> QED  BY <1>3, <3>2, <4>1 DEF TableInv, LockedOutByChoice
      <3> QED  BY <3>1, <3>2
    <2> QED  BY <1>2, <2>1 DEF LockedOutByChoice
  <1>8. ClaimedWhileEmpty'
    <2>1. \A v \in Ids : users'[v].admin = users[v].admin  BY <1>3 DEF Replaces
    <2>2. \A v \in Ids : made'[v].own = made[v].own /\ made'[v].empty = made[v].empty  BY <1>3
    <2> QED  BY <1>2, <2>1, <2>2 DEF TableInv, ClaimedWhileEmpty
  <1>9. VerifiedAnswered'  BY <1>2, <1>3 DEF TableInv, VerifiedAnswered, Replaces
  <1>10. Grows
    <2>1. Len(users) \in Nat  BY <1>1, RowsType
    <2>2. \A v \in Ids : Later(v)  BY <1>3 DEF Later, Replaces
    <2> QED  BY <1>2, <2>1, <2>2 DEF Grows
  <1> QED  BY <1>4, <1>5, <1>6, <1>7, <1>8, <1>9, <1>10 DEF TableInv

(* A request that writes a row other than its handle goes on or is done.   *)
LEMMA WritingKeeps ==
    ASSUME Inv, NEW b \in Browsers, NEW u \in Ids, NEW row, NEW held, Replaces(u, row, held),
           row.username = users[u].username,
           NEW r, CallOK(r)', r.pc # "handle", call' = [call EXCEPT ![b] = r] \/ call' = call,
           open' = open, answered' = answered
    PROVE  TableInv' /\ CallInv' /\ Grows
  <1>1. TableInv' /\ Grows  BY ReplacingKeeps DEF Inv
  <1>2. \A d \in Browsers : call[d].pc = "handle" =>
            users'[call[d].user].username = users[call[d].user].username
    <2>1. \A v \in Ids : users'[v] = IF v = u THEN row ELSE users[v]
          BY RowReplaced DEF Inv, TableInv
    <2>2. \A d \in Browsers : call[d].pc = "handle" => call[d].user \in Ids
          BY DEF Inv, CallInv, CallOK
    <2> QED  BY <2>1, <2>2
  <1>3. NamesKept(b)  BY <1>2 DEF NamesKept
  <1>4. CASE call' = [call EXCEPT ![b] = r]  BY <1>1, <1>3, <1>4, CallMoves DEF Inv
  <1>5. CASE call' = call  BY <1>1, <1>2, <1>5, CallsStay DEF Inv
  <1> QED  BY <1>1, <1>4, <1>5

LEMMA WritingStays ==
    ASSUME Inv, NEW b \in Browsers, NEW u \in Ids, NEW row, NEW held, Replaces(u, row, held),
           row.username = users[u].username,
           NEW r, CallOK(r)', r.pc # "handle", call' = [call EXCEPT ![b] = r] \/ call' = call,
           open' = open, UNCHANGED <<seats, travel, answered>>
    PROVE  Inv'
  BY WritingKeeps, SeatsStay, TravelStays DEF Inv

(* What an account's row may rely on.                                      *)
LEMMA RowFacts ==
    ASSUME Inv, NEW u \in Ids
    PROVE  /\ users[u] \in Row /\ made[u] \in Origin
           /\ users[u].telegram # None => users[u].telegram \in made[u].held
           /\ \A v \in Ids : users[u].telegram # None /\ users[v].telegram = users[u].telegram => v = u
           /\ \A v \in Ids : users[u].username # None /\ users[v].username = users[u].username => v = u
           /\ Unreachable(users[u]) => users[u].known
           /\ \A key \in users[u].verified : users[u][key] \in answered
  <1>1. users[u] \in Row /\ made[u] \in Origin  BY RowsType DEF Inv, TableInv
  <1>2. \A v \in Ids : users[u].telegram # None /\ users[v].telegram = users[u].telegram => v = u
        BY DEF Inv, TableInv, OneAccountEach, Keys
  <1>3. \A v \in Ids : users[u].username # None /\ users[v].username = users[u].username => v = u
        BY DEF Inv, TableInv, OneAccountEach, Keys
  <1> QED  BY <1>1, <1>2, <1>3
           DEF Inv, TableInv, TelegramHeld, LockedOutByChoice, VerifiedAnswered

LEMMA MarkKeeps ==
    ASSUME Inv, NEW b \in Browsers, Mark(b)
    PROVE  Inv'
  <1>1. call[b] \in Call /\ CallOK(call[b]) /\ call[b].pc = "mark"
        BY DEF Mark, At, Inv, CallInv
  <1>2. PICK u \in Ids, key \in {"email", "phone"}, value \in answered :
            /\ u = call[b].user /\ key = call[b].key /\ value = call[b].value
            /\ Opens(u, key, value) /\ users[u][key] = value
        BY <1>1 DEF CallOK, Opens
  <1>3. PICK row : row = [users[u] EXCEPT !.verified = @ \cup {key}]  OBVIOUS
  <1>4. /\ users' = [users EXCEPT ![u] = row] /\ made' = made
        /\ UNCHANGED <<open, seats, travel, answered>>
        BY <1>2, <1>3 DEF Mark
  <1>5. users[u] \in Row /\ made[u] \in Origin  BY RowFacts
  <1>6. /\ row \in Row /\ row.email = users[u].email /\ row.phone = users[u].phone
        /\ row.telegram = users[u].telegram /\ row.username = users[u].username
        /\ row.admin = users[u].admin /\ row.known = users[u].known
        /\ row.verified = users[u].verified \cup {key}
        BY <1>3, <1>5 DEF Row
  <1>7. Replaces(u, row, made[u].held)
    <2>1. \A k \in row.verified : row[k] \in answered
      <3> TAKE k \in row.verified
      <3>1. k \in {"email", "phone"}  BY <1>5, <1>6 DEF Row
      <3>2. row[k] = users[u][k]  BY <1>6, <3>1
      <3>3. k = key \/ k \in users[u].verified  BY <1>6
      <3> QED  BY <1>2, <3>2, <3>3, RowFacts
    <2>2. Unreachable(row) => row.known
      <3>1. Unreachable(row) => Unreachable(users[u])  BY <1>6 DEF Unreachable, Keys
      <3> QED  BY <1>6, <3>1, RowFacts
    <2>3. made[u].held \in SUBSET Telegrams  BY <1>5 DEF Origin
    <2> QED  BY <1>4, <1>5, <1>6, <2>1, <2>2, <2>3, RowFacts DEF Replaces
  <1>8. PICK r : r = [call[b] EXCEPT !.pc = "enter"]  OBVIOUS
  <1>9. r \in Call /\ r.pc = "enter" /\ r.user = u /\ r.key = key /\ r.value = value
        BY <1>1, <1>2, <1>8 DEF Call, Pcs
  <1>10. CallOK(r)'
    <2>1. Grows  BY <1>4, <1>7, ReplacingKeeps DEF Inv
    <2> QED  BY <1>2, <1>9, <2>1, OpensStays DEF CallOK, Making
  <1>11. call' = [call EXCEPT ![b] = r]  BY <1>8 DEF Mark, Goto
  <1> QED  BY <1>4, <1>6, <1>7, <1>9, <1>10, <1>11, WritingStays

(* Nobody else holds the Telegram id that is connected.                    *)
LEMMA LinkKeeps ==
    ASSUME Inv, NEW b \in Browsers, Link(b)
    PROVE  Inv'
  <1>1. call[b] \in Call /\ CallOK(call[b]) /\ call[b].pc = "link"
        BY DEF Link, At, Inv, CallInv
  <1>2. PICK u \in Ids, value \in Telegrams : u = call[b].user /\ value = call[b].value
        BY <1>1 DEF CallOK
  <1>3. /\ call' = [call EXCEPT ![b] = Closing] /\ Close(b)
        /\ UNCHANGED <<open, seats, travel, answered>>
        BY DEF Link, Close, Go, Closing
  <1>4. CASE Holders("telegram", call[b].value) \subseteq {call[b].user}
    <2>1. PICK row : row = [users[u] EXCEPT !.telegram = value]  OBVIOUS
    <2>2. PICK held : held = made[u].held \cup {value}  OBVIOUS
    <2>3. users' = [users EXCEPT ![u] = row] /\ made' = [made EXCEPT ![u].held = held]
          BY <1>2, <1>4, <2>1, <2>2 DEF Link
    <2>4. users[u] \in Row /\ made[u] \in Origin  BY RowFacts
    <2>5. value # None  BY AccountsAssumption
    <2>6. /\ row \in Row /\ row.email = users[u].email /\ row.phone = users[u].phone
          /\ row.telegram = value /\ row.username = users[u].username
          /\ row.admin = users[u].admin /\ row.known = users[u].known
          /\ row.verified = users[u].verified
          BY <2>1, <2>4 DEF Row
    <2>7. held \in SUBSET Telegrams /\ made[u].held \subseteq held /\ value \in held
          BY <2>2, <2>4 DEF Origin
    <2>8. \A v \in Ids : users[v].telegram = value => v = u
          BY <1>2, <1>4, <2>5 DEF Holders
    <2>9. \A k \in row.verified : row[k] \in answered
      <3> TAKE k \in row.verified
      <3>1. k \in {"email", "phone"} /\ k \in users[u].verified  BY <2>4, <2>6 DEF Row
      <3>2. row[k] = users[u][k]  BY <2>6, <3>1
      <3> QED  BY <3>1, <3>2, RowFacts
    <2>10. ~Unreachable(row)  BY <2>5, <2>6 DEF Unreachable, Keys
    <2>11. Replaces(u, row, held)
           BY <2>3, <2>6, <2>7, <2>8, <2>9, <2>10, RowFacts DEF Replaces
    <2> QED  BY <1>3, <2>6, <2>11, ClosingOK, WritingStays
  <1>5. CASE ~(Holders("telegram", call[b].value) \subseteq {call[b].user})
    <2>1. UNCHANGED tables  BY <1>5 DEF Link, tables
    <2> QED  BY <1>3, <2>1, CloseIsQuiet, QuietStays
  <1> QED  BY <1>4, <1>5

(* Telegram goes only from an account that had something else when it was  *)
(* asked, and what it had then it has still.                               *)
LEMMA UnlinkKeeps ==
    ASSUME Inv, NEW b \in Browsers, Unlink(b)
    PROVE  Inv'
  <1>1. call[b] \in Call /\ CallOK(call[b]) /\ call[b].pc = "unlink"
        BY DEF Unlink, At, Inv, CallInv
  <1>2. PICK u \in Ids : u = call[b].user /\ ~LastWayIn(users[u])  BY <1>1 DEF CallOK
  <1>3. PICK row : row = [users[u] EXCEPT !.telegram = None]  OBVIOUS
  <1>4. /\ users' = [users EXCEPT ![u] = row] /\ made' = made
        /\ Done(b) /\ UNCHANGED <<open, seats, travel, answered>>
        BY <1>2, <1>3 DEF Unlink
  <1>5. users[u] \in Row /\ made[u] \in Origin  BY RowFacts
  <1>6. /\ row \in Row /\ row.email = users[u].email /\ row.phone = users[u].phone
        /\ row.telegram = None /\ row.username = users[u].username
        /\ row.admin = users[u].admin /\ row.known = users[u].known
        /\ row.verified = users[u].verified
        BY <1>3, <1>5 DEF Row
  <1>7. Replaces(u, row, made[u].held)
    <2>1. \A k \in row.verified : row[k] \in answered
      <3> TAKE k \in row.verified
      <3>1. k \in {"email", "phone"} /\ k \in users[u].verified  BY <1>5, <1>6 DEF Row
      <3>2. row[k] = users[u][k]  BY <1>6, <3>1
      <3> QED  BY <3>1, <3>2, RowFacts
    <2>2. Unreachable(row) => row.known
      <3>1. Unreachable(row) => row.email = None /\ row.phone = None
            BY DEF Unreachable, Keys
      <3> QED  BY <1>2, <1>6, <3>1 DEF LastWayIn
    <2>3. made[u].held \in SUBSET Telegrams  BY <1>5 DEF Origin
    <2> QED  BY <1>4, <1>5, <1>6, <2>1, <2>2, <2>3, RowFacts DEF Replaces
  <1>8. Idle.pc # "handle" /\ call' = [call EXCEPT ![b] = Idle]  BY <1>4 DEF Idle, Done
  <1> QED  BY <1>4, <1>6, <1>7, <1>8, IdleOK, WritingStays

(* A handle goes to the account that was made to have it, and has none.    *)
LEMMA SetUsernameKeeps ==
    ASSUME Inv, NEW b \in Browsers, SetUsername(b)
    PROVE  Inv'
  <1>1. call[b] \in Call /\ CallOK(call[b]) /\ call[b].pc = "handle"
        BY DEF SetUsername, At, Inv, CallInv
  <1>2. PICK u \in Ids, value \in Handles :
            u = call[b].user /\ value = call[b].value /\ users[u].username = None
        BY <1>1 DEF CallOK
  <1>3. Done(b) /\ UNCHANGED <<open, made, seats, travel, answered>>  BY DEF SetUsername
  <1>4. CASE Taken("username", call[b].value)
    <2>1. UNCHANGED tables  BY <1>3, <1>4 DEF SetUsername, tables
    <2> QED  BY <1>3, <2>1, DoneIsQuiet, QuietStays
  <1>5. CASE ~Taken("username", call[b].value)
    <2>1. PICK row : row = [users[u] EXCEPT !.username = value]  OBVIOUS
    <2>2. users' = [users EXCEPT ![u] = row] /\ made' = made
          BY <1>2, <1>5, <2>1 DEF SetUsername
    <2>3. users[u] \in Row /\ made[u] \in Origin  BY RowFacts
    <2>4. value # None  BY AccountsAssumption
    <2>5. /\ row \in Row /\ row.email = users[u].email /\ row.phone = users[u].phone
          /\ row.telegram = users[u].telegram /\ row.username = value
          /\ row.admin = users[u].admin /\ row.known = users[u].known
          /\ row.verified = users[u].verified
          BY <2>1, <2>3 DEF Row
    <2>6. \A v \in Ids : users[v].username # value
          BY <1>2, <1>5, <2>4 DEF Taken, Found, Holders
    <2>7. Replaces(u, row, made[u].held)
      <3>1. \A k \in row.verified : row[k] \in answered
        <4> TAKE k \in row.verified
        <4>1. k \in {"email", "phone"} /\ k \in users[u].verified  BY <2>3, <2>5 DEF Row
        <4>2. row[k] = users[u][k]  BY <2>5, <4>1
        <4> QED  BY <4>1, <4>2, RowFacts
      <3>2. ~Unreachable(row)  BY <2>4, <2>5 DEF Unreachable, Keys
      <3>3. made[u].held \in SUBSET Telegrams  BY <2>3 DEF Origin
      <3> QED  BY <1>2, <2>2, <2>3, <2>5, <2>6, <3>1, <3>2, <3>3, RowFacts DEF Replaces
    <2>8. TableInv' /\ Grows  BY <1>3, <2>7, ReplacingKeeps DEF Inv
    <2>9. NamesKept(b)
      <3>1. \A v \in Ids : users'[v] = IF v = u THEN row ELSE users[v]
            BY <2>7, RowReplaced DEF Inv, TableInv
      <3>2. \A d \in Browsers \ {b} : call[d].pc = "handle" => call[d].user \in Ids /\ call[d].user # u
            BY <1>1, <1>2 DEF Inv, CallInv, CallOK, OneNames, At
      <3> QED  BY <3>1, <3>2 DEF NamesKept
    <2>10. Idle.pc # "handle" /\ call' = [call EXCEPT ![b] = Idle]  BY <1>3 DEF Idle, Done
    <2>11. CallInv'  BY <2>8, <2>9, <2>10, IdleOK, CallMoves DEF Inv
    <2> QED  BY <1>3, <2>8, <2>11, SeatsStay, TravelStays DEF Inv
  <1> QED  BY <1>4, <1>5

(* A row that keeps what it is found by.                                   *)
LEMMA FlagReplaces ==
    ASSUME Inv, NEW u \in Ids, NEW row \in Row,
           users' = [users EXCEPT ![u] = row], made' = made,
           \A key \in Keys : row[key] = users[u][key],
           row.admin = users[u].admin, row.verified = users[u].verified,
           users[u].known => row.known
    PROVE  Replaces(u, row, made[u].held)
  <1>1. users[u] \in Row /\ made[u] \in Origin  BY RowFacts
  <1>2. /\ row.email = users[u].email /\ row.phone = users[u].phone
        /\ row.telegram = users[u].telegram /\ row.username = users[u].username
        BY DEF Keys
  <1>3. \A k \in row.verified : row[k] \in answered
    <2> TAKE k \in row.verified
    <2>1. k \in Keys /\ k \in users[u].verified  BY <1>1 DEF Row, Keys
    <2> QED  BY <2>1, RowFacts
  <1>4. Unreachable(row) => row.known
    <2>1. Unreachable(row) => Unreachable(users[u])  BY DEF Unreachable
    <2> QED  BY <2>1, RowFacts
  <1>5. made[u].held \in SUBSET Telegrams  BY <1>1 DEF Origin
  <1> QED  BY <1>2, <1>3, <1>4, <1>5, RowFacts DEF Replaces

LEMMA ChoosePasswordKeeps ==
    ASSUME Inv, NEW b \in Browsers, ChoosePassword(b)
    PROVE  Inv'
  <1>1. PICK u \in Ids : u = signed[b]
        BY DEF ChoosePassword, SignedIn, Inv, SeatInv, Opens
  <1>2. PICK row : row = [users[u] EXCEPT !.known = TRUE]  OBVIOUS
  <1>3. /\ users' = [users EXCEPT ![u] = row] /\ made' = made
        /\ UNCHANGED <<open, call, seats, travel, answered>>
        BY <1>1, <1>2 DEF ChoosePassword
  <1>4. users[u] \in Row  BY RowFacts
  <1>5. /\ row \in Row /\ row.known
        /\ row.email = users[u].email /\ row.phone = users[u].phone
        /\ row.telegram = users[u].telegram /\ row.username = users[u].username
        /\ row.admin = users[u].admin /\ row.verified = users[u].verified
        BY <1>2, <1>4 DEF Row
  <1>6. \A key \in Keys : row[key] = users[u][key]  BY <1>5 DEF Keys
  <1>7. Replaces(u, row, made[u].held)  BY <1>3, <1>5, <1>6, FlagReplaces
  <1>8. Idle.pc # "handle"  BY DEF Idle
  <1> QED  BY <1>3, <1>5, <1>7, <1>8, IdleOK, WritingStays

(* Who is signed in to a disabled account is so no more.                   *)
LEMMA ToggleKeeps ==
    ASSUME Inv, NEW b \in Browsers, NEW u \in Ids, Toggle(b, u)
    PROVE  Inv'
  <1>1. PICK row : row = [users[u] EXCEPT !.active = ~@]  OBVIOUS
  <1>2. /\ users' = [users EXCEPT ![u] = row] /\ made' = made
        /\ UNCHANGED <<open, call, travel, answered>>
        BY <1>1 DEF Toggle
  <1>3. users[u] \in Row  BY RowFacts
  <1>4. /\ row \in Row
        /\ row.email = users[u].email /\ row.phone = users[u].phone
        /\ row.telegram = users[u].telegram /\ row.username = users[u].username
        /\ row.admin = users[u].admin /\ row.verified = users[u].verified
        /\ row.known = users[u].known
        BY <1>1, <1>3 DEF Row
  <1>5. \A key \in Keys : row[key] = users[u][key]  BY <1>4 DEF Keys
  <1>6. Replaces(u, row, made[u].held)  BY <1>2, <1>4, <1>5, FlagReplaces
  <1>7. Idle.pc # "handle"  BY DEF Idle
  <1>8. TableInv' /\ CallInv' /\ Grows  BY <1>2, <1>4, <1>6, <1>7, IdleOK, WritingKeeps
  <1>9. SeatInv'
    <2>1. PICK out : /\ signed' = [d \in Browsers |-> IF d \in out THEN NoUser ELSE signed[d]]
                     /\ through' = [d \in Browsers |-> IF d \in out THEN Nothing ELSE through[d]]
          BY DEF Toggle
    <2>2. signed' \in [Browsers -> Nat] /\ DOMAIN through' = Browsers
          BY <2>1 DEF Inv, SeatInv, NoUser
    <2>3. ASSUME NEW d \in Browsers, signed'[d] # NoUser
          PROVE  Opens(signed[d], through[d].key, through[d].value)'
      <3>1. PICK v, key, value : v = signed[d] /\ key = through[d].key /\ value = through[d].value
            OBVIOUS
      <3>2. signed'[d] = v /\ through'[d] = through[d]  BY <2>1, <2>3, <3>1
      <3>3. Opens(v, key, value)'  BY <1>8, <2>3, <3>1, <3>2, OpensStays DEF Inv, SeatInv
      <3> QED  BY <3>1, <3>2, <3>3
    <2> QED  BY <2>2, <2>3 DEF SeatInv
  <1> QED  BY <1>2, <1>8, <1>9, TravelStays DEF Inv

-----------------------------------------------------------------------------
LEMMA NewRowFacts ==
    ASSUME NEW c, c \in Call, c.key \in {"email", "phone", "telegram"}, c.value \in Values(c.key)
    PROVE  /\ NewRow(c) \in Row /\ c.value # None
           /\ \A key \in Keys : NewRow(c)[key] = IF key = c.key THEN c.value ELSE None
           /\ NewRow(c).admin = c.first /\ NewRow(c).verified = {}
  <1>1. PICK k, value, first, known :
            /\ k = c.key /\ value = c.value /\ first = c.first
            /\ known = (c.door \in {"password", "register", "admin", "shell"})
        OBVIOUS
  <1>2. known \in BOOLEAN /\ first \in BOOLEAN  BY <1>1 DEF Call
  <1>3. value # None /\ value \in Values(k)
        BY <1>1, AccountsAssumption DEF Values, Phones
  <1>4. PICK row : row = [Blank EXCEPT ![k] = value, !.admin = first, !.known = known]  OBVIOUS
  <1>5. NewRow(c) = row  BY <1>1, <1>4, Zenon DEF NewRow
  <1>6. /\ row \in Row /\ row.admin = first /\ row.verified = {}
        /\ \A key \in Keys : row[key] = IF key = k THEN value ELSE None
    <2>1. CASE k = "email"
      <3>1. row = [Blank EXCEPT !.email = value, !.admin = first, !.known = known]  BY <1>4, <2>1
      <3>2. row = [email |-> value, phone |-> None, telegram |-> None, username |-> None,
                   admin |-> first, active |-> TRUE, known |-> known, verified |-> {}]
            BY <3>1 DEF Blank
      <3>3. row \in Row  BY <1>2, <1>3, <2>1, <3>2 DEF Row, Values
      <3>4. row.admin = first /\ row.verified = {}  BY <3>2
      <3>5. \A key \in Keys : row[key] = IF key = k THEN value ELSE None  BY <2>1, <3>2 DEF Keys
      <3> QED  BY <3>3, <3>4, <3>5
    <2>2. CASE k = "phone"
      <3>1. row = [Blank EXCEPT !.phone = value, !.admin = first, !.known = known]  BY <1>4, <2>2
      <3>2. row = [email |-> None, phone |-> value, telegram |-> None, username |-> None,
                   admin |-> first, active |-> TRUE, known |-> known, verified |-> {}]
            BY <3>1 DEF Blank
      <3>3. row \in Row  BY <1>2, <1>3, <2>2, <3>2 DEF Row, Values
      <3>4. row.admin = first /\ row.verified = {}  BY <3>2
      <3>5. \A key \in Keys : row[key] = IF key = k THEN value ELSE None  BY <2>2, <3>2 DEF Keys
      <3> QED  BY <3>3, <3>4, <3>5
    <2>3. CASE k = "telegram"
      <3>1. row = [Blank EXCEPT !.telegram = value, !.admin = first, !.known = known]  BY <1>4, <2>3
      <3>2. row = [email |-> None, phone |-> None, telegram |-> value, username |-> None,
                   admin |-> first, active |-> TRUE, known |-> known, verified |-> {}]
            BY <3>1 DEF Blank
      <3>3. row \in Row  BY <1>2, <1>3, <2>3, <3>2 DEF Row, Values
      <3>4. row.admin = first /\ row.verified = {}  BY <3>2
      <3>5. \A key \in Keys : row[key] = IF key = k THEN value ELSE None  BY <2>3, <3>2 DEF Keys
      <3> QED  BY <3>3, <3>4, <3>5
    <2> QED  BY <1>1, <2>1, <2>2, <2>3
  <1> QED  BY <1>1, <1>3, <1>5, <1>6

(* A new account is found by nothing another is found by, and the first of *)
(* all was asked for while there was none.                                 *)
LEMMA InsertKeeps ==
    ASSUME Inv, NEW b \in Browsers, Insert(b)
    PROVE  Inv'
  <1>1. PICK c : c = call[b]  OBVIOUS
  <1>2. /\ c \in Call /\ CallOK(c) /\ c.pc = "insert" /\ MakingOK(c)
        BY <1>1 DEF Insert, At, Inv, CallInv, CallOK, Making
  <1>3. c.key \in {"email", "phone", "telegram"} /\ c.value \in Values(c.key)
        BY <1>2 DEF MakingOK, KeyOf
  <1>4. PICK row, n, o :
            /\ row = NewRow(c) /\ n = Len(users) + 1
            /\ o = [own |-> c.door \in OwnDoors, empty |-> c.empty,
                    held |-> IF c.key = "telegram" THEN {c.value} ELSE {}]
        OBVIOUS
  <1>5. /\ users' = Append(users, row) /\ made' = Append(made, o)
        /\ ~Taken(c.key, c.value) /\ Len(users) < MaxAccounts
        /\ UNCHANGED <<open, seats, travel, answered>>
        BY <1>1, <1>4 DEF Insert
  <1>6. /\ row \in Row /\ c.value # None
        /\ \A key \in Keys : row[key] = IF key = c.key THEN c.value ELSE None
        /\ row.admin = c.first /\ row.verified = {}
        BY <1>2, <1>3, <1>4, NewRowFacts
  <1>7. o \in Origin
    <2>1. (c.door \in OwnDoors) \in BOOLEAN /\ c.empty \in BOOLEAN  BY <1>2 DEF Call
    <2>2. c.key = "telegram" => c.value \in Telegrams  BY <1>3 DEF Values
    <2> QED  BY <1>4, <2>1, <2>2 DEF Origin
  <1>8. users \in Seq(Row) /\ made \in Seq(Origin) /\ Len(made) = Len(users) /\ Len(users) \in Nat
        BY RowsType DEF Inv, TableInv, Rows
  <1>9. /\ users' \in Seq(Row) /\ Len(users') = n /\ users'[n] = row
        /\ \A v \in Ids : users'[v] = users[v]
        BY <1>4, <1>5, <1>6, <1>8, AppendProperties DEF Ids
  <1>10. /\ made' \in Seq(Origin) /\ Len(made') = n /\ made'[n] = o
         /\ \A v \in Ids : made'[v] = made[v]
         BY <1>4, <1>5, <1>7, <1>8, AppendProperties DEF Ids
  <1>11. Ids' = Ids \cup {n} /\ n \notin Ids /\ n \in Nat
    <2>1. Ids' = 1..n  BY <1>9 DEF Ids
    <2> QED  BY <1>4, <1>8, <2>1 DEF Ids
  <1>12. Grows
    <2>1. \A v \in Ids : Later(v)  BY <1>9, <1>10 DEF Later
    <2> QED  BY <1>4, <1>5, <1>8, <1>9, <2>1 DEF Grows
  <1>13. TableInv'
    <2>1. Rows'
      <3>1. n <= MaxAccounts  BY <1>4, <1>5, <1>8, AccountsAssumption
      <3> QED  BY <1>5, <1>9, <1>10, <3>1 DEF Inv, TableInv, Rows
    <2>2. TelegramHeld'
      <3>1. row.telegram # None => row.telegram \in o.held
            BY <1>4, <1>6 DEF Keys
      <3> QED  BY <1>9, <1>10, <1>11, <3>1 DEF Inv, TableInv, TelegramHeld
    <2>3. OneAccountEach'
      <3>1. ASSUME NEW key \in Keys, NEW v \in Ids, row[key] # None PROVE users[v][key] # row[key]
        <4>1. key = c.key /\ row[key] = c.value  BY <1>6, <3>1
        <4> QED  BY <1>5, <1>6, <4>1 DEF Taken, Found, Holders
      <3> SUFFICES ASSUME NEW key \in Keys, NEW v \in Ids', NEW w \in Ids',
                          users'[v][key] # None, users'[v][key] = users'[w][key]
                   PROVE  v = w
          BY DEF OneAccountEach
      <3>2. CASE v \in Ids /\ w \in Ids
            BY <1>9, <3>2 DEF Inv, TableInv, OneAccountEach
      <3>3. CASE v = n /\ w \in Ids  BY <1>9, <3>1, <3>3
      <3>4. CASE v \in Ids /\ w = n  BY <1>9, <3>1, <3>4
      <3> QED  BY <1>11, <3>2, <3>3, <3>4
    <2>4. LockedOutByChoice'
      <3>1. ~Unreachable(row)  BY <1>3, <1>6 DEF Unreachable, Keys
      <3> QED  BY <1>9, <1>11, <3>1 DEF Inv, TableInv, LockedOutByChoice, Unreachable
    <2>5. ClaimedWhileEmpty'
      <3>1. o.own <=> c.door \in OwnDoors  BY <1>4
      <3>2. o.empty = c.empty  BY <1>4
      <3>3. c.door \in OwnDoors => /\ n = 1 => row.admin
                                   /\ row.admin \/ ~open => c.empty
            BY <1>2, <1>4, <1>6, <1>8 DEF MakingOK
      <3>4. o.own => (n = 1 => row.admin) /\ (row.admin \/ ~open => o.empty)
            BY <3>1, <3>2, <3>3
      <3> SUFFICES ASSUME NEW v \in Ids', made'[v].own
                   PROVE  /\ v = 1 => users'[v].admin
                          /\ users'[v].admin \/ ~open' => made'[v].empty
          BY DEF ClaimedWhileEmpty
      <3>5. CASE v \in Ids
        <4>1. users'[v] = users[v] /\ made'[v] = made[v] /\ open' = open
              BY <1>5, <1>9, <1>10, <3>5
        <4> QED  BY <3>5, <4>1, Zenon DEF Inv, TableInv, ClaimedWhileEmpty
      <3>6. CASE v = n
        <4>1. users'[v] = row /\ made'[v] = o /\ open' = open  BY <1>5, <1>9, <1>10, <3>6
        <4> QED  BY <3>4, <3>6, <4>1, Zenon
      <3> QED  BY <1>11, <3>5, <3>6
    <2>6. VerifiedAnswered'  BY <1>5, <1>6, <1>9, <1>11 DEF Inv, TableInv, VerifiedAnswered
    <2> QED  BY <2>1, <2>2, <2>3, <2>4, <2>5, <2>6 DEF TableInv
  <1>14. NamesKept(b)
    <2>1. \A d \in Browsers : call[d].pc = "handle" => call[d].user \in Ids
          BY DEF Inv, CallInv, CallOK
    <2> QED  BY <1>9, <2>1 DEF NamesKept
  <1>15. CallInv'
    <2>1. CASE Done(b)
      <3>1. Idle.pc # "handle"  BY DEF Idle
      <3> QED  BY <1>12, <1>14, <2>1, <3>1, IdleOK, CallMoves DEF Done, Inv
    <2>2. CASE Go(b, "handle", "username", c.handle, n) /\ c.handle # None
      <3>1. PICK r : r = [Idle EXCEPT !.pc = "handle", !.key = "username",
                                      !.value = c.handle, !.user = n]
            OBVIOUS
      <3>2. c.handle \in Handles  BY <1>2, <2>2 DEF Call
      <3>3. r \in Call /\ r.pc = "handle" /\ r.value = c.handle /\ r.user = n
            BY <1>11, <3>1, <3>2, IdleOK DEF CallOK, Call, Pcs, Keys, Idle
      <3>4. row.username = None  BY <1>3, <1>6 DEF Keys
      <3>5. CallOK(r)'  BY <1>9, <1>11, <3>2, <3>3, <3>4 DEF CallOK, Making
      <3>6. \A d \in Browsers : call[d].pc = "handle" => call[d].user # n
            BY <1>11 DEF Inv, CallInv, CallOK
      <3> QED  BY <1>12, <1>14, <2>2, <3>1, <3>3, <3>5, <3>6, CallMoves DEF Go, Inv
    <2>3. ASSUME NEW pc \in {"mark", "enter"}, Go(b, pc, c.key, c.value, n),
                 pc = "mark" => c.door \in {"mail", "phone"}
          PROVE  CallInv'
      <3>1. PICK r : r = [Idle EXCEPT !.pc = pc, !.key = c.key, !.value = c.value, !.user = n]
            OBVIOUS
      <3>2. r \in Call /\ r.pc = pc /\ r.key = c.key /\ r.value = c.value /\ r.user = n
            BY <1>2, <1>11, <3>1, IdleOK DEF CallOK, Call, Pcs, Idle
      <3>3. c.key \in Keys /\ row[c.key] = c.value  BY <1>3, <1>6 DEF Keys
      <3>4. c.key = "telegram" => c.value \in o.held  BY <1>4
      <3>5. Opens(n, c.key, c.value)'  BY <1>6, <1>9, <1>10, <1>11, <3>3, <3>4 DEF Opens
      <3>6. pc = "mark" => c.key \in {"email", "phone"} /\ c.value \in answered'
            BY <1>2, <1>5, <2>3 DEF MakingOK, KeyOf
      <3>7. CallOK(r)'  BY <3>2, <3>5, <3>6 DEF CallOK, Making
      <3> QED  BY <1>12, <1>14, <2>3, <3>1, <3>2, <3>7, CallMoves DEF Go, Inv
    <2>4. CASE AfterInsert(c) = "idle"  BY <1>1, <2>1, <2>4 DEF Insert
    <2>5. CASE AfterInsert(c) = "handle"
      <3>1. c.handle # None  BY <2>5 DEF AfterInsert
      <3> QED  BY <1>1, <1>9, <2>2, <2>5, <3>1 DEF Insert
    <2>6. CASE AfterInsert(c) \in {"mark", "enter"}
      <3>1. AfterInsert(c) = "mark" => c.door \in {"mail", "phone"}  BY DEF AfterInsert
      <3>2. Go(b, AfterInsert(c), c.key, c.value, n)  BY <1>1, <1>9, <2>6 DEF Insert
      <3> QED  BY <2>3, <2>6, <3>1, <3>2
    <2>7. AfterInsert(c) \in {"idle", "handle", "mark", "enter"}  BY DEF AfterInsert
    <2> QED  BY <2>4, <2>5, <2>6, <2>7
  <1>16. SeatInv' /\ TravelInv'  BY <1>5, <1>12, SeatsStay, TravelStays DEF Inv
  <1> QED  BY <1>13, <1>15, <1>16 DEF Inv

-----------------------------------------------------------------------------
(* Sessions                                                                *)

LEMMA EnterKeeps ==
    ASSUME Inv, NEW b \in Browsers, Enter(b)
    PROVE  Inv'
  <1>1. CallOK(call[b]) /\ call[b].pc = "enter"  BY DEF Enter, At, Inv, CallInv
  <1>2. PICK u, key, value : u = call[b].user /\ key = call[b].key /\ value = call[b].value
        OBVIOUS
  <1>3. Opens(u, key, value)  BY <1>1, <1>2 DEF CallOK
  <1>4. /\ signed' = [signed EXCEPT ![b] = u]
        /\ through' = [through EXCEPT ![b] = [key |-> key, value |-> value]]
        /\ Answer(b) /\ Done(b) /\ UNCHANGED <<tables, answered>>
        BY <1>2 DEF Enter, Answer
  <1>5. TableInv' /\ CallInv' /\ Grows  BY <1>4, DoneIsQuiet, QuietKeeps
  <1>6. SeatInv'
    <2>1. u \in Nat  BY <1>3, RowsType DEF Opens, Inv, TableInv, Ids
    <2>2. signed' \in [Browsers -> Nat] /\ DOMAIN through' = Browsers
          BY <1>4, <2>1 DEF Inv, SeatInv
    <2>3. ASSUME NEW d \in Browsers, signed'[d] # NoUser
          PROVE  Opens(signed[d], through[d].key, through[d].value)'
      <3>1. PICK v, k, w : v = signed'[d] /\ k = through'[d].key /\ w = through'[d].value
            OBVIOUS
      <3>2. Opens(v, k, w)
        <4>1. CASE d = b  BY <1>3, <1>4, <3>1, <4>1 DEF Inv, SeatInv
        <4>2. CASE d # b
          <5>1. v = signed[d] /\ k = through[d].key /\ w = through[d].value
                BY <1>4, <3>1, <4>2 DEF Inv, SeatInv
          <5> QED  BY <2>3, <3>1, <5>1 DEF Inv, SeatInv
        <4> QED  BY <4>1, <4>2
      <3>3. Opens(v, k, w)'  BY <1>5, <3>2, OpensStays
      <3> QED  BY <3>1, <3>3
    <2> QED  BY <2>2, <2>3 DEF SeatInv
  <1> QED  BY <1>4, <1>5, <1>6, AnswerTravels DEF Inv

LEMMA SignOutKeeps ==
    ASSUME Inv, NEW b \in Browsers, SignOut(b)
    PROVE  Inv'
  <1>1. /\ signed' = [signed EXCEPT ![b] = NoUser] /\ through' = [through EXCEPT ![b] = Nothing]
        /\ UNCHANGED <<tables, call, travel, answered>>
        BY DEF SignOut
  <1>2. TableInv' /\ CallInv' /\ Grows  BY <1>1, QuietKeeps DEF Quiet
  <1>3. SeatInv'
    <2>1. signed' \in [Browsers -> Nat] /\ DOMAIN through' = Browsers
          BY <1>1 DEF Inv, SeatInv, NoUser
    <2>2. ASSUME NEW d \in Browsers, signed'[d] # NoUser
          PROVE  Opens(signed[d], through[d].key, through[d].value)'
      <3>1. signed'[d] = signed[d] /\ through'[d] = through[d]
            BY <1>1, <2>2 DEF Inv, SeatInv
      <3>2. PICK v, k, w : v = signed[d] /\ k = through[d].key /\ w = through[d].value
            OBVIOUS
      <3>3. Opens(v, k, w)'  BY <1>2, <2>2, <3>1, <3>2, OpensStays DEF Inv, SeatInv
      <3> QED  BY <3>1, <3>2, <3>3
    <2> QED  BY <2>1, <2>2 DEF SeatInv
  <1> QED  BY <1>1, <1>2, <1>3, TravelStays DEF Inv

-----------------------------------------------------------------------------
(* Round trips                                                             *)

LEMMA LeaveKeeps ==
    ASSUME Inv, NEW b \in Browsers, NEW where \in Places, NEW mode \in {"signin", "link"},
           Leave(b, where, mode)
    PROVE  Inv'
  <1>1. PICK trip, n : /\ trip = [by |-> b, where |-> where, mode |-> mode,
                                  ended |-> <<>>, closed |-> FALSE]
                       /\ n = Len(trips) + 1
        OBVIOUS
  <1>2. UNCHANGED <<tables, seats, call, ending, answered>> /\ trips' = Append(trips, trip)
        BY <1>1 DEF Leave
  <1>3. trips \in Seq(Trip) /\ trip \in Trip /\ Len(trips) \in Nat
        BY <1>1 DEF Inv, TravelInv, Trip
  <1>4. /\ trips' \in Seq(Trip) /\ Len(trips') = n /\ trips'[n] = trip
        /\ \A m \in DOMAIN trips : trips'[m] = trips[m]
        BY <1>1, <1>2, <1>3, AppendProperties
  <1>5. DOMAIN trips = 1..Len(trips) /\ DOMAIN trips' = 1..n  BY <1>3, <1>4
  <1>6. n \in Nat /\ n # 0 /\ n \notin DOMAIN trips /\ DOMAIN trips' = DOMAIN trips \cup {n}
        BY <1>1, <1>3, <1>5
  <1>7. cookie' = [cookie EXCEPT ![b][where] = n]  BY <1>4 DEF Leave
  <1>8. TableInv' /\ CallInv' /\ Grows  BY <1>2, QuietKeeps DEF Quiet
  <1>9. TravelInv'
    <2>1. cookie' \in [Browsers -> [Places -> Nat]]  BY <1>6, <1>7 DEF Inv, TravelInv
    <2>2. ASSUME NEW d \in Browsers, NEW w \in Places PROVE CookieOK(d, w)'
      <3> SUFFICES ASSUME cookie'[d][w] # 0 PROVE CookieOK(d, w)'  BY DEF CookieOK
      <3>1. CASE d = b /\ w = where
        <4>1. cookie'[d][w] = n  BY <1>7, <3>1 DEF Inv, TravelInv
        <4>2. \A m \in DOMAIN trips' : ~(m > n)  BY <1>5, <1>6
        <4> QED  BY <1>1, <1>4, <1>6, <3>1, <4>1, <4>2 DEF CookieOK, Latest
      <3>2. CASE ~(d = b /\ w = where)
        <4>1. cookie'[d][w] = cookie[d][w]  BY <1>7, <3>2 DEF Inv, TravelInv
        <4>2. PICK m : m = cookie[d][w]  OBVIOUS
        <4>3. /\ m \in DOMAIN trips /\ Latest(m) /\ trips[m].by = d /\ trips[m].where = w
              /\ ~trips[m].closed
              BY <4>1, <4>2 DEF Inv, TravelInv, CookieOK
        <4>4. trips'[m] = trips[m] /\ m \in DOMAIN trips'  BY <1>4, <1>6, <4>3
        <4>5. trip.by = b /\ trip.where = where  BY <1>1
        <4>6. Latest(m)'
          <5> SUFFICES ASSUME NEW i \in DOMAIN trips', i > m
                       PROVE  trips'[i].by # d \/ trips'[i].where # w
              BY <4>3, <4>4 DEF Latest
          <5>1. CASE i = n  BY <1>4, <3>2, <4>5, <5>1
          <5>2. CASE i \in DOMAIN trips  BY <1>4, <4>3, <5>2 DEF Latest
          <5> QED  BY <1>6, <5>1, <5>2
        <4> QED  BY <4>1, <4>2, <4>3, <4>4, <4>6 DEF CookieOK
      <3> QED  BY <3>1, <3>2
    <2>3. ASSUME NEW d \in Browsers, ending'[d] # 0
          PROVE  ending'[d] \in DOMAIN trips' /\ trips'[ending'[d]].by = d
          BY <1>2, <1>4, <1>6, <2>3 DEF Inv, TravelInv
    <2>4. ending' \in [Browsers -> Nat]  BY <1>2 DEF Inv, TravelInv
    <2> QED  BY <1>4, <2>1, <2>2, <2>3, <2>4 DEF TravelInv
  <1> QED  BY <1>2, <1>8, <1>9, SeatsStay DEF Inv

LEMMA RefusedKeeps ==
    ASSUME Inv, NEW b \in Browsers, NEW where \in Places, BackRefused(b, where)
    PROVE  Inv'
  <1>1. /\ cookie' = [cookie EXCEPT ![b][where] = 0]
        /\ UNCHANGED <<tables, seats, call, ending, answered, trips>>
        BY DEF BackRefused
  <1>2. TableInv' /\ CallInv' /\ Grows  BY <1>1, QuietKeeps DEF Quiet
  <1>3. TravelInv'
    <2>1. cookie' \in [Browsers -> [Places -> Nat]]  BY <1>1, CookieCleared DEF Inv
    <2>2. ASSUME NEW d \in Browsers, NEW w \in Places PROVE CookieOK(d, w)'
      <3>1. cookie'[d][w] # 0 => cookie'[d][w] = cookie[d][w]  BY <1>1, CookieCleared DEF Inv
      <3> QED  BY <1>1, <3>1 DEF Inv, TravelInv, CookieOK, Latest
    <2> QED  BY <1>1, <2>1, <2>2 DEF Inv, TravelInv
  <1> QED  BY <1>1, <1>2, <1>3, SeatsStay DEF Inv

LEMMA BackTravels ==
    ASSUME TravelInv, NEW b \in Browsers, NEW where \in Places, NEW n, Back(b, where, n)
    PROVE  /\ TravelInv'
           /\ n \in DOMAIN trips /\ Latest(n) /\ trips[n].by = b /\ ~trips[n].closed
           /\ \A m \in DOMAIN trips : trips'[m].ended # trips[m].ended =>
                 m = n /\ trips'[m].ended = Append(trips[m].ended, b)
  <1>1. /\ n \in DOMAIN trips /\ cookie[b][where] = n
        /\ cookie' = cookie /\ ending' = [ending EXCEPT ![b] = n]
        /\ trips' = [trips EXCEPT ![n].ended = Append(@, b)]
        BY DEF Back, StateMatches
  <1>2. trips \in Seq(Trip) /\ Len(trips) \in Nat /\ DOMAIN trips = 1..Len(trips)
        BY DEF TravelInv
  <1>3. n # 0 /\ n \in Nat  BY <1>1, <1>2
  <1>4. /\ trips[n] \in Trip /\ trips[n].by = b /\ trips[n].where = where
        /\ Latest(n) /\ ~trips[n].closed
        BY <1>1, <1>2, <1>3, ElementOfSeq DEF TravelInv, CookieOK
  <1>5. PICK ended : ended = Append(trips[n].ended, b)  OBVIOUS
  <1>6. PICK trip : trip = [trips[n] EXCEPT !.ended = ended]  OBVIOUS
  <1>7. /\ trip \in Trip /\ trip.by = trips[n].by /\ trip.where = trips[n].where
        /\ trip.closed = trips[n].closed /\ trip.ended = ended
    <2>1. ended \in Seq(Browsers)  BY <1>4, <1>5 DEF Trip
    <2> QED  BY <1>4, <1>6, <2>1 DEF Trip
  <1>8. trips' = [trips EXCEPT ![n] = trip]  BY <1>1, <1>5, <1>6
  <1>9. /\ trips' \in Seq(Trip) /\ DOMAIN trips' = DOMAIN trips
        /\ \A m \in DOMAIN trips :
              /\ trips'[m] = IF m = n THEN trip ELSE trips[m]
              /\ Latest(m) => Latest(m)'
        BY <1>1, <1>7, <1>8, TripReplaced
  <1>10. ASSUME NEW d \in Browsers, NEW w \in Places PROVE CookieOK(d, w)'
    <2> SUFFICES ASSUME cookie'[d][w] # 0 PROVE CookieOK(d, w)'  BY DEF CookieOK
    <2>1. PICK m : m = cookie[d][w] /\ m = cookie'[d][w]  BY <1>1
    <2>2. CookieOK(d, w)  BY DEF TravelInv
    <2>3. m # 0 /\ cookie[d][w] = m  BY <2>1
    <2>4. /\ m \in DOMAIN trips /\ Latest(m) /\ trips[m].by = d /\ trips[m].where = w
          /\ ~trips[m].closed
          BY <2>2, <2>3 DEF CookieOK
    <2> QED  BY <1>7, <1>9, <2>1, <2>4 DEF CookieOK
  <1>11. ASSUME NEW d \in Browsers, ending'[d] # 0
         PROVE  ending'[d] \in DOMAIN trips' /\ trips'[ending'[d]].by = d
    <2>1. CASE d = b
      <3>1. ending'[d] = n  BY <1>1, <2>1 DEF TravelInv
      <3> QED  BY <1>1, <1>4, <1>7, <1>9, <2>1, <3>1
    <2>2. CASE d # b
      <3>1. ending'[d] = ending[d]  BY <1>1, <2>2 DEF TravelInv
      <3>2. ending[d] \in DOMAIN trips /\ trips[ending[d]].by = d  BY <1>11, <3>1 DEF TravelInv
      <3> QED  BY <1>7, <1>9, <3>1, <3>2
    <2> QED  BY <2>1, <2>2
  <1>12. ending' \in [Browsers -> Nat]  BY <1>1, <1>3 DEF TravelInv
  <1>13. TravelInv'  BY <1>1, <1>9, <1>10, <1>11, <1>12 DEF TravelInv
  <1> QED  BY <1>1, <1>4, <1>5, <1>7, <1>9, <1>13

LEMMA CallbacksKeep ==
    ASSUME Inv, NEW b \in Browsers,
           \/ \E n \in DOMAIN trips, e \in Emails : ProviderCallback(b, n, e)
           \/ \E n \in DOMAIN trips, t \in Telegrams :
                 TelegramCallback(b, n, t) \/ LinkCallback(b, n, t)
    PROVE  Inv'
  <1>1. "provider" \in Places /\ "telegram" \in Places  BY DEF Places
  <1>2. /\ UNCHANGED <<tables, seats, answered>>
        /\ \E where \in Places : \E n : Back(b, where, n)
        BY <1>1 DEF ProviderCallback, TelegramCallback, LinkCallback
  <1>3. \E r : Quiet(b, r)
    <2>1. ASSUME NEW n \in DOMAIN trips, NEW e \in Emails, ProviderCallback(b, n, e)
          PROVE  \E r : Quiet(b, r)
      <3>1. "email" = KeyOf("provider") /\ e \in Values("email")  BY DEF KeyOf, Values
      <3> QED  BY <1>2, <2>1, <3>1, ProveIsQuiet DEF ProviderCallback
    <2>2. ASSUME NEW n \in DOMAIN trips, NEW t \in Telegrams, TelegramCallback(b, n, t)
          PROVE  \E r : Quiet(b, r)
      <3>1. "telegram" = KeyOf("telegram") /\ t \in Values("telegram")  BY DEF KeyOf, Values
      <3> QED  BY <1>2, <2>2, <3>1, ProveIsQuiet DEF TelegramCallback
    <2>3. ASSUME NEW n \in DOMAIN trips, NEW t \in Telegrams, LinkCallback(b, n, t)
          PROVE  \E r : Quiet(b, r)
      <3>1. CASE SignedIn(b)
        <4>1. PICK u : u = signed[b]  OBVIOUS
        <4>2. u \in Ids /\ u \in Nat
              BY <3>1, <4>1, RowsType DEF SignedIn, Inv, SeatInv, TableInv, Opens
        <4>3. PICK r : r = [Idle EXCEPT !.pc = "link", !.key = "telegram", !.value = t, !.user = u]
              OBVIOUS
        <4>4. r \in Call /\ r.pc = "link" /\ r.user = u /\ r.value = t
              BY <4>2, <4>3, IdleOK DEF CallOK, Call, Pcs, Keys, Idle
        <4>5. u \in Ids'  BY <1>2, <4>2 DEF tables, Ids
        <4>6. CallOK(r)'  BY <4>4, <4>5 DEF CallOK, Making
        <4> QED  BY <1>2, <2>3, <3>1, <4>1, <4>3, <4>4, <4>6 DEF LinkCallback, Go, Quiet
      <3>2. CASE ~SignedIn(b)  BY <1>2, <2>3, <3>2, CloseIsQuiet DEF LinkCallback
      <3> QED  BY <3>1, <3>2
    <2> QED  BY <2>1, <2>2, <2>3
  <1>4. TableInv' /\ CallInv' /\ Grows  BY <1>3, QuietKeeps
  <1>5. TravelInv'  BY <1>2, BackTravels DEF Inv
  <1> QED  BY <1>2, <1>4, <1>5, SeatsStay DEF Inv

LEMMA TravelKeeps ==
    ASSUME Inv, NEW b \in Browsers,
           \/ LeaveForProvider(b) \/ LeaveForTelegram(b) \/ LeaveToLink(b)
           \/ ProviderRefused(b) \/ TelegramRefused(b)
    PROVE  Inv'
  <1>1. "provider" \in Places /\ "telegram" \in Places  BY DEF Places
  <1> QED  BY <1>1, LeaveKeeps, RefusedKeeps
           DEF LeaveForProvider, LeaveForTelegram, LeaveToLink, ProviderRefused, TelegramRefused

-----------------------------------------------------------------------------
LEMMA InitGood == Init => Inv
  <1> SUFFICES ASSUME Init PROVE Inv  OBVIOUS
  <1>1. users = <<>> /\ made = <<>> /\ Len(users) = 0 /\ Len(made) = 0 /\ Ids = {}
        BY DEF Init, Ids
  <1>2. TableInv
    <2>1. Rows  BY <1>1, AccountsAssumption DEF Rows, Init
    <2> QED  BY <1>1, <2>1
             DEF TableInv, TelegramHeld, OneAccountEach, LockedOutByChoice, ClaimedWhileEmpty,
                 VerifiedAnswered
  <1>3. CallInv
    <2>1. Idle \in Call /\ Idle.pc = "idle"  BY IdleOK DEF CallOK, Idle
    <2> QED  BY <2>1, IdleOK DEF Init, CallInv, OneNames, At
  <1>4. SeatInv  BY DEF Init, SeatInv, NoUser
  <1>5. TravelInv  BY DEF Init, TravelInv, CookieOK
  <1> QED  BY <1>2, <1>3, <1>4, <1>5 DEF Inv

LEMMA StutterKeeps == ASSUME Inv, UNCHANGED vars PROVE Inv'
  <1>1. UNCHANGED <<tables, call, seats, travel, answered>>  BY DEF vars, tables, seats, travel
  <1>2. TableInv' /\ Grows  BY <1>1, TableStays DEF Inv
  <1>3. CallInv'  BY <1>1, <1>2, CallsStay DEF Inv, tables
  <1> QED  BY <1>1, <1>2, <1>3, SeatsStay, TravelStays DEF Inv

LEMMA NextKeeps == Inv /\ [Next]_vars => Inv'
  <1> SUFFICES ASSUME Inv, [Next]_vars PROVE Inv'  OBVIOUS
  <1>1. CASE UNCHANGED vars  BY <1>1, StutterKeeps
  <1> SUFFICES ASSUME NEW b \in Browsers,
          \/ SignInForm(b)
          \/ \E e \in Emails : Register(b, e) \/ MailCode(b, e)
          \/ \E t \in Typed : PhoneCode(b, t)
          \/ AskOpen(b) \/ Count(b) \/ Insert(b) \/ Duplicate(b) \/ LookAgain(b)
          \/ Mark(b) \/ MarkFails(b) \/ Enter(b) \/ Reply(b) \/ BreakOff(b)
          \/ LeaveForProvider(b) \/ LeaveForTelegram(b) \/ LeaveToLink(b)
          \/ ProviderRefused(b) \/ TelegramRefused(b)
          \/ \E n \in DOMAIN trips, e \in Emails : ProviderCallback(b, n, e)
          \/ \E n \in DOMAIN trips, t \in Telegrams :
                TelegramCallback(b, n, t) \/ LinkCallback(b, n, t)
          \/ Link(b) \/ AskUnlink(b) \/ Unlink(b)
          \/ \E e \in Emails, admin \in BOOLEAN, h \in Handles \cup {None} :
                AdminCreate(b, e, admin, h)
          \/ \E e \in Emails, admin \in BOOLEAN : ShellCreate(b, e, admin)
          \/ SetUsername(b) \/ ChoosePassword(b) \/ SignOut(b)
          \/ \E u \in Ids : Toggle(b, u)
      PROVE Inv'
      BY <1>1 DEF Next
  <1>2. CASE \/ SignInForm(b)
             \/ \E e \in Emails : Register(b, e) \/ MailCode(b, e)
             \/ \E t \in Typed : PhoneCode(b, t)
        BY <1>2, FormsKeep
  <1>3. CASE \/ AskOpen(b) \/ Count(b) \/ Duplicate(b) \/ LookAgain(b)
             \/ MarkFails(b) \/ Reply(b) \/ BreakOff(b)
        BY <1>3, LookingKeeps
  <1>4. CASE \/ AskUnlink(b)
             \/ \E e \in Emails, admin \in BOOLEAN, h \in Handles \cup {None} :
                   AdminCreate(b, e, admin, h)
             \/ \E e \in Emails, admin \in BOOLEAN : ShellCreate(b, e, admin)
        BY <1>4, AskingKeeps
  <1>5. CASE Insert(b)  BY <1>5, InsertKeeps
  <1>6. CASE Mark(b)  BY <1>6, MarkKeeps
  <1>7. CASE Enter(b)  BY <1>7, EnterKeeps
  <1>8. CASE \/ LeaveForProvider(b) \/ LeaveForTelegram(b) \/ LeaveToLink(b)
             \/ ProviderRefused(b) \/ TelegramRefused(b)
        BY <1>8, TravelKeeps
  <1>9. CASE \/ \E n \in DOMAIN trips, e \in Emails : ProviderCallback(b, n, e)
             \/ \E n \in DOMAIN trips, t \in Telegrams :
                   TelegramCallback(b, n, t) \/ LinkCallback(b, n, t)
        BY <1>9, CallbacksKeep
  <1>10. CASE Link(b)  BY <1>10, LinkKeeps
  <1>11. CASE Unlink(b)  BY <1>11, UnlinkKeeps
  <1>12. CASE SetUsername(b)  BY <1>12, SetUsernameKeeps
  <1>13. CASE ChoosePassword(b)  BY <1>13, ChoosePasswordKeeps
  <1>14. CASE SignOut(b)  BY <1>14, SignOutKeeps
  <1>15. CASE \E u \in Ids : Toggle(b, u)  BY <1>15, ToggleKeeps
  <1> QED  BY <1>2, <1>3, <1>4, <1>5, <1>6, <1>7, <1>8, <1>9, <1>10, <1>11, <1>12, <1>13, <1>14,
             <1>15

(* The table, the requests under way, the sessions and the cookies are as  *)
(* their definitions above say, whichever doors are used at once.          *)
THEOREM Invariant == Spec => []Inv
  <1>1. Inv /\ [][Next]_vars => []Inv  BY NextKeeps, PTL
  <1> QED  BY <1>1, InitGood, PTL DEF Spec

(* Everything is well formed, and a request past its lookup is about an    *)
(* account that is there: rows are never deleted, and an insert that finds *)
(* its key taken goes on with the account that has it.                     *)
THEOREM TypeCorrect == Spec => []TypeOK
  <1>1. Inv => TypeOK
    <2> SUFFICES ASSUME Inv PROVE TypeOK  OBVIOUS
    <2>1. \A u \in Ids : users[u] \in Row  BY RowsType DEF Inv, TableInv
    <2>2. Len(made) = Len(users) /\ Len(users) <= MaxAccounts  BY DEF Inv, TableInv, Rows
    <2>3. signed \in [Browsers -> {NoUser} \cup Ids]  BY DEF Inv, SeatInv, Opens
    <2>4. cookie \in [Browsers -> [Places -> 0..Len(trips)]]
      <3>1. Len(trips) \in Nat /\ DOMAIN trips = 1..Len(trips)  BY DEF Inv, TravelInv
      <3>2. \A b \in Browsers, w \in Places : cookie[b][w] \in 0..Len(trips)
            BY <3>1 DEF Inv, TravelInv, CookieOK
      <3> QED  BY <3>2 DEF Inv, TravelInv
    <2>5. \A b \in Browsers : call[b].pc \in {"mark", "enter", "link", "unlink", "handle"} =>
            call[b].user \in Ids
          BY DEF Inv, CallInv, CallOK, Opens
    <2>6. ending \in [Browsers -> 0..Len(trips)]
      <3>1. Len(trips) \in Nat /\ DOMAIN trips = 1..Len(trips)  BY DEF Inv, TravelInv
      <3> QED  BY <3>1 DEF Inv, TravelInv
    <2> QED  BY <2>1, <2>2, <2>3, <2>4, <2>5, <2>6 DEF TypeOK
  <1> QED  BY <1>1, Invariant, PTL

(* An address, a number, a Telegram account or a handle opens one account  *)
(* at most, through however many doors it is proved at once: every lookup  *)
(* before an insert may be stale, and the insert itself is refused         *)
(* (CreateUser, LinkTelegram, SetUsername).                                *)
THEOREM OneAccountForEach == Spec => []OneAccountEach
  <1>1. Inv => OneAccountEach  BY DEF Inv, TableInv
  <1> QED  BY <1>1, Invariant, PTL

(* A session opens the account that holds what its browser proved, however *)
(* long ago the request looked it up (startSession and its callers).       *)
THEOREM SessionsOpenTheirOwn == Spec => []OpensItsOwn
  <1>1. Inv => OpensItsOwn  BY DEF Inv, SeatInv, Opens, OpensItsOwn
  <1> QED  BY <1>1, Invariant, PTL

(* An account that no address, number, handle or Telegram account opens    *)
(* has a password its owner chose: what handleTelegramUnlink read of it is *)
(* never taken back before the update.                                     *)
THEOREM LockedOutOnlyByChoice == Spec => []LockedOutByChoice
  <1>1. Inv => LockedOutByChoice  BY DEF Inv, TableInv
  <1> QED  BY <1>1, Invariant, PTL

(* The first account of a deployment is an administrator, and every        *)
(* administrator made at a door was asked for while there was no account   *)
(* (CountUsers, registrationOpen, CreateUser).                             *)
THEOREM ClaimedOnlyWhileEmpty == Spec => []ClaimedWhileEmpty
  <1>1. Inv => ClaimedWhileEmpty  BY DEF Inv, TableInv
  <1> QED  BY <1>1, Invariant, PTL

(* An address or a number is marked as verified only where it answered a   *)
(* code, though lookup, insert and mark are separate statements            *)
(* (MarkEmailVerified, MarkPhoneVerified).                                 *)
THEOREM VerifiedOnlyAnswered == Spec => []VerifiedAnswered
  <1>1. Inv => VerifiedAnswered  BY DEF Inv, TableInv
  <1> QED  BY <1>1, Invariant, PTL

(* Only a callback ends a trip: every other step leaves what has ended it, *)
(* the answers included.                                                   *)
ComesHome ==
    \A n \in DOMAIN trips : trips'[n].ended # trips[n].ended =>
        /\ Latest(n) /\ ~trips[n].closed
        /\ trips'[n].ended = Append(trips[n].ended, trips[n].by)

LEMMA AnswerEndsNothing ==
    ASSUME TravelInv, NEW b \in Browsers, Answer(b)
    PROVE  \A n \in DOMAIN trips : trips'[n].ended = trips[n].ended
  <1>1. CASE ending[b] = 0  BY <1>1 DEF Answer, travel
  <1>2. CASE ending[b] # 0
    <2>1. trips' = [trips EXCEPT ![ending[b]].closed = TRUE]  BY <1>2 DEF Answer
    <2>2. \A n \in DOMAIN trips : trips[n] \in Trip  BY ElementOfSeq DEF TravelInv
    <2> QED  BY <2>1, <2>2 DEF Trip
  <1> QED  BY <1>1, <1>2

LEMMA LeaveEndsNothing ==
    ASSUME TravelInv, NEW b \in Browsers, NEW where, NEW mode, Leave(b, where, mode)
    PROVE  \A n \in DOMAIN trips : trips'[n].ended = trips[n].ended
  <1>1. trips \in Seq(Trip) /\ Len(trips) \in Nat /\ DOMAIN trips = 1..Len(trips)  BY DEF TravelInv
  <1>2. PICK trip : trips' = Append(trips, trip)  BY DEF Leave
  <1>3. \A n \in DOMAIN trips : trips'[n] = trips[n]  BY <1>1, <1>2
  <1> QED  BY <1>3

LEMMA NextComesHome == Inv /\ [Next]_vars => ComesHome
  <1> SUFFICES ASSUME Inv, [Next]_vars PROVE ComesHome  OBVIOUS
  <1>1. CASE UNCHANGED trips  BY <1>1 DEF ComesHome
  <1>2. ASSUME NEW b \in Browsers, Answer(b) PROVE ComesHome
        BY <1>2, AnswerEndsNothing DEF Inv, ComesHome
  <1>3. ASSUME NEW b \in Browsers, NEW where, NEW mode, Leave(b, where, mode) PROVE ComesHome
        BY <1>3, LeaveEndsNothing DEF Inv, ComesHome
  <1>4. ASSUME NEW b \in Browsers, NEW where \in Places, NEW n, Back(b, where, n) PROVE ComesHome
        BY <1>4, BackTravels DEF Inv, ComesHome
  <1>5. CASE Next
    <2>1. PICK b \in Browsers :
          \/ SignInForm(b)
          \/ \E e \in Emails : Register(b, e) \/ MailCode(b, e)
          \/ \E t \in Typed : PhoneCode(b, t)
          \/ AskOpen(b) \/ Count(b) \/ Insert(b) \/ Duplicate(b) \/ LookAgain(b)
          \/ Mark(b) \/ MarkFails(b) \/ Enter(b) \/ Reply(b) \/ BreakOff(b)
          \/ LeaveForProvider(b) \/ LeaveForTelegram(b) \/ LeaveToLink(b)
          \/ ProviderRefused(b) \/ TelegramRefused(b)
          \/ \E n \in DOMAIN trips, e \in Emails : ProviderCallback(b, n, e)
          \/ \E n \in DOMAIN trips, t \in Telegrams :
                TelegramCallback(b, n, t) \/ LinkCallback(b, n, t)
          \/ Link(b) \/ AskUnlink(b) \/ Unlink(b)
          \/ \E e \in Emails, admin \in BOOLEAN, h \in Handles \cup {None} :
                AdminCreate(b, e, admin, h)
          \/ \E e \in Emails, admin \in BOOLEAN : ShellCreate(b, e, admin)
          \/ SetUsername(b) \/ ChoosePassword(b) \/ SignOut(b)
          \/ \E u \in Ids : Toggle(b, u)
          BY <1>5 DEF Next
    <2>2. CASE \/ SignInForm(b)
               \/ \E e \in Emails : Register(b, e) \/ MailCode(b, e)
               \/ \E t \in Typed : PhoneCode(b, t)
          BY <1>1, <2>2 DEF SignInForm, Password, Register, MailCode, PhoneCode, travel
    <2>3. CASE \/ AskOpen(b) \/ Count(b) \/ Insert(b) \/ Duplicate(b) \/ LookAgain(b)
               \/ Mark(b) \/ MarkFails(b) \/ Enter(b) \/ Reply(b) \/ BreakOff(b)
          BY <1>1, <1>2, <2>3
             DEF AskOpen, Count, Insert, Duplicate, LookAgain, Mark, MarkFails, Enter, Reply, BreakOff,
                 travel
    <2>4. CASE \/ LeaveForProvider(b) \/ LeaveForTelegram(b) \/ LeaveToLink(b)
               \/ ProviderRefused(b) \/ TelegramRefused(b)
          BY <1>1, <1>3, <2>4
             DEF LeaveForProvider, LeaveForTelegram, LeaveToLink, ProviderRefused, TelegramRefused,
                 BackRefused
    <2>5. CASE \/ \E n \in DOMAIN trips, e \in Emails : ProviderCallback(b, n, e)
               \/ \E n \in DOMAIN trips, t \in Telegrams :
                     TelegramCallback(b, n, t) \/ LinkCallback(b, n, t)
      <3>1. "provider" \in Places /\ "telegram" \in Places  BY DEF Places
      <3> QED  BY <1>4, <2>5, <3>1 DEF ProviderCallback, TelegramCallback, LinkCallback
    <2>6. CASE \/ Link(b) \/ AskUnlink(b) \/ Unlink(b)
               \/ \E e \in Emails, admin \in BOOLEAN, h \in Handles \cup {None} :
                     AdminCreate(b, e, admin, h)
               \/ \E e \in Emails, admin \in BOOLEAN : ShellCreate(b, e, admin)
               \/ SetUsername(b) \/ ChoosePassword(b) \/ SignOut(b)
               \/ \E u \in Ids : Toggle(b, u)
          BY <1>1, <2>6
             DEF Link, AskUnlink, Unlink, AdminCreate, ShellCreate, SetUsername, ChoosePassword,
                 SignOut, Toggle, travel
    <2> QED  BY <2>1, <2>2, <2>3, <2>4, <2>5, <2>6
  <1>6. CASE UNCHANGED vars  BY <1>1, <1>6 DEF vars
  <1> QED  BY <1>5, <1>6

(* A callback goes through only for the last trip its own browser began to *)
(* that place, and never after the answer to an earlier one has arrived:   *)
(* the state is compared with the cookie, which the answer takes along     *)
(* (handleProviderCallback, handleTelegramCallback).                       *)
THEOREM TripsEndAtHome == Spec => TripsComeHome
  <1>1. Inv /\ [Next]_vars => [ComesHome]_vars  BY NextComesHome
  <1>2. [][Next]_vars /\ []Inv => [][ComesHome]_vars  BY <1>1, PTL
  <1>3. Spec => [][ComesHome]_vars  BY <1>2, Invariant, PTL DEF Spec
  <1> QED  BY <1>3 DEF TripsComeHome, ComesHome

-----------------------------------------------------------------------------
(* The numbers of lines                                                    *)

Digits == 0..9

(* A prefix is told by its digits.                                         *)
LEMMA PrefixDigits ==
    ASSUME NEW s \in Seq(Digits), NEW p \in Seq(Digits)
    PROVE  IsPrefix(p, s) <=> Len(p) <= Len(s) /\ \A i \in 1..Len(p) : s[i] = p[i]
  <1>1. CASE Len(p) <= Len(s)
    <2>1. SubSeq(p, 1, Len(p)) = p  BY SubSeqFull
    <2>2. /\ SubSeq(s, 1, Len(p)) \in Seq(Digits) /\ Len(SubSeq(s, 1, Len(p))) = Len(p)
          /\ \A i \in 1..Len(p) : SubSeq(s, 1, Len(p))[i] = s[i]
          BY <1>1
    <2>3. SubSeq(s, 1, Len(p)) = p <=> \A i \in 1..Len(p) : SubSeq(s, 1, Len(p))[i] = p[i]
          BY <2>2, SeqEqual
    <2> QED  BY <1>1, <2>1, <2>2, <2>3 DEF IsPrefix
  <1>2. CASE ~(Len(p) <= Len(s))  BY <1>2 DEF IsPrefix
  <1> QED  BY <1>1, <1>2

LEMMA AfterConcat ==
    ASSUME NEW s \in Seq(Digits), NEW p \in Seq(Digits)
    PROVE  /\ p \o s \in Seq(Digits) /\ Len(p \o s) = Len(p) + Len(s)
           /\ IsPrefix(p, p \o s) /\ After(p, p \o s) = s
  <1>1. /\ p \o s \in Seq(Digits) /\ Len(p \o s) = Len(p) + Len(s)
        /\ \A i \in 1..Len(p) : (p \o s)[i] = p[i]
        BY ConcatProperties
  <1>2. IsPrefix(p, p \o s)
    <2>1. PICK t \in Seq(Digits) : t = p \o s  BY <1>1
    <2>2. Len(p) <= Len(t) /\ \A i \in 1..Len(p) : t[i] = p[i]  BY <1>1, <2>1
    <2>3. IsPrefix(p, t)  BY <2>2, PrefixDigits
    <2> QED  BY <2>1, <2>3
  <1>3. After(p, p \o s) = SubSeq(s, 1, Len(s))
    <2>1. SubSeq(p \o s, Len(p) + 1, Len(p) + Len(s)) = SubSeq(s, 1, Len(s))
          BY SubSeqOfConcat2
    <2> QED  BY <1>1, <2>1 DEF After
  <1>4. SubSeq(s, 1, Len(s)) = s  BY SubSeqFull
  <1> QED  BY <1>1, <1>2, <1>3, <1>4

(* A trunk is a 0, which no calling code begins with, or the 8 of code 7.  *)
LEMMA Trunks ==
    ASSUME NEW dial
    PROVE  /\ RuleOf(dial).trunk \in {<<>>, <<0>>, <<8>>}
           /\ RuleOf(dial).trunk = <<8>> => dial = <<7>>
  <1>1. \A r \in dialRules : /\ r[2].trunk \in {<<>>, <<0>>, <<8>>}
                             /\ r[2].trunk = <<8>> => r[1] = <<7>>
        BY DEF dialRules, Rule
  <1>2. CASE \E r \in dialRules : r[1] = dial
    <2>1. PICK r \in dialRules : r[1] = dial /\ RuleOf(dial) = r[2]
          BY <1>2 DEF RuleOf
    <2> QED  BY <1>1, <2>1
  <1>3. CASE ~\E r \in dialRules : r[1] = dial
        BY <1>3 DEF RuleOf, Rule
  <1> QED  BY <1>2, <1>3

(* What a typed number is taken for, once its digits are known: the last   *)
(* two alternatives of Normalise.                                          *)
LEMMA TakenAsWritten ==
    ASSUME NEW typed, NEW dial, typed.digits # <<>>, ~IsPrefix(<<0, 0>>, typed.digits)
    PROVE  /\ International(typed, dial) => Normalise(typed, dial) = Usable(typed.digits)
           /\ ~International(typed, dial) => Normalise(typed, dial) = Usable(National(typed.digits, dial))
  BY DEF Normalise

LEMMA NoZeros ==
    ASSUME NEW s \in Seq(Digits), s[1] # 0
    PROVE  ~IsPrefix(<<0, 0>>, s)
  <1>1. PICK p : p = <<0, 0>>  OBVIOUS
  <1>2. p \in Seq(Digits) /\ Len(p) = 2 /\ p[1] = 0  BY <1>1 DEF Digits
  <1>3. IsPrefix(p, s) => s[1] = p[1]
    <2>1. 1 \in 1..Len(p)  BY <1>2
    <2> QED  BY <1>2, <2>1, PrefixDigits
  <1> QED  BY <1>1, <1>2, <1>3

(* The international forms, whatever country was picked.                   *)
LEMMA AbroadNormalises ==
    ASSUME NEW line, ProperLine(line), NEW typed \in Abroad(line), NEW dial
    PROVE  Normalise(typed, dial) = E164(line)
  <1>1. PICK d \in Seq(Digits), n \in Seq(Digits) :
            d = line.dial /\ n = line.national /\ d # <<>> /\ d[1] # 0
        BY DEF ProperLine, Digits
  <1>2. PICK e : e = E164(line)  OBVIOUS
  <1>3. e \in Seq(Digits) /\ Len(e) = Len(d) + Len(n) /\ e # <<>>
        BY <1>1, <1>2, AfterConcat DEF E164
  <1>4. Usable(e) = e  BY <1>2 DEF ProperLine, Usable
  <1>5. <<0, 0>> \in Seq(Digits) /\ Len(<<0, 0>>) = 2 /\ <<0, 0>>[1] = 0  BY DEF Digits
  <1>6. e[1] = d[1]
    <2>1. \A i \in 1..Len(d) : (d \o n)[i] = d[i]  BY ConcatProperties
    <2>2. 1 \in 1..Len(d)  BY <1>1
    <2> QED  BY <1>1, <1>2, <2>1, <2>2 DEF E164
  <1>7. CASE typed = [plus |-> TRUE, digits |-> e]
    <2>1. ~IsPrefix(<<0, 0>>, e)  BY <1>1, <1>3, <1>6, NoZeros
    <2>2. International(typed, dial)  BY <1>7 DEF International
    <2> QED  BY <1>2, <1>3, <1>4, <1>7, <2>1, <2>2, TakenAsWritten
  <1>8. CASE typed = Bare(<<0, 0>> \o e)
    <2>1. PICK s : s = <<0, 0>> \o e  OBVIOUS
    <2>2. s \in Seq(Digits) /\ Len(s) = 2 + Len(e) /\ IsPrefix(<<0, 0>>, s) /\ After(<<0, 0>>, s) = e
          BY <1>3, <1>5, <2>1, AfterConcat
    <2>3. s # <<>>  BY <1>3, <2>2
    <2>4. typed.digits = s  BY <1>8, <2>1 DEF Bare
    <2> QED  BY <1>2, <1>4, <2>2, <2>3, <2>4 DEF Normalise
  <1> QED  BY <1>2, <1>7, <1>8 DEF Abroad

(* Normalise makes one canonical number of every form of Written, which    *)
(* the holder of a line may use with its own country picked: whatever      *)
(* the calling code, and whichever digits the number begins with           *)
(* (sms.Normalise and the dialRules it goes by).                           *)
THEOREM NumbersNormalise ==
    ASSUME NEW line, ProperLine(line), NEW typed \in Written(line)
    PROVE  Normalise(typed, line.dial) = E164(line)
  <1>1. PICK d \in Seq(Digits), n \in Seq(Digits) :
            /\ d = line.dial /\ n = line.national /\ d # <<>> /\ d[1] # 0 /\ n # <<>>
            /\ ~IsPrefix(<<0, 0>>, n)
        BY DEF ProperLine, Digits
  <1>2. PICK trunk, nsn : trunk = RuleOf(d).trunk /\ nsn = RuleOf(d).nsn  OBVIOUS
  <1>3. /\ trunk \in {<<>>, <<0>>, <<8>>} /\ (trunk = <<8>> => d = <<7>>)
        BY <1>2, Trunks
  <1>4. /\ ~IsPrefix(<<0, 0>>, trunk \o n)
        /\ nsn = {} \/ Len(n) \in nsn
        BY <1>1, <1>2 DEF ProperLine
  <1>5. PICK e : e = d \o n  OBVIOUS
  <1>6. e \in Seq(Digits) /\ Len(e) = Len(d) + Len(n) /\ IsPrefix(d, e)
        BY <1>1, <1>5, AfterConcat
  <1>7. e = E164(line) /\ Usable(e) = e
        BY <1>1, <1>5 DEF ProperLine, E164, Usable
  <1>8. Len(d) \in Nat \ {0} /\ Len(n) \in Nat \ {0}  BY <1>1
  <1>9. CASE typed \in Abroad(line)  BY <1>9, AbroadNormalises
  <1>10. CASE typed = Bare(trunk \o n) /\ trunk # <<>>
    <2>1. PICK s : s = trunk \o n  OBVIOUS
    <2>2. trunk \in Seq(Digits) /\ Len(trunk) = 1
      <3>1. <<0>> \in Seq(Digits) /\ <<8>> \in Seq(Digits)  BY DEF Digits
      <3>2. trunk = <<0>> \/ trunk = <<8>>  BY <1>3, <1>10
      <3> QED  BY <3>1, <3>2
    <2>3. /\ s \in Seq(Digits) /\ Len(s) = 1 + Len(n) /\ IsPrefix(trunk, s) /\ After(trunk, s) = n
          BY <2>1, <2>2, AfterConcat
    <2>4. s[1] = trunk[1] /\ trunk[1] # d[1]
      <3>1. s[1] = trunk[1]
        <4>1. 1 \in 1..Len(trunk)  BY <2>2
        <4> QED  BY <2>2, <2>3, <4>1, PrefixDigits
      <3>2. CASE trunk = <<0>>  BY <1>1, <3>1, <3>2
      <3>3. CASE trunk = <<8>>  BY <1>3, <3>1, <3>3
      <3> QED  BY <1>3, <1>10, <3>2, <3>3
    <2>5. ~IsPrefix(d, s)  BY <1>8, <2>3, <2>4, PrefixDigits
    <2>6. typed.digits = s /\ typed.plus = FALSE  BY <1>10, <2>1 DEF Bare
    <2>7. ~International(typed, d)
      <3>1. ~carriesOwnDial(s, d)  BY <2>5 DEF carriesOwnDial
      <3> QED  BY <1>1, <2>6, <3>1 DEF International
    <2>8. National(s, d) = e
      <3>1. Len(s) > Len(trunk)  BY <1>8, <2>2, <2>3
      <3> QED  BY <1>2, <1>5, <1>10, <2>3, <3>1 DEF National
    <2>9. s # <<>>  BY <1>8, <2>3
    <2> QED  BY <1>1, <1>4, <1>7, <2>1, <2>6, <2>7, <2>8, <2>9, TakenAsWritten
  <1>11. CASE typed = Bare(n) /\ (trunk = <<>> \/ ~IsPrefix(trunk, n))
    <2>1. typed.digits = n /\ typed.plus = FALSE  BY <1>11 DEF Bare
    <2>2. ~International(typed, d)
      <3>1. ~carriesOwnDial(n, d)  BY <1>2, <1>4 DEF carriesOwnDial
      <3> QED  BY <1>1, <2>1, <3>1 DEF International
    <2>3. National(n, d) = e  BY <1>2, <1>5, <1>11 DEF National
    <2> QED  BY <1>1, <1>7, <2>1, <2>2, <2>3, TakenAsWritten
  <1>12. CASE typed = Bare(e) /\ nsn # {} /\ Len(e) \notin nsn
    <2>1. typed.digits = e  BY <1>12 DEF Bare
    <2>2. carriesOwnDial(e, d)
      <3>1. Len(e) - Len(d) = Len(n)  BY <1>6, <1>8
      <3> QED  BY <1>2, <1>4, <1>6, <1>12, <3>1 DEF carriesOwnDial
    <2>3. International(typed, d)  BY <2>1, <2>2 DEF International
    <2>4. ~IsPrefix(<<0, 0>>, e)
      <3>1. e[1] = d[1]  BY <1>6, <1>8, PrefixDigits
      <3> QED  BY <1>1, <1>6, <3>1, NoZeros
    <2>5. e # <<>>  BY <1>6, <1>8
    <2> QED  BY <1>1, <1>7, <2>1, <2>3, <2>4, <2>5, TakenAsWritten
  <1>13. trunk = <<>> => trunk \o n = n  BY <1>1
  <1> QED
    <2>1. \/ typed \in Abroad(line) \/ typed = Bare(trunk \o n)
          \/ typed = Bare(n) /\ (trunk = <<>> \/ ~IsPrefix(trunk, n))
          \/ typed = Bare(e) /\ nsn # {} /\ Len(e) \notin nsn
          BY <1>1, <1>2, <1>7 DEF Written
    <2> QED  BY <1>9, <1>10, <1>11, <1>12, <1>13, <2>1

LEMMA TypingIsE164 ==
    ASSUME NEW line \in Lines, NEW t \in Typing(line)
    PROVE  Canon[t] = E164(line)
  <1>1. ProperLine(line) /\ t \in Typed  BY LinesAssumption
  <1>2. Canon[t] = Canonical(t)  BY <1>1, LinesAssumption
  <1>3. Normalise(t.typed, t.dial) = E164(line)
        BY <1>1, NumbersNormalise, AbroadNormalises DEF Typing
  <1>4. E164(line) # Refused
    <2>1. Len(E164(line)) \in 8..15  BY <1>1 DEF ProperLine
    <2>2. Len(<<>>) = 0 /\ 0 \notin 8..15  OBVIOUS
    <2> QED  BY <2>1, <2>2, Zenon DEF Refused
  <1> QED  BY <1>2, <1>3, <1>4 DEF Canonical

(* However the holders of lines type their numbers, one account is behind  *)
(* each line at most, for any lines a numbering plan gives out             *)
(* (sms.Normalise at the phone door, UserByPhone, CreateUser).             *)
THEOREM OneAccountForALine == Spec => []OneAccountPerLine
  <1>1. \A t \in Typed : \E line \in Lines : Canon[t] = E164(line) /\ t \in Typing(line)
    <2> SUFFICES ASSUME NEW t \in Typed
                 PROVE  \E line \in Lines : Canon[t] = E164(line) /\ t \in Typing(line)
        OBVIOUS
    <2>1. PICK line \in Lines : t \in Typing(line)  BY LinesAssumption
    <2>2. Canon[t] = E164(line)  BY <2>1, TypingIsE164
    <2> QED  BY <2>1, <2>2
  <1>2. ReadAlike  BY TypingIsE164 DEF ReadAlike
  <1>3. \A p \in Phones : \E line \in Lines : p = E164(line)  BY <1>1 DEF Phones
  <1>4. Inv => OneAccountPerLine
    <2> SUFFICES ASSUME Inv PROVE OneAccountPerLine  OBVIOUS
    <2>1. ASSUME NEW line \in Lines, NEW u \in Holders("phone", E164(line)),
                 NEW v \in Holders("phone", E164(line))
          PROVE  u = v
      <3>1. "phone" \in Keys  BY DEF Keys
      <3>2. OneAccountEach  BY DEF Inv, TableInv
      <3> QED  BY <3>1, <3>2 DEF OneAccountEach, Holders
    <2>2. \A u \in Ids : users[u].phone \in Phones \cup {None}
      <3>1. \A u \in Ids : users[u] \in Row  BY RowsType DEF Inv, TableInv
      <3> QED  BY <3>1 DEF Row
    <2> QED  BY <1>2, <1>3, <2>1, <2>2 DEF OneAccountPerLine
  <1> QED  BY <1>4, Invariant, PTL
=============================================================================
