----------------------------- MODULE PhoneDoor -----------------------------
(***************************************************************************)
(* Accounts with the numbers of real lines at its phone door: what is      *)
(* typed there comes with the country picked beside it, and goes through   *)
(* sms.Normalise before anything else (handlePhoneStart and                *)
(* handlePhoneVerify, internal/server/phone.go).                           *)
(***************************************************************************)
EXTENDS Accounts, PhoneNumber

CONSTANT Lines  \* the lines whose holders come to the door

(* A holder writes its number in any way with its own country picked, or   *)
(* an international one with any.                                          *)
Typing(line) ==
    {[typed |-> w, dial |-> line.dial] : w \in Written(line)}
    \cup {[typed |-> w, dial |-> other.dial] : w \in Abroad(line), other \in Lines}

Canonical(t) ==
    LET n == Normalise(t.typed, t.dial) IN IF n = Refused THEN None ELSE n

ASSUME LinesAssumption ==
    /\ \A line \in Lines : ProperLine(line)
    /\ Typed = UNION {Typing(line) : line \in Lines}
    /\ Canon = [t \in Typed |-> Canonical(t)]

(* In whichever form of Written the holder of a line types its number, it  *)
(* is the line's E.164 number and leads to one account ("a number that     *)
(* normalises two ways is a person with two accounts", sms_test.go).       *)
ReadAlike == \A line \in Lines : \A t \in Typing(line) : Canon[t] = E164(line)

OneAccountPerLine ==
    /\ ReadAlike
    /\ \A line \in Lines : \A u, v \in Holders("phone", E164(line)) : u = v
    /\ \A u \in Ids : users[u].phone # None => \E line \in Lines : users[u].phone = E164(line)
=============================================================================
