---------------------------- MODULE PhoneNumber ----------------------------
(***************************************************************************)
(* sms.Normalise (internal/sms/sms.go): from what somebody typed and the   *)
(* calling code of the country they picked to the one canonical form that  *)
(* keys users.phone and phone_codes.  A typed number is its digits, Latin  *)
(* by now and without punctuation, and whether it opened with a '+'; the   *)
(* canonical form is the digits after the '+'.                             *)
(***************************************************************************)
EXTENDS Naturals, Sequences, SequencesExt

(* dialRules: the trunk prefix E.164 drops, and the lengths a national     *)
(* number may have, empty where they are not known.                        *)
Rule(trunk, nsn) == [trunk |-> trunk, nsn |-> nsn]

dialRules ==
    {<< <<1>>, Rule(<<>>, {10}) >>, << <<7>>, Rule(<<8>>, {10}) >>, << <<3, 9>>, Rule(<<>>, {}) >>,
     << <<4, 4>>, Rule(<<0>>, {9, 10}) >>, << <<9, 6, 6>>, Rule(<<0>>, {9}) >>,
     << <<9, 7, 1>>, Rule(<<0>>, {8, 9}) >>}
    \cup {<<dial, Rule(<<0>>, {10})>> : dial \in {<<9, 0>>, <<9, 1>>, <<9, 2>>, <<9, 8>>}}
    \cup {<<dial, Rule(<<0>>, {})>> : dial \in {<<4, 9>>, <<9, 6, 1>>, <<9, 6, 4>>}}
    \cup {<<dial, Rule(<<>>, {8})>> :
            dial \in {<<9, 6, 5>>, <<9, 6, 8>>, <<9, 7, 3>>, <<9, 7, 4>>}}

(* An unknown calling code has the trunk most of the world has.            *)
RuleOf(dial) ==
    IF \E r \in dialRules : r[1] = dial
    THEN (CHOOSE r \in dialRules : r[1] = dial)[2]
    ELSE Rule(<<0>>, {})

After(prefix, s) == SubSeq(s, Len(prefix) + 1, Len(s))

carriesDialPrefix(s, dial) == IsPrefix(dial, s) /\ Len(s) > Len(dial)

(* carriesOwnDial: only where the national lengths are known, and never    *)
(* for what is a whole national number as it stands.                       *)
carriesOwnDial(s, dial) ==
    /\ IsPrefix(dial, s)
    /\ Len(s) \notin RuleOf(dial).nsn
    /\ Len(s) - Len(dial) \in RuleOf(dial).nsn

National(s, dial) ==
    LET trunk == RuleOf(dial).trunk IN
    IF trunk # <<>> /\ IsPrefix(trunk, s) /\ Len(s) > Len(trunk)
    THEN dial \o After(trunk, s)
    ELSE dial \o s

International(typed, dial) ==
    \/ typed.plus
    \/ dial = <<>>
    \/ carriesOwnDial(typed.digits, dial)

Refused == <<>>
Usable(s) == IF Len(s) \in 8..15 THEN s ELSE Refused

Normalise(typed, dial) ==
    LET s == typed.digits IN
    IF s = <<>> THEN Refused
    ELSE IF IsPrefix(<<0, 0>>, s) THEN Usable(After(<<0, 0>>, s))
    ELSE IF International(typed, dial) THEN Usable(s)
    ELSE Usable(National(s, dial))

-----------------------------------------------------------------------------
(* The reference: a line is a calling code and the subscriber's number     *)
(* within it.  Written are the ways its holder may write it with the       *)
(* line's own country picked, Abroad those that mean the same whatever     *)
(* country is.  The bare international form is a way to write it only      *)
(* where it cannot be a national number itself, and the bare national one  *)
(* only where it does not begin with what would be taken for the trunk.    *)
E164(line) == line.dial \o line.national

Bare(s) == [plus |-> FALSE, digits |-> s]

Abroad(line) == {[plus |-> TRUE, digits |-> E164(line)], Bare(<<0, 0>> \o E164(line))}

Written(line) ==
    LET rule == RuleOf(line.dial) IN
    Abroad(line) \cup {Bare(rule.trunk \o line.national)}
    \cup (IF rule.trunk = <<>> \/ ~IsPrefix(rule.trunk, line.national)
          THEN {Bare(line.national)} ELSE {})
    \cup (IF rule.nsn # {} /\ Len(E164(line)) \notin rule.nsn
          THEN {Bare(E164(line))} ELSE {})

(* What a numbering plan gives out: no calling code begins with 0, no      *)
(* number within one, trunk or not, with 00, and a national number is as   *)
(* long as its country's are.                                              *)
ProperLine(line) ==
    LET rule == RuleOf(line.dial) IN
    /\ line.dial \in Seq(0..9) /\ line.dial # <<>> /\ line.dial[1] # 0
    /\ line.national \in Seq(0..9) /\ line.national # <<>>
    /\ ~IsPrefix(<<0, 0>>, line.national) /\ ~IsPrefix(<<0, 0>>, rule.trunk \o line.national)
    /\ rule.nsn = {} \/ Len(line.national) \in rule.nsn
    /\ Len(E164(line)) \in 8..15
=============================================================================
