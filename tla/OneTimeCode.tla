---------------------------- MODULE OneTimeCode ----------------------------
(***************************************************************************)
(* One-time sign-in codes for one phone number or one mail address: the    *)
(* handlers that send one and take it back (internal/server/phone.go and,  *)
(* line for line the same protocol, email.go) over its single row in       *)
(* phone_codes or email_codes (internal/store/store.go).                   *)
(*                                                                         *)
(* Every statement is a step of its own; between the read of the row and   *)
(* the write that follows lies a bcrypt comparison, between the save and   *)
(* what comes of it a call to the gateway.  A code is a serial number; a   *)
(* guess is right or wrong.  The send ceiling lives in the memory of one   *)
(* process, the one modelled here.  The throttles per caller only refuse,  *)
(* which is a step that does nothing.                                      *)
(***************************************************************************)
EXTENDS Naturals, FiniteSets

CONSTANTS MaxCodes,     \* bound: codes issued, by serial number
          Procs,        \* request handlers
          MaxAttempts,  \* MaxPhoneCodeAttempts, MaxEmailCodeAttempts: 5
          MaxSends,     \* maxSendsPerNumberPerDay, maxSendsPerAddressPerDay: 5
          MaxDeaths     \* bound: handlers that break off between two statements

ASSUME CodeAssumption ==
    /\ MaxCodes \in Nat
    /\ IsFiniteSet(Procs)
    /\ MaxAttempts \in Nat \ {0}
    /\ MaxSends \in Nat \ {0}
    /\ MaxDeaths \in Nat

VARIABLES row,        \* the row: code 0 when there is none
          sends,      \* messages counted against the ceiling in its window
          call,       \* call[h]: where handler h is, and the code it read or made
          saved,      \* history: codes stored so far
          out,        \* history: messages the gateway said it took in this window
          wrong,      \* history: wrong guesses compared against each code
          signed,     \* history: sign-ins each code was good for
          late,       \* history: codes good for a request made after a sign-in
          owed,       \* history: the code its visitor may count on, or 0
          deaths      \* handlers that have broken off

history == <<saved, wrong, signed, late, owed, deaths>>
vars == <<row, sends, call, out, history>>

Codes == 1..MaxCodes
NoRow == [code |-> 0, attempts |-> 0, live |-> FALSE, cooling |-> FALSE]
Idle == [pc |-> "idle", code |-> 0, late |-> FALSE]

Free(h) == call[h].pc = "idle"
At(h, pc) == call[h].pc = pc
Goto(h, pc) == call' = [call EXCEPT ![h].pc = pc]
Done(h) == call' = [call EXCEPT ![h] = Idle]

-----------------------------------------------------------------------------
Init ==
    /\ row = NoRow
    /\ sends = 0 /\ out = 0
    /\ call = [h \in Procs |-> Idle]
    /\ saved = 0 /\ late = {} /\ owed = 0
    /\ wrong = [k \in Codes |-> 0]
    /\ signed = [k \in Codes |-> 0]
    /\ deaths = 0

(* startPhoneCode, startEmailCode                                          *)

(* throttle.spent: the ceiling is read long before it is counted.          *)
Start(h) ==
    /\ Free(h)
    /\ sends < MaxSends
    /\ Goto(h, "start")
    /\ UNCHANGED <<row, sends, out, history>>

(* Inside the cooldown nothing is sent; nor for a stranger where accounts  *)
(* are made by an administrator, or when a lookup fails.                   *)
Look(h) ==
    /\ At(h, "start")
    /\ \/ ~(row.cooling /\ row.live) /\ Goto(h, "save")
       \/ Done(h)
    /\ UNCHANGED <<row, sends, out, history>>

(* SavePhoneCode: an upsert that starts the row anew.  History: nobody can *)
(* count on a code made while another request has an older one in hand.    *)
UpsertKeepsCount(k) == row' = [code |-> k, attempts |-> row.attempts, live |-> TRUE, cooling |-> TRUE]
Upsert(k) == row' = [code |-> k, attempts |-> 0, live |-> TRUE, cooling |-> TRUE]

Save(h) ==
    /\ At(h, "save")
    /\ saved < MaxCodes
    /\ saved' = saved + 1
    /\ Upsert(saved')
    /\ owed' = IF \A g \in Procs : call[g].code = 0 THEN saved' ELSE 0
    /\ call' = [call EXCEPT ![h].pc = "send", ![h].code = saved']
    /\ UNCHANGED <<sends, out, wrong, signed, late, deaths>>

(* The gateway took the message, and it is counted.                        *)
SentUncounted(h) ==
    /\ At(h, "send")
    /\ out' = out + 1
    /\ Done(h)
    /\ UNCHANGED <<row, sends, history>>

Sent(h) ==
    /\ At(h, "send")
    /\ out' = out + 1
    /\ sends' = sends + 1
    /\ Done(h)
    /\ UNCHANGED <<row, history>>

(* No longer owed: spent, expired, or its message failed.                  *)
Settle(k) == owed' = IF owed = k THEN 0 ELSE owed

(* It reported a failure, or its answer did not arrive: then the message   *)
(* may be on its way, uncounted, with a code that is about to go.          *)
NotSent(h) ==
    /\ At(h, "send")
    /\ Goto(h, "delete")
    /\ Settle(call[h].code)
    /\ UNCHANGED <<row, sends, out, saved, wrong, signed, late, deaths>>

(* DeletePhoneCode after a failed send, an expired code or a spent budget: *)
(* the row goes by its address, whichever code it holds by then.           *)
Delete(h) ==
    /\ At(h, "delete")
    /\ row' = NoRow
    /\ Done(h)
    /\ UNCHANGED <<sends, out, history>>

-----------------------------------------------------------------------------
(* handlePhoneVerify, handleEmailCodeVerify                                *)

(* The row is read and compared with what was typed.                       *)
Verify(h, right) ==
    LET next == IF ~row.live THEN "delete" ELSE IF right THEN "right" ELSE "wrong" IN
    /\ Free(h)
    /\ row.code # 0
    /\ call' = [call EXCEPT ![h] =
                   [pc |-> next, code |-> row.code, late |-> signed[row.code] > 0]]
    /\ wrong' = IF next = "wrong" THEN [wrong EXCEPT ![row.code] = @ + 1] ELSE wrong
    /\ UNCHANGED <<row, sends, out, saved, signed, late, owed, deaths>>

(* BumpPhoneCodeAttempts; a code with a spent budget is thrown away.  The  *)
(* row may be gone, or hold a newer code by now.                           *)
BumpOneMore(h) ==
    /\ At(h, "wrong")
    /\ row' = IF row.code = 0 THEN row ELSE [row EXCEPT !.attempts = @ + 1]
    /\ IF row'.attempts > MaxAttempts THEN Goto(h, "delete") ELSE Done(h)
    /\ UNCHANGED <<sends, out, history>>

Bump(h) ==
    /\ At(h, "wrong")
    /\ row' = IF row.code = 0 THEN row ELSE [row EXCEPT !.attempts = @ + 1]
    /\ IF row'.attempts >= MaxAttempts THEN Goto(h, "delete") ELSE Done(h)
    /\ UNCHANGED <<sends, out, history>>

(* "Correct.  Spend it here, before anything else can go wrong."  Nobody   *)
(* asks whether the delete found a row.                                    *)
SpendLater(h) ==
    /\ At(h, "right")
    /\ Goto(h, "spent")
    /\ UNCHANGED <<row, sends, out, history>>

Spend(h) ==
    /\ At(h, "right")
    /\ row' = NoRow
    /\ Goto(h, "spent")
    /\ Settle(call[h].code)
    /\ UNCHANGED <<sends, out, saved, wrong, signed, late, deaths>>

(* The account is found or made and the session starts.                    *)
SignIn(h) ==
    /\ At(h, "spent")
    /\ signed' = [signed EXCEPT ![call[h].code] = @ + 1]
    /\ late' = IF call[h].late THEN late \cup {call[h].code} ELSE late
    /\ Done(h)
    /\ UNCHANGED <<row, sends, out, saved, wrong, owed, deaths>>

(* Sign-up is closed, the account is disabled, another request has just    *)
(* taken the address, or a statement failed.                               *)
Refuse(h) ==
    /\ At(h, "spent")
    /\ Done(h)
    /\ UNCHANGED <<row, sends, out, history>>

-----------------------------------------------------------------------------
(* The cooldown ends; the code expires.                                    *)
Cool ==
    /\ row.cooling
    /\ row' = [row EXCEPT !.cooling = FALSE]
    /\ UNCHANGED <<sends, out, call, history>>

Expire ==
    /\ row.live
    /\ row' = [row EXCEPT !.live = FALSE]
    /\ Settle(row.code)
    /\ UNCHANGED <<sends, out, call, saved, wrong, signed, late, deaths>>

(* Cleanup removes the row a day after: no handler of that time is left.   *)
Cleanup ==
    /\ row.code # 0 /\ ~row.live
    /\ \A h \in Procs : Free(h)
    /\ row' = NoRow
    /\ UNCHANGED <<sends, out, call, history>>

(* The window throttle.spend opened ends.                                  *)
WindowEnds ==
    /\ sends > 0
    /\ sends' = 0 /\ out' = 0
    /\ UNCHANGED <<row, call, history>>

(* A crash, a failed statement or a caller who hangs up.                   *)
Die(h) ==
    /\ ~Free(h)
    /\ deaths < MaxDeaths
    /\ deaths' = deaths + 1
    /\ Done(h)
    /\ UNCHANGED <<row, sends, out, saved, wrong, signed, late, owed>>

Next ==
    \/ \E h \in Procs :
          \/ Start(h) \/ Look(h) \/ Save(h) \/ Sent(h) \/ NotSent(h) \/ Delete(h)
          \/ Bump(h) \/ Spend(h) \/ SignIn(h) \/ Refuse(h) \/ Die(h)
    \/ \E h \in Procs, right \in BOOLEAN : Verify(h, right)
    \/ Cool \/ Expire \/ Cleanup \/ WindowEnds

Spec == Init /\ [][Next]_vars

-----------------------------------------------------------------------------
Pcs == {"idle", "start", "save", "send", "delete", "wrong", "right", "spent"}

(* The row, the counters and the handlers are well formed; a handler past   *)
(* its read or its save knows which code it is about; and no row's count    *)
(* leaves its budget by more than the handlers that broke off and those     *)
(* that run beside each other.                                              *)
TypeOK ==
    /\ row \in [code: 0..saved, attempts: Nat, live: BOOLEAN, cooling: BOOLEAN]
    /\ row.attempts <= MaxAttempts + Cardinality(Procs) - 1 + deaths
    /\ call \in [Procs -> [pc: Pcs, code: 0..saved, late: BOOLEAN]]
    /\ \A h \in Procs : call[h].pc \in {"send", "wrong", "right", "spent"} => call[h].code > 0
    /\ sends \in Nat /\ out \in Nat
    /\ saved \in 0..MaxCodes /\ late \in SUBSET Codes /\ owed \in 0..saved
    /\ wrong \in [Codes -> Nat] /\ signed \in [Codes -> Nat]
    /\ deaths \in 0..MaxDeaths

(* "the count - not the length - is what keeps the code from being          *)
(* enumerable" (store.go): MaxAttempts wrong guesses end a code.  Handlers  *)
(* that compare beside each other add one each, those that die before they  *)
(* count or delete add one each, and nothing else does, whatever resends    *)
(* replace the row in between.                                              *)
GuessesBounded ==
    \A k \in Codes : wrong[k] <= MaxAttempts + Cardinality(Procs) - 1 + deaths

(* The spend ceiling (maxSendsPerNumberPerDay): checked before the save and *)
(* counted after the send, it is passed only by requests already on their   *)
(* way.                                                                     *)
CeilingHolds == out <= MaxSends + Cardinality(Procs) - 1

(* A spent code is useless to whoever asks after the sign-in it was good    *)
(* for: the row is gone before the session starts, even when the handler    *)
(* dies in between.                                                         *)
SpentStaysSpent == late = {}

(* A code is good for its time and its MaxAttempts guesses, whatever codes  *)
(* came before it: DeletePhoneCode and BumpPhoneCodeAttempts, which go by   *)
(* the address and ask for no code, take a newer one away or count against  *)
(* it only if it was made while another request had an older one in hand.   *)
SentCodeLasts == owed # 0 /\ wrong[owed] < MaxAttempts => row.code = owed

(* "so the same code cannot be replayed by whoever else read the message"   *)
(* (phone.go, email.go): one code, one sign-in.  Two handlers that read the *)
(* row before either deletes it both go on, as the delete of a row that is  *)
(* gone is no error.                                                        *)
CodeSignsInOnce == \A k \in Codes : signed[k] <= 1
=============================================================================
