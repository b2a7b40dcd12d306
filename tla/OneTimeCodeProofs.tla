------------------------- MODULE OneTimeCodeProofs -------------------------
(***************************************************************************)
(* The bounds of OneTimeCode for any number of handlers, codes, guesses    *)
(* and messages.  A budget is read at one step and used up at a later one, *)
(* so every bound is kept by counting the handlers in between: those about *)
(* to send, those about to count a wrong guess, those about to delete.     *)
(***************************************************************************)
EXTENDS OneTimeCode, FiniteSetTheorems, TLAPS

Call == [pc: Pcs, code: 0..saved, late: BOOLEAN]

(* The handlers at one of the places S, and how many they are.             *)
Inside(S) == {h \in Procs : call[h].pc \in S}
Busy(S) == Cardinality(Inside(S))

Sending == {"start", "save", "send"}
Guessing == {"wrong"}
Deleting == {"delete"}
Closing == {"wrong", "delete"}

Typed ==
    /\ row \in [code: 0..saved, attempts: Nat, live: BOOLEAN, cooling: BOOLEAN]
    /\ call \in [Procs -> Call]
    /\ sends \in Nat /\ out \in Nat
    /\ saved \in 0..MaxCodes /\ owed \in 0..saved
    /\ wrong \in [Codes -> Nat] /\ signed \in [Codes -> Nat]
    /\ deaths \in 0..MaxDeaths

(* A handler past its read or its save is about a code; no row holds none; *)
(* a code to come has no past.                                             *)
Shape ==
    /\ row.code = 0 => row = NoRow
    /\ \A h \in Procs :
          call[h].pc \in {"send", "delete", "wrong", "right", "spent"} => call[h].code > 0
    /\ \A k \in Codes : k > saved => wrong[k] = 0 /\ signed[k] = 0

(* The code in the row has signed nobody in: whoever spends a code has     *)
(* deleted it before, and a deleted code is never in the row again.        *)
SpentInv ==
    /\ row.code # 0 => signed[row.code] = 0
    /\ \A h \in Procs : ~call[h].late
    /\ \A h \in Procs : call[h].pc = "spent" => call[h].code # row.code
    /\ late = {}

(* A count past the budget is owed to handlers on their way to delete the  *)
(* row, a guess past the count to handlers on their way to count it, and   *)
(* either to handlers that died on that way.                               *)
GuessInv ==
    /\ row.attempts <= MaxAttempts - 1 + Busy(Deleting) + deaths
    /\ row.code # 0 =>
          /\ wrong[row.code] <= row.attempts + Busy(Guessing) + deaths
          /\ wrong[row.code] <= MaxAttempts - 1 + Busy(Closing) + deaths
    /\ \A k \in Codes : wrong[k] <= MaxAttempts - 1 + Cardinality(Procs) + deaths

CeilingInv ==
    /\ out = sends
    /\ sends + Busy(Sending) <= MaxSends + Cardinality(Procs) - 1

(* While a code is owed, every request in hand is about it; the row holds  *)
(* it, or has nothing any more because its guesses were made.              *)
OwedInv ==
    owed # 0 =>
        /\ row.code \in {0, owed}
        /\ row.code = owed => row.live /\ row.attempts + Busy(Guessing) <= wrong[owed]
        /\ \A h \in Procs : call[h].code \in {0, owed}
        /\ \A h \in Procs : call[h].pc = "delete" => wrong[owed] >= MaxAttempts
        /\ wrong[owed] < MaxAttempts => row.code = owed

Inv == Typed /\ Shape /\ SpentInv /\ GuessInv /\ CeilingInv /\ OwedInv

-----------------------------------------------------------------------------
LEMMA BusyIsBounded ==
    ASSUME NEW S
    PROVE  /\ Busy(S) \in Nat /\ Busy(S) <= Cardinality(Procs) /\ Cardinality(Procs) \in Nat
           /\ Busy(S)' \in Nat /\ Busy(S)' <= Cardinality(Procs)
  <1>1. Inside(S) \in SUBSET Procs /\ Inside(S)' \in SUBSET Procs  BY DEF Inside
  <1> QED  BY <1>1, CodeAssumption, FS_Subset, FS_CardinalityType DEF Busy

(* Handlers elsewhere do not change what one handler's step does to a      *)
(* count.                                                                  *)
LEMMA BusyMoves ==
    ASSUME call \in [Procs -> Call], NEW h \in Procs, NEW r, NEW S,
           call' = [call EXCEPT ![h] = r]
    PROVE  Busy(S)' = Busy(S) - (IF call[h].pc \in S THEN 1 ELSE 0) + (IF r.pc \in S THEN 1 ELSE 0)
  <1>1. call'[h] = r /\ \A g \in Procs \ {h} : call'[g] = call[g]  OBVIOUS
  <1> DEFINE Rest == Inside(S) \ {h}
  <1>2. Inside(S) \in SUBSET Procs  BY DEF Inside
  <1>3. IsFiniteSet(Inside(S))  BY <1>2, CodeAssumption, FS_Subset
  <1>4. /\ IsFiniteSet(Rest)
        /\ Cardinality(Rest) = Busy(S) - (IF call[h].pc \in S THEN 1 ELSE 0)
    <2>1. /\ IsFiniteSet(Rest)
          /\ Cardinality(Rest) = IF h \in Inside(S) THEN Cardinality(Inside(S)) - 1
                                 ELSE Cardinality(Inside(S))
          BY <1>3, FS_RemoveElement
    <2>2. h \in Inside(S) <=> call[h].pc \in S  BY DEF Inside
    <2>3. Cardinality(Inside(S)) \in Nat  BY <1>3, FS_CardinalityType
    <2> QED  BY <2>1, <2>2, <2>3 DEF Busy
  <1>5. CASE r.pc \in S
    <2>1. Inside(S)' = Rest \cup {h}  BY <1>1, <1>5 DEF Inside
    <2>2. Cardinality(Rest \cup {h}) = Cardinality(Rest) + 1  BY <1>4, FS_AddElement
    <2> QED  BY <1>4, <1>5, <2>1, <2>2, BusyIsBounded DEF Busy
  <1>6. CASE r.pc \notin S
    <2>1. Inside(S)' = Rest  BY <1>1, <1>6 DEF Inside
    <2> QED  BY <1>4, <1>6, <2>1, BusyIsBounded DEF Busy
  <1> QED  BY <1>5, <1>6

(* The same for the four counts, from the places before and after.         *)
Here(pc, S) == IF pc \in S THEN 1 ELSE 0
Shift(S, from, to) == Busy(S)' = Busy(S) - Here(from, S) + Here(to, S)
Moves(from, to) ==
    /\ Shift(Sending, from, to) /\ Shift(Guessing, from, to)
    /\ Shift(Deleting, from, to) /\ Shift(Closing, from, to)

LEMMA CountsMove ==
    ASSUME call \in [Procs -> Call], NEW h \in Procs, NEW r,
           call' = [call EXCEPT ![h] = r]
    PROVE  Moves(call[h].pc, r.pc)
  BY BusyMoves DEF Moves, Shift, Here

BoundedBusy(S) ==
    /\ Busy(S) \in Nat /\ Busy(S) <= Cardinality(Procs)
    /\ Busy(S)' \in Nat /\ Busy(S)' <= Cardinality(Procs)

LEMMA CountsBounded ==
    /\ Cardinality(Procs) \in Nat
    /\ BoundedBusy(Sending) /\ BoundedBusy(Guessing)
    /\ BoundedBusy(Deleting) /\ BoundedBusy(Closing)
  BY BusyIsBounded DEF BoundedBusy

-----------------------------------------------------------------------------
(* A handler that touches neither the row nor the messages: it gives up or *)
(* goes on, and whoever was on the way to count or delete has died.        *)
Quiet(h, r) ==
    /\ r \in Call /\ ~r.late
    /\ call' = [call EXCEPT ![h] = r]
    /\ UNCHANGED <<row, sends, out, saved, wrong, signed, late>>
    /\ owed' \in {0, owed}
    /\ deaths' \in 0..MaxDeaths /\ deaths' >= deaths
    /\ call[h].pc \in {"wrong", "delete"} => deaths' = deaths + 1
    /\ r.pc \in {"start", "save", "send"} =>
          sends < MaxSends \/ call[h].pc \in {"start", "save", "send"}
    /\ r.pc \in {"send", "delete", "right", "spent"} => r.code > 0
    /\ r.pc \notin {"wrong", "spent"}
    /\ r.code \in {0, call[h].code}
    /\ r.pc = "delete" => owed' = 0

LEMMA QuietKeeps ==
    ASSUME Inv, NEW h \in Procs, NEW r, Quiet(h, r)
    PROVE  Inv'
  <1> USE DEF Sending, Guessing, Deleting, Closing, Moves, Shift, Here, BoundedBusy
  <1>1. call'[h] = r /\ \A g \in Procs : g # h => call'[g] = call[g]  BY DEF Quiet, Inv, Typed
  <1>2. Moves(call[h].pc, r.pc)  BY CountsMove DEF Quiet, Inv, Typed
  <1>3. Typed'
    <2>1. Call' = Call  BY DEF Call, Quiet
    <2> QED  BY <2>1 DEF Inv, Typed, Quiet
  <1>4. Shape'  BY <1>1 DEF Inv, Shape, Quiet
  <1>5. SpentInv'  BY <1>1 DEF Inv, SpentInv, Quiet
  <1>6. GuessInv'
    <2>1. deaths \in Nat /\ deaths' \in Nat /\ row.attempts \in Nat  BY DEF Inv, Typed, Quiet
    <2>2. deaths' >= deaths /\ (call[h].pc \in {"wrong", "delete"} => deaths' = deaths + 1)
          BY DEF Quiet
    <2>3. Busy(Deleting)' + deaths' >= Busy(Deleting) + deaths  BY <1>2, <2>1, <2>2, CountsBounded
    <2>4. Busy(Guessing)' + deaths' >= Busy(Guessing) + deaths  BY <1>2, <2>1, <2>2, CountsBounded
    <2>5. Busy(Closing)' + deaths' >= Busy(Closing) + deaths  BY <1>2, <2>1, <2>2, CountsBounded
    <2>6. row.code # 0 => wrong[row.code] \in Nat  BY CodeAssumption DEF Inv, Typed, Codes
    <2>7. \A k \in Codes : wrong[k] \in Nat  BY DEF Inv, Typed
    <2>8. row' = row /\ wrong' = wrong  BY DEF Quiet
    <2> QED  BY <2>1, <2>2, <2>3, <2>4, <2>5, <2>6, <2>7, <2>8, CountsBounded, CodeAssumption
             DEF Inv, GuessInv
  <1>7. CeilingInv'
    <2>1. sends \in Nat /\ MaxSends \in Nat
          BY CodeAssumption DEF Inv, Typed
    <2>2. sends' = sends /\ out' = out  BY DEF Quiet
    <2>3. Busy(Sending)' <= Busy(Sending) \/ sends < MaxSends  BY <1>2, CountsBounded DEF Quiet
    <2> QED  BY <2>1, <2>2, <2>3, CountsBounded DEF Inv, CeilingInv
  <1>8. OwedInv'
    <2> SUFFICES ASSUME owed' # 0 PROVE OwedInv'  BY DEF OwedInv
    <2>1. owed' = owed /\ owed # 0 /\ row' = row /\ wrong' = wrong  BY DEF Quiet
    <2>2. Busy(Guessing)' <= Busy(Guessing)  BY <1>2, CountsBounded DEF Quiet
    <2>3. wrong[owed] \in Nat /\ row.attempts \in Nat  BY <2>1, CodeAssumption DEF Inv, Typed, Codes
    <2>4. r.pc # "delete" /\ r.code \in {0, call[h].code}  BY DEF Quiet
    <2> QED  BY <1>1, <2>1, <2>2, <2>3, <2>4, CountsBounded DEF Inv, OwedInv
  <1> QED  BY <1>3, <1>4, <1>5, <1>6, <1>7, <1>8 DEF Inv

LEMMA QuietStepKeeps ==
    ASSUME Inv, NEW h \in Procs,
           Start(h) \/ Look(h) \/ NotSent(h) \/ Refuse(h) \/ Die(h)
    PROVE  Inv'
  <1>1. call \in [Procs -> Call] /\ call[h] \in Call /\ ~call[h].late
        BY DEF Inv, Typed, SpentInv
  <1>2. Idle \in Call  BY DEF Inv, Typed, Idle, Call, Pcs
  <1>3. \A pc \in Pcs : [call[h] EXCEPT !.pc = pc] \in Call  BY <1>1 DEF Call
  <1>4. deaths \in 0..MaxDeaths  BY DEF Inv, Typed
  <1>5. CASE Start(h)
    <2>1. Quiet(h, [call[h] EXCEPT !.pc = "start"])
          BY <1>1, <1>3, <1>4, <1>5 DEF Start, Free, Goto, Quiet, history, Call, Pcs
    <2> QED  BY <2>1, QuietKeeps
  <1>6. CASE Look(h)
    <2>1. Quiet(h, [call[h] EXCEPT !.pc = "save"]) \/ Quiet(h, Idle)
          BY <1>1, <1>2, <1>3, <1>4, <1>6 DEF Look, At, Goto, Done, Quiet, history, Call, Pcs, Idle
    <2> QED  BY <2>1, QuietKeeps
  <1>7. CASE NotSent(h)
    <2>1. call[h].code > 0  BY <1>7 DEF NotSent, At, Inv, Shape
    <2>2. owed' = 0  BY <1>7, <2>1 DEF NotSent, Settle, Inv, OwedInv
    <2>3. Quiet(h, [call[h] EXCEPT !.pc = "delete"])
          BY <1>1, <1>3, <1>4, <1>7, <2>1, <2>2 DEF NotSent, At, Goto, Quiet, Call, Pcs
    <2> QED  BY <2>3, QuietKeeps
  <1>8. CASE Refuse(h)
    <2>1. Quiet(h, Idle)
          BY <1>1, <1>2, <1>4, <1>8 DEF Refuse, At, Done, Quiet, history, Idle
    <2> QED  BY <2>1, QuietKeeps
  <1>9. CASE Die(h)
    <2>1. deaths' \in 0..MaxDeaths /\ deaths' = deaths + 1
          BY <1>4, <1>9, CodeAssumption DEF Die
    <2>2. Quiet(h, Idle)
          BY <1>1, <1>2, <1>4, <1>9, <2>1 DEF Die, Done, Quiet, Idle
    <2> QED  BY <2>2, QuietKeeps
  <1> QED  BY <1>5, <1>6, <1>7, <1>8, <1>9

(* What every lemma below needs of the numbers.                            *)
LEMMA Numbers ==
    ASSUME Inv
    PROVE  /\ row.code \in 0..saved /\ row.attempts \in Nat
           /\ saved \in Nat /\ saved <= MaxCodes /\ MaxCodes \in Nat
           /\ sends \in Nat /\ deaths \in Nat
           /\ MaxAttempts \in Nat \ {0} /\ MaxSends \in Nat \ {0}
           /\ \A k \in Codes : wrong[k] \in Nat /\ signed[k] \in Nat
           /\ \A k \in 0..saved : k # 0 => k \in Codes
  BY CodeAssumption DEF Inv, Typed, Codes

LEMMA SaveKeeps ==
    ASSUME Inv, NEW h \in Procs, Save(h)
    PROVE  Inv'
  <1> USE DEF Sending, Guessing, Deleting, Closing, Moves, Shift, Here, BoundedBusy
  <1> DEFINE r == [call[h] EXCEPT !.pc = "send", !.code = saved']
  <1>1. /\ call' = [call EXCEPT ![h] = r] /\ call[h].pc = "save"
        /\ saved' = saved + 1 /\ saved < MaxCodes
        /\ row' = [code |-> saved', attempts |-> 0, live |-> TRUE, cooling |-> TRUE]
        /\ owed' = IF \A g \in Procs : call[g].code = 0 THEN saved' ELSE 0
        /\ UNCHANGED <<sends, out, wrong, signed, late, deaths>>
        BY DEF Save, At, Upsert
  <1>2. call[h] \in Call /\ call \in [Procs -> Call]  BY DEF Inv, Typed
  <1>3. r.pc = "send" /\ r.code = saved' /\ r.late = call[h].late  BY <1>2 DEF Call
  <1>4. r \in Call'
    <2>1. saved' \in 0..saved' /\ "send" \in Pcs  BY <1>1, Numbers DEF Pcs
    <2>2. r \in [pc: Pcs, code: 0..saved', late: BOOLEAN]  BY <1>2, <2>1 DEF Call
    <2> QED  BY <2>2 DEF Call
  <1> HIDE DEF r
  <1>5. call'[h] = r /\ \A g \in Procs : g # h => call'[g] = call[g]  BY <1>1, <1>2
  <1>6. Busy(Sending)' = Busy(Sending)
    <2>1. Moves("save", "send")  BY <1>1, <1>2, <1>3, CountsMove
    <2> QED  BY <2>1, CountsBounded
  <1>7. saved' \in Codes /\ wrong[saved'] = 0 /\ signed[saved'] = 0 /\ saved' # 0
        BY <1>1, Numbers DEF Codes, Inv, Shape
  <1>8. Typed'
    <2>1. Call \subseteq Call'  BY <1>1, Numbers DEF Call
    <2>2. call' \in [Procs -> Call']  BY <1>1, <1>2, <1>4, <2>1
    <2> QED  BY <1>1, <2>2, Numbers DEF Inv, Typed
  <1>9. Shape'  BY <1>1, <1>3, <1>5, <1>7, Numbers DEF Inv, Shape
  <1>10. SpentInv'
    <2>1. \A g \in Procs : call[g].code \in 0..saved  BY <1>2 DEF Call
    <2> QED  BY <1>1, <1>3, <1>5, <1>7, <2>1, Numbers DEF Inv, SpentInv
  <1>11. GuessInv'
         BY <1>1, <1>7, CountsBounded, Numbers DEF Inv, GuessInv
  <1>12. CeilingInv'  BY <1>1, <1>6 DEF Inv, CeilingInv
  <1>13. OwedInv'
    <2> SUFFICES ASSUME owed' # 0 PROVE OwedInv'  BY DEF OwedInv
    <2>1. owed' = saved' /\ \A g \in Procs : call[g].code = 0  BY <1>1
    <2>2. \A g \in Procs : call'[g].pc \notin {"wrong", "delete"}
          BY <1>3, <1>5, <2>1 DEF Inv, Shape
    <2>3. Inside(Guessing)' = {}  BY <2>2 DEF Inside
    <2>4. Busy(Guessing)' = 0  BY <2>3, FS_EmptySet DEF Busy
    <2> QED  BY <1>1, <1>3, <1>5, <1>7, <2>1, <2>2, <2>4, Numbers DEF OwedInv
  <1> QED  BY <1>8, <1>9, <1>10, <1>11, <1>12, <1>13 DEF Inv

LEMMA SentKeeps ==
    ASSUME Inv, NEW h \in Procs, Sent(h)
    PROVE  Inv'
  <1> USE DEF Sending, Guessing, Deleting, Closing, Moves, Shift, Here, BoundedBusy
  <1>1. /\ call' = [call EXCEPT ![h] = Idle] /\ call[h].pc = "send"
        /\ sends' = sends + 1 /\ out' = out + 1
        /\ UNCHANGED <<row, saved, wrong, signed, late, owed, deaths>>
        BY DEF Sent, At, Done, history
  <1>2. call \in [Procs -> Call]  BY DEF Inv, Typed
  <1>3. Idle \in Call /\ Idle.pc = "idle" /\ Idle.code = 0 /\ ~Idle.late
        BY Numbers DEF Idle, Call, Pcs
  <1>4. call'[h] = Idle /\ \A g \in Procs : g # h => call'[g] = call[g]  BY <1>1, <1>2
  <1>5. /\ Busy(Sending)' = Busy(Sending) - 1
        /\ Busy(Guessing)' = Busy(Guessing) /\ Busy(Deleting)' = Busy(Deleting)
        /\ Busy(Closing)' = Busy(Closing)
    <2>1. Moves("send", "idle")  BY <1>1, <1>2, <1>3, CountsMove
    <2> QED  BY <2>1, CountsBounded
  <1>6. Typed'
    <2>1. Call' = Call  BY <1>1 DEF Call
    <2> QED  BY <1>1, <1>2, <1>3, <2>1 DEF Inv, Typed
  <1>7. Shape'  BY <1>1, <1>3, <1>4 DEF Inv, Shape
  <1>8. SpentInv'  BY <1>1, <1>3, <1>4 DEF Inv, SpentInv
  <1>9. GuessInv'  BY <1>1, <1>5 DEF Inv, GuessInv
  <1>10. CeilingInv'  BY <1>1, <1>5, CountsBounded, Numbers DEF Inv, CeilingInv
  <1>11. OwedInv'  BY <1>1, <1>3, <1>4, <1>5 DEF Inv, OwedInv
  <1> QED  BY <1>6, <1>7, <1>8, <1>9, <1>10, <1>11 DEF Inv

LEMMA DeleteKeeps ==
    ASSUME Inv, NEW h \in Procs, Delete(h)
    PROVE  Inv'
  <1> USE DEF Sending, Guessing, Deleting, Closing, Moves, Shift, Here, BoundedBusy
  <1>1. /\ call' = [call EXCEPT ![h] = Idle] /\ call[h].pc = "delete"
        /\ row' = NoRow
        /\ UNCHANGED <<sends, out, saved, wrong, signed, late, owed, deaths>>
        BY DEF Delete, At, Done, history
  <1>2. call \in [Procs -> Call]  BY DEF Inv, Typed
  <1>3. Idle \in Call /\ Idle.pc = "idle" /\ Idle.code = 0 /\ ~Idle.late
        BY Numbers DEF Idle, Call, Pcs
  <1>4. call'[h] = Idle /\ \A g \in Procs : g # h => call'[g] = call[g]  BY <1>1, <1>2
  <1>5. NoRow.code = 0 /\ NoRow.attempts = 0  BY DEF NoRow
  <1>6. Busy(Sending)' = Busy(Sending)
    <2>1. Moves("delete", "idle")  BY <1>1, <1>2, <1>3, CountsMove
    <2> QED  BY <2>1, CountsBounded
  <1>7. Typed'
    <2>1. Call' = Call  BY <1>1 DEF Call
    <2> QED  BY <1>1, <1>2, <1>3, <2>1 DEF Inv, Typed, NoRow
  <1>8. Shape'  BY <1>1, <1>3, <1>4 DEF Inv, Shape
  <1>9. SpentInv'
    <2>1. \A g \in Procs : call'[g].pc = "spent" => call'[g].code > 0
          BY <1>3, <1>4 DEF Inv, Shape
    <2> QED  BY <1>1, <1>3, <1>4, <1>5, <2>1 DEF Inv, SpentInv
  <1>10. GuessInv'  BY <1>1, <1>5, CountsBounded, Numbers DEF Inv, GuessInv
  <1>11. CeilingInv'  BY <1>1, <1>6 DEF Inv, CeilingInv
  <1>12. OwedInv'
    <2> SUFFICES ASSUME owed' # 0 PROVE OwedInv'  BY DEF OwedInv
    <2>1. wrong[owed] >= MaxAttempts /\ wrong[owed] \in Nat
          BY <1>1, CodeAssumption DEF Inv, OwedInv, Typed, Codes
    <2> QED  BY <1>1, <1>3, <1>4, <1>5, <2>1, Numbers DEF Inv, OwedInv
  <1> QED  BY <1>7, <1>8, <1>9, <1>10, <1>11, <1>12 DEF Inv

(* No handler about to count is missing among those about to count or      *)
(* delete.                                                                 *)
LEMMA GuessingCloses == Busy(Guessing)' <= Busy(Closing)'
  <1>1. Inside(Guessing)' \in SUBSET Inside(Closing)'  BY DEF Inside, Guessing, Closing
  <1>2. Inside(Closing)' \in SUBSET Procs  BY DEF Inside
  <1>3. IsFiniteSet(Inside(Closing)')  BY <1>2, CodeAssumption, FS_Subset
  <1>4. Cardinality(Inside(Guessing)') <= Cardinality(Inside(Closing)')  BY <1>1, <1>3, FS_Subset
  <1> QED  BY <1>4 DEF Busy

LEMMA VerifyKeeps ==
    ASSUME Inv, NEW h \in Procs, NEW right \in BOOLEAN, Verify(h, right)
    PROVE  Inv'
  <1> USE DEF Sending, Guessing, Deleting, Closing, Moves, Shift, Here, BoundedBusy
  <1> DEFINE next == IF ~row.live THEN "delete" ELSE IF right THEN "right" ELSE "wrong"
             r == [pc |-> next, code |-> row.code, late |-> signed[row.code] > 0]
  <1>1. /\ call' = [call EXCEPT ![h] = r] /\ call[h].pc = "idle" /\ row.code # 0
        /\ wrong' = IF next = "wrong" THEN [wrong EXCEPT ![row.code] = @ + 1] ELSE wrong
        /\ UNCHANGED <<row, sends, out, saved, signed, late, owed, deaths>>
        BY DEF Verify, Free
  <1>2. call \in [Procs -> Call] /\ row.code \in Codes  BY <1>1, Numbers DEF Inv, Typed
  <1>3. signed[row.code] = 0  BY <1>1 DEF Inv, SpentInv
  <1>4. r.pc = next /\ r.code = row.code /\ ~r.late
    <2>1. ~(signed[row.code] > 0)  BY <1>3
    <2>2. r.late = (signed[row.code] > 0)  OBVIOUS
    <2> QED  BY <2>1, <2>2
  <1>5. r \in Call
    <2>1. next \in Pcs /\ row.code \in 0..saved  BY Numbers DEF Pcs
    <2> QED  BY <2>1 DEF Call
  <1>6. next \in {"delete", "right", "wrong"} /\ (next = "delete" => ~row.live)  OBVIOUS
  <1> HIDE DEF r, next
  <1>7. call'[h] = r /\ \A g \in Procs : g # h => call'[g] = call[g]  BY <1>1, <1>2
  <1>8. Moves("idle", next)  BY <1>1, <1>2, <1>4, CountsMove
  <1>9. /\ Busy(Sending)' = Busy(Sending)
        /\ Busy(Guessing)' = IF next = "wrong" THEN Busy(Guessing) + 1 ELSE Busy(Guessing)
        /\ Busy(Deleting)' = IF next = "delete" THEN Busy(Deleting) + 1 ELSE Busy(Deleting)
        /\ Busy(Closing)' = IF next = "right" THEN Busy(Closing) ELSE Busy(Closing) + 1
        BY <1>6, <1>8, CountsBounded
  <1>10. /\ wrong'[row.code] = IF next = "wrong" THEN wrong[row.code] + 1 ELSE wrong[row.code]
         /\ \A k \in Codes : k # row.code => wrong'[k] = wrong[k]
         BY <1>1, <1>2 DEF Inv, Typed
  <1>11. Typed'
    <2>1. Call' = Call  BY <1>1 DEF Call
    <2>2. wrong' \in [Codes -> Nat]  BY <1>1, <1>2, Numbers DEF Inv, Typed
    <2> QED  BY <1>1, <1>2, <1>5, <2>1, <2>2 DEF Inv, Typed
  <1>12. Shape'
    <2>1. \A k \in Codes : k > saved => wrong'[k] = wrong[k]  BY <1>10, Numbers
    <2>2. row.code > 0  BY <1>1, Numbers
    <2> QED  BY <1>1, <1>4, <1>7, <2>1, <2>2 DEF Inv, Shape
  <1>13. SpentInv'  BY <1>1, <1>4, <1>6, <1>7 DEF Inv, SpentInv
  <1>14. GuessInv'
    <2>1. wrong'[row.code] <= row.attempts + Busy(Guessing)' + deaths
          BY <1>1, <1>2, <1>9, <1>10, CountsBounded, Numbers DEF Inv, GuessInv
    <2>2. wrong'[row.code] <= MaxAttempts - 1 + Busy(Closing)' + deaths
          BY <1>1, <1>2, <1>6, <1>9, <1>10, CountsBounded, Numbers DEF Inv, GuessInv
    <2>3. row.attempts <= MaxAttempts - 1 + Busy(Deleting)' + deaths
          BY <1>9, CountsBounded, Numbers DEF Inv, GuessInv
    <2>4. wrong'[row.code] \in Nat  BY <1>2, <1>10, Numbers
    <2>5. wrong'[row.code] <= MaxAttempts - 1 + Cardinality(Procs) + deaths
          BY <2>2, <2>4, CountsBounded, Numbers
    <2>6. \A k \in Codes : wrong'[k] <= MaxAttempts - 1 + Cardinality(Procs) + deaths
          BY <1>10, <2>5 DEF Inv, GuessInv
    <2> QED  BY <1>1, <2>1, <2>2, <2>3, <2>6 DEF GuessInv
  <1>15. CeilingInv'  BY <1>1, <1>9 DEF Inv, CeilingInv
  <1>16. OwedInv'
    <2> SUFFICES ASSUME owed' # 0 PROVE OwedInv'  BY DEF OwedInv
    <2>1. owed # 0 /\ owed = row.code /\ row.live /\ next # "delete"
          BY <1>1, <1>6 DEF Inv, OwedInv
    <2>2. wrong'[owed] >= wrong[owed] /\ wrong[owed] \in Nat  BY <1>2, <1>10, <2>1, Numbers
    <2>3. row.attempts + Busy(Guessing)' <= wrong'[owed]
          BY <1>2, <1>6, <1>9, <1>10, <2>1, CountsBounded, Numbers DEF Inv, OwedInv
    <2>4. \A g \in Procs : call'[g].code \in {0, owed}  BY <1>4, <1>7, <2>1 DEF Inv, OwedInv
    <2>5. \A g \in Procs : call'[g].pc = "delete" => wrong'[owed] >= MaxAttempts
      <3>1. \A g \in Procs : call'[g].pc = "delete" => wrong[owed] >= MaxAttempts
            BY <1>1, <1>4, <1>7, <2>1 DEF Inv, OwedInv
      <3> QED  BY <2>2, <3>1, <1>2, <1>10, <2>1, Numbers
    <2> QED  BY <1>1, <2>1, <2>3, <2>4, <2>5 DEF OwedInv
  <1> QED  BY <1>11, <1>12, <1>13, <1>14, <1>15, <1>16 DEF Inv

(* Counting a wrong guess: on whatever code the row holds, and nowhere if  *)
(* it holds none.                                                          *)
LEMMA BumpKeeps ==
    ASSUME Inv, NEW h \in Procs, Bump(h)
    PROVE  Inv'
  <1> USE DEF Sending, Guessing, Deleting, Closing, Moves, Shift, Here, BoundedBusy
  <1>1. call \in [Procs -> Call] /\ call[h] \in Call /\ call[h].pc = "wrong" /\ call[h].code > 0
        BY DEF Bump, At, Inv, Typed, Shape
  <1>2. Idle \in Call /\ Idle.pc = "idle" /\ Idle.code = 0 /\ ~Idle.late
        BY Numbers DEF Idle, Call, Pcs
  <1>3. UNCHANGED <<sends, out, saved, wrong, signed, late, owed, deaths>>
        BY DEF Bump, history
  <1>4. PICK r \in {Idle, [call[h] EXCEPT !.pc = "delete"]} :
            /\ call' = [call EXCEPT ![h] = r]
            /\ r.pc = "delete" <=> row'.attempts >= MaxAttempts
    <2>1. Idle.pc # "delete" /\ [call[h] EXCEPT !.pc = "delete"].pc = "delete"
          BY <1>1, <1>2 DEF Call
    <2> QED  BY <2>1 DEF Bump, Goto, Done
  <1>5. /\ r \in Call /\ r.pc \in {"idle", "delete"} /\ ~r.late
        /\ r.code \in {0, call[h].code} /\ (r.pc = "delete" => r.code > 0)
    <2>1. CASE r = Idle  BY <2>1, <1>2
    <2>2. CASE r = [call[h] EXCEPT !.pc = "delete"]
          BY <2>2, <1>1 DEF Call, Pcs, Inv, SpentInv
    <2> QED  BY <2>1, <2>2
  <1>6. call'[h] = r /\ \A g \in Procs : g # h => call'[g] = call[g]  BY <1>1, <1>4
  <1>7. /\ row'.code = row.code /\ row'.live = row.live
        /\ row'.attempts = IF row.code = 0 THEN 0 ELSE row.attempts + 1
        /\ row' \in [code: 0..saved, attempts: Nat, live: BOOLEAN, cooling: BOOLEAN]
        /\ row.code = 0 => row' = NoRow
    <2>1. CASE row.code = 0  BY <2>1 DEF Bump, Inv, Typed, Shape, NoRow
    <2>2. CASE row.code # 0  BY <2>2 DEF Bump, Inv, Typed
    <2> QED  BY <2>1, <2>2
  <1>8. Moves("wrong", r.pc)  BY <1>1, <1>4, CountsMove
  <1>9. /\ Busy(Sending)' = Busy(Sending) /\ Busy(Guessing)' = Busy(Guessing) - 1
        /\ Busy(Deleting)' = IF r.pc = "delete" THEN Busy(Deleting) + 1 ELSE Busy(Deleting)
        /\ Busy(Closing)' = IF r.pc = "delete" THEN Busy(Closing) ELSE Busy(Closing) - 1
        BY <1>5, <1>8, CountsBounded
  <1>10. Typed'
    <2>1. Call' = Call  BY <1>3 DEF Call
    <2> QED  BY <1>1, <1>3, <1>4, <1>5, <1>7, <2>1 DEF Inv, Typed
  <1>11. Shape'  BY <1>3, <1>5, <1>6, <1>7 DEF Inv, Shape
  <1>12. SpentInv'  BY <1>3, <1>5, <1>6, <1>7 DEF Inv, SpentInv
  <1>13. GuessInv'
    <2>1. row'.attempts <= MaxAttempts - 1 + Busy(Deleting)' + deaths
          BY <1>4, <1>7, <1>9, CountsBounded, Numbers DEF Inv, GuessInv
    <2>2. ASSUME row.code # 0
          PROVE  /\ wrong[row.code] <= row'.attempts + Busy(Guessing)' + deaths
                 /\ wrong[row.code] <= MaxAttempts - 1 + Busy(Closing)' + deaths
      <3>1. wrong[row.code] \in Nat  BY <2>2, Numbers
      <3>2. wrong[row.code] <= row'.attempts + Busy(Guessing)' + deaths
            BY <1>7, <1>9, <2>2, <3>1, CountsBounded, Numbers DEF Inv, GuessInv
      <3>3. CASE r.pc = "delete"
            BY <1>9, <2>2, <3>1, <3>2, <3>3, CountsBounded, Numbers DEF Inv, GuessInv
      <3>4. CASE r.pc # "delete"
        <4>1. row'.attempts <= MaxAttempts - 1 /\ row'.attempts \in Nat
              BY <1>4, <1>7, <3>4, Numbers
        <4> QED  BY <3>1, <3>2, <4>1, GuessingCloses, CountsBounded, Numbers
      <3> QED  BY <3>2, <3>3, <3>4
    <2> QED  BY <1>3, <1>7, <2>1, <2>2 DEF Inv, GuessInv
  <1>14. CeilingInv'  BY <1>3, <1>9 DEF Inv, CeilingInv
  <1>15. OwedInv'
    <2> SUFFICES ASSUME owed' # 0 PROVE OwedInv'  BY DEF OwedInv
    <2>1. owed # 0 /\ owed \in Codes /\ wrong[owed] \in Nat  BY <1>3, Numbers DEF Inv, Typed
    <2>2. row.code = owed => row'.attempts + Busy(Guessing)' <= wrong[owed]
          BY <1>7, <1>9, <2>1, CountsBounded, Numbers DEF Inv, OwedInv
    <2>3. r.pc = "delete" => wrong[owed] >= MaxAttempts
      <3>1. SUFFICES ASSUME r.pc = "delete" PROVE wrong[owed] >= MaxAttempts  OBVIOUS
      <3>2. row'.attempts >= MaxAttempts  BY <1>4, <3>1
      <3>3. row.code = owed  BY <1>7, <2>1, <3>2, Numbers DEF Inv, OwedInv
      <3> QED  BY <1>7, <2>1, <2>2, <3>2, <3>3, CountsBounded, Numbers
    <2> QED  BY <1>3, <1>5, <1>6, <1>7, <2>1, <2>2, <2>3 DEF Inv, OwedInv
  <1> QED  BY <1>10, <1>11, <1>12, <1>13, <1>14, <1>15 DEF Inv

LEMMA SpendKeeps ==
    ASSUME Inv, NEW h \in Procs, Spend(h)
    PROVE  Inv'
  <1> USE DEF Sending, Guessing, Deleting, Closing, Moves, Shift, Here, BoundedBusy
  <1> DEFINE r == [call[h] EXCEPT !.pc = "spent"]
  <1>1. /\ call' = [call EXCEPT ![h] = r] /\ call[h].pc = "right"
        /\ row' = NoRow
        /\ UNCHANGED <<sends, out, saved, wrong, signed, late, deaths>>
        BY DEF Spend, At, Goto
  <1>2. call \in [Procs -> Call] /\ call[h] \in Call /\ call[h].code > 0 /\ ~call[h].late
        BY <1>1 DEF Inv, Typed, Shape, SpentInv
  <1>3. owed' = 0  BY <1>2 DEF Spend, Settle, Inv, OwedInv
  <1>4. r \in Call /\ r.pc = "spent" /\ r.code = call[h].code /\ r.late = call[h].late
        BY <1>2 DEF Call, Pcs
  <1> HIDE DEF r
  <1>5. call'[h] = r /\ \A g \in Procs : g # h => call'[g] = call[g]  BY <1>1, <1>2
  <1>6. Moves("right", "spent")  BY <1>1, <1>2, <1>4, CountsMove
  <1>7. Busy(Sending)' = Busy(Sending)  BY <1>6, CountsBounded
  <1>8. Typed'
    <2>1. Call' = Call  BY <1>1 DEF Call
    <2> QED  BY <1>1, <1>2, <1>3, <1>4, <2>1, Numbers DEF Inv, Typed, NoRow
  <1>9. Shape'  BY <1>1, <1>2, <1>4, <1>5 DEF Inv, Shape
  <1>10. SpentInv'
    <2>1. \A g \in Procs : call'[g].pc = "spent" => call'[g].code > 0
          BY <1>2, <1>4, <1>5 DEF Inv, Shape
    <2> QED  BY <1>1, <1>2, <1>4, <1>5, <2>1 DEF Inv, SpentInv, NoRow
  <1>11. GuessInv'  BY <1>1, CountsBounded, Numbers DEF Inv, GuessInv, NoRow
  <1>12. CeilingInv'  BY <1>1, <1>7 DEF Inv, CeilingInv
  <1>13. OwedInv'  BY <1>3 DEF OwedInv
  <1> QED  BY <1>8, <1>9, <1>10, <1>11, <1>12, <1>13 DEF Inv

LEMMA SignInKeeps ==
    ASSUME Inv, NEW h \in Procs, SignIn(h)
    PROVE  Inv'
  <1> USE DEF Sending, Guessing, Deleting, Closing, Moves, Shift, Here, BoundedBusy
  <1>1. /\ call' = [call EXCEPT ![h] = Idle] /\ call[h].pc = "spent"
        /\ signed' = [signed EXCEPT ![call[h].code] = @ + 1]
        /\ UNCHANGED <<row, sends, out, saved, wrong, owed, deaths>>
        BY DEF SignIn, At, Done
  <1>2. call \in [Procs -> Call] /\ call[h] \in Call  BY DEF Inv, Typed
  <1>3. late' = late  BY DEF SignIn, Inv, SpentInv
  <1>4. Idle \in Call /\ Idle.pc = "idle" /\ Idle.code = 0 /\ ~Idle.late
        BY Numbers DEF Idle, Call, Pcs
  <1>5. call'[h] = Idle /\ \A g \in Procs : g # h => call'[g] = call[g]  BY <1>1, <1>2
  <1>6. /\ call[h].code \in Codes /\ call[h].code <= saved /\ call[h].code # row.code
        BY <1>1, <1>2, Numbers DEF Call, Inv, Shape, SpentInv
  <1>7. Moves("spent", "idle")  BY <1>1, <1>2, <1>4, CountsMove
  <1>8. /\ Busy(Sending)' = Busy(Sending) /\ Busy(Guessing)' = Busy(Guessing)
        /\ Busy(Deleting)' = Busy(Deleting) /\ Busy(Closing)' = Busy(Closing)
        BY <1>7, CountsBounded
  <1>9. \A k \in Codes : k # call[h].code => signed'[k] = signed[k]  BY <1>1 DEF Inv, Typed
  <1>10. Typed'
    <2>1. Call' = Call  BY <1>1 DEF Call
    <2>2. signed' \in [Codes -> Nat]  BY <1>1, <1>6, Numbers DEF Inv, Typed
    <2> QED  BY <1>1, <1>2, <1>4, <2>1, <2>2 DEF Inv, Typed
  <1>11. Shape'
    <2>1. \A k \in Codes : k > saved => signed'[k] = signed[k]
      <3> TAKE k \in Codes
      <3> HAVE k > saved
      <3>1. k # call[h].code  BY <1>6, Numbers DEF Codes
      <3> QED  BY <1>9, <3>1
    <2> QED  BY <1>1, <1>4, <1>5, <2>1 DEF Inv, Shape
  <1>12. SpentInv'
    <2>1. row.code # 0 => signed'[row.code] = 0  BY <1>6, <1>9, Numbers DEF Inv, SpentInv
    <2> QED  BY <1>1, <1>3, <1>4, <1>5, <2>1 DEF Inv, SpentInv
  <1>13. GuessInv'  BY <1>1, <1>8 DEF Inv, GuessInv
  <1>14. CeilingInv'  BY <1>1, <1>8 DEF Inv, CeilingInv
  <1>15. OwedInv'  BY <1>1, <1>4, <1>5, <1>8 DEF Inv, OwedInv
  <1> QED  BY <1>10, <1>11, <1>12, <1>13, <1>14, <1>15 DEF Inv

(* Time passes.                                                            *)
LEMMA TimeKeeps ==
    ASSUME Inv, Cool \/ Expire \/ Cleanup \/ WindowEnds \/ UNCHANGED vars
    PROVE  Inv'
  <1> USE DEF BoundedBusy
  <1>1. UNCHANGED <<call, saved, wrong, signed, late, deaths>>
        BY DEF Cool, Expire, Cleanup, WindowEnds, vars, history
  <1>2. Call' = Call  BY <1>1 DEF Call
  <1>3. /\ Busy(Sending)' = Busy(Sending) /\ Busy(Guessing)' = Busy(Guessing)
        /\ Busy(Deleting)' = Busy(Deleting) /\ Busy(Closing)' = Busy(Closing)
        BY <1>1 DEF Busy, Inside
  <1>4. owed' \in {0, owed}  BY DEF Cool, Expire, Cleanup, WindowEnds, vars, history, Settle
  <1>5. \/ /\ row'.code = row.code /\ row'.attempts = row.attempts
           /\ row'.live = row.live \/ owed' = 0
           /\ row.code = 0 => row' = NoRow
           /\ row' \in [code: 0..saved, attempts: Nat, live: BOOLEAN, cooling: BOOLEAN]
        \/ row' = NoRow /\ owed = 0
    <2>1. CASE Cool
      <3>1. row' = [row EXCEPT !.cooling = FALSE] /\ row.cooling /\ owed' = owed
            BY <2>1 DEF Cool, history
      <3>2. row.code # 0
        <4>1. ~NoRow.cooling  BY DEF NoRow
        <4> QED  BY <3>1, <4>1 DEF Inv, Shape
      <3>3. row \in [code: 0..saved, attempts: Nat, live: BOOLEAN, cooling: BOOLEAN]
            BY DEF Inv, Typed
      <3>4. row' \in [code: 0..saved, attempts: Nat, live: BOOLEAN, cooling: BOOLEAN]
            BY <3>1, <3>3
      <3>5. row'.code = row.code /\ row'.attempts = row.attempts /\ row'.live = row.live
            BY <3>1, <3>3
      <3> QED  BY <3>2, <3>4, <3>5
    <2>2. CASE Expire
      <3>1. row.code # 0  BY <2>2 DEF Expire, Inv, Shape, NoRow
      <3>2. owed' = 0  BY <2>2, <3>1 DEF Expire, Settle, Inv, OwedInv
      <3> QED  BY <2>2, <3>1, <3>2 DEF Expire, Inv, Typed
    <2>3. CASE Cleanup  BY <2>3 DEF Cleanup, Inv, OwedInv
    <2>4. CASE WindowEnds \/ UNCHANGED vars  BY <2>4 DEF WindowEnds, vars, Inv, Typed, Shape
    <2> QED  BY <2>1, <2>2, <2>3, <2>4
  <1>6. \/ sends' = sends /\ out' = out
        \/ sends' = 0 /\ out' = 0
        BY DEF Cool, Expire, Cleanup, WindowEnds, vars
  <1>7. Typed'
    <2>1. row' \in [code: 0..saved, attempts: Nat, live: BOOLEAN, cooling: BOOLEAN]
      <3>1. NoRow \in [code: 0..saved, attempts: Nat, live: BOOLEAN, cooling: BOOLEAN]
            BY Numbers DEF NoRow
      <3> QED  BY <1>5, <3>1
    <2>2. owed' \in 0..saved /\ sends' \in Nat /\ out' \in Nat
          BY <1>4, <1>6, Numbers DEF Inv, Typed
    <2> QED  BY <1>1, <1>2, <2>1, <2>2 DEF Inv, Typed
  <1>8. Shape'  BY <1>1, <1>5 DEF Inv, Shape
  <1>9. SpentInv'
    <2>1. row'.code \in {0, row.code}  BY <1>5 DEF NoRow
    <2>2. \A h \in Procs : call[h].pc = "spent" => call[h].code > 0  BY DEF Inv, Shape
    <2> QED  BY <1>1, <2>1, <2>2 DEF Inv, SpentInv
  <1>10. GuessInv'
    <2>1. CASE row' = NoRow /\ owed = 0
          BY <1>1, <2>1, CountsBounded, Numbers DEF Inv, GuessInv, NoRow
    <2>2. CASE row'.code = row.code /\ row'.attempts = row.attempts
          BY <1>1, <1>3, <2>2 DEF Inv, GuessInv
    <2> QED  BY <1>5, <2>1, <2>2
  <1>11. CeilingInv'  BY <1>3, <1>6, CountsBounded, Numbers DEF Inv, CeilingInv
  <1>12. OwedInv'
    <2> SUFFICES ASSUME owed' # 0 PROVE OwedInv'  BY DEF OwedInv
    <2> QED  BY <1>1, <1>3, <1>4, <1>5 DEF Inv, OwedInv
  <1> QED  BY <1>7, <1>8, <1>9, <1>10, <1>11, <1>12 DEF Inv

-----------------------------------------------------------------------------
LEMMA InitGood == Init => Inv
  <1> SUFFICES ASSUME Init PROVE Inv  OBVIOUS
  <1>1. NoRow.code = 0 /\ NoRow.attempts = 0  BY DEF NoRow
  <1>2. \A h \in Procs : call[h] = Idle  BY DEF Init
  <1>3. Idle.pc = "idle" /\ Idle.code = 0 /\ ~Idle.late  BY DEF Idle
  <1>4. Inside(Sending) = {}  BY <1>2, <1>3 DEF Inside, Sending
  <1>5. Busy(Sending) = 0  BY <1>4, FS_EmptySet DEF Busy
  <1>6. Typed  BY CodeAssumption DEF Init, Typed, NoRow, Call, Idle, Pcs
  <1>7. Shape  BY <1>2, <1>3 DEF Init, Shape
  <1>8. SpentInv  BY <1>1, <1>2, <1>3 DEF Init, SpentInv
  <1>9. GuessInv
        BY <1>1, CodeAssumption, CountsBounded DEF Init, GuessInv, BoundedBusy
  <1>10. CeilingInv  BY <1>5, CodeAssumption, CountsBounded DEF Init, CeilingInv
  <1>11. OwedInv  BY DEF Init, OwedInv
  <1> QED  BY <1>6, <1>7, <1>8, <1>9, <1>10, <1>11 DEF Inv

LEMMA NextKeeps == Inv /\ [Next]_vars => Inv'
  <1> SUFFICES ASSUME Inv, [Next]_vars PROVE Inv'  OBVIOUS
  <1>1. CASE \E h \in Procs : Start(h) \/ Look(h) \/ NotSent(h) \/ Refuse(h) \/ Die(h)
        BY <1>1, QuietStepKeeps
  <1>2. CASE \E h \in Procs : Save(h)  BY <1>2, SaveKeeps
  <1>3. CASE \E h \in Procs : Sent(h)  BY <1>3, SentKeeps
  <1>4. CASE \E h \in Procs : Delete(h)  BY <1>4, DeleteKeeps
  <1>5. CASE \E h \in Procs : Bump(h)  BY <1>5, BumpKeeps
  <1>6. CASE \E h \in Procs : Spend(h)  BY <1>6, SpendKeeps
  <1>7. CASE \E h \in Procs : SignIn(h)  BY <1>7, SignInKeeps
  <1>8. CASE \E h \in Procs, right \in BOOLEAN : Verify(h, right)  BY <1>8, VerifyKeeps
  <1>9. CASE Cool \/ Expire \/ Cleanup \/ WindowEnds \/ UNCHANGED vars  BY <1>9, TimeKeeps
  <1> QED  BY <1>1, <1>2, <1>3, <1>4, <1>5, <1>6, <1>7, <1>8, <1>9 DEF Next

(* The counts are as the comments at their definitions say, in every state *)
(* the handlers of one address can reach.                                  *)
THEOREM Invariant == Spec => []Inv
  <1>1. Inv /\ [][Next]_vars => []Inv  BY NextKeeps, PTL
  <1> QED  BY <1>1, InitGood, PTL DEF Spec

(* The row, the counters and the handlers are well formed, and no row's    *)
(* count leaves its budget by more than the requests beside each other and *)
(* those that broke off (BumpPhoneCodeAttempts, BumpEmailCodeAttempts).    *)
THEOREM TypeCorrect == Spec => []TypeOK
  <1>1. Inv => TypeOK
    <2> SUFFICES ASSUME Inv PROVE TypeOK  OBVIOUS
    <2>1. row.attempts <= MaxAttempts + Cardinality(Procs) - 1 + deaths
          BY CountsBounded, Numbers DEF Inv, GuessInv, BoundedBusy
    <2>2. \A h \in Procs : call[h].pc \in {"send", "wrong", "right", "spent"} => call[h].code > 0
          BY DEF Inv, Shape
    <2>3. late \in SUBSET Codes  BY DEF Inv, SpentInv
    <2> QED  BY <2>1, <2>2, <2>3 DEF Inv, Typed, TypeOK, Call
  <1> QED  BY <1>1, Invariant, PTL

(* However many requests guess at once, and whatever resends replace the   *)
(* row meanwhile, a code is compared with MaxAttempts wrong guesses, one   *)
(* more for each handler beside the first, and one for each that died      *)
(* before it had counted or deleted.                                       *)
THEOREM GuessesStayBounded == Spec => []GuessesBounded
  <1>1. Inv => GuessesBounded
        BY CountsBounded, Numbers DEF Inv, GuessInv, GuessesBounded, BoundedBusy
  <1> QED  BY <1>1, Invariant, PTL

(* No more messages go out in a window than the ceiling and the requests   *)
(* that had passed it before the last was counted (throttle.spent, spend). *)
THEOREM CeilingAlwaysHolds == Spec => []CeilingHolds
  <1>1. Inv => CeilingHolds
        BY CountsBounded, Numbers DEF Inv, CeilingInv, CeilingHolds, BoundedBusy
  <1> QED  BY <1>1, Invariant, PTL

(* Who asks after a sign-in with a code is not let in by it, for any       *)
(* number of requests and resends beside it.                               *)
THEOREM SpentCodesStaySpent == Spec => []SpentStaysSpent
  <1>1. Inv => SpentStaysSpent  BY DEF Inv, SpentInv, SpentStaysSpent
  <1> QED  BY <1>1, Invariant, PTL

(* A code made while no other request had one in hand stays until it has   *)
(* expired, been used or had its guesses.                                  *)
THEOREM SentCodesLast == Spec => []SentCodeLasts
  <1>1. Inv => SentCodeLasts  BY DEF Inv, OwedInv, SentCodeLasts
  <1> QED  BY <1>1, Invariant, PTL
=============================================================================
