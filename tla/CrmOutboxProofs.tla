-------------------------- MODULE CrmOutboxProofs --------------------------
(***************************************************************************)
(* The outbox for any number of replicas, accounts and attempts: no report *)
(* is lost, none is given up early, and the lease keeps senders apart.     *)
(*                                                                         *)
(* Nothing here may lean on the row being as it was when a sender claimed  *)
(* it: records come late and go by id alone.  So each part of the          *)
(* invariant says of the row and of what the senders have in hand the same *)
(* thing, which a late record then only carries from one to the other.     *)
(***************************************************************************)
EXTENDS CrmOutbox, TLAPS

Typed ==
    /\ account \in [Accounts -> {"absent", "customer", "staff"}]
    /\ row \in [Accounts -> Row]
    /\ work \in [Senders -> SUBSET Claimed]
    /\ result \in [Senders -> Result \cup {None}]
    /\ filed \in SUBSET Accounts
    /\ grounds \in [Accounts -> 0..MaxAttempts]
    /\ queued \in [Accounts -> 0..QueueCap]
    /\ lapsed \in SUBSET Accounts
    /\ aborts \in 0..MaxAborts

(* A count never exceeds the attempts really made, wherever it is: in the  *)
(* row, in a batch, or in an attempt that is yet to be recorded.           *)
RowCounts(r, n) ==
    /\ r.attempts <= n
    /\ r.status = "pending" => r.attempts < MaxAttempts
    /\ r.status = "failed" => n = MaxAttempts

ItemCounts(item) == item.attempts < MaxAttempts /\ item.attempts <= grounds[item.acct]

ResultCounts(r) ==
    /\ r.item.attempts < MaxAttempts /\ r.item.attempts + 1 <= grounds[r.item.acct]
    /\ r.outcome = "retry" => r.item.attempts + 1 < MaxAttempts
    /\ r.outcome = "failed" => grounds[r.item.acct] = MaxAttempts

CountInv ==
    /\ \A a \in Accounts : RowCounts(row[a], grounds[a])
    /\ \A s \in Senders : \A item \in work[s] : ItemCounts(item)
    /\ \A s \in Senders : result[s] # None => ResultCounts(result[s])

(* Who says a report is done knows that NabuCRM has it.                    *)
FiledInv ==
    /\ \A a \in Accounts : row[a].status = "done" => a \in filed
    /\ \A a \in Accounts : row[a].status = "none" /\ queued[a] > 0 => a \in filed
    /\ \A s \in Senders :
          result[s] # None /\ result[s].outcome = "done" => result[s].item.acct \in filed

(* A sender has each report in hand once.                                  *)
Once(s) ==
    /\ \A i, j \in work[s] : i.acct = j.acct => i = j
    /\ result[s] # None => \A i \in work[s] : i.acct # result[s].item.acct

(* A report in hand has a row; until its lease has run out that row waits, *)
(* out of everybody's reach, for the one sender that has it.               *)
HoldInv ==
    /\ \A s \in Senders : Once(s)
    /\ \A a \in Accounts, s \in Senders : Held(s, a) =>
          /\ row[a].status # "none"
          /\ a \notin lapsed =>
                /\ row[a].status = "pending" /\ ~row[a].due
                /\ \A t \in Senders : Held(t, a) => t = s

Inv == Typed /\ CountInv /\ FiledInv /\ HoldInv

-----------------------------------------------------------------------------
LEMMA Bounds == MaxAttempts \in Nat \ {0} /\ QueueCap \in Nat \ {0} /\ MaxAborts \in Nat
  BY OutboxAssumption

LEMMA CappedType ==
    ASSUME NEW max \in Nat, NEW n \in 0..max
    PROVE  Capped(n + 1, max) \in 0..max /\ Capped(n + 1, max) >= n /\ (max > 0 => Capped(n + 1, max) > 0)
  BY DEF Capped

(* What is in hand is what was, or less; its reports are no more in reach  *)
(* than they were.                                                         *)
LessInHand == \A t \in Senders, b \in Accounts : Held(t, b)' => Held(t, b)

LEMMA HoldKeeps ==
    ASSUME HoldInv, LessInHand, lapsed \subseteq lapsed',
           \A t \in Senders : Once(t)',
           \A t \in Senders, b \in Accounts : Held(t, b)' =>
              /\ row'[b].status # "none"
              /\ b \notin lapsed' => row'[b].status = "pending" /\ ~row'[b].due
    PROVE  HoldInv'
  <1> SUFFICES ASSUME NEW b \in Accounts, NEW t \in Senders, Held(t, b)'
               PROVE  /\ row'[b].status # "none"
                      /\ b \notin lapsed' =>
                            /\ row'[b].status = "pending" /\ ~row'[b].due
                            /\ \A u \in Senders : Held(u, b)' => u = t
      BY DEF HoldInv
  <1>1. b \notin lapsed' => b \notin lapsed  OBVIOUS
  <1>2. \A u \in Senders : Held(u, b)' => Held(u, b)  BY DEF LessInHand
  <1> QED  BY <1>1, <1>2 DEF HoldInv

(* The same when no sender moves.                                          *)
LEMMA SendersStay ==
    ASSUME UNCHANGED <<work, result>>
    PROVE  /\ LessInHand
           /\ \A t \in Senders, b \in Accounts : Held(t, b)' = Held(t, b)
           /\ \A t \in Senders : Once(t) => Once(t)'
  BY DEF LessInHand, Held, Once

-----------------------------------------------------------------------------
(* A report is queued, or is already.                                      *)
LEMMA QueueKeeps ==
    ASSUME Inv, NEW a \in Accounts,
           Queue(a) \/ UNCHANGED <<row, queued>>,
           account' \in [Accounts -> {"absent", "customer", "staff"}],
           UNCHANGED <<work, result, filed, grounds, lapsed, aborts>>
    PROVE  Inv'
  <1>1. CASE UNCHANGED <<row, queued>>
    <2>1. Typed'  BY <1>1 DEF Inv, Typed
    <2>2. CountInv'  BY <1>1 DEF Inv, CountInv, ItemCounts, ResultCounts
    <2>3. FiledInv'  BY <1>1 DEF Inv, FiledInv
    <2>4. HoldInv'  BY <1>1 DEF Inv, HoldInv, Once, Held
    <2> QED  BY <2>1, <2>2, <2>3, <2>4 DEF Inv
  <1>2. CASE Queue(a) /\ ~UNCHANGED <<row, queued>>
    <2>1. /\ row[a].status = "none" /\ row' = [row EXCEPT ![a] = Fresh]
          /\ queued' = [queued EXCEPT ![a] = Capped(@ + 1, QueueCap)]
          BY <1>2 DEF Queue
    <2>2. Fresh \in Row /\ Fresh.status = "pending" /\ Fresh.attempts = 0
          BY Bounds DEF Fresh, Row
    <2>3. row'[a] = Fresh /\ \A b \in Accounts : b # a => row'[b] = row[b] /\ queued'[b] = queued[b]
          BY <2>1 DEF Inv, Typed
    <2>4. Typed'
      <3>1. Capped(queued[a] + 1, QueueCap) \in 0..QueueCap  BY Bounds, CappedType DEF Inv, Typed
      <3> QED  BY <2>1, <2>2, <3>1 DEF Inv, Typed
    <2>5. CountInv'
      <3>1. RowCounts(row'[a], grounds[a])  BY <2>2, <2>3, Bounds DEF RowCounts, Inv, Typed
      <3> QED  BY <2>3, <3>1 DEF Inv, CountInv, ItemCounts, ResultCounts
    <2>6. FiledInv'  BY <2>2, <2>3 DEF Inv, FiledInv
    <2>7. HoldInv'
      <3>1. \A t \in Senders : ~Held(t, a)  BY <2>1 DEF Inv, HoldInv
      <3> QED  BY <2>3, <3>1, SendersStay, HoldKeeps DEF Inv, HoldInv
    <2> QED  BY <2>4, <2>5, <2>6, <2>7 DEF Inv
  <1> QED  BY <1>1, <1>2

LEMMA CreateKeeps ==
    ASSUME Inv, NEW a \in Accounts, NEW kind \in {"customer", "staff"}, Create(a, kind)
    PROVE  Inv'
  <1>1. account' \in [Accounts -> {"absent", "customer", "staff"}]  BY DEF Create, Inv, Typed
  <1> QED  BY <1>1, QueueKeeps DEF Create

LEMMA BackfillKeeps ==
    ASSUME Inv, NEW a \in Accounts, Backfill(a)
    PROVE  Inv'
  <1>1. account' \in [Accounts -> {"absent", "customer", "staff"}]  BY DEF Backfill, Inv, Typed
  <1> QED  BY <1>1, QueueKeeps DEF Backfill

(* Only rows that are due are claimed: nobody has their reports in hand    *)
(* but senders whose lease has run out.                                    *)
LEMMA ClaimKeeps ==
    ASSUME Inv, NEW s \in Senders, Claim(s)
    PROVE  Inv'
  <1> DEFINE S == First(Ready)
             batch == {[acct |-> a, attempts |-> row[a].attempts] : a \in S}
  <1>1. S \in SUBSET Accounts /\ \A a \in S : row[a].status = "pending" /\ row[a].due
        BY DEF First, Ready
  <1>2. /\ work[s] = {} /\ result[s] = None
        /\ work' = [work EXCEPT ![s] = batch]
        /\ lapsed' = {a \in lapsed : a \in S => \E t \in Senders : Held(t, a)}
        /\ row' = [a \in Accounts |-> IF a \in S THEN [row[a] EXCEPT !.due = FALSE] ELSE row[a]]
        /\ UNCHANGED <<account, result, filed, grounds, queued, aborts>>
        BY DEF Claim, Hand
  <1> HIDE DEF S
  <1>3. \A a \in Accounts : /\ row[a] \in Row /\ row'[a] \in Row
                            /\ row'[a].status = row[a].status
                            /\ row'[a].attempts = row[a].attempts
                            /\ row'[a].due = (row[a].due /\ a \notin S)
    <2> TAKE a \in Accounts
    <2>1. row[a] \in Row  BY DEF Inv, Typed
    <2>2. CASE a \in S
      <3>1. row'[a] = [row[a] EXCEPT !.due = FALSE]  BY <1>2, <2>2
      <3> QED  BY <2>1, <2>2, <3>1 DEF Row
    <2>3. CASE a \notin S
      <3>1. row'[a] = row[a]  BY <1>2, <2>3
      <3> QED  BY <2>1, <2>3, <3>1 DEF Row
    <2> QED  BY <2>2, <2>3
  <1>4. batch \in SUBSET Claimed
        BY <1>1, <1>3 DEF Claimed, Row
  <1>5. \A i \in batch : i.acct \in S /\ i.attempts = row[i.acct].attempts  OBVIOUS
  <1>6. \A i, j \in batch : i.acct = j.acct => i = j  OBVIOUS
  <1>7. \A a \in S : \E i \in batch : i.acct = a
    <2> TAKE a \in S
    <2> WITNESS [acct |-> a, attempts |-> row[a].attempts] \in batch
    <2> QED  OBVIOUS
  <1> HIDE DEF batch
  <1>8. work'[s] = batch /\ \A t \in Senders : t # s => work'[t] = work[t]  BY <1>2 DEF Inv, Typed
  <1>9. Typed'
    <2>1. row' \in [Accounts -> Row]  BY <1>2, <1>3
    <2> QED  BY <1>2, <1>4, <2>1 DEF Inv, Typed
  <1>10. CountInv'
    <2>1. \A a \in Accounts : RowCounts(row'[a], grounds[a])
          BY <1>3 DEF Inv, CountInv, RowCounts
    <2>2. \A i \in batch : ItemCounts(i)
          BY <1>1, <1>5 DEF Inv, CountInv, RowCounts, ItemCounts
    <2> QED  BY <1>2, <1>8, <2>1, <2>2 DEF Inv, CountInv, ItemCounts, ResultCounts
  <1>11. FiledInv'  BY <1>2, <1>3 DEF Inv, FiledInv
  <1>12. HoldInv'
    <2>1. \A a \in Accounts : ~Held(s, a)  BY <1>2 DEF Held
    <2>2. \A a \in Accounts : Held(s, a)' <=> a \in S  BY <1>1, <1>2, <1>5, <1>7, <1>8 DEF Held
    <2>3. \A t \in Senders : t # s => \A a \in Accounts : Held(t, a)' = Held(t, a)
          BY <1>2, <1>8 DEF Held
    <2>4. \A t \in Senders : Once(t)'  BY <1>2, <1>6, <1>8 DEF Inv, HoldInv, Once
    <2> SUFFICES ASSUME NEW a \in Accounts, NEW t \in Senders, Held(t, a)'
                 PROVE  /\ row'[a].status # "none"
                        /\ a \notin lapsed' =>
                              /\ row'[a].status = "pending" /\ ~row'[a].due
                              /\ \A u \in Senders : Held(u, a)' => u = t
        BY <2>4 DEF HoldInv
    <2>5. CASE a \in S
      <3>1. row'[a].status = "pending" /\ ~row'[a].due  BY <1>1, <1>3, <2>5
      <3>2. ASSUME NEW u \in Senders, Held(u, a) PROVE a \in lapsed'
        <4>1. a \in lapsed  BY <1>1, <2>5, <3>2 DEF Inv, HoldInv
        <4> QED  BY <1>2, <3>2, <4>1
      <3> QED  BY <2>2, <2>3, <3>1, <3>2
    <2>6. CASE a \notin S
      <3>1. Held(t, a) /\ t # s  BY <2>2, <2>3, <2>6
      <3>2. a \in lapsed' <=> a \in lapsed  BY <1>2, <2>6
      <3>3. \A u \in Senders : Held(u, a)' => Held(u, a)  BY <2>2, <2>3, <2>6
      <3> QED  BY <1>3, <2>6, <3>1, <3>2, <3>3 DEF Inv, HoldInv
    <2> QED  BY <2>5, <2>6
  <1> QED  BY <1>9, <1>10, <1>11, <1>12 DEF Inv

(* An attempt: the count it goes into is one more, and so is what was      *)
(* really tried.                                                           *)
LEMMA SendKeeps ==
    ASSUME Inv, NEW s \in Senders, NEW item \in work[s], NEW reply \in Reply, Send(s, item, reply)
    PROVE  Inv'
  <1> DEFINE a == item.acct
             verdict == Classify(reply, item.attempts + 1)
             r == [item |-> item, outcome |-> verdict]
  <1>1. /\ result[s] = None /\ work' = [work EXCEPT ![s] = @ \ {item}]
        /\ result' = [result EXCEPT ![s] = r]
        /\ grounds' = [grounds EXCEPT ![a] = IF reply = "4xx" THEN MaxAttempts
                                             ELSE Capped(@ + 1, MaxAttempts)]
        /\ UNCHANGED <<account, row, queued, lapsed, aborts>>
        BY DEF Send
  <1>2. item \in Claimed /\ a \in Accounts /\ item.attempts \in 0..MaxAttempts
        BY DEF Inv, Typed, Claimed
  <1>3. item.attempts < MaxAttempts /\ item.attempts <= grounds[a] /\ grounds[a] \in 0..MaxAttempts
        BY <1>2 DEF Inv, CountInv, ItemCounts, Typed
  <1>4. filed \subseteq filed' /\ filed' \in SUBSET Accounts /\ (verdict = "done" => a \in filed')
    <2>1. filed' \in {filed, filed \cup {a}} /\ (reply = "2xx" => a \in filed')
          BY DEF Send, Reply
    <2>2. verdict = "done" => reply = "2xx"  BY DEF Classify, Reply
    <2> QED  BY <1>2, <2>1, <2>2 DEF Inv, Typed
  <1>5. /\ grounds'[a] \in 0..MaxAttempts /\ grounds'[a] >= item.attempts + 1
        /\ grounds'[a] >= grounds[a] /\ (reply = "4xx" => grounds'[a] = MaxAttempts)
    <2>1. CASE reply = "4xx"
      <3>1. grounds'[a] = MaxAttempts  BY <1>1, <1>2, <2>1 DEF Inv, Typed
      <3> QED  BY <1>2, <1>3, <3>1, Bounds
    <2>2. CASE reply # "4xx"
      <3>1. grounds'[a] = Capped(grounds[a] + 1, MaxAttempts)  BY <1>1, <1>2, <2>2 DEF Inv, Typed
      <3> QED  BY <1>2, <1>3, <2>2, <3>1, Bounds DEF Capped
    <2> QED  BY <2>1, <2>2
  <1>6. \A b \in Accounts : b # a => grounds'[b] = grounds[b]  BY <1>1, <1>2 DEF Inv, Typed
  <1>7. /\ verdict \in Outcome
        /\ verdict = "retry" => item.attempts + 1 < MaxAttempts
        /\ verdict = "failed" => reply = "4xx" \/ item.attempts + 1 >= MaxAttempts
        BY <1>2, Bounds DEF Classify, Reply, Outcome
  <1>8. r \in Result /\ r.item = item /\ r.outcome = verdict  BY <1>2, <1>7 DEF Result
  <1> HIDE DEF r, verdict
  <1>9. /\ result'[s] = r /\ \A t \in Senders : t # s => result'[t] = result[t] /\ work'[t] = work[t]
        /\ work'[s] = work[s] \ {item}
        BY <1>1 DEF Inv, Typed
  <1>10. \A b \in Accounts :
            grounds'[b] \in 0..MaxAttempts /\ grounds[b] \in 0..MaxAttempts /\ grounds'[b] >= grounds[b]
    <2>1. \A b \in Accounts : grounds[b] \in 0..MaxAttempts  BY DEF Inv, Typed
    <2> QED  BY <1>5, <1>6, <2>1
  <1>11. Typed'
    <2>1. grounds' \in [Accounts -> 0..MaxAttempts]
      <3>1. DOMAIN grounds' = Accounts /\ grounds' = [b \in Accounts |-> grounds'[b]]
            BY <1>1 DEF Inv, Typed
      <3> QED  BY <1>10, <3>1
    <2>2. work' \in [Senders -> SUBSET Claimed]  BY <1>1 DEF Inv, Typed
    <2>3. result' \in [Senders -> Result \cup {None}]  BY <1>1, <1>8 DEF Inv, Typed
    <2> QED  BY <1>1, <1>4, <2>1, <2>2, <2>3 DEF Inv, Typed
  <1>12. CountInv'
    <2>1. \A b \in Accounts : RowCounts(row'[b], grounds'[b])
      <3> TAKE b \in Accounts
      <3>1. RowCounts(row[b], grounds[b]) /\ row[b].attempts \in 0..MaxAttempts
            BY DEF Inv, CountInv, Typed, Row
      <3> QED  BY <1>1, <1>10, <3>1, Bounds DEF RowCounts
    <2>2. \A t \in Senders : \A i \in work'[t] : ItemCounts(i)'
      <3> TAKE t \in Senders
      <3> TAKE i \in work'[t]
      <3>1. i \in work[t]  BY <1>9
      <3>2. ItemCounts(i) /\ i \in Claimed  BY <3>1 DEF Inv, CountInv, Typed
      <3>3. i.acct \in Accounts /\ i.attempts \in 0..MaxAttempts  BY <3>2 DEF Claimed
      <3> QED  BY <1>10, <3>2, <3>3, Bounds DEF ItemCounts
    <2>3. ResultCounts(r)'
          BY <1>2, <1>3, <1>5, <1>7, <1>8, Bounds DEF ResultCounts
    <2>4. \A t \in Senders : t # s /\ result[t] # None => ResultCounts(result[t])'
      <3> TAKE t \in Senders
      <3> HAVE t # s /\ result[t] # None
      <3>1. ResultCounts(result[t]) /\ result[t] \in Result  BY DEF Inv, CountInv, Typed
      <3>2. result[t].item.acct \in Accounts /\ result[t].item.attempts \in 0..MaxAttempts
            BY <3>1 DEF Result, Claimed
      <3>3. result'[t] = result[t]  BY <1>9
      <3> QED  BY <1>10, <3>1, <3>2, <3>3, Bounds DEF ResultCounts
    <2> QED  BY <1>9, <2>1, <2>2, <2>3, <2>4 DEF CountInv
  <1>13. FiledInv'  BY <1>1, <1>4, <1>8, <1>9 DEF Inv, FiledInv
  <1>14. HoldInv'
    <2>1. LessInHand
      <3> SUFFICES ASSUME NEW t \in Senders, NEW b \in Accounts, Held(t, b)' PROVE Held(t, b)
          BY DEF LessInHand
      <3> QED  BY <1>8, <1>9 DEF Held
    <2>2. \A t \in Senders : Once(t)'
          BY <1>8, <1>9 DEF Inv, HoldInv, Once
    <2>3. lapsed' = lapsed /\ row' = row  BY <1>1
    <2> QED  BY <2>1, <2>2, <2>3, HoldKeeps DEF Inv, HoldInv, LessInHand
  <1> QED  BY <1>11, <1>12, <1>13, <1>14 DEF Inv

(* A record that comes late still carries a count that was really made and *)
(* an outcome that holds; it frees the sender of its report.               *)
LEMMA RecordKeeps ==
    ASSUME Inv, NEW s \in Senders, Record(s)
    PROVE  Inv'
  <1>1. result[s] # None /\ result[s] \in Result /\ ResultCounts(result[s])
        BY DEF Record, Inv, Typed, CountInv
  <1>2. PICK r \in Result, a \in Accounts, n \in Nat :
           r = result[s] /\ a = r.item.acct /\ n = r.item.attempts + 1
        BY <1>1, Bounds DEF Result, Claimed
  <1>3. /\ r.outcome \in Outcome
        /\ result' = [result EXCEPT ![s] = None]
        /\ row' = CASE row[a].status = "none" -> row
                    [] r.outcome = "retry" -> [row EXCEPT ![a].attempts = n, ![a].due = FALSE]
                    [] OTHER -> [row EXCEPT ![a] = [status |-> r.outcome, attempts |-> n, due |-> FALSE]]
        /\ UNCHANGED <<account, work, filed, grounds, queued, lapsed, aborts>>
        BY <1>2 DEF Record, Result
  <1>4. /\ n \in 0..MaxAttempts /\ n <= grounds[a] /\ grounds[a] \in 0..MaxAttempts
        /\ r.outcome = "retry" => n < MaxAttempts
        /\ r.outcome = "failed" => grounds[a] = MaxAttempts
        BY <1>1, <1>2, Bounds DEF ResultCounts, Inv, Typed
  <1>5. r.outcome = "done" => a \in filed  BY <1>1, <1>2 DEF Inv, FiledInv
  <1>6. Held(s, a) /\ row[a].status # "none"  BY <1>1, <1>2 DEF Held, Inv, HoldInv
  <1>7. row[a] \in Row /\ row \in [Accounts -> Row]  BY DEF Inv, Typed
  <1>8. PICK new \in Row :
           /\ row' = [row EXCEPT ![a] = new]
           /\ new.attempts = n /\ ~new.due
           /\ \/ r.outcome = "retry" /\ new.status = row[a].status
              \/ r.outcome \in {"done", "failed"} /\ new.status = r.outcome
    <2>1. CASE r.outcome = "retry"
      <3> DEFINE new == [row[a] EXCEPT !.attempts = n, !.due = FALSE]
      <3>1. row' = [row EXCEPT ![a] = new]  BY <1>3, <1>6, <1>7, <2>1
      <3>2. /\ new \in Row /\ new.attempts = n /\ ~new.due /\ new.status = row[a].status
            BY <1>4, <1>7 DEF Row
      <3> QED  BY <2>1, <3>1, <3>2
    <2>2. CASE r.outcome # "retry"
      <3> DEFINE new == [status |-> r.outcome, attempts |-> n, due |-> FALSE]
      <3>1. row' = [row EXCEPT ![a] = new]  BY <1>3, <1>6, <2>2
      <3>2. r.outcome \in {"done", "failed"}  BY <1>3, <2>2 DEF Outcome
      <3>3. new \in Row  BY <1>4, <3>2 DEF Row
      <3> QED  BY <3>1, <3>2, <3>3
    <2> QED  BY <2>1, <2>2
  <1>9. row'[a] = new /\ \A b \in Accounts : b # a => row'[b] = row[b]  BY <1>7, <1>8
  <1>10. result'[s] = None /\ \A t \in Senders : t # s => result'[t] = result[t]
         BY <1>3 DEF Inv, Typed
  <1>11. Typed'  BY <1>3, <1>7, <1>8 DEF Inv, Typed
  <1>12. CountInv'
    <2>1. RowCounts(new, grounds[a])
      <3>1. RowCounts(row[a], grounds[a])  BY DEF Inv, CountInv
      <3> QED  BY <1>4, <1>8, <3>1, Bounds DEF RowCounts
    <2> QED  BY <1>3, <1>9, <1>10, <2>1 DEF Inv, CountInv, ItemCounts, ResultCounts
  <1>13. FiledInv'
    <2>1. new.status # "none" /\ (new.status = "done" => a \in filed)
          BY <1>3, <1>5, <1>6, <1>8 DEF Inv, FiledInv
    <2>2. \A b \in Accounts : row'[b].status = "done" => b \in filed
          BY <1>9, <2>1 DEF Inv, FiledInv
    <2>3. \A b \in Accounts : row'[b].status = "none" /\ queued[b] > 0 => b \in filed
          BY <1>9, <2>1 DEF Inv, FiledInv
    <2>4. \A t \in Senders : result'[t] = None \/ result'[t] = result[t]  BY <1>10
    <2>5. filed' = filed /\ queued' = queued  BY <1>3
    <2>6. \A t \in Senders : result'[t] # None /\ result'[t].outcome = "done"
                                => result'[t].item.acct \in filed
          BY <2>4 DEF Inv, FiledInv
    <2> QED  BY <2>2, <2>3, <2>5, <2>6 DEF FiledInv
  <1>14. HoldInv'
    <2>1. LessInHand  BY <1>3, <1>10 DEF LessInHand, Held
    <2>2. \A t \in Senders : Once(t)'  BY <1>3, <1>10 DEF Inv, HoldInv, Once
    <2>3. ~Held(s, a)'
      <3>1. \A i \in work[s] : i.acct # a  BY <1>1, <1>2 DEF Inv, HoldInv, Once
      <3> QED  BY <1>3, <1>10, <3>1 DEF Held
    <2>4. ASSUME NEW t \in Senders, NEW b \in Accounts, Held(t, b)'
          PROVE  /\ row'[b].status # "none"
                 /\ b \notin lapsed' => row'[b].status = "pending" /\ ~row'[b].due
      <3>1. Held(t, b)  BY <2>1, <2>4 DEF LessInHand
      <3>2. CASE b = a
        <4>1. t # s  BY <2>3, <2>4, <3>2
        <4>2. a \in lapsed  BY <1>6, <3>1, <3>2, <4>1 DEF Inv, HoldInv
        <4> QED  BY <1>3, <1>6, <1>8, <1>9, <3>2, <4>2
      <3>3. CASE b # a  BY <1>3, <1>9, <3>1, <3>3 DEF Inv, HoldInv
      <3> QED  BY <3>2, <3>3
    <2> QED  BY <1>3, <2>1, <2>2, <2>4, HoldKeeps DEF Inv
  <1> QED  BY <1>11, <1>12, <1>13, <1>14 DEF Inv

LEMMA AbortKeeps ==
    ASSUME Inv, NEW s \in Senders, Abort(s)
    PROVE  Inv'
  <1>1. /\ aborts < MaxAborts /\ aborts' = aborts + 1
        /\ work' = [work EXCEPT ![s] = {}] /\ result' = [result EXCEPT ![s] = None]
        /\ UNCHANGED <<account, row, filed, grounds, queued, lapsed>>
        BY DEF Abort
  <1>2. /\ work'[s] = {} /\ result'[s] = None
        /\ \A t \in Senders : t # s => work'[t] = work[t] /\ result'[t] = result[t]
        BY <1>1 DEF Inv, Typed
  <1>3. Typed'
    <2>1. aborts' \in 0..MaxAborts  BY <1>1, Bounds DEF Inv, Typed
    <2> QED  BY <1>1, <2>1 DEF Inv, Typed
  <1>4. CountInv'  BY <1>1, <1>2 DEF Inv, CountInv, ItemCounts, ResultCounts
  <1>5. FiledInv'  BY <1>1, <1>2 DEF Inv, FiledInv
  <1>6. HoldInv'
    <2>1. LessInHand  BY <1>2 DEF LessInHand, Held
    <2>2. \A t \in Senders : Once(t)'  BY <1>2 DEF Inv, HoldInv, Once
    <2> QED  BY <1>1, <2>1, <2>2, HoldKeeps DEF Inv, HoldInv, LessInHand
  <1> QED  BY <1>3, <1>4, <1>5, <1>6 DEF Inv

(* One row changes that no sender has in hand, or a row comes due.         *)
LEMMA DueKeeps ==
    ASSUME Inv, NEW a \in Accounts, Due(a)
    PROVE  Inv'
  <1> DEFINE new == [row[a] EXCEPT !.due = TRUE]
  <1>1. /\ row[a].status = "pending" /\ row' = [row EXCEPT ![a] = new]
        /\ lapsed' = IF \E s \in Senders : Held(s, a) THEN lapsed \cup {a} ELSE lapsed
        /\ UNCHANGED <<account, work, result, filed, grounds, queued, aborts>>
        BY DEF Due
  <1>2. row \in [Accounts -> Row] /\ row[a] \in Row  BY DEF Inv, Typed
  <1>3. new \in Row /\ new.status = "pending" /\ new.attempts = row[a].attempts
        BY <1>1, <1>2 DEF Row
  <1> HIDE DEF new
  <1>4. row'[a] = new /\ \A b \in Accounts : b # a => row'[b] = row[b]  BY <1>1, <1>2
  <1>5. Typed'  BY <1>1, <1>2, <1>3 DEF Inv, Typed
  <1>6. CountInv'
    <2>1. RowCounts(new, grounds[a])  BY <1>1, <1>3 DEF Inv, CountInv, RowCounts
    <2> QED  BY <1>1, <1>4, <2>1 DEF Inv, CountInv, ItemCounts, ResultCounts
  <1>7. FiledInv'  BY <1>1, <1>3, <1>4 DEF Inv, FiledInv
  <1>8. HoldInv'
    <2>1. lapsed \subseteq lapsed'  BY <1>1
    <2>2. (\E s \in Senders : Held(s, a)) => a \in lapsed'  BY <1>1
    <2> QED  BY <1>1, <1>3, <1>4, <2>1, <2>2, SendersStay, HoldKeeps DEF Inv, HoldInv
  <1> QED  BY <1>5, <1>6, <1>7, <1>8 DEF Inv

LEMMA CleanupKeeps ==
    ASSUME Inv, NEW a \in Accounts, Cleanup(a)
    PROVE  Inv'
  <1>1. /\ row[a].status = "done" /\ \A s \in Senders : ~Held(s, a)
        /\ row' = [row EXCEPT ![a] = NoRow]
        /\ UNCHANGED <<account, work, result, filed, grounds, queued, lapsed, aborts>>
        BY DEF Cleanup, Sweep
  <1>2. NoRow \in Row /\ NoRow.status = "none" /\ NoRow.attempts = 0  BY Bounds DEF NoRow, Row
  <1>3. row'[a] = NoRow /\ \A b \in Accounts : b # a => row'[b] = row[b]
        BY <1>1 DEF Inv, Typed
  <1>4. Typed'  BY <1>1, <1>2 DEF Inv, Typed
  <1>5. CountInv'
    <2>1. RowCounts(NoRow, grounds[a])  BY <1>2, Bounds DEF RowCounts, Inv, Typed
    <2> QED  BY <1>1, <1>3, <2>1 DEF Inv, CountInv, ItemCounts, ResultCounts
  <1>6. FiledInv'  BY <1>1, <1>2, <1>3 DEF Inv, FiledInv
  <1>7. HoldInv'  BY <1>1, <1>3, SendersStay, HoldKeeps DEF Inv, HoldInv
  <1> QED  BY <1>4, <1>5, <1>6, <1>7 DEF Inv

(* A report given up while somebody has it in hand is one whose lease had  *)
(* run out: starting it anew lets nobody else in who was kept out.         *)
LEMMA RequeueKeeps ==
    ASSUME Inv, Requeue
    PROVE  Inv'
  <1>1. /\ row' = [a \in Accounts |-> IF row[a].status = "failed" THEN Fresh ELSE row[a]]
        /\ UNCHANGED <<account, work, result, filed, grounds, queued, lapsed, aborts>>
        BY DEF Requeue
  <1>2. Fresh \in Row /\ Fresh.status = "pending" /\ Fresh.attempts = 0  BY Bounds DEF Fresh, Row
  <1>3. \A a \in Accounts : row'[a] = row[a] \/ (row[a].status = "failed" /\ row'[a] = Fresh)
    <2> TAKE a \in Accounts
    <2>1. row'[a] = IF row[a].status = "failed" THEN Fresh ELSE row[a]  BY <1>1
    <2> QED  BY <2>1
  <1>4. Typed'  BY <1>1, <1>2 DEF Inv, Typed
  <1>5. CountInv'
    <2>1. \A a \in Accounts : RowCounts(Fresh, grounds[a])
          BY <1>2, Bounds DEF RowCounts, Inv, Typed
    <2> QED  BY <1>1, <1>3, <2>1 DEF Inv, CountInv, ItemCounts, ResultCounts
  <1>6. FiledInv'  BY <1>1, <1>2, <1>3 DEF Inv, FiledInv
  <1>7. HoldInv'  BY <1>1, <1>2, <1>3, SendersStay, HoldKeeps DEF Inv, HoldInv
  <1> QED  BY <1>4, <1>5, <1>6, <1>7 DEF Inv

-----------------------------------------------------------------------------
LEMMA InitGood == Init => Inv
  <1> SUFFICES ASSUME Init PROVE Inv  OBVIOUS
  <1>1. NoRow \in Row /\ NoRow.status = "none" /\ NoRow.attempts = 0  BY Bounds DEF NoRow, Row
  <1>2. Typed  BY <1>1, Bounds DEF Init, Typed
  <1>3. CountInv  BY <1>1, Bounds DEF Init, CountInv, RowCounts
  <1>4. FiledInv  BY <1>1 DEF Init, FiledInv
  <1>5. HoldInv  BY DEF Init, HoldInv, Once, Held
  <1> QED  BY <1>2, <1>3, <1>4, <1>5 DEF Inv

LEMMA StutterKeeps == ASSUME Inv, UNCHANGED vars PROVE Inv'
  BY DEF vars, Inv, Typed, CountInv, ItemCounts, ResultCounts, FiledInv, HoldInv, Once, Held

LEMMA NextKeeps == Inv /\ [Next]_vars => Inv'
  <1> SUFFICES ASSUME Inv, [Next]_vars PROVE Inv'  OBVIOUS
  <1>1. CASE \E a \in Accounts, kind \in {"customer", "staff"} : Create(a, kind)
        BY <1>1, CreateKeeps
  <1>2. CASE \E a \in Accounts : Backfill(a)  BY <1>2, BackfillKeeps
  <1>3. CASE \E a \in Accounts : Due(a)  BY <1>3, DueKeeps
  <1>4. CASE \E a \in Accounts : Cleanup(a)  BY <1>4, CleanupKeeps
  <1>5. CASE \E s \in Senders : Claim(s)  BY <1>5, ClaimKeeps
  <1>6. CASE \E s \in Senders : \E item \in work[s], reply \in Reply : Send(s, item, reply)
        BY <1>6, SendKeeps
  <1>7. CASE \E s \in Senders : Record(s)  BY <1>7, RecordKeeps
  <1>8. CASE \E s \in Senders : Abort(s)  BY <1>8, AbortKeeps
  <1>9. CASE Requeue  BY <1>9, RequeueKeeps
  <1>10. CASE UNCHANGED vars  BY <1>10, StutterKeeps
  <1> QED  BY <1>1, <1>2, <1>3, <1>4, <1>5, <1>6, <1>7, <1>8, <1>9, <1>10 DEF Next, SenderStep

(* Rows, batches and attempts in hand say the same of each report, in      *)
(* every state that replicas, leases and broken-off passes can reach.      *)
THEOREM Invariant == Spec => []Inv
  <1>1. Inv /\ [][Next]_vars => []Inv  BY NextKeeps, PTL
  <1> QED  BY <1>1, InitGood, PTL DEF Spec

(* No row that is still to be tried has used up its attempts, late records *)
(* included (ClaimCRMEvents, RetryCRMEvent).                               *)
THEOREM TypeCorrect == Spec => []TypeOK
  <1>1. Inv => TypeOK  BY DEF Inv, Typed, CountInv, RowCounts, TypeOK
  <1> QED  BY <1>1, Invariant, PTL

(* A report that was ever queued is on file with NabuCRM or still has a    *)
(* row to be sent from, for any number of replicas that overlap, die and   *)
(* overwrite each other's records (FinishCRMEvent, Cleanup).               *)
THEOREM NothingIsLost == Spec => []NothingLost
  <1>1. Inv => NothingLost
    <2> SUFFICES ASSUME Inv, NEW a \in Accounts
                 PROVE  /\ queued[a] > 0 /\ a \notin filed => row[a].status \in {"pending", "failed"}
                        /\ row[a].status = "done" => a \in filed
        BY DEF NothingLost
    <2>1. row[a].status \in {"none", "pending", "done", "failed"}  BY DEF Inv, Typed, Row
    <2> QED  BY <2>1 DEF Inv, FiledInv
  <1> QED  BY <1>1, Invariant, PTL

(* A report is marked failed only for an answer that refuses it or after   *)
(* MaxAttempts attempts really made, whichever senders made them           *)
(* (Classify, FinishCRMEvent).                                             *)
THEOREM GivenUpOnlyForCause == Spec => []GivenUpForCause
  <1>1. Inv => GivenUpForCause
        BY Bounds DEF Inv, CountInv, RowCounts, GivenUpForCause
  <1> QED  BY <1>1, Invariant, PTL

(* Two senders have one report in hand only after its lease has run out    *)
(* (ClaimCRMEvents): neither a requeue by an operator nor a late record,   *)
(* nor a backfill, brings a leased row back into reach.                    *)
THEOREM ClaimsExclude == Spec => []ClaimExcludes
  <1>1. Inv => ClaimExcludes  BY DEF Inv, HoldInv, ClaimExcludes
  <1> QED  BY <1>1, Invariant, PTL
=============================================================================
