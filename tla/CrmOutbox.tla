----------------------------- MODULE CrmOutbox -----------------------------
(***************************************************************************)
(* Signup reports on their way to NabuCRM: the table crm_outbox            *)
(* (internal/store/store.go), written with the account it reports, and the *)
(* sender loops of the replicas that drain it (internal/crmintake).        *)
(*                                                                         *)
(* Claiming rows is one SQL statement; sending a report and recording what *)
(* became of it are separate steps, so a lease can run out, a statement    *)
(* fail or a process die between them.  There is no clock: a row that is   *)
(* not due becomes due at any time.  An account stands for its event_id    *)
(* and, since rows are queued in account order, for its row's id.          *)
(* NABUGATE_SECRET is set.  NabuCRM is external: all that is assumed of it *)
(* is that a report it files it answers with 2xx, or not at all.           *)
(***************************************************************************)
EXTENDS Naturals, FiniteSets

CONSTANTS Accounts,     \* user ids
          Senders,      \* delivery loops, one per replica
          MaxAttempts,  \* 24 in the code
          Batch,        \* 20 in the code
          MaxAborts,    \* bound: passes that break off while a report is in hand
          QueueCap,     \* bound: how far the history queued counts
          None

ASSUME OutboxAssumption ==
    /\ Accounts \subseteq Nat
    /\ MaxAttempts \in Nat \ {0}
    /\ Batch \in Nat \ {0}
    /\ MaxAborts \in Nat /\ QueueCap \in Nat \ {0}

VARIABLES account,   \* account[a]: not created yet, a customer's or staff
          row,       \* row[a]: the row of crm_outbox
          work,      \* work[s]: what s claimed and has not sent yet
          result,    \* result[s]: an attempt s has made and not recorded yet
          filed,     \* reports NabuCRM has filed
          grounds,   \* history: attempts made for a report; MaxAttempts once refused
          queued,    \* history: how often a report was queued, up to QueueCap
          lapsed,    \* history: reports whose lease ran out in a sender's hands
          aborts     \* passes that broke off

vars == <<account, row, work, result, filed, grounds, queued, lapsed, aborts>>

NoRow == [status |-> "none", attempts |-> 0, due |-> FALSE]
Fresh == [status |-> "pending", attempts |-> 0, due |-> TRUE]
Row == [status : {"none", "pending", "done", "failed"}, attempts : 0..MaxAttempts, due : BOOLEAN]

(* A claimed row, with the attempts it had.                                *)
Claimed == [acct : Accounts, attempts : 0..MaxAttempts]

Outcome == {"done", "retry", "failed"}
Result == [item : Claimed, outcome : Outcome]

(* What comes back: 2xx; 429, 5xx or nothing; another 4xx.                 *)
Reply == {"2xx", "busy", "4xx"}

Capped(n, max) == IF n < max THEN n ELSE max

Held(s, a) == (\E item \in work[s] : item.acct = a) \/ (result[s] # None /\ result[s].item.acct = a)

-----------------------------------------------------------------------------
Init ==
    /\ account = [a \in Accounts |-> "absent"]
    /\ row = [a \in Accounts |-> NoRow]
    /\ work = [s \in Senders |-> {}]
    /\ result = [s \in Senders |-> None]
    /\ filed = {}
    /\ grounds = [a \in Accounts |-> 0]
    /\ queued = [a \in Accounts |-> 0]
    /\ lapsed = {}
    /\ aborts = 0

(* INSERT ... ON CONFLICT (event_id) DO NOTHING.                           *)
Queue(a) ==
    IF row[a].status = "none"
    THEN /\ row' = [row EXCEPT ![a] = Fresh]
         /\ queued' = [queued EXCEPT ![a] = Capped(@ + 1, QueueCap)]
    ELSE UNCHANGED <<row, queued>>

(* createUser and queueSignup: the account and its report in one           *)
(* transaction; reporting may be off, and a report that cannot be queued   *)
(* is rolled back to its savepoint and leaves the account.                 *)
Create(a, kind) ==
    /\ account[a] = "absent"
    /\ account' = [account EXCEPT ![a] = kind]
    /\ \/ kind = "customer" /\ Queue(a)
       \/ UNCHANGED <<row, queued>>
    /\ UNCHANGED <<work, result, filed, grounds, lapsed, aborts>>

(* QueueSignupBackfill, one account of its loop.                           *)
Backfill(a) ==
    /\ account[a] = "customer"
    /\ Queue(a)
    /\ UNCHANGED <<account, work, result, filed, grounds, lapsed, aborts>>

-----------------------------------------------------------------------------
(* ClaimCRMEvents: the first due rows, each pushed out of reach.           *)
Ready == {a \in Accounts : row[a].status = "pending" /\ row[a].due}

First(S) == {a \in S : Cardinality({b \in S : b < a}) < Batch}

Hand(s, S) ==
    /\ work' = [work EXCEPT ![s] = {[acct |-> a, attempts |-> row[a].attempts] : a \in S}]
    /\ lapsed' = {a \in lapsed : a \in S => \E t \in Senders : Held(t, a)}

ClaimWithoutLease(s) ==
    /\ work[s] = {} /\ result[s] = None
    /\ Ready # {}
    /\ Hand(s, First(Ready))
    /\ UNCHANGED <<account, row, result, filed, grounds, queued, aborts>>

Claim(s) ==
    /\ work[s] = {} /\ result[s] = None
    /\ Ready # {}
    /\ Hand(s, First(Ready))
    /\ row' = [a \in Accounts |-> IF a \in First(Ready) THEN [row[a] EXCEPT !.due = FALSE] ELSE row[a]]
    /\ UNCHANGED <<account, result, filed, grounds, queued, aborts>>

(* Classify, and the cap on retries.                                       *)
ClassifyGivesUpEarly(reply, attempts) ==
    CASE reply = "2xx" -> "done"
      [] reply = "4xx" -> "failed"
      [] OTHER         -> IF attempts + 1 >= MaxAttempts THEN "failed" ELSE "retry"

ClassifyOneMore(reply, attempts) ==
    CASE reply = "2xx" -> "done"
      [] reply = "4xx" -> "failed"
      [] OTHER         -> IF attempts > MaxAttempts THEN "failed" ELSE "retry"

Classify(reply, attempts) ==
    CASE reply = "2xx" -> "done"
      [] reply = "4xx" -> "failed"
      [] OTHER         -> IF attempts >= MaxAttempts THEN "failed" ELSE "retry"

(* One signed attempt.  NabuCRM may have filed the report without its      *)
(* answer coming back; a report it has on file already it accepts again.   *)
Send(s, item, reply) ==
    LET a == item.acct IN
    /\ result[s] = None
    /\ item \in work[s]
    /\ work' = [work EXCEPT ![s] = @ \ {item}]
    /\ result' = [result EXCEPT ![s] =
          [item |-> item, outcome |-> Classify(reply, item.attempts + 1)]]
    /\ filed' \in CASE reply = "2xx"  -> {filed \cup {a}}
                   [] reply = "4xx"  -> {filed}
                   [] reply = "busy" -> {filed, filed \cup {a}}
    /\ grounds' = [grounds EXCEPT ![a] = IF reply = "4xx" THEN MaxAttempts ELSE Capped(@ + 1, MaxAttempts)]
    /\ UNCHANGED <<account, row, queued, lapsed, aborts>>

(* FinishCRMEvent or RetryCRMEvent: an UPDATE by id that looks at nothing  *)
(* else, so a late one overwrites what another sender has recorded.        *)
RecordUncounted(s) ==
    /\ result[s] # None
    /\ LET a == result[s].item.acct  n == result[s].item.attempts + 1  IN
       row' = CASE row[a].status = "none" -> row
                [] result[s].outcome = "retry" -> [row EXCEPT ![a].due = FALSE]
                [] OTHER -> [row EXCEPT ![a] = [status |-> result[s].outcome, attempts |-> n, due |-> FALSE]]
    /\ result' = [result EXCEPT ![s] = None]
    /\ UNCHANGED <<account, work, filed, grounds, queued, lapsed, aborts>>

Record(s) ==
    /\ result[s] # None
    /\ LET a == result[s].item.acct  n == result[s].item.attempts + 1  IN
       row' = CASE row[a].status = "none" -> row
                [] result[s].outcome = "retry" -> [row EXCEPT ![a].attempts = n, ![a].due = FALSE]
                [] OTHER -> [row EXCEPT ![a] = [status |-> result[s].outcome, attempts |-> n, due |-> FALSE]]
    /\ result' = [result EXCEPT ![s] = None]
    /\ UNCHANGED <<account, work, filed, grounds, queued, lapsed, aborts>>

(* A pass breaks off: the process dies, or a statement fails and           *)
(* DeliverDue returns with the rest of its batch unsent.                   *)
Abort(s) ==
    /\ aborts < MaxAborts
    /\ aborts' = aborts + 1
    /\ work[s] # {} \/ result[s] # None
    /\ work' = [work EXCEPT ![s] = {}]
    /\ result' = [result EXCEPT ![s] = None]
    /\ UNCHANGED <<account, row, filed, grounds, queued, lapsed>>

-----------------------------------------------------------------------------
(* next_attempt_at passes: a backoff is over, or a lease has run out.      *)
Due(a) ==
    /\ row[a].status = "pending" /\ ~row[a].due
    /\ row' = [row EXCEPT ![a].due = TRUE]
    /\ lapsed' = IF \E s \in Senders : Held(s, a) THEN lapsed \cup {a} ELSE lapsed
    /\ UNCHANGED <<account, work, result, filed, grounds, queued, aborts>>

(* Cleanup, 30 days after the row was done: no sender holds it any more.   *)
Sweep(a, statuses) ==
    /\ row[a].status \in statuses
    /\ \A s \in Senders : ~Held(s, a)
    /\ row' = [row EXCEPT ![a] = NoRow]
    /\ UNCHANGED <<account, work, result, filed, grounds, queued, lapsed, aborts>>

CleanupSettled(a) == Sweep(a, {"done", "failed"})

Cleanup(a) == Sweep(a, {"done"})

(* RequeueFailedCRMEvents, by an operator.                                 *)
Requeue ==
    /\ \E a \in Accounts : row[a].status = "failed"
    /\ row' = [a \in Accounts |-> IF row[a].status = "failed" THEN Fresh ELSE row[a]]
    /\ UNCHANGED <<account, work, result, filed, grounds, queued, lapsed, aborts>>

SenderStep(s) ==
    \/ Claim(s)
    \/ \E item \in work[s], reply \in Reply : Send(s, item, reply)
    \/ Record(s)

Next ==
    \/ \E a \in Accounts, kind \in {"customer", "staff"} : Create(a, kind)
    \/ \E a \in Accounts : Backfill(a) \/ Due(a) \/ Cleanup(a)
    \/ \E s \in Senders : SenderStep(s) \/ Abort(s)
    \/ Requeue

Spec == Init /\ [][Next]_vars

(* The ticker of Run makes pass after pass, a request times out after 15   *)
(* seconds, and time goes on.  Nothing is assumed of NabuCRM's answers.    *)
Fairness ==
    /\ \A s \in Senders : WF_vars(SenderStep(s))
    /\ \A a \in Accounts : WF_vars(Due(a))

FairSpec == Spec /\ Fairness

-----------------------------------------------------------------------------
(* Rows, batches and results are well formed, and a row that is still to be *)
(* tried has attempts left, late records included (attempts >= MaxAttempts  *)
(* is never retried).                                                       *)
TypeOK ==
    /\ account \in [Accounts -> {"absent", "customer", "staff"}]
    /\ row \in [Accounts -> Row]
    /\ work \in [Senders -> SUBSET Claimed]
    /\ result \in [Senders -> Result \cup {None}]
    /\ filed \in SUBSET Accounts
    /\ grounds \in [Accounts -> 0..MaxAttempts]
    /\ queued \in [Accounts -> 0..QueueCap]
    /\ lapsed \in SUBSET Accounts
    /\ aborts \in 0..MaxAborts
    /\ \A a \in Accounts : row[a].status = "pending" => row[a].attempts < MaxAttempts

(* "NabuCRM being down delays a report instead of losing it" (schema.sql):  *)
(* a report that was ever queued is on file with NabuCRM or still has a     *)
(* row to be sent, or sent again, from, and a row is done only for a report *)
(* on file, whatever senders, leases, deaths and Cleanup do.                *)
NothingLost ==
    \A a \in Accounts :
        /\ queued[a] > 0 /\ a \notin filed => row[a].status \in {"pending", "failed"}
        /\ row[a].status = "done" => a \in filed

(* A report is marked failed only when NabuCRM refused it or MaxAttempts    *)
(* attempts were really made, even where overlapping senders overwrite each *)
(* other's count.                                                           *)
GivenUpForCause ==
    \A a \in Accounts : row[a].status = "failed" => grounds[a] >= MaxAttempts

(* The lease and SKIP LOCKED: two senders have one report in hand only      *)
(* after its lease has run out in the hands of a sender.                    *)
ClaimExcludes ==
    \A a \in Accounts, s, t \in Senders : s # t /\ Held(s, a) /\ Held(t, a) => a \in lapsed

(* Every queued report is settled in the end, done or failed: no overlap,   *)
(* late record or broken-off pass keeps one pending for ever.               *)
Settles == \A a \in Accounts : row[a].status = "pending" ~> row[a].status # "pending"

(* "a second run queues nothing and an account the live hook already queued *)
(* is skipped" (QueueSignupBackfill).                                       *)
QueuedOnce == \A a \in Accounts : queued[a] < 2
=============================================================================
