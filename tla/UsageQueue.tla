---------------------------- MODULE UsageQueue ----------------------------
(***************************************************************************)
(* The way of a usage record from the proxy to the database:               *)
(*   - HandleUsage starts a goroutine per record that looks the key up,    *)
(*     waits for room in the quota queue (at most 5 seconds) and then      *)
(*     offers the usage entry to the entry queue, without waiting;         *)
(*   - two ProcessQueue loops take from the queues and write to the        *)
(*     database, and return when the errgroup's context is cancelled,      *)
(*     which happens when another member of the group returns an error.    *)
(* The loops are independent of each other and of the goroutines.          *)
(***************************************************************************)
EXTENDS Integers, Sequences

CONSTANTS
    Records,   \* usage records
    Keys,      \* api key ids
    KeyOf,     \* KeyOf[r]: the principal of the record, a key or the admin
    Cost,      \* Cost[r]: its total tokens
    QueueCap,  \* capacity of the quota queue (1000 in the code)
    EntryCap   \* capacity of the entry queue (1000 in the code)

ASSUME CapAssumption == QueueCap \in Nat \ {0} /\ EntryCap \in Nat \ {0}

ASSUME RecordAssumption == Cost \in [Records -> Nat] /\ DOMAIN KeyOf = Records

VARIABLES
    stage,    \* stage[r]: where the record's goroutine is
    quota,    \* quota[r]: what has become of its quota delta
    entry,    \* entry[r]: what has become of its usage entry
    quotaQ,   \* the channel of ApiKeyRepo
    entryQ,   \* the channel of UsageEntryRepo
    balance,  \* balance[k]: quota_tokens, as far as deltas change it
    running,  \* the errgroup's context is not cancelled
    looping   \* the ProcessQueue loops that have not returned

vars == <<stage, quota, entry, quotaQ, entryQ, balance, running, looping>>

Loops == {"quota", "entry"}

Init ==
    /\ stage = [r \in Records |-> "new"]
    /\ quota = [r \in Records |-> "none"]
    /\ entry = [r \in Records |-> "none"]
    /\ quotaQ = <<>>
    /\ entryQ = <<>>
    /\ balance = [k \in Keys |-> 0]
    /\ running = TRUE
    /\ looping = Loops

----------------------------------------------------------------------------
(***************************************************************************)
(* UsagePlugin.HandleUsage and its goroutine.                              *)
(***************************************************************************)
HandleUsage(r) ==
    /\ stage[r] = "new"
    /\ stage' = [stage EXCEPT ![r] = IF KeyOf[r] \in Keys THEN "lookup"
                                                          ELSE "done"]
    /\ UNCHANGED <<quota, entry, quotaQ, entryQ, balance, running, looping>>

LookupKey(r) ==
    /\ stage[r] = "lookup"
    /\ stage' = [stage EXCEPT ![r] = "quota"]
    /\ UNCHANGED <<quota, entry, quotaQ, entryQ, balance, running, looping>>

\* The query fails, times out or finds no row: the goroutine ends.
LookupFails(r) ==
    /\ stage[r] = "lookup"
    /\ stage' = [stage EXCEPT ![r] = "done"]
    /\ quota' = [quota EXCEPT ![r] = "lost"]
    /\ UNCHANGED <<entry, quotaQ, entryQ, balance, running, looping>>

\* Mutant: the send is retried after it succeeded.
AddToQueueAgain(r) ==
    /\ stage[r] = "quota"
    /\ Len(quotaQ) < QueueCap
    /\ quotaQ' = Append(quotaQ, r)
    /\ quota' = [quota EXCEPT ![r] = "queued"]
    /\ UNCHANGED <<stage, entry, entryQ, balance, running, looping>>

\* ApiKeyRepo.AddToQueue: the send case.
AddToQueue(r) ==
    /\ stage[r] = "quota"
    /\ Len(quotaQ) < QueueCap
    /\ quotaQ' = Append(quotaQ, r)
    /\ quota' = [quota EXCEPT ![r] = "queued"]
    /\ stage' = [stage EXCEPT ![r] = "entry"]
    /\ UNCHANGED <<entry, entryQ, balance, running, looping>>

\* Mutant: AddToQueue without a ctx.Done case.
AddToQueueWithoutDeadline(r) == FALSE /\ stage[r] = "quota" /\ UNCHANGED vars

\* ... and the ctx.Done case.  The deadline may pass while there is room.
\* The error is logged and the goroutine goes on to the usage entry.
AddToQueueTimesOut(r) ==
    /\ stage[r] = "quota"
    /\ quota' = [quota EXCEPT ![r] = "lost"]
    /\ stage' = [stage EXCEPT ![r] = "entry"]
    /\ UNCHANGED <<entry, quotaQ, entryQ, balance, running, looping>>

\* UsageEntryRepo.AddToQueue: send if there is room, otherwise drop.
AddEntry(r) ==
    /\ stage[r] = "entry"
    /\ stage' = [stage EXCEPT ![r] = "done"]
    /\ \/ /\ Len(entryQ) < EntryCap
          /\ entryQ' = Append(entryQ, r)
          /\ entry' = [entry EXCEPT ![r] = "queued"]
       \/ /\ Len(entryQ) >= EntryCap
          /\ entry' = [entry EXCEPT ![r] = "lost"]
          /\ UNCHANGED entryQ
    /\ UNCHANGED <<quota, quotaQ, balance, running, looping>>

----------------------------------------------------------------------------
(***************************************************************************)
(* The ProcessQueue loops.  After the cancellation select may still choose *)
(* the receive case; the statement then fails on the cancelled context.    *)
(***************************************************************************)
\* Mutant: the loop waits for a full batch.
TakeQuotaBatch ==
    /\ "quota" \in looping
    /\ \A r \in Records : quota[r] # "taken"
    /\ Len(quotaQ) = QueueCap
    /\ quotaQ' = Tail(quotaQ)
    /\ quota' = [quota EXCEPT ![Head(quotaQ)] = "taken"]
    /\ UNCHANGED <<stage, entry, entryQ, balance, running, looping>>

TakeQuota ==
    /\ "quota" \in looping
    /\ \A r \in Records : quota[r] # "taken"
    /\ quotaQ # <<>>
    /\ quotaQ' = Tail(quotaQ)
    /\ quota' = [quota EXCEPT ![Head(quotaQ)] = IF running THEN "taken"
                                                           ELSE "lost"]
    /\ UNCHANGED <<stage, entry, entryQ, balance, running, looping>>

\* Mutant: the loop keeps the record for a retry, as if it had failed.
CreditQuotaRetried(r) ==
    /\ quota[r] = "taken"
    /\ balance' = [balance EXCEPT ![KeyOf[r]] = @ + Cost[r]]
    /\ \E next \in {"credited", "taken"} : quota' = [quota EXCEPT ![r] = next]
    /\ UNCHANGED <<stage, entry, quotaQ, entryQ, running, looping>>

\* AddApiKeyQuotaUsage succeeds.
CreditQuota(r) ==
    /\ quota[r] = "taken"
    /\ balance' = [balance EXCEPT ![KeyOf[r]] = @ + Cost[r]]
    /\ quota' = [quota EXCEPT ![r] = "credited"]
    /\ UNCHANGED <<stage, entry, quotaQ, entryQ, running, looping>>

\* ... or fails, and the delta is logged and forgotten.
CreditFails(r) ==
    /\ quota[r] = "taken"
    /\ quota' = [quota EXCEPT ![r] = "lost"]
    /\ UNCHANGED <<stage, entry, quotaQ, entryQ, balance, running, looping>>

TakeEntry ==
    /\ "entry" \in looping
    /\ \A r \in Records : entry[r] # "taken"
    /\ entryQ # <<>>
    /\ entryQ' = Tail(entryQ)
    /\ entry' = [entry EXCEPT ![Head(entryQ)] = IF running THEN "taken"
                                                           ELSE "lost"]
    /\ UNCHANGED <<stage, quota, quotaQ, balance, running, looping>>

SaveUsageEntry(r) ==
    /\ entry[r] = "taken"
    /\ \E result \in {"stored", "lost"} :
         entry' = [entry EXCEPT ![r] = result]
    /\ UNCHANGED <<stage, quota, quotaQ, entryQ, balance, running, looping>>

\* The errgroup's context is cancelled; the loops return when select
\* chooses ctx.Done.  Goroutines of records are not cancelled.
Stop ==
    /\ running
    /\ running' = FALSE
    /\ UNCHANGED <<stage, quota, entry, quotaQ, entryQ, balance, looping>>

ReturnQuota ==
    /\ ~running /\ "quota" \in looping
    /\ \A r \in Records : quota[r] # "taken"
    /\ looping' = looping \ {"quota"}
    /\ UNCHANGED <<stage, quota, entry, quotaQ, entryQ, balance, running>>

ReturnEntry ==
    /\ ~running /\ "entry" \in looping
    /\ \A r \in Records : entry[r] # "taken"
    /\ looping' = looping \ {"entry"}
    /\ UNCHANGED <<stage, quota, entry, quotaQ, entryQ, balance, running>>

----------------------------------------------------------------------------
\* The steps of the goroutine of a record that has been handed over.
Goroutine(r) == \/ LookupKey(r) \/ LookupFails(r)
                \/ AddToQueue(r) \/ AddToQueueTimesOut(r)
                \/ AddEntry(r)

QuotaLoop == TakeQuota \/ (\E r \in Records : CreditQuota(r) \/ CreditFails(r))

EntryLoop == TakeEntry \/ (\E r \in Records : SaveUsageEntry(r))

Next ==
    \/ \E r \in Records : HandleUsage(r) \/ Goroutine(r)
    \/ QuotaLoop \/ ReturnQuota
    \/ EntryLoop \/ ReturnEntry
    \/ Stop

Spec == Init /\ [][Next]_vars

(***************************************************************************)
(* Goroutines are scheduled: each one moves on (its calls have a deadline  *)
(* of 5 seconds), and so do the loops.  Nothing makes records arrive or    *)
(* the application stop.                                                   *)
(***************************************************************************)
Fairness ==
    /\ \A r \in Records : WF_vars(Goroutine(r))
    /\ WF_vars(QuotaLoop \/ ReturnQuota)
    /\ WF_vars(EntryLoop \/ ReturnEntry)

FairSpec == Spec /\ Fairness

----------------------------------------------------------------------------
(***************************************************************************)
(* Properties.                                                             *)
(***************************************************************************)
TypeOK ==
    /\ stage \in [Records -> {"new", "lookup", "quota", "entry", "done"}]
    /\ quota \in [Records -> {"none", "queued", "taken", "credited", "lost"}]
    /\ entry \in [Records -> {"none", "queued", "taken", "stored", "lost"}]
    /\ quotaQ \in Seq(Records)
    /\ entryQ \in Seq(Records)
    /\ balance \in [Keys -> Nat]
    /\ running \in BOOLEAN
    /\ looping \in SUBSET Loops

\* A queue holds exactly the records whose state says so, each once.
Holds(q, state) ==
    /\ \A i \in 1..Len(q) : state[q[i]] = "queued"
    /\ \A i, j \in 1..Len(q) : q[i] = q[j] => i = j
    /\ \A r \in Records : state[r] = "queued" => \E i \in 1..Len(q) : q[i] = r

\* No record is queued twice or lost between the goroutine and the loop, and
\* the channels stay within their capacity (AddToQueue, ProcessQueue).
QueuesHoldTheQueued ==
    /\ Holds(quotaQ, quota) /\ Len(quotaQ) <= QueueCap
    /\ Holds(entryQ, entry) /\ Len(entryQ) <= EntryCap

\* A usage entry is offered only after the fate of the record's quota delta
\* was decided, so what the usage page shows was at least put in for
\* accounting (the order of the two AddToQueue calls in HandleUsage).
EntryAfterQuota == \A r \in Records : entry[r] # "none" => quota[r] # "none"

\* Even at a full queue whose loop has returned, no goroutine of HandleUsage
\* waits forever (the deadline of AddToQueue).
GoroutinesEnd == \A r \in Records : stage[r] # "new" ~> stage[r] = "done"

\* While the application runs, every queued delta is credited or reported
\* as failed.
QueuedIsSettled ==
    \A r \in Records :
        quota[r] = "queued" ~> quota[r] \in {"credited", "lost"} \/ ~running

\* The ledger this pipeline implements: a record is open from the moment
\* it is handed over until its delta is credited or lost.
ledgerBar ==
    [r \in Records |->
        IF quota[r] \in {"credited", "lost"} THEN quota[r]
        ELSE IF quota[r] # "none" THEN "open"
        ELSE IF stage[r] = "new" THEN "new"
        ELSE IF stage[r] = "done" THEN "exempt" ELSE "open"]

Ledger == INSTANCE UsageLedger WITH ledger <- ledgerBar

\* The two queues implement the ledger: each record is settled exactly once.
LedgerSpec == Ledger!Spec
=============================================================================
