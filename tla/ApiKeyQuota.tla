---------------------------- MODULE ApiKeyQuota ----------------------------
(***************************************************************************)
(* The api_keys table and everything that writes its quota columns:        *)
(*   - the usage consumer, which adds deltas in one UPDATE;                *)
(*   - the quota_resetter cron, which reads all rows and then writes them  *)
(*     back one by one (runs may overlap);                                 *)
(*   - Authenticate, which resets a key the cron has not reset yet;        *)
(*   - the panel, which creates, edits and deletes keys.                   *)
(*                                                                         *)
(* UpdateApiKeyQuota writes columns from the row its caller read earlier,  *)
(* so a reset is two steps: a read that keeps a snapshot in `held`, and a  *)
(* write that uses it.  Time is counted in minutes.                        *)
(***************************************************************************)
EXTENDS Integers, FiniteSets

CONSTANTS
    Keys,        \* api key ids
    Jobs,        \* runs of quota_resetter that may be in progress at once
    Requests,    \* Authenticate calls that may be in progress at once
    Strategies,  \* quota periods the panel may choose
    Allowances,  \* reserved_tokens values the panel may choose
    ResetDates,  \* quota_reset_at dates the panel may ask for
    Deltas,      \* token counts a usage record may report
    MaxTime,     \* bound: the last minute of the clock
    MaxTokens    \* bound: no delta takes quota_tokens above this

Periods == {"forever", "month", "week", "day", "hour", "minute"}

ASSUME WritersAssumption == Jobs \cap Requests = {}

ASSUME InputsAssumption ==
    /\ Strategies \subseteq Periods
    /\ Allowances \subseteq Nat
    /\ ResetDates \subseteq Nat
    /\ Deltas \subseteq Nat

ASSUME BoundsAssumption == MaxTime \in Nat /\ MaxTokens \in Nat

VARIABLES
    now,    \* the wall clock, in minutes
    table,  \* table[k]: the row of key k
    held,   \* held[w][k]: the row of k that writer w has read and not yet
            \* handled; an absent row when there is none
    chosen  \* history: the keys whose reset date was last set by an edit

vars == <<now, table, held, chosen>>

Writers == Jobs \cup Requests

Row == [status   : {"absent", "live", "deleted"},
        active   : BOOLEAN,
        setted   : BOOLEAN,
        tokens   : Nat,
        period   : Periods,
        resetAt  : Nat,
        reserved : Nat]

AbsentRow == [status |-> "absent", active |-> FALSE, setted |-> FALSE,
              tokens |-> 0, period |-> "forever", resetAt |-> 0,
              reserved |-> 0]

Holds(w, k) == held[w][k].status # "absent"

Idle(w) == \A k \in Keys : ~Holds(w, k)

\* QuotaPeriod.ToDuration, in minutes.
ToDuration == [p \in Periods |->
    CASE p = "forever" -> 60 * 24 * 365 * 10
      [] p = "month"   -> 60 * 24 * 30
      [] p = "week"    -> 60 * 24 * 7
      [] p = "day"     -> 60 * 24
      [] p = "hour"    -> 60
      [] p = "minute"  -> 1]

----------------------------------------------------------------------------
(***************************************************************************)
(* The repository.                                                         *)
(***************************************************************************)

\* The row an INSERT leaves: the columns it does not name take the defaults
\* of the migrations.
FreshRow == [status |-> "live", active |-> TRUE, setted |-> FALSE,
             tokens |-> 0, period |-> "forever", resetAt |-> now,
             reserved |-> 0]

\* Mutant: the reset forgets to zero the consumption.
RefreshedKeepsTokens(row) ==
    IF row.setted /\ row.resetAt < now
      THEN [row EXCEPT !.resetAt = @ + ToDuration[row.period]]
      ELSE row

\* UpdateApiKeyQuota first moves the caller's row one period on, if due.
Refreshed(row) ==
    IF row.setted /\ row.resetAt < now
      THEN [row EXCEPT !.resetAt = @ + ToDuration[row.period], !.tokens = 0]
      ELSE row

\* Mutants: one of the four columns is left out of the UPDATE.
UpdateQuotaWithoutReserved(k, row) ==
    /\ table' = [table EXCEPT ![k].tokens  = Refreshed(row).tokens,
                              ![k].period  = Refreshed(row).period,
                              ![k].resetAt = Refreshed(row).resetAt]
    /\ chosen' = chosen \ {k}

UpdateQuotaWithoutPeriod(k, row) ==
    /\ table' = [table EXCEPT ![k].tokens   = Refreshed(row).tokens,
                              ![k].resetAt  = Refreshed(row).resetAt,
                              ![k].reserved = Refreshed(row).reserved]
    /\ chosen' = chosen \ {k}

\* ... and then writes four columns of it over the row now in the table.
\* There is no is_deleted condition.
UpdateApiKeyQuota(k, row) ==
    /\ table' = [table EXCEPT ![k].tokens   = Refreshed(row).tokens,
                              ![k].period   = Refreshed(row).period,
                              ![k].resetAt  = Refreshed(row).resetAt,
                              ![k].reserved = Refreshed(row).reserved]
    /\ chosen' = chosen \ {k}

\* AddApiKeyQuotaUsage: one UPDATE relative to the value in the table.
AddApiKeyQuotaUsage(k, delta) ==
    /\ delta # 0
    /\ table[k].status # "absent"
    /\ table[k].tokens + delta <= MaxTokens
    /\ table' = [table EXCEPT ![k].tokens = @ + delta]
    /\ UNCHANGED <<now, held, chosen>>

----------------------------------------------------------------------------
(***************************************************************************)
(* The panel.  EditApiKey reads the row first, but every column it writes  *)
(* comes from the request, and the condition on is_deleted is part of the  *)
(* UPDATE; so it is one step.  A request the handler refuses changes       *)
(* nothing and is no step.                                                 *)
(***************************************************************************)
CreateApiKey(k) ==
    /\ table[k].status = "absent"
    /\ table' = [table EXCEPT ![k] = FreshRow]
    /\ UNCHANGED <<now, held, chosen>>

EditedResetAt(setted, period, date) ==
    CASE ~setted \/ period = "forever" -> now
      [] setted /\ period # "forever" /\ date > now -> date
      [] OTHER -> now + ToDuration[period]

\* Mutant: the UPDATE has no is_deleted condition.
UpdateDeletedApiKey(k, active, setted, period, resetAt, reserved) ==
    /\ table[k].status # "absent"
    /\ table' = [table EXCEPT ![k].active   = active,
                              ![k].setted   = setted,
                              ![k].period   = period,
                              ![k].resetAt  = resetAt,
                              ![k].reserved = reserved]
    /\ chosen' = chosen \cup {k}

\* The UPDATE of an edit: not of quota_tokens, and not of a deleted row.
UpdateApiKey(k, active, setted, period, resetAt, reserved) ==
    /\ table[k].status = "live"
    /\ table' = [table EXCEPT ![k].active   = active,
                              ![k].setted   = setted,
                              ![k].period   = period,
                              ![k].resetAt  = resetAt,
                              ![k].reserved = reserved]
    /\ chosen' = chosen \cup {k}

EditApiKey(k, active, setted, period, allowance, date) ==
    /\ setted => allowance > 0
    /\ UpdateApiKey(k, active, setted,
                    IF setted THEN period ELSE "forever",
                    EditedResetAt(setted, period, date),
                    IF setted THEN allowance ELSE 0)
    /\ UNCHANGED <<now, held>>

DeleteApiKey(k) ==
    /\ table[k].status = "live"
    /\ table' = [table EXCEPT ![k].status = "deleted"]
    /\ UNCHANGED <<now, held, chosen>>

----------------------------------------------------------------------------
(***************************************************************************)
(* quota_resetter: GetApiKeys once, then one row at a time, in any order   *)
(* (the query has no ORDER BY).  A failed UPDATE is logged and skipped.    *)
(***************************************************************************)
CronRead(j) ==
    /\ Idle(j)
    /\ held' = [held EXCEPT
                  ![j] = [k \in Keys |-> IF table[k].status = "live"
                                           THEN table[k] ELSE AbsentRow]]
    /\ UNCHANGED <<now, table, chosen>>

Release(w, k) == held' = [held EXCEPT ![w][k] = AbsentRow]

CronWrite(j, k) ==
    /\ Holds(j, k)
    /\ held[j][k].resetAt < now
    /\ UpdateApiKeyQuota(k, held[j][k])
    /\ Release(j, k)
    /\ UNCHANGED now

\* The row is not due, or its UPDATE fails.
CronSkip(j, k) ==
    /\ Holds(j, k)
    /\ Release(j, k)
    /\ UNCHANGED <<now, table, chosen>>

----------------------------------------------------------------------------
(***************************************************************************)
(* Authenticate.  Admitting or refusing without a reset changes no quota   *)
(* column; the step below is the branch that resets a spent key whose      *)
(* period is over.  The request is admitted whether or not the UPDATE      *)
(* succeeds.                                                               *)
(***************************************************************************)
LoginUser(k) == table[k].status = "live" /\ table[k].active

Authenticate(r, k) ==
    /\ Idle(r)
    /\ LoginUser(k)
    /\ table[k].setted /\ table[k].period # "forever"
    /\ table[k].tokens >= table[k].reserved
    /\ table[k].resetAt < now
    /\ held' = [held EXCEPT ![r][k] = table[k]]
    /\ UNCHANGED <<now, table, chosen>>

AuthReset(r, k) ==
    /\ Holds(r, k)
    /\ UpdateApiKeyQuota(k, held[r][k])
    /\ Release(r, k)
    /\ UNCHANGED now

AuthResetFails(r, k) ==
    /\ Holds(r, k)
    /\ Release(r, k)
    /\ UNCHANGED <<now, table, chosen>>

----------------------------------------------------------------------------
Tick ==
    /\ now < MaxTime
    /\ now' = now + 1
    /\ UNCHANGED <<table, held, chosen>>

Init ==
    /\ now = 0
    /\ table = [k \in Keys |-> AbsentRow]
    /\ held = [w \in Writers |-> [k \in Keys |-> AbsentRow]]
    /\ chosen = {}

Edit(k) ==
    \E active \in BOOLEAN, setted \in BOOLEAN, period \in Strategies,
       allowance \in Allowances, date \in ResetDates :
        EditApiKey(k, active, setted, period, allowance, date)

Next ==
    \/ Tick
    \/ \E k \in Keys :
         \/ CreateApiKey(k)
         \/ Edit(k)
         \/ DeleteApiKey(k)
         \/ \E delta \in Deltas : AddApiKeyQuotaUsage(k, delta)
         \/ \E j \in Jobs : CronWrite(j, k) \/ CronSkip(j, k)
         \/ \E r \in Requests : \/ Authenticate(r, k)
                                \/ AuthReset(r, k)
                                \/ AuthResetFails(r, k)
    \/ \E j \in Jobs : CronRead(j)

Spec == Init /\ [][Next]_vars

(***************************************************************************)
(* The clock runs, the cron keeps being scheduled, and a run handles every *)
(* key it read.  A database error is transient: the UPDATE of a key that   *)
(* is due again and again succeeds in the end.                             *)
(***************************************************************************)
Fairness ==
    /\ WF_vars(Tick)
    /\ \A j \in Jobs :
         /\ WF_vars(CronRead(j))
         /\ \A k \in Keys : /\ WF_vars(CronWrite(j, k) \/ CronSkip(j, k))
                            /\ SF_vars(CronWrite(j, k))

FairSpec == Spec /\ Fairness

----------------------------------------------------------------------------
(***************************************************************************)
(* Properties.                                                             *)
(***************************************************************************)

\* The rows and the snapshots are rows of the table's schema.
TypeOK ==
    /\ now \in Nat
    /\ table \in [Keys -> Row]
    /\ held \in [Writers -> [Keys -> Row]]
    /\ chosen \in SUBSET Keys

\* What must be true of a row and of every snapshot of it: a periodic key
\* has an allowance, ...
HasAllowance(row) == row.period # "forever" => row.reserved > 0

\* ... and its next reset is at most one period away, or on a date the panel
\* asked for.
DueInTime(row) ==
    \/ row.resetAt <= now + ToDuration[row.period]
    \/ row.resetAt \in ResetDates

\* period and reserved_tokens are never torn apart: however the stale
\* write-backs of the cron and of Authenticate (apikey_repo.go, UpdateApiKeyQuota)
\* interleave with edits, no periodic key is left with an allowance of zero,
\* which Authenticate would refuse in every period.
NoTornQuota == \A k \in Keys : HasAllowance(table[k])

\* quota_period and quota_reset_at are never torn apart: no key waits longer
\* for its reset than one period of its own strategy or the date the panel
\* chose (UpdateApiKeyQuota, EditApiKey).
WindowBounded == \A k \in Keys : DueInTime(table[k])

\* Deleting is final: a late write-back or edit neither revives a deleted
\* key nor changes whether it is active or has a quota (UpdateApiKey's
\* is_deleted condition).
DeletedIsFinal ==
    [][\A k \in Keys : table[k].status = "deleted" =>
          /\ table'[k].status = "deleted"
          /\ table'[k].active = table[k].active
          /\ table'[k].setted = table[k].setted]_vars

\* A key that has used up its allowance.
Spent(k) == table[k].setted /\ table[k].tokens >= table[k].reserved

\* A spent periodic key gets its allowance back after its reset date, even
\* if no request ever asks for it: the cron catches up, whatever stale
\* write-backs and failed UPDATEs happen on the way; only an edit that puts
\* the date beyond the clock's end may prevent it.
QuotaRefills ==
    \A k \in Keys :
        (table[k].status = "live" /\ Spent(k) /\ table[k].period # "forever"
                                 /\ table[k].resetAt < MaxTime)
        ~> \/ ~Spent(k)
           \/ table[k].status = "deleted"
           \/ table[k].period = "forever"
           \/ table[k].resetAt >= MaxTime /\ k \in chosen

----------------------------------------------------------------------------
(***************************************************************************)
(* What the repository says of the quota columns and the code does not do. *)
(***************************************************************************)

\* EditApiKey refuses a quota without an allowance ("reserved_tokens must be
\* greater than zero"), so a key with a quota has one.
QuotaHasAllowance ==
    \A k \in Keys : table[k].setted => table[k].reserved > 0
=============================================================================
