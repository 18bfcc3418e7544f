------------------------- MODULE ApiKeyQuotaProofs -------------------------
(***************************************************************************)
(* Proofs about ApiKeyQuota, for any number of keys, overlapping cron runs *)
(* and requests, and any times and token counts.                           *)
(*                                                                         *)
(* What a row must satisfy is not inductive alone: a stale snapshot is     *)
(* written over the row, so the snapshots must satisfy it too.             *)
(***************************************************************************)
EXTENDS ApiKeyQuota, TLAPS

\* Every snapshot a writer still holds could be written back safely.
SnapshotsSound ==
    \A w \in Writers, k \in Keys :
        HasAllowance(held[w][k]) /\ DueInTime(held[w][k])

QuotaInv == TypeOK /\ NoTornQuota /\ WindowBounded /\ SnapshotsSound

----------------------------------------------------------------------------
\* A quota period lasts a whole number of minutes (QuotaPeriod.ToDuration).
LEMMA DurationType == ToDuration \in [Periods -> Nat]
  BY DEF ToDuration, Periods

\* The placeholder for "no row" is a row, and could be written back.
LEMMA AbsentRowSound ==
  ASSUME now \in Nat
  PROVE  /\ AbsentRow \in Row
         /\ HasAllowance(AbsentRow)
         /\ DueInTime(AbsentRow)
  BY DurationType DEF AbsentRow, Row, Periods, HasAllowance, DueInTime

\* Refreshing a snapshot (the first half of UpdateApiKeyQuota) keeps its
\* type, its allowance, and a reset date within one period from now.
LEMMA RefreshedSound ==
  ASSUME now \in Nat,
         NEW row \in Row, HasAllowance(row), DueInTime(row)
  PROVE  /\ Refreshed(row) \in Row
         /\ HasAllowance(Refreshed(row))
         /\ DueInTime(Refreshed(row))
  <1>1. ToDuration[row.period] \in Nat
    BY DurationType DEF Row
  <1>2. CASE row.setted /\ row.resetAt < now
    <2> DEFINE at == row.resetAt + ToDuration[row.period]
               new == [row EXCEPT !.resetAt = at, !.tokens = 0]
    <2>1. Refreshed(row) = new
      BY <1>2 DEF Refreshed
    <2>2. at \in Nat /\ at <= now + ToDuration[row.period]
      BY <1>1, <1>2 DEF Row
    <2> HIDE DEF at
    <2>3. /\ new \in Row
          /\ new.period = row.period
          /\ new.reserved = row.reserved
          /\ new.resetAt = at
      BY <2>2 DEF Row
    <2>. QED
      BY <2>1, <2>2, <2>3 DEF HasAllowance, DueInTime
  <1>3. CASE ~(row.setted /\ row.resetAt < now)
    BY <1>3 DEF Refreshed
  <1>. QED
    BY <1>2, <1>3

----------------------------------------------------------------------------
\* The invariant is true at the start: no row exists and none is held.
LEMMA InitInv == Init => QuotaInv
  <1> SUFFICES ASSUME Init PROVE QuotaInv
    OBVIOUS
  <1>1. now \in Nat
    BY DEF Init
  <1>. QED
    BY <1>1, AbsentRowSound
    DEF Init, QuotaInv, TypeOK, NoTornQuota, WindowBounded, SnapshotsSound

\* Replacing one row of the table by a sound row keeps the table sound.
LEMMA TableStep ==
  ASSUME QuotaInv, UNCHANGED now,
         NEW k \in Keys, NEW row \in Row, HasAllowance(row), DueInTime(row),
         table' = [table EXCEPT ![k] = row]
  PROVE  /\ table' \in [Keys -> Row]
         /\ NoTornQuota'
         /\ WindowBounded'
  <1>1. table' \in [Keys -> Row]
    BY DEF QuotaInv, TypeOK
  <1>2. \A i \in Keys : table'[i] = IF i = k THEN row ELSE table[i]
    BY DEF QuotaInv, TypeOK
  <1>3. NoTornQuota'
    BY <1>2 DEF QuotaInv, NoTornQuota, HasAllowance
  <1>4. WindowBounded'
    BY <1>2 DEF QuotaInv, WindowBounded, DueInTime
  <1>. QED
    BY <1>1, <1>3, <1>4

\* Replacing one held snapshot by a sound row keeps the snapshots sound.
LEMMA HeldStep ==
  ASSUME QuotaInv, UNCHANGED now,
         NEW w \in Writers, NEW k \in Keys,
         NEW row \in Row, HasAllowance(row), DueInTime(row),
         held' = [held EXCEPT ![w][k] = row]
  PROVE  held' \in [Writers -> [Keys -> Row]] /\ SnapshotsSound'
  <1>1. held' \in [Writers -> [Keys -> Row]]
    BY DEF QuotaInv, TypeOK
  <1>2. \A v \in Writers, i \in Keys :
          held'[v][i] = IF v = w /\ i = k THEN row ELSE held[v][i]
    BY DEF QuotaInv, TypeOK
  <1>3. SnapshotsSound'
    BY <1>2 DEF QuotaInv, SnapshotsSound, HasAllowance, DueInTime
  <1>. QED
    BY <1>1, <1>3

\* The write-back of a held row (UpdateApiKeyQuota by the cron or by
\* Authenticate) preserves the invariant, however stale the row is.
LEMMA WriteBackStep ==
  ASSUME QuotaInv, NEW w \in Writers, NEW k \in Keys,
         UpdateApiKeyQuota(k, held[w][k]), Release(w, k), UNCHANGED now
  PROVE  QuotaInv'
  <1> DEFINE row == Refreshed(held[w][k])
             new == [table[k] EXCEPT !.tokens   = row.tokens,
                                     !.period   = row.period,
                                     !.resetAt  = row.resetAt,
                                     !.reserved = row.reserved]
  <1>1. now \in Nat /\ table[k] \in Row /\ held[w][k] \in Row
    BY DEF QuotaInv, TypeOK
  <1>2. row \in Row /\ HasAllowance(row) /\ DueInTime(row)
    BY <1>1, RefreshedSound DEF QuotaInv, SnapshotsSound
  <1>3. /\ new \in Row
        /\ new.period = row.period
        /\ new.resetAt = row.resetAt
        /\ new.reserved = row.reserved
    BY <1>1, <1>2 DEF Row
  <1>4. HasAllowance(new) /\ DueInTime(new)
    BY <1>2, <1>3 DEF HasAllowance, DueInTime
  <1>5. table' = [table EXCEPT ![k] = new]
    BY <1>1 DEF UpdateApiKeyQuota, QuotaInv, TypeOK, Row
  <1>6. held' \in [Writers -> [Keys -> Row]] /\ SnapshotsSound'
    BY <1>1, AbsentRowSound, HeldStep DEF Release
  <1>7. table' \in [Keys -> Row] /\ NoTornQuota' /\ WindowBounded'
    BY <1>3, <1>4, <1>5, TableStep
  <1>8. chosen' \in SUBSET Keys
    BY DEF UpdateApiKeyQuota, QuotaInv, TypeOK
  <1>. QED
    BY <1>1, <1>6, <1>7, <1>8 DEF QuotaInv, TypeOK

\* A step that only drops a held row preserves the invariant.
LEMMA ReleaseStep ==
  ASSUME QuotaInv, NEW w \in Writers, NEW k \in Keys,
         Release(w, k), UNCHANGED <<now, table, chosen>>
  PROVE  QuotaInv'
  <1>1. now \in Nat
    BY DEF QuotaInv, TypeOK
  <1>2. held' \in [Writers -> [Keys -> Row]] /\ SnapshotsSound'
    BY <1>1, AbsentRowSound, HeldStep DEF Release
  <1>. QED
    BY <1>2 DEF QuotaInv, TypeOK, NoTornQuota, WindowBounded, HasAllowance,
                DueInTime

\* A step of the panel or of the usage consumer, which replaces one row of
\* the table by a sound one, preserves the invariant.
LEMMA RowStep ==
  ASSUME QuotaInv, UNCHANGED <<now, held>>, chosen' \in SUBSET Keys,
         NEW k \in Keys, NEW row \in Row, HasAllowance(row), DueInTime(row),
         table' = [table EXCEPT ![k] = row]
  PROVE  QuotaInv'
  <1>1. table' \in [Keys -> Row] /\ NoTornQuota' /\ WindowBounded'
    BY TableStep
  <1>. QED
    BY <1>1 DEF QuotaInv, TypeOK, SnapshotsSound, HasAllowance, DueInTime

----------------------------------------------------------------------------
\* Every step preserves the invariant.
LEMMA NextInv == QuotaInv /\ [Next]_vars => QuotaInv'
  <1> SUFFICES ASSUME QuotaInv, [Next]_vars PROVE QuotaInv'
    OBVIOUS
  <1> USE DEF QuotaInv
  <1>t. /\ now \in Nat
        /\ \A k \in Keys : table[k] \in Row
        /\ chosen \in SUBSET Keys
    BY DEF TypeOK
  <1>1. CASE Tick
    <2>1. now' = now + 1 /\ now' \in Nat
      BY <1>1, <1>t DEF Tick
    <2>2. \A row \in Row : DueInTime(row) => DueInTime(row)'
      BY <2>1, <1>t, DurationType DEF DueInTime, Row
    <2>3. table' = table /\ held' = held /\ chosen' = chosen
      BY <1>1 DEF Tick
    <2>4. TypeOK' /\ NoTornQuota'
      BY <2>1, <2>3 DEF TypeOK, NoTornQuota, HasAllowance
    <2>5. WindowBounded'
      BY <2>1, <2>3, <1>t, DurationType DEF WindowBounded, DueInTime, Row
    <2>6. SnapshotsSound'
      <3>1. \A w \in Writers, k \in Keys : held[w][k] \in Row
        BY DEF TypeOK
      <3>. QED
        BY <2>1, <2>3, <3>1, <1>t, DurationType
        DEF SnapshotsSound, HasAllowance, DueInTime, Row
    <2>. QED
      BY <2>4, <2>5, <2>6
  <1>2. ASSUME NEW k \in Keys, CreateApiKey(k) PROVE QuotaInv'
    <2>1. FreshRow \in Row /\ HasAllowance(FreshRow) /\ DueInTime(FreshRow)
      BY <1>t, DurationType DEF FreshRow, Row, Periods, HasAllowance, DueInTime
    <2>. QED
      BY <1>2, <2>1, <1>t, RowStep DEF CreateApiKey
  <1>3. ASSUME NEW k \in Keys, Edit(k) PROVE QuotaInv'
    <2>1. PICK active \in BOOLEAN, setted \in BOOLEAN, period \in Strategies,
               allowance \in Allowances, date \in ResetDates :
               EditApiKey(k, active, setted, period, allowance, date)
      BY <1>3 DEF Edit
    <2> DEFINE at == EditedResetAt(setted, period, date)
               per == IF setted THEN period ELSE "forever"
               row == [table[k] EXCEPT
                         !.active = active, !.setted = setted, !.period = per,
                         !.resetAt = at,
                         !.reserved = IF setted THEN allowance ELSE 0]
    <2>2. /\ period \in Periods /\ allowance \in Nat /\ date \in Nat
          /\ ToDuration[period] \in Nat
      BY InputsAssumption, DurationType
    <2>3. per \in Periods /\ ToDuration[per] \in Nat
      BY <2>2, DurationType DEF Periods
    <2>4. at \in Nat /\ (at <= now + ToDuration[per] \/ at \in ResetDates)
      <3>1. CASE ~setted \/ period = "forever"
        BY <3>1, <2>3, <1>t DEF EditedResetAt
      <3>2. CASE setted /\ period # "forever" /\ date > now
        BY <3>2, <2>2 DEF EditedResetAt
      <3>3. CASE setted /\ period # "forever" /\ ~(date > now)
        BY <3>3, <2>2, <1>t DEF EditedResetAt
      <3>. QED
        BY <3>1, <3>2, <3>3
    <2>5. /\ row \in Row /\ row.period = per /\ row.resetAt = at
          /\ row.reserved = IF setted THEN allowance ELSE 0
      <3>1. table[k] \in Row
        BY <1>t
      <3>2. (IF setted THEN allowance ELSE 0) \in Nat
        BY <2>2
      <3>. QED
        BY <3>1, <3>2, <2>3, <2>4 DEF Row
    <2>6. HasAllowance(row)
      BY <2>1, <2>2, <2>5 DEF HasAllowance, EditApiKey
    <2>7. DueInTime(row)
      BY <2>4, <2>5 DEF DueInTime
    <2>8. table' = [table EXCEPT ![k] = row]
      BY <2>1, <1>t DEF EditApiKey, UpdateApiKey, TypeOK, Row
    <2>. QED
      BY <2>1, <2>5, <2>6, <2>7, <2>8, <1>t, RowStep DEF EditApiKey, UpdateApiKey
  <1>4. ASSUME NEW k \in Keys, DeleteApiKey(k) PROVE QuotaInv'
    <2> DEFINE row == [table[k] EXCEPT !.status = "deleted"]
    <2>1. /\ row \in Row /\ row.period = table[k].period
          /\ row.resetAt = table[k].resetAt /\ row.reserved = table[k].reserved
      BY <1>t DEF Row
    <2>2. HasAllowance(row) /\ DueInTime(row)
      BY <2>1 DEF NoTornQuota, WindowBounded, HasAllowance, DueInTime
    <2>3. table' = [table EXCEPT ![k] = row]
      BY <1>4 DEF DeleteApiKey, TypeOK
    <2>. QED
      BY <1>4, <2>1, <2>2, <2>3, <1>t, RowStep DEF DeleteApiKey
  <1>5. ASSUME NEW k \in Keys, NEW delta \in Deltas,
               AddApiKeyQuotaUsage(k, delta)
        PROVE  QuotaInv'
    <2> DEFINE row == [table[k] EXCEPT !.tokens = @ + delta]
    <2>1. /\ row \in Row /\ row.period = table[k].period
          /\ row.resetAt = table[k].resetAt /\ row.reserved = table[k].reserved
      BY <1>t, InputsAssumption DEF Row
    <2>2. HasAllowance(row) /\ DueInTime(row)
      BY <2>1 DEF NoTornQuota, WindowBounded, HasAllowance, DueInTime
    <2>3. table' = [table EXCEPT ![k] = row]
      BY <1>5 DEF AddApiKeyQuotaUsage, TypeOK
    <2>. QED
      BY <1>5, <2>1, <2>2, <2>3, <1>t, RowStep DEF AddApiKeyQuotaUsage
  <1>6. ASSUME NEW k \in Keys, NEW j \in Jobs, CronWrite(j, k) PROVE QuotaInv'
    BY <1>6, WriteBackStep DEF CronWrite, Writers
  <1>7. ASSUME NEW k \in Keys, NEW j \in Jobs, CronSkip(j, k) PROVE QuotaInv'
    BY <1>7, ReleaseStep DEF CronSkip, Writers
  <1>8. ASSUME NEW k \in Keys, NEW r \in Requests, Authenticate(r, k)
        PROVE  QuotaInv'
    <2>1. HasAllowance(table[k]) /\ DueInTime(table[k]) /\ table[k] \in Row
      BY <1>t DEF NoTornQuota, WindowBounded
    <2>2. held' \in [Writers -> [Keys -> Row]] /\ SnapshotsSound'
      BY <1>8, <2>1, HeldStep DEF Authenticate, Writers
    <2>. QED
      BY <1>8, <2>2 DEF Authenticate, TypeOK, NoTornQuota, WindowBounded,
                        HasAllowance, DueInTime
  <1>9. ASSUME NEW k \in Keys, NEW r \in Requests, AuthReset(r, k)
        PROVE  QuotaInv'
    BY <1>9, WriteBackStep DEF AuthReset, Writers
  <1>10. ASSUME NEW k \in Keys, NEW r \in Requests, AuthResetFails(r, k)
         PROVE  QuotaInv'
    BY <1>10, ReleaseStep DEF AuthResetFails, Writers
  <1>11. ASSUME NEW j \in Jobs, CronRead(j) PROVE QuotaInv'
    <2> DEFINE read == [k \in Keys |-> IF table[k].status = "live"
                                         THEN table[k] ELSE AbsentRow]
    <2>1. \A k \in Keys : /\ read[k] \in Row
                          /\ HasAllowance(read[k])
                          /\ DueInTime(read[k])
      BY <1>t, AbsentRowSound DEF NoTornQuota, WindowBounded
    <2>2. held' = [held EXCEPT ![j] = read] /\ UNCHANGED <<now, table, chosen>>
      BY <1>11 DEF CronRead
    <2>3. held' \in [Writers -> [Keys -> Row]]
      BY <2>1, <2>2 DEF TypeOK
    <2>4. \A w \in Writers : held'[w] = IF w = j THEN read ELSE held[w]
      BY <2>2 DEF TypeOK
    <2>5. SnapshotsSound'
      <3> HIDE DEF read
      <3>. QED
        BY <2>1, <2>2, <2>4 DEF SnapshotsSound, HasAllowance, DueInTime
    <2>. QED
      BY <2>2, <2>3, <2>5 DEF TypeOK, NoTornQuota, WindowBounded,
                              HasAllowance, DueInTime
  <1>12. CASE UNCHANGED vars
    BY <1>12 DEF vars, TypeOK, NoTornQuota, WindowBounded, SnapshotsSound,
                 HasAllowance, DueInTime
  <1>. QED
    BY <1>1, <1>2, <1>3, <1>4, <1>5, <1>6, <1>7, <1>8, <1>9, <1>10, <1>11,
       <1>12
    DEF Next

\* The quota columns and the snapshots of them are sound in every state.
THEOREM QuotaInvariant == Spec => []QuotaInv
  BY InitInv, NextInv, PTL DEF Spec

\* Rows and snapshots always have the schema's types.
THEOREM TypeCorrect == Spec => []TypeOK
  BY QuotaInvariant, PTL DEF QuotaInv

\* No interleaving of resets, write-backs and edits leaves a periodic key
\* without an allowance.
THEOREM QuotaIsNotTorn == Spec => []NoTornQuota
  BY QuotaInvariant, PTL DEF QuotaInv

\* No interleaving makes a key wait longer for its reset than one period or
\* the date the panel chose.
THEOREM WindowIsBounded == Spec => []WindowBounded
  BY QuotaInvariant, PTL DEF QuotaInv

----------------------------------------------------------------------------
\* What no step does to a deleted row.
LEMMA DeletedStep ==
  ASSUME TypeOK, [Next]_vars, NEW i \in Keys, table[i].status = "deleted"
  PROVE  /\ table'[i].status = "deleted"
         /\ table'[i].active = table[i].active
         /\ table'[i].setted = table[i].setted
  <1>t. table \in [Keys -> Row]
    BY DEF TypeOK
  <1>1. ASSUME NEW k \in Keys,
               CreateApiKey(k) \/ Edit(k) \/ DeleteApiKey(k)
        PROVE  table'[i] = table[i]
    <2>1. CASE CreateApiKey(k)
      BY <2>1, <1>t DEF CreateApiKey
    <2>2. CASE Edit(k)
      <3>1. PICK active, setted, period, allowance, date :
              EditApiKey(k, active, setted, period, allowance, date)
        BY <2>2 DEF Edit
      <3>2. k # i
        BY <3>1 DEF EditApiKey, UpdateApiKey
      <3>. QED
        BY <3>1, <3>2, <1>t DEF EditApiKey, UpdateApiKey
    <2>3. CASE DeleteApiKey(k)
      BY <2>3, <1>t DEF DeleteApiKey
    <2>. QED
      BY <1>1, <2>1, <2>2, <2>3
  <1>2. ASSUME NEW k \in Keys, NEW delta \in Deltas,
               AddApiKeyQuotaUsage(k, delta)
        PROVE  /\ table'[i].status = table[i].status
               /\ table'[i].active = table[i].active
               /\ table'[i].setted = table[i].setted
    BY <1>2, <1>t DEF AddApiKeyQuotaUsage, Row
  <1>3. ASSUME NEW k \in Keys, NEW row, UpdateApiKeyQuota(k, row)
        PROVE  /\ table'[i].status = table[i].status
               /\ table'[i].active = table[i].active
               /\ table'[i].setted = table[i].setted
    BY <1>3, <1>t DEF UpdateApiKeyQuota, Row
  <1>4. CASE \/ Tick
             \/ \E j \in Jobs : CronRead(j)
             \/ \E j \in Jobs, k \in Keys : CronSkip(j, k)
             \/ \E r \in Requests, k \in Keys :
                  Authenticate(r, k) \/ AuthResetFails(r, k)
             \/ UNCHANGED vars
    BY <1>4 DEF Tick, CronRead, CronSkip, Authenticate, AuthResetFails, vars
  <1>5. CASE \/ \E j \in Jobs, k \in Keys : CronWrite(j, k)
             \/ \E r \in Requests, k \in Keys : AuthReset(r, k)
    BY <1>3, <1>5 DEF CronWrite, AuthReset
  <1>. QED
    BY <1>1, <1>2, <1>4, <1>5 DEF Next

\* Deleting a key is final, whatever edit or write-back arrives late.
THEOREM DeletionIsFinal == Spec => DeletedIsFinal
  <1>1. TypeOK /\ [Next]_vars =>
          [\A k \in Keys : table[k].status = "deleted" =>
             /\ table'[k].status = "deleted"
             /\ table'[k].active = table[k].active
             /\ table'[k].setted = table[k].setted]_vars
    BY DeletedStep
  <1>. QED
    BY <1>1, TypeCorrect, PTL DEF Spec, DeletedIsFinal
=============================================================================
