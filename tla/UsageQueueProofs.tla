-------------------------- MODULE UsageQueueProofs --------------------------
(***************************************************************************)
(* Proofs about UsageQueue for any set of records and keys and any queue   *)
(* capacities: the channels hold exactly the queued records, the two parts *)
(* of a record are handled in order, and the pipeline implements the       *)
(* ledger.                                                                 *)
(***************************************************************************)
EXTENDS UsageQueue, TLAPS

\* What the place of a record's goroutine says about its delta and entry.
StagesAgree ==
    \A r \in Records :
        /\ stage[r] \in {"new", "lookup", "quota"} =>
             quota[r] = "none" /\ entry[r] = "none"
        /\ stage[r] = "entry" => quota[r] # "none" /\ entry[r] = "none"
        /\ stage[r] = "done" /\ KeyOf[r] \in Keys => quota[r] # "none"
        /\ KeyOf[r] \notin Keys =>
             /\ stage[r] \in {"new", "done"}
             /\ quota[r] = "none" /\ entry[r] = "none"

QueueInv == TypeOK /\ StagesAgree /\ QueuesHoldTheQueued

----------------------------------------------------------------------------
\* Sending a record that is not in the channel keeps the channel's order and
\* its agreement with the states (the send cases of both AddToQueue).
LEMMA SendHolds ==
  ASSUME NEW q \in Seq(Records), NEW state, NEW r \in Records,
         NEW States, state \in [Records -> States], "queued" \in States,
         Holds(q, state), state[r] # "queued"
  PROVE  /\ Append(q, r) \in Seq(Records)
         /\ Len(Append(q, r)) = Len(q) + 1
         /\ Holds(Append(q, r), [state EXCEPT ![r] = "queued"])
  <1> DEFINE p == Append(q, r)
             new == [state EXCEPT ![r] = "queued"]
  <1>1. /\ p \in Seq(Records) /\ Len(p) = Len(q) + 1 /\ Len(q) \in Nat
        /\ \A i \in 1..Len(q) : p[i] = q[i] /\ q[i] \in Records
        /\ p[Len(q) + 1] = r
    OBVIOUS
  <1>2. \A s \in Records : new[s] = IF s = r THEN "queued" ELSE state[s]
    OBVIOUS
  <1>3. \A i \in 1..Len(q) : q[i] # r
    BY DEF Holds
  <1> HIDE DEF p, new
  <1>4. \A i \in 1..Len(p) : i \in 1..Len(q) \/ i = Len(q) + 1
    BY <1>1
  <1>5. \A i \in 1..Len(p) : new[p[i]] = "queued"
    BY <1>1, <1>2, <1>3, <1>4 DEF Holds
  <1>6. \A i, j \in 1..Len(p) : p[i] = p[j] => i = j
    BY <1>1, <1>3, <1>4 DEF Holds
  <1>7. ASSUME NEW s \in Records, new[s] = "queued"
        PROVE  \E i \in 1..Len(p) : p[i] = s
    <2>1. CASE s = r
      BY <2>1, <1>1
    <2>2. CASE s # r
      <3>1. PICK i \in 1..Len(q) : q[i] = s
        BY <2>2, <1>2, <1>7 DEF Holds
      <3>2. i \in 1..Len(p) /\ p[i] = s
        BY <1>1, <3>1
      <3>. QED
        BY <3>2
    <2>. QED
      BY <2>1, <2>2
  <1>8. Holds(p, new)
    BY <1>5, <1>6, <1>7 DEF Holds
  <1>. QED
    BY <1>1, <1>8 DEF p, new

\* Receiving the head and moving that record on keeps the agreement (the
\* receive cases of both ProcessQueue loops).
LEMMA ReceiveHolds ==
  ASSUME NEW q \in Seq(Records), NEW state, NEW result,
         NEW States, state \in [Records -> States], result \in States,
         Holds(q, state), q # <<>>, result # "queued"
  PROVE  /\ Head(q) \in Records
         /\ state[Head(q)] = "queued"
         /\ Tail(q) \in Seq(Records)
         /\ Len(Tail(q)) <= Len(q)
         /\ Holds(Tail(q), [state EXCEPT ![Head(q)] = result])
  <1> DEFINE t == Tail(q)
             h == Head(q)
             new == [state EXCEPT ![h] = result]
  <1>1. /\ t \in Seq(Records) /\ Len(t) = Len(q) - 1 /\ Len(q) \in Nat
        /\ \A i \in 1..Len(t) : t[i] = q[i + 1] /\ i + 1 \in 1..Len(q)
        /\ 1 \in 1..Len(q) /\ h = q[1] /\ h \in Records
        /\ \A i \in 1..Len(q) : q[i] \in Records
    OBVIOUS
  <1>2. \A s \in Records : new[s] = IF s = h THEN result ELSE state[s]
    OBVIOUS
  <1> HIDE DEF t, h, new
  <1>3. state[h] = "queued"
    BY <1>1 DEF Holds
  <1>4. \A i \in 1..Len(t) : t[i] # h
    BY <1>1 DEF Holds
  <1>5. \A i \in 1..Len(t) : new[t[i]] = "queued"
    BY <1>1, <1>2, <1>4 DEF Holds
  <1>6. \A i, j \in 1..Len(t) : t[i] = t[j] => i = j
    BY <1>1 DEF Holds
  <1>7. ASSUME NEW s \in Records, new[s] = "queued"
        PROVE  \E i \in 1..Len(t) : t[i] = s
    <2>1. s # h /\ state[s] = "queued"
      BY <1>2, <1>7
    <2>2. PICK i \in 1..Len(q) : q[i] = s
      BY <2>1 DEF Holds
    <2>3. i # 1
      BY <1>1, <2>1, <2>2
    <2>4. i - 1 \in 1..Len(t) /\ t[i - 1] = s
      BY <1>1, <2>2, <2>3
    <2>. QED
      BY <2>4
  <1>8. Holds(t, new)
    BY <1>5, <1>6, <1>7 DEF Holds
  <1>. QED
    BY <1>1, <1>3, <1>8 DEF t, h, new

\* A change of state of a record outside the channel, to a state other than
\* queued, does not concern the channel.
LEMMA OutsideHolds ==
  ASSUME NEW q \in Seq(Records), NEW state, NEW r \in Records, NEW result,
         NEW States, state \in [Records -> States],
         Holds(q, state), state[r] # "queued", result # "queued"
  PROVE  Holds(q, [state EXCEPT ![r] = result])
  <1> DEFINE new == [state EXCEPT ![r] = result]
  <1>1. \A s \in Records : new[s] = IF s = r THEN result ELSE state[s]
    OBVIOUS
  <1>2. \A i \in 1..Len(q) : q[i] \in Records
    OBVIOUS
  <1> HIDE DEF new
  <1>3. Holds(q, new)
    BY <1>1, <1>2 DEF Holds
  <1>. QED
    BY <1>3 DEF new

----------------------------------------------------------------------------
\* Nothing is queued or settled at the start.
LEMMA InitInv == Init => QueueInv
  BY CapAssumption
  DEF Init, QueueInv, TypeOK, StagesAgree, QueuesHoldTheQueued, Holds, Loops

QuotaStates == {"none", "queued", "taken", "credited", "lost"}

EntryStates == {"none", "queued", "taken", "stored", "lost"}

\* Every step keeps the invariant.
LEMMA NextInv == QueueInv /\ [Next]_vars => QueueInv'
  <1> SUFFICES ASSUME QueueInv, [Next]_vars PROVE QueueInv'
    OBVIOUS
  <1>t. /\ TypeOK /\ StagesAgree
        /\ Holds(quotaQ, quota) /\ Len(quotaQ) <= QueueCap
        /\ Holds(entryQ, entry) /\ Len(entryQ) <= EntryCap
        /\ quotaQ \in Seq(Records) /\ entryQ \in Seq(Records)
        /\ quota \in [Records -> QuotaStates]
        /\ entry \in [Records -> EntryStates]
        /\ Len(quotaQ) \in Nat /\ Len(entryQ) \in Nat
    BY DEF QueueInv, QueuesHoldTheQueued, TypeOK, QuotaStates, EntryStates
  <1> USE DEF QueueInv
  <1>1. ASSUME NEW r \in Records, HandleUsage(r) PROVE QueueInv'
    BY <1>1, <1>t DEF HandleUsage, TypeOK, StagesAgree, QueuesHoldTheQueued,
                      Holds
  <1>2. ASSUME NEW r \in Records, LookupKey(r) PROVE QueueInv'
    BY <1>2, <1>t DEF LookupKey, TypeOK, StagesAgree, QueuesHoldTheQueued, Holds
  <1>3. ASSUME NEW r \in Records, LookupFails(r) PROVE QueueInv'
    <2>1. quota[r] = "none"
      BY <1>3, <1>t DEF LookupFails, StagesAgree
    <2>2. Holds(quotaQ, quota')
      BY <1>3, <1>t, <2>1, OutsideHolds DEF LookupFails
    <2>3. TypeOK' /\ StagesAgree'
      BY <1>3, <1>t DEF LookupFails, TypeOK, StagesAgree
    <2>. QED
      BY <1>3, <1>t, <2>2, <2>3 DEF LookupFails, QueuesHoldTheQueued
  <1>4. ASSUME NEW r \in Records, AddToQueue(r) PROVE QueueInv'
    <2>1. quota[r] = "none"
      BY <1>4, <1>t DEF AddToQueue, StagesAgree
    <2>2. "queued" \in QuotaStates
      BY DEF QuotaStates
    <2>3. /\ quotaQ' \in Seq(Records) /\ Len(quotaQ') = Len(quotaQ) + 1
          /\ Holds(quotaQ', quota')
      BY <1>4, <1>t, <2>1, <2>2, SendHolds DEF AddToQueue
    <2>4. Len(quotaQ') <= QueueCap
      BY <1>4, <1>t, <2>3, CapAssumption DEF AddToQueue
    <2>5. TypeOK' /\ StagesAgree'
      BY <1>4, <1>t, <2>3 DEF AddToQueue, TypeOK, StagesAgree
    <2>. QED
      BY <1>4, <1>t, <2>3, <2>4, <2>5 DEF AddToQueue, QueuesHoldTheQueued
  <1>5. ASSUME NEW r \in Records, AddToQueueTimesOut(r) PROVE QueueInv'
    <2>1. quota[r] = "none"
      BY <1>5, <1>t DEF AddToQueueTimesOut, StagesAgree
    <2>2. Holds(quotaQ, quota')
      BY <1>5, <1>t, <2>1, OutsideHolds DEF AddToQueueTimesOut
    <2>3. TypeOK' /\ StagesAgree'
      BY <1>5, <1>t DEF AddToQueueTimesOut, TypeOK, StagesAgree
    <2>. QED
      BY <1>5, <1>t, <2>2, <2>3 DEF AddToQueueTimesOut, QueuesHoldTheQueued
  <1>6. ASSUME NEW r \in Records, AddEntry(r) PROVE QueueInv'
    <2>1. entry[r] = "none"
      BY <1>6, <1>t DEF AddEntry, StagesAgree
    <2>2. /\ entryQ' \in Seq(Records) /\ Len(entryQ') <= EntryCap
          /\ Holds(entryQ', entry')
          /\ entry' \in [Records -> EntryStates]
          /\ \A s \in Records : s # r => entry'[s] = entry[s]
      <3>1. CASE /\ Len(entryQ) < EntryCap
                 /\ entryQ' = Append(entryQ, r)
                 /\ entry' = [entry EXCEPT ![r] = "queued"]
        <4>1. "queued" \in EntryStates
          BY DEF EntryStates
        <4>2. /\ entryQ' \in Seq(Records) /\ Len(entryQ') = Len(entryQ) + 1
              /\ Holds(entryQ', entry')
          BY <3>1, <4>1, <1>t, <2>1, SendHolds
        <4>. QED
          BY <3>1, <4>1, <4>2, <1>t, CapAssumption
      <3>2. CASE entry' = [entry EXCEPT ![r] = "lost"] /\ UNCHANGED entryQ
        <4>1. Holds(entryQ, entry')
          BY <3>2, <1>t, <2>1, OutsideHolds
        <4>. QED
          BY <3>2, <4>1, <1>t DEF EntryStates
      <3>. QED
        BY <1>6, <3>1, <3>2 DEF AddEntry
    <2>3. TypeOK' /\ StagesAgree'
      BY <1>6, <1>t, <2>2 DEF AddEntry, TypeOK, StagesAgree, EntryStates
    <2>. QED
      BY <1>6, <1>t, <2>2, <2>3 DEF AddEntry, QueuesHoldTheQueued
  <1>7. CASE TakeQuota
    <2> DEFINE h == Head(quotaQ)
               result == IF running THEN "taken" ELSE "lost"
    <2>1. result \in QuotaStates /\ result # "queued" /\ result # "none"
      BY DEF QuotaStates
    <2>2. /\ h \in Records /\ quota[h] = "queued"
          /\ quotaQ' \in Seq(Records) /\ Len(quotaQ') <= Len(quotaQ)
          /\ Holds(quotaQ', quota')
      <3> HIDE DEF result
      <3>1. quota' = [quota EXCEPT ![h] = result] /\ quotaQ' = Tail(quotaQ)
        BY <1>7 DEF TakeQuota, result
      <3>2. quotaQ # <<>>
        BY <1>7 DEF TakeQuota
      <3>. QED
        BY <3>1, <3>2, <1>t, <2>1, ReceiveHolds
    <2>3. Len(quotaQ') <= QueueCap
      BY <2>2, <1>t, CapAssumption
    <2>4. TypeOK' /\ StagesAgree'
      BY <1>7, <1>t, <2>1, <2>2 DEF TakeQuota, TypeOK, StagesAgree
    <2>. QED
      BY <1>7, <1>t, <2>2, <2>3, <2>4 DEF TakeQuota, QueuesHoldTheQueued
  <1>8. ASSUME NEW r \in Records, CreditQuota(r) PROVE QueueInv'
    <2>1. Holds(quotaQ, quota')
      BY <1>8, <1>t, OutsideHolds DEF CreditQuota
    <2>2. KeyOf[r] \in Keys
      BY <1>8, <1>t DEF CreditQuota, StagesAgree
    <2>3. balance' \in [Keys -> Nat]
      BY <1>8, <1>t, <2>2, RecordAssumption DEF CreditQuota, TypeOK
    <2>4. TypeOK' /\ StagesAgree'
      BY <1>8, <1>t, <2>3 DEF CreditQuota, TypeOK, StagesAgree
    <2>. QED
      BY <1>8, <1>t, <2>1, <2>4 DEF CreditQuota, QueuesHoldTheQueued
  <1>9. ASSUME NEW r \in Records, CreditFails(r) PROVE QueueInv'
    <2>1. Holds(quotaQ, quota')
      BY <1>9, <1>t, OutsideHolds DEF CreditFails
    <2>2. TypeOK' /\ StagesAgree'
      BY <1>9, <1>t DEF CreditFails, TypeOK, StagesAgree
    <2>. QED
      BY <1>9, <1>t, <2>1, <2>2 DEF CreditFails, QueuesHoldTheQueued
  <1>10. CASE TakeEntry
    <2> DEFINE h == Head(entryQ)
               result == IF running THEN "taken" ELSE "lost"
    <2>1. result \in EntryStates /\ result # "queued" /\ result # "none"
      BY DEF EntryStates
    <2>2. /\ h \in Records /\ entry[h] = "queued"
          /\ entryQ' \in Seq(Records) /\ Len(entryQ') <= Len(entryQ)
          /\ Holds(entryQ', entry')
      <3> HIDE DEF result
      <3>1. entry' = [entry EXCEPT ![h] = result] /\ entryQ' = Tail(entryQ)
        BY <1>10 DEF TakeEntry, result
      <3>2. entryQ # <<>>
        BY <1>10 DEF TakeEntry
      <3>. QED
        BY <3>1, <3>2, <1>t, <2>1, ReceiveHolds
    <2>3. Len(entryQ') <= EntryCap
      BY <2>2, <1>t, CapAssumption
    <2>4. TypeOK' /\ StagesAgree'
      BY <1>10, <1>t, <2>1, <2>2 DEF TakeEntry, TypeOK, StagesAgree
    <2>. QED
      BY <1>10, <1>t, <2>2, <2>3, <2>4 DEF TakeEntry, QueuesHoldTheQueued
  <1>11. ASSUME NEW r \in Records, SaveUsageEntry(r) PROVE QueueInv'
    <2>1. PICK result \in {"stored", "lost"} :
            entry' = [entry EXCEPT ![r] = result]
      BY <1>11 DEF SaveUsageEntry
    <2>2. Holds(entryQ, entry')
      BY <1>11, <1>t, <2>1, OutsideHolds DEF SaveUsageEntry
    <2>3. TypeOK' /\ StagesAgree'
      BY <1>11, <1>t, <2>1 DEF SaveUsageEntry, TypeOK, StagesAgree
    <2>. QED
      BY <1>11, <1>t, <2>2, <2>3 DEF SaveUsageEntry, QueuesHoldTheQueued
  <1>12. CASE Stop \/ ReturnQuota \/ ReturnEntry \/ UNCHANGED vars
    <2>1. /\ UNCHANGED <<stage, quota, entry, quotaQ, entryQ, balance>>
          /\ running' \in BOOLEAN
          /\ looping' \in SUBSET Loops
      BY <1>12, <1>t DEF Stop, ReturnQuota, ReturnEntry, vars, TypeOK
    <2>2. TypeOK'
      BY <2>1, <1>t DEF TypeOK
    <2>3. StagesAgree' /\ QueuesHoldTheQueued'
      BY <2>1, <1>t DEF StagesAgree, QueuesHoldTheQueued, Holds
    <2>. QED
      BY <2>2, <2>3
  <1>. QED
    BY <1>1, <1>2, <1>3, <1>4, <1>5, <1>6, <1>7, <1>8, <1>9, <1>10, <1>11,
       <1>12
    DEF Next, Goroutine, QuotaLoop, EntryLoop

\* In every state the channels hold exactly the queued records, within their
\* capacity, and the stages agree.
THEOREM QueueInvariant == Spec => []QueueInv
  BY InitInv, NextInv, PTL DEF Spec

\* No record is queued twice or lost between a goroutine and its loop.
THEOREM QueuesAreExact == Spec => []QueuesHoldTheQueued
  BY QueueInvariant, PTL DEF QueueInv

\* A usage entry is offered only after its quota delta has been.
THEOREM EntriesFollowQuota == Spec => []EntryAfterQuota
  <1>1. QueueInv => EntryAfterQuota
    BY DEF QueueInv, TypeOK, StagesAgree, EntryAfterQuota
  <1>. QED
    BY <1>1, QueueInvariant, PTL

----------------------------------------------------------------------------
\* If the state of one record changes, only its line in the ledger does.
LEMMA BarStep ==
  ASSUME NEW r \in Records,
         \A s \in Records : s # r => /\ stage'[s] = stage[s]
                                     /\ quota'[s] = quota[s]
  PROVE  ledgerBar' = [ledgerBar EXCEPT ![r] = ledgerBar'[r]]
  <1>1. DOMAIN ledgerBar = Records /\ DOMAIN ledgerBar' = Records
    BY DEF ledgerBar
  <1>2. \A s \in Records : s # r => ledgerBar'[s] = ledgerBar[s]
    BY DEF ledgerBar
  <1>3. /\ ledgerBar = [s \in Records |-> ledgerBar[s]]
        /\ ledgerBar' = [s \in Records |-> ledgerBar'[s]]
    BY DEF ledgerBar
  <1> HIDE DEF ledgerBar
  <1>. QED
    BY <1>1, <1>2, <1>3

\* Each step of the pipeline is a step of the ledger or none.
LEMMA LedgerStep ==
  QueueInv /\ [Next]_vars => [Ledger!Next]_(Ledger!ledgerVars)
  <1> SUFFICES ASSUME QueueInv, [Next]_vars
               PROVE  [Ledger!Next]_(Ledger!ledgerVars)
    OBVIOUS
  <1> DEFINE step(r) == Ledger!Report(r) \/ Ledger!Exempt(r)
                        \/ Ledger!Credit(r) \/ Ledger!Lose(r)
             same == UNCHANGED <<ledgerBar, balance>>
  <1>s. SUFFICES (\E r \in Records : step(r)) \/ same
    BY DEF Ledger!Next, Ledger!ledgerVars
  <1>t. /\ TypeOK /\ StagesAgree
        /\ Holds(quotaQ, quota) /\ quotaQ \in Seq(Records)
    BY DEF QueueInv, QueuesHoldTheQueued, TypeOK
  <1>u. ASSUME UNCHANGED <<stage, quota, balance>> PROVE same
    BY <1>u DEF ledgerBar
  <1>1. ASSUME NEW r \in Records, HandleUsage(r) PROVE step(r)
    <2>1. ledgerBar' = [ledgerBar EXCEPT ![r] = ledgerBar'[r]]
      BY <1>1, <1>t, BarStep DEF HandleUsage, TypeOK
    <2>2. ledgerBar[r] = "new" /\ balance' = balance
      BY <1>1, <1>t DEF HandleUsage, StagesAgree, ledgerBar
    <2>3. ledgerBar'[r] = IF KeyOf[r] \in Keys THEN "open" ELSE "exempt"
      BY <1>1, <1>t DEF HandleUsage, StagesAgree, TypeOK, ledgerBar
    <2>. QED
      BY <2>1, <2>2, <2>3 DEF Ledger!Report, Ledger!Exempt
  <1>2. ASSUME NEW r \in Records, LookupKey(r) PROVE same
    <2>1. ledgerBar' = [ledgerBar EXCEPT ![r] = ledgerBar'[r]]
      BY <1>2, <1>t, BarStep DEF LookupKey, TypeOK
    <2>2. ledgerBar[r] = "open" /\ ledgerBar'[r] = "open"
      BY <1>2, <1>t DEF LookupKey, StagesAgree, TypeOK, ledgerBar
    <2>3. ledgerBar = [ledgerBar EXCEPT ![r] = "open"]
      BY <2>2 DEF ledgerBar
    <2>. QED
      BY <1>2, <2>1, <2>2, <2>3 DEF LookupKey
  <1>3. ASSUME NEW r \in Records, LookupFails(r) \/ AddToQueueTimesOut(r)
        PROVE  step(r)
    <2>1. ledgerBar' = [ledgerBar EXCEPT ![r] = ledgerBar'[r]]
      BY <1>3, <1>t, BarStep DEF LookupFails, AddToQueueTimesOut, TypeOK
    <2>2. ledgerBar[r] = "open" /\ ledgerBar'[r] = "lost"
      BY <1>3, <1>t
      DEF LookupFails, AddToQueueTimesOut, StagesAgree, TypeOK, ledgerBar
    <2>. QED
      BY <1>3, <2>1, <2>2 DEF LookupFails, AddToQueueTimesOut, Ledger!Lose
  <1>4. ASSUME NEW r \in Records, AddToQueue(r) PROVE same
    <2>1. ledgerBar' = [ledgerBar EXCEPT ![r] = ledgerBar'[r]]
      BY <1>4, <1>t, BarStep DEF AddToQueue, TypeOK
    <2>2. ledgerBar[r] = "open" /\ ledgerBar'[r] = "open"
      BY <1>4, <1>t DEF AddToQueue, StagesAgree, TypeOK, ledgerBar
    <2>3. ledgerBar = [ledgerBar EXCEPT ![r] = "open"]
      BY <2>2 DEF ledgerBar
    <2>. QED
      BY <1>4, <2>1, <2>2, <2>3 DEF AddToQueue
  <1>5. ASSUME NEW r \in Records, AddEntry(r) PROVE same
    <2>1. quota[r] # "none"
      BY <1>5, <1>t DEF AddEntry, StagesAgree
    <2>2. ledgerBar' = [ledgerBar EXCEPT ![r] = ledgerBar'[r]]
      BY <1>5, <1>t, BarStep DEF AddEntry, TypeOK
    <2>3. ledgerBar'[r] = ledgerBar[r]
      BY <1>5, <1>t, <2>1 DEF AddEntry, TypeOK, ledgerBar
    <2>4. ledgerBar = [ledgerBar EXCEPT ![r] = ledgerBar[r]]
      BY DEF ledgerBar
    <2>. QED
      BY <1>5, <2>2, <2>3, <2>4 DEF AddEntry
  <1>6. ASSUME TakeQuota PROVE step(Head(quotaQ)) \/ same
    <2> DEFINE h == Head(quotaQ)
    <2>1. h \in Records /\ quota[h] = "queued"
      <3>1. quotaQ # <<>>
        BY <1>6 DEF TakeQuota
      <3>2. "taken" \in QuotaStates /\ quota \in [Records -> QuotaStates]
        BY <1>t DEF QuotaStates, TypeOK
      <3>. QED
        BY <3>1, <3>2, <1>t, ReceiveHolds
    <2>2. ledgerBar' = [ledgerBar EXCEPT ![h] = ledgerBar'[h]]
      BY <1>6, <1>t, <2>1, BarStep DEF TakeQuota, TypeOK
    <2>3. ledgerBar[h] = "open" /\ balance' = balance
      BY <1>6, <2>1 DEF TakeQuota, ledgerBar
    <2>4. ledgerBar'[h] = IF running THEN "open" ELSE "lost"
      BY <1>6, <1>t, <2>1 DEF TakeQuota, TypeOK, ledgerBar
    <2>5. ledgerBar = [ledgerBar EXCEPT ![h] = "open"]
      BY <2>1, <2>3 DEF ledgerBar
    <2>. QED
      BY <2>2, <2>3, <2>4, <2>5 DEF Ledger!Lose
  <1>7. ASSUME NEW r \in Records, CreditQuota(r) PROVE step(r)
    <2>1. ledgerBar' = [ledgerBar EXCEPT ![r] = ledgerBar'[r]]
      BY <1>7, <1>t, BarStep DEF CreditQuota, TypeOK
    <2>2. ledgerBar[r] = "open" /\ ledgerBar'[r] = "credited"
      BY <1>7, <1>t DEF CreditQuota, TypeOK, ledgerBar
    <2>. QED
      BY <1>7, <2>1, <2>2 DEF CreditQuota, Ledger!Credit
  <1>8. ASSUME NEW r \in Records, CreditFails(r) PROVE step(r)
    <2>1. ledgerBar' = [ledgerBar EXCEPT ![r] = ledgerBar'[r]]
      BY <1>8, <1>t, BarStep DEF CreditFails, TypeOK
    <2>2. ledgerBar[r] = "open" /\ ledgerBar'[r] = "lost"
      BY <1>8, <1>t DEF CreditFails, TypeOK, ledgerBar
    <2>. QED
      BY <1>8, <2>1, <2>2 DEF CreditFails, Ledger!Lose
  <1>9. ASSUME \/ EntryLoop \/ ReturnQuota \/ ReturnEntry \/ Stop
               \/ UNCHANGED vars
        PROVE  same
    BY <1>9, <1>u DEF EntryLoop, TakeEntry, SaveUsageEntry, ReturnQuota,
                      ReturnEntry, Stop, vars
  <1>10. TakeQuota => Head(quotaQ) \in Records
    <2>1. ASSUME quotaQ # <<>> PROVE Head(quotaQ) \in Records
      BY <1>t, <2>1
    <2>. QED
      BY <2>1 DEF TakeQuota
  <1> HIDE DEF step, same
  <1>. QED
    BY <1>1, <1>2, <1>3, <1>4, <1>5, <1>6, <1>7, <1>8, <1>9, <1>10
    DEF Next, Goroutine, QuotaLoop

\* The pipeline of goroutines and queues implements the ledger: whatever the
\* interleaving, timeouts, failures and the stop of the loops, each record
\* is settled once, and only credits move a key's balance.
THEOREM ImplementsLedger == Spec => LedgerSpec
  <1>1. Init => Ledger!Init
    BY DEF Init, Ledger!Init, ledgerBar
  <1>. QED
    BY <1>1, LedgerStep, QueueInvariant, PTL DEF Spec, LedgerSpec, Ledger!Spec
=============================================================================
