-------------------------- MODULE QuotaPushProofs --------------------------
(***************************************************************************)
(* Quota notifications: topics follow the subscriptions, exhausted windows *)
(* are reported, polling skips no event and the VAPID keys are kept, for   *)
(* any number of providers, endpoints, requests and passes.                *)
(***************************************************************************)
EXTENDS QuotaPush, TLAPS, FiniteSetTheorems, WellFoundedInduction

\* A request, by the statement it is before.
ReqType ==
    [pc : {"idle"}]
    \cup [pc : {"topic"}, e : Endpoint, s : Provider, valid : BOOLEAN]
    \cup [pc : {"cleanup"}, e : Endpoint]
    \cup [pc : {"quota"}, p : Loadable, q : Quota]

\* What diffQuota may return.
Diff == Window \X {"exhausted", "reset"}

\* A pass, by the step it is before.
PassType ==
    [pc : {"idle"}]
    \cup [pc : {"load"}, todo : SUBSET Loadable, subs : SUBSET Provider]
    \cup [pc : {"save", "observe"}, todo : SUBSET Loadable, subs : SUBSET Provider,
          p : Loadable, q : Quota]
    \cup [pc : {"store"}, todo : SUBSET Loadable, subs : SUBSET Provider,
          p : Loadable, q : Quota, old : Kept]
    \cup [pc : {"notify"}, todo : SUBSET Loadable, subs : SUBSET Provider,
          p : Loadable, evs : SUBSET Diff]
    \cup [pc : {"append", "send"}, todo : SUBSET Loadable, subs : SUBSET Provider,
          p : Loadable, evs : SUBSET Diff, id : 1..MaxEvent,
          to : SUBSET (Endpoint \ InApp)]

\* The variables' types, by the part of the system they belong to.
ReqTypes == req \in [Client -> ReqType]
SubTypes ==
    /\ row \subseteq Endpoint /\ topics \in [Endpoint -> SUBSET Provider]
    /\ gone \subseteq Endpoint \ InApp
QuotaTypes ==
    /\ usage \in [Loadable -> [Window -> Level]]
    /\ cache \in [Provider -> Kept] /\ prev \in [Provider -> Kept]
    /\ alarm \in [Provider -> [Window -> {"blind", "quiet", "raised"}]]
    /\ torn \subseteq Provider
RunTypes == run \in [Run -> PassType]
EventTypes ==
    /\ events \subseteq Event /\ IsFiniteSet(events) /\ nextId \in 1..MaxEvent + 1
    /\ cursor \in [InApp -> 0..MaxEvent]
InputType == inputs \in 0..MaxInput

Types == ReqTypes /\ SubTypes /\ QuotaTypes /\ RunTypes /\ EventTypes /\ InputType

\* Topics have a row, and so has a Subscribe that may still insert one.
RowsInv ==
    /\ \A e \in Endpoint : topics[e] # {} => e \in row
    /\ \A c \in Client : req[c].pc = "topic" /\ req[c].valid => req[c].e \in row

\* The pair the process would resolve after a restart, if there is one yet.
Pair == IF EnvKeys # NoKeys THEN EnvKeys ELSE keysDb

\* Memory and browsers hold that pair or none.
KeysInv ==
    /\ keysDb \in KeyPair \cup {NoKeys}
    /\ {keysMem, handed} \subseteq {Pair, NoKeys}

\* What an in-app endpoint has still to be shown is what a poll would find, but
\* for the events it read past while they were being inserted.
DueInv ==
    /\ due \in [InApp -> SUBSET events]
    /\ \A e \in InApp : \A v \in due[e] :
          v.subject \in topics[e] /\ (v.id > cursor[e] \/ v.id \in late[e])

\* Ids grow, and nobody has read past one that is being inserted unnoticed.
FlightInv ==
    /\ late \in [InApp -> SUBSET (1..MaxEvent)]
    /\ \A v \in events : v.id < nextId
    /\ \A e \in InApp : cursor[e] < nextId
    /\ \A r \in Run : run[r].pc = "append" =>
          /\ run[r].id < nextId
          /\ \A e \in InApp : run[r].id > cursor[e] \/ run[r].id \in late[e]

PushInv == Types /\ RowsInv /\ KeysInv /\ ExhaustionReported /\ DueInv /\ FlightInv

----------------------------------------------------------------------------
(* Shapes and small facts. *)

\* What the fields of a request are, by where it is.
LEMMA ReqShape ==
    ASSUME ReqTypes, NEW c \in Client
    PROVE  /\ req[c].pc \in {"idle", "topic", "cleanup", "quota"}
           /\ req[c].pc = "topic" => /\ req[c].e \in Endpoint /\ req[c].s \in Provider
                                     /\ req[c].valid \in BOOLEAN
           /\ req[c].pc = "cleanup" => req[c].e \in Endpoint
           /\ req[c].pc = "quota" => req[c].p \in Loadable /\ req[c].q \in Quota
<1>1. req[c] \in ReqType
  BY DEF ReqTypes
<1> QED
  BY <1>1 DEF ReqType

\* A Subscribe whose row is deleted stays one.
LEMMA OrphanShape ==
    ASSUME ReqTypes, NEW c \in Client, req[c].pc = "topic"
    PROVE  /\ [req[c] EXCEPT !.valid = FALSE] \in ReqType
           /\ [req[c] EXCEPT !.valid = FALSE].pc = "topic"
           /\ [req[c] EXCEPT !.valid = FALSE].valid = FALSE
<1>1. req[c] \in [pc : {"topic"}, e : Endpoint, s : Provider, valid : BOOLEAN]
  BY DEF ReqTypes, ReqType
<1> QED
  BY <1>1 DEF ReqType

\* What the fields of a pass are, by where it is.
LEMMA PassShape ==
    ASSUME RunTypes, NEW r \in Run
    PROVE  /\ run[r].pc # "idle" => /\ run[r].todo \subseteq Loadable
                                    /\ run[r].subs \subseteq Provider
           /\ run[r].pc \notin {"idle", "load"} => run[r].p \in Loadable
           /\ run[r].pc \in {"save", "observe", "store"} => run[r].q \in Quota
           /\ run[r].pc = "store" => run[r].old \in Kept
           /\ run[r].pc \in {"notify", "append", "send"} => run[r].evs \subseteq Diff
           /\ run[r].pc \in {"append", "send"} =>
                 run[r].id \in 1..MaxEvent /\ run[r].to \subseteq Endpoint \ InApp
<1>1. run[r] \in PassType
  BY DEF RunTypes
<1> QED
  BY <1>1 DEF PassType

\* An error of the vendor is a quota, and so is what it would report.
LEMMA QuotaFacts ==
    /\ NoWindows \in Quota
    /\ [Window -> Level] \subseteq Quota
    /\ \A q \in Quota : DOMAIN q \subseteq Window /\ \A w \in DOMAIN q : q[w] \in Nat
<1>1. [x \in {} |-> 0] \in [{} -> Level]
  OBVIOUS
<1>2. [x \in {} |-> 0] \in Quota /\ DOMAIN [x \in {} |-> 0] = {}
  BY <1>1 DEF Quota
<1>3. NoWindows \in Quota
  BY <1>2 DEF NoWindows
<1>4. [Window -> Level] \subseteq Quota
  BY DEF Quota
<1>5. ASSUME NEW q \in Quota
      PROVE  DOMAIN q \subseteq Window /\ \A w \in DOMAIN q : q[w] \in Nat
  <2>1. PICK W \in SUBSET Window : q \in [W -> Level]
    BY DEF Quota
  <2> QED
    BY <2>1, PushAssumption
<1> QED
  BY <1>3, <1>4, <1>5

\* diffQuota returns windows with an outcome.
LEMMA DiffType ==
    ASSUME NEW old \in Quota, NEW new \in Quota
    PROVE  diffQuota(old, new) \subseteq Diff
<1>1. DOMAIN old \subseteq Window
  BY QuotaFacts
<1> QED
  BY <1>1 DEF diffQuota, Diff

\* A nonempty set of naturals has a least element, and a greatest if bounded.
LEMMA LeastOf ==
    ASSUME NEW S \in SUBSET Nat, S # {}
    PROVE  \E x \in S : \A y \in S : x <= y
<1> DEFINE R == {ss \in Nat \X Nat : ss[1] < ss[2]}
<1>1. IsWellFoundedOn(R, Nat)
  BY NatLessThanWellFounded, Zenon DEF OpToRel
<1>2. PICK x \in S : \A y \in S : ~(<<y, x>> \in R)
  <2> HIDE DEF R
  <2> QED
    BY <1>1, WFMin
<1>3. ASSUME NEW y \in S PROVE x <= y
  <2>1. y < x => <<y, x>> \in R
    OBVIOUS
  <2> HIDE DEF R
  <2>2. ~(y < x)
    BY <1>2, <2>1
  <2> QED
    BY <2>2
<1> QED
  BY <1>3

\* The id a page ends with.
LEMMA MaxOf ==
    ASSUME NEW n \in Nat, NEW S \in SUBSET (0..n), S # {}
    PROVE  Max(S) \in S /\ \A y \in S : y <= Max(S)
<1> DEFINE T == {n - y : y \in S}
<1>1. T \in SUBSET Nat
  OBVIOUS
<1>2. T # {}
  <2>1. PICK y \in S : TRUE
    OBVIOUS
  <2>2. n - y \in T
    OBVIOUS
  <2> QED
    BY <2>2
<1>3. PICK x \in T : \A y \in T : x <= y
  <2> HIDE DEF T
  <2> QED
    BY <1>1, <1>2, LeastOf
<1>4. PICK z \in S : x = n - z
  BY <1>3
<1>5. \A y \in S : y <= z
  <2> TAKE y \in S
  <2>1. x <= n - y
    BY <1>3
  <2> QED
    BY <2>1, <1>4
<1> QED
  BY <1>5 DEF Max

----------------------------------------------------------------------------
(* Who writes what. *)

\* Requests, and the rows of subscriptions, change by requests, by the clean-up
\* after pushes, and by a crash.
LEMMA WritesReq ==
    ASSUME Next
    PROVE  \/ \E c \in Client : Request(c)
           \/ \E r \in Run : Send(r)
           \/ Crash
           \/ UNCHANGED <<req, row, topics>>
<1>1. ASSUME NEW r \in Run, PassStep(r)
      PROVE  Send(r) \/ UNCHANGED <<req, row, topics>>
  BY <1>1 DEF PassStep, StartPass, SaveQuota, ObserveLoads, ObserveStores, AppendEvent,
              LoadQuota, LoadsNothing, Notify, NotifyFails, subVars
<1> QED
  BY <1>1 DEF Next, EndpointGoes, ListNotificationEvents, GetPushConfig, PruneEvents,
              SaveVapidKeysFails, UsageChanges, subVars

\* Snapshots change by ObserveStores and a crash.
LEMMA WritesSnapshots ==
    ASSUME Next
    PROVE  \/ \E r \in Run : ObserveStores(r)
           \/ Crash
           \/ UNCHANGED <<prev, alarm, torn>>
<1>1. ASSUME NEW r \in Run, PassStep(r)
      PROVE  ObserveStores(r) \/ UNCHANGED <<prev, alarm, torn>>
  BY <1>1 DEF PassStep, StartPass, SaveQuota, ObserveLoads, Send, AppendEvent,
              LoadQuota, LoadsNothing, Notify, NotifyFails, quotaVars
<1>2. ASSUME NEW c \in Client, Request(c)
      PROVE  UNCHANGED <<prev, alarm, torn>>
  BY <1>2 DEF Request, Subscribe, Unsubscribe, PanelLoads, InsertTopic, DeleteUnused,
              StatementFails, PanelSaves, quotaVars
<1> QED
  BY <1>1, <1>2 DEF Next, EndpointGoes, ListNotificationEvents, GetPushConfig,
                    PruneEvents, SaveVapidKeysFails, UsageChanges, quotaVars

\* Keys change where they are resolved, and memory loses them in a crash.
LEMMA WritesKeys ==
    ASSUME Next
    PROVE  \/ ResolveKeys /\ UNCHANGED handed
           \/ GetPushConfig \/ SaveVapidKeysFails \/ Crash
           \/ UNCHANGED keyVars
<1>1. ASSUME NEW r \in Run, PassStep(r)
      PROVE  (ResolveKeys /\ UNCHANGED handed) \/ UNCHANGED keyVars
  BY <1>1 DEF PassStep, StartPass, SaveQuota, ObserveLoads, ObserveStores, Send,
              AppendEvent, LoadQuota, LoadsNothing, Notify, NotifyFails
<1>2. ASSUME NEW c \in Client, Request(c)
      PROVE  UNCHANGED keyVars
  BY <1>2 DEF Request, Subscribe, Unsubscribe, PanelLoads, InsertTopic, DeleteUnused,
              StatementFails, PanelSaves
<1> QED
  BY <1>1, <1>2 DEF Next, EndpointGoes, ListNotificationEvents, PruneEvents,
                    UsageChanges

\* Events and what is due change by the steps about them, and a subscription's
\* topics take their events along.
LEMMA WritesEvents ==
    ASSUME Next
    PROVE  \/ \E c \in Client : Request(c)
           \/ \E r \in Run : Send(r) \/ AppendEvent(r)
           \/ \E e \in InApp : ListNotificationEvents(e)
           \/ PruneEvents
           \/ UNCHANGED <<events, cursor, due, late, topics>>
<1>1. ASSUME NEW r \in Run, PassStep(r)
      PROVE  \/ Send(r) \/ AppendEvent(r)
             \/ UNCHANGED <<events, cursor, due, late, topics>>
  BY <1>1 DEF PassStep, StartPass, SaveQuota, ObserveLoads, ObserveStores,
              LoadQuota, LoadsNothing, Notify, NotifyFails, subVars, eventVars
<1> QED
  BY <1>1 DEF Next, EndpointGoes, GetPushConfig, SaveVapidKeysFails, UsageChanges,
              Crash, subVars, eventVars

\* A pass moves by its own steps and ends in a crash.
LEMMA WritesRun ==
    ASSUME Next
    PROVE  (\E r \in Run : PassStep(r)) \/ Crash \/ UNCHANGED <<run, nextId>>
<1>1. ASSUME NEW c \in Client, Request(c)
      PROVE  UNCHANGED <<run, nextId>>
  BY <1>1 DEF Request, Subscribe, Unsubscribe, PanelLoads, InsertTopic, DeleteUnused,
              StatementFails, PanelSaves, eventVars
<1> QED
  BY <1>1 DEF Next, EndpointGoes, ListNotificationEvents, GetPushConfig, PruneEvents,
              SaveVapidKeysFails, UsageChanges, eventVars

----------------------------------------------------------------------------
(* Types. *)

LEMMA IdleIsTyped == Idle \in ReqType /\ Idle \in PassType
BY DEF Idle, ReqType, PassType

\* Deleting rows leaves requests of their type.
LEMMA OrphanedType ==
    ASSUME ReqTypes, NEW E, NEW C
    PROVE  Orphaned(E, C) \in [Client -> ReqType]
<1>1. ASSUME NEW x \in Client PROVE req[x] \in ReqType
  BY DEF ReqTypes
<1> QED
  BY <1>1, OrphanShape, IdleIsTyped DEF Orphaned

LEMMA ReqTypesStep ==
    ASSUME Types, Next
    PROVE  ReqTypes'
<1> USE DEF ReqTypes
<1>1. ReqTypes
  BY DEF Types
<1>2. ASSUME NEW c \in Client, Request(c) PROVE ReqTypes'
  <2>1. ASSUME NEW e \in Endpoint, NEW s \in Provider, Subscribe(c, e, s)
        PROVE  ReqTypes'
    <3>1. [pc |-> "topic", e |-> e, s |-> s, valid |-> TRUE] \in ReqType
      BY DEF ReqType
    <3> QED
      BY <1>1, <2>1, <3>1 DEF Subscribe
  <2>2. ASSUME NEW e \in Endpoint, NEW s \in Provider, Unsubscribe(c, e, s)
        PROVE  ReqTypes'
    <3>1. [pc |-> "cleanup", e |-> e] \in ReqType
      BY DEF ReqType
    <3> QED
      BY <1>1, <2>2, <3>1 DEF Unsubscribe
  <2>3. ASSUME NEW p \in Loadable, PanelLoads(c, p) PROVE ReqTypes'
    <3>1. PICK q \in {usage[p], NoWindows} :
             req' = [req EXCEPT ![c] = [pc |-> "quota", p |-> p, q |-> q]]
      BY <2>3 DEF PanelLoads
    <3>2. q \in Quota
      BY QuotaFacts DEF Types, QuotaTypes
    <3>3. [pc |-> "quota", p |-> p, q |-> q] \in ReqType
      BY <3>2 DEF ReqType
    <3> QED
      BY <1>1, <3>1, <3>3
  <2>4. CASE InsertTopic(c) \/ StatementFails(c) \/ PanelSaves(c)
    BY <1>1, <2>4, IdleIsTyped DEF InsertTopic, StatementFails, PanelSaves
  <2>5. CASE DeleteUnused(c)
    BY <1>1, <2>5, IdleIsTyped, OrphanedType DEF DeleteUnused
  <2> QED
    BY <1>2, <2>1, <2>2, <2>3, <2>4, <2>5 DEF Request
<1>3. ASSUME NEW r \in Run, Send(r) PROVE ReqTypes'
  BY <1>1, <1>3, OrphanedType DEF Send
<1>4. CASE Crash
  BY <1>4, IdleIsTyped DEF Crash
<1>5. CASE UNCHANGED <<req, row, topics>>
  BY <1>1, <1>5
<1> QED
  BY <1>2, <1>3, <1>4, <1>5, WritesReq

LEMMA SubTypesStep ==
    ASSUME Types, Next
    PROVE  SubTypes'
<1> USE DEF SubTypes
<1>1. SubTypes /\ ReqTypes
  BY DEF Types
<1>2. row' \subseteq Endpoint /\ topics' \in [Endpoint -> SUBSET Provider]
  <2>1. ASSUME NEW c \in Client, Request(c)
        PROVE  row' \subseteq Endpoint /\ topics' \in [Endpoint -> SUBSET Provider]
    <3>1. CASE InsertTopic(c)
      BY <1>1, <3>1, ReqShape DEF InsertTopic
    <3>2. CASE DeleteUnused(c)
      BY <1>1, <3>2 DEF DeleteUnused
    <3>3. CASE StatementFails(c) \/ PanelSaves(c) \/ \E p \in Loadable : PanelLoads(c, p)
      BY <1>1, <3>3 DEF StatementFails, PanelSaves, PanelLoads, subVars
    <3>4. CASE \E e \in Endpoint, s \in Provider : Subscribe(c, e, s)
      BY <1>1, <3>4 DEF Subscribe
    <3>5. CASE \E e \in Endpoint, s \in Provider : Unsubscribe(c, e, s)
      BY <1>1, <3>5 DEF Unsubscribe
    <3> QED
      BY <2>1, <3>1, <3>2, <3>3, <3>4, <3>5 DEF Request
  <2>2. ASSUME NEW r \in Run, Send(r)
        PROVE  row' \subseteq Endpoint /\ topics' \in [Endpoint -> SUBSET Provider]
    BY <1>1, <2>2 DEF Send
  <2>3. CASE Crash
    BY <1>1, <2>3 DEF Crash, subVars
  <2> QED
    BY <1>1, <2>1, <2>2, <2>3, WritesReq
<1>3. gone' \subseteq Endpoint \ InApp
  <2>1. ASSUME NEW r \in Run, PassStep(r) PROVE UNCHANGED gone
    BY <2>1 DEF PassStep, StartPass, SaveQuota, ObserveLoads, ObserveStores, Send,
                AppendEvent, LoadQuota, LoadsNothing, Notify, NotifyFails, subVars
  <2>2. ASSUME NEW c \in Client, Request(c) PROVE UNCHANGED gone
    BY <2>2 DEF Request, Subscribe, Unsubscribe, PanelLoads, InsertTopic, DeleteUnused,
                StatementFails, PanelSaves, subVars
  <2> QED
    BY <1>1, <2>1, <2>2 DEF Next, EndpointGoes, ListNotificationEvents, GetPushConfig,
          PruneEvents, SaveVapidKeysFails, UsageChanges, Crash, subVars
<1> QED
  BY <1>2, <1>3

\* How a window came about is one of three ways.
LEMMA AlarmType ==
    ASSUME QuotaTypes, NEW p \in Provider, NEW q, NEW evs, NEW w \in Window
    PROVE  AlarmAfter(p, q, evs, w) \in {"blind", "quiet", "raised"}
<1>1. alarm[p][w] \in {"blind", "quiet", "raised"}
  BY DEF QuotaTypes
<1> QED
  BY <1>1 DEF AlarmAfter

LEMMA QuotaTypesStep ==
    ASSUME Types, Next
    PROVE  QuotaTypes'
<1> USE DEF QuotaTypes
<1>1. QuotaTypes /\ RunTypes /\ ReqTypes
  BY DEF Types
<1>2. Loadable \subseteq Provider
  BY PushAssumption
<1>3. usage' \in [Loadable -> [Window -> Level]]
  <2>1. ASSUME NEW r \in Run, PassStep(r) PROVE UNCHANGED usage
    BY <2>1 DEF PassStep, StartPass, SaveQuota, ObserveLoads, ObserveStores, Send,
                AppendEvent, LoadQuota, LoadsNothing, Notify, NotifyFails
  <2>2. ASSUME NEW c \in Client, Request(c) PROVE UNCHANGED usage
    BY <2>2 DEF Request, Subscribe, Unsubscribe, PanelLoads, InsertTopic, DeleteUnused,
                StatementFails, PanelSaves
  <2> QED
    BY <1>1, <2>1, <2>2 DEF Next, EndpointGoes, ListNotificationEvents, GetPushConfig,
          PruneEvents, SaveVapidKeysFails, UsageChanges, Crash
<1>4. cache' \in [Provider -> Kept]
  <2>1. ASSUME NEW r \in Run, PassStep(r) PROVE cache' \in [Provider -> Kept]
    <3>1. CASE SaveQuota(r)
      <4>1. run[r].p \in Provider /\ {run[r].q} \in Kept
        <5>1. run[r].pc = "save"
          BY <3>1 DEF SaveQuota, At
        <5> QED
          BY <1>1, <1>2, <5>1, PassShape DEF Kept
      <4> QED
        BY <1>1, <3>1, <4>1 DEF SaveQuota
    <3> QED
      BY <1>1, <2>1, <3>1 DEF PassStep, StartPass, ObserveLoads, ObserveStores, Send,
           AppendEvent, LoadQuota, LoadsNothing, Notify, NotifyFails, quotaVars
  <2>2. ASSUME NEW c \in Client, Request(c) PROVE cache' \in [Provider -> Kept]
    <3>1. CASE PanelSaves(c)
      <4>1. req[c].p \in Provider /\ {req[c].q} \in Kept
        BY <1>1, <1>2, <3>1, ReqShape DEF PanelSaves, Kept
      <4> QED
        BY <1>1, <3>1, <4>1 DEF PanelSaves
    <3> QED
      BY <1>1, <2>2, <3>1 DEF Request, Subscribe, Unsubscribe, PanelLoads, InsertTopic,
           DeleteUnused, StatementFails, quotaVars
  <2>3. CASE Crash
    BY <2>3 DEF Crash, Kept
  <2> QED
    BY <1>1, <2>1, <2>2, <2>3 DEF Next, EndpointGoes, ListNotificationEvents,
          GetPushConfig, PruneEvents, SaveVapidKeysFails, UsageChanges, quotaVars
<1>5. /\ prev' \in [Provider -> Kept] /\ torn' \subseteq Provider
      /\ alarm' \in [Provider -> [Window -> {"blind", "quiet", "raised"}]]
  <2>1. ASSUME NEW r \in Run, ObserveStores(r)
        PROVE  /\ prev' \in [Provider -> Kept] /\ torn' \subseteq Provider
               /\ alarm' \in [Provider -> [Window -> {"blind", "quiet", "raised"}]]
    <3> DEFINE evs == UNION {diffQuota(old, run[r].q) : old \in run[r].old}
    <3>1. run[r].p \in Provider /\ {run[r].q} \in Kept
      <4>1. run[r].pc = "store"
        BY <2>1 DEF ObserveStores, At
      <4> QED
        BY <1>1, <1>2, <4>1, PassShape DEF Kept
    <3>2. /\ prev' = [prev EXCEPT ![run[r].p] = {run[r].q}]
          /\ torn' = torn \/ torn' = torn \cup {run[r].p}
          /\ alarm' = [alarm EXCEPT ![run[r].p] =
                          [w \in Window |-> AlarmAfter(run[r].p, run[r].q, evs, w)]]
      BY <2>1 DEF ObserveStores
    <3> HIDE DEF evs
    <3>3. [w \in Window |-> AlarmAfter(run[r].p, run[r].q, evs, w)]
             \in [Window -> {"blind", "quiet", "raised"}]
      BY <1>1, <3>1, AlarmType
    <3> QED
      BY <1>1, <3>1, <3>2, <3>3
  <2>2. CASE Crash
    BY <1>1, <2>2 DEF Crash, Kept
  <2> QED
    BY <1>1, <2>1, <2>2, WritesSnapshots
<1> QED
  BY <1>3, <1>4, <1>5

\* A pass after a provider, or with events left, is a pass.
LEMMA RemainingType ==
    ASSUME RunTypes, NEW r \in Run, run[r].pc # "idle", NEW p \in Loadable,
           NEW evs \in SUBSET Diff
    PROVE  NextProvider(r, p) \in PassType /\ Remaining(r, p, evs) \in PassType
<1>1. run[r].todo \in SUBSET Loadable /\ run[r].subs \in SUBSET Provider
  BY PassShape
<1>2. run[r].todo \ {p} \in SUBSET Loadable
  BY <1>1
<1>3. NextProvider(r, p) \in PassType
  BY <1>1, <1>2, IdleIsTyped DEF NextProvider, PassType
<1>4. [pc |-> "notify", todo |-> run[r].todo, subs |-> run[r].subs, p |-> p,
       evs |-> evs] \in PassType
  BY <1>1 DEF PassType
<1> QED
  BY <1>3, <1>4 DEF Remaining

LEMMA RunTypesStep ==
    ASSUME Types, Next
    PROVE  RunTypes' /\ nextId' \in 1..MaxEvent + 1
<1>1. RunTypes /\ nextId \in 1..MaxEvent + 1 /\ SubTypes
  BY DEF Types, EventTypes
<1>2. ASSUME NEW r \in Run, NEW x \in PassType, run' = [run EXCEPT ![r] = x]
      PROVE  RunTypes'
  BY <1>1, <1>2 DEF RunTypes
<1>3. ASSUME NEW r \in Run, PassStep(r)
      PROVE  RunTypes' /\ nextId' \in 1..MaxEvent + 1
  <2>1. CASE StartPass(r)
    <3>1. PICK S \in {SubscribedProviderIDs, {}} :
             run' = [run EXCEPT ![r] = [pc |-> "load", todo |-> Loadable, subs |-> S]]
      BY <2>1 DEF StartPass
    <3>2. S \in SUBSET Provider
      BY DEF SubscribedProviderIDs
    <3>3. [pc |-> "load", todo |-> Loadable, subs |-> S] \in PassType
      BY <3>2 DEF PassType
    <3> QED
      BY <1>1, <1>2, <2>1, <3>1, <3>3 DEF StartPass, eventVars
  <2>2. CASE SaveQuota(r)
    <3>1. run[r] \in [pc : {"save"}, todo : SUBSET Loadable, subs : SUBSET Provider,
                      p : Loadable, q : Quota]
      <4>1. run[r] \in PassType /\ run[r].pc = "save"
        BY <1>1, <2>2 DEF RunTypes, SaveQuota, At
      <4> QED
        BY <4>1 DEF PassType
    <3>2. [run[r] EXCEPT !.pc = "observe"] \in PassType
      BY <3>1 DEF PassType
    <3>3. NextProvider(r, run[r].p) \in PassType
      BY <1>1, <3>1, RemainingType
    <3> DEFINE x == IF run[r].p \in run[r].subs THEN [run[r] EXCEPT !.pc = "observe"]
                    ELSE NextProvider(r, run[r].p)
    <3>4. run' = [run EXCEPT ![r] = x] /\ UNCHANGED nextId
      BY <1>1, <2>2 DEF SaveQuota, eventVars, RunTypes
    <3>5. x \in PassType
      BY <3>2, <3>3
    <3> HIDE DEF x
    <3> QED
      BY <1>1, <1>2, <3>4, <3>5
  <2>3. CASE ObserveLoads(r)
    <3> DEFINE x == [pc |-> "store", todo |-> run[r].todo, subs |-> run[r].subs,
                     p |-> run[r].p, q |-> run[r].q, old |-> prev[run[r].p]]
    <3>1. run[r].pc = "observe"
      BY <2>3 DEF ObserveLoads, At
    <3>2. /\ run[r].todo \in SUBSET Loadable /\ run[r].subs \in SUBSET Provider
          /\ run[r].p \in Loadable /\ run[r].q \in Quota
      BY <1>1, <3>1, PassShape
    <3>3. prev[run[r].p] \in Kept
      BY <3>2, PushAssumption DEF Types, QuotaTypes
    <3>4. x \in PassType
      BY <3>2, <3>3 DEF PassType
    <3>5. run' = [run EXCEPT ![r] = x] /\ UNCHANGED nextId
      BY <1>1, <2>3 DEF ObserveLoads, eventVars, RunTypes
    <3> HIDE DEF x
    <3> QED
      BY <1>1, <1>2, <3>4, <3>5
  <2>4. CASE ObserveStores(r)
    <3> DEFINE evs == UNION {diffQuota(old, run[r].q) : old \in run[r].old}
    <3>1. run[r].pc = "store"
      BY <2>4 DEF ObserveStores, At
    <3>2. run[r].p \in Loadable /\ run[r].q \in Quota /\ run[r].old \subseteq Quota
      BY <1>1, <3>1, PassShape DEF Kept
    <3>3. evs \in SUBSET Diff
      BY <3>2, DiffType
    <3>4. run' = [run EXCEPT ![r] = Remaining(r, run[r].p, evs)] /\ UNCHANGED nextId
      BY <2>4 DEF ObserveStores, eventVars
    <3> HIDE DEF evs
    <3>5. Remaining(r, run[r].p, evs) \in PassType
      BY <1>1, <3>1, <3>2, <3>3, RemainingType
    <3> QED
      BY <1>1, <1>2, <3>4, <3>5
  <2>5. CASE AppendEvent(r)
    <3>1. run[r] \in [pc : {"append"}, todo : SUBSET Loadable, subs : SUBSET Provider,
                      p : Loadable, evs : SUBSET Diff, id : 1..MaxEvent,
                      to : SUBSET (Endpoint \ InApp)]
      <4>1. run[r] \in PassType /\ run[r].pc = "append"
        BY <1>1, <2>5 DEF RunTypes, AppendEvent, At
      <4> QED
        BY <4>1 DEF PassType
    <3>2. [run[r] EXCEPT !.pc = "send"] \in PassType
      BY <3>1 DEF PassType
    <3>3. run' = [run EXCEPT ![r] = [run[r] EXCEPT !.pc = "send"]] /\ UNCHANGED nextId
      BY <1>1, <2>5 DEF AppendEvent, RunTypes
    <3> QED
      BY <1>1, <1>2, <3>2, <3>3
  <2>6. CASE Send(r)
    <3>1. run[r].pc = "send"
      BY <2>6 DEF Send, At
    <3>2. Remaining(r, run[r].p, run[r].evs) \in PassType
      BY <1>1, <3>1, PassShape, RemainingType
    <3>3. run' = [run EXCEPT ![r] = Remaining(r, run[r].p, run[r].evs)] /\ UNCHANGED nextId
      BY <1>1, <2>6 DEF Send, eventVars, RunTypes
    <3> QED
      BY <1>1, <1>2, <3>2, <3>3
  <2>7. ASSUME NEW p \in Loadable, NEW q \in Quota, LoadQuota(r, p, q)
        PROVE  RunTypes' /\ UNCHANGED nextId
    <3> DEFINE x == [pc |-> "save", todo |-> run[r].todo, subs |-> run[r].subs,
                     p |-> p, q |-> q]
    <3>1. run[r].pc = "load"
      BY <2>7 DEF LoadQuota, At
    <3>2. run[r].todo \in SUBSET Loadable /\ run[r].subs \in SUBSET Provider
      BY <1>1, <3>1, PassShape
    <3>3. x \in PassType
      BY <3>2 DEF PassType
    <3>4. run' = [run EXCEPT ![r] = x] /\ UNCHANGED nextId
      BY <1>1, <2>7 DEF LoadQuota, eventVars, RunTypes
    <3> HIDE DEF x
    <3> QED
      BY <1>2, <3>3, <3>4
  <2>8. ASSUME NEW p \in Loadable, LoadsNothing(r, p)
        PROVE  RunTypes' /\ UNCHANGED nextId
    <3>1. run[r].pc = "load"
      BY <2>8 DEF LoadsNothing, At
    <3>2. NextProvider(r, p) \in PassType
      BY <1>1, <3>1, RemainingType
    <3> QED
      BY <1>2, <2>8, <3>2 DEF LoadsNothing, eventVars
  <2>9. ASSUME NEW ev \in Diff, Notify(r, ev) \/ NotifyFails(r, ev)
        PROVE  RunTypes' /\ nextId' \in 1..MaxEvent + 1
    <3> DEFINE T == SubscribersOf(run[r].p)
               x == [pc |-> "append", todo |-> run[r].todo, subs |-> run[r].subs,
                     p |-> run[r].p, evs |-> run[r].evs \ {ev}, id |-> nextId,
                     to |-> T \ InApp]
               y == Remaining(r, run[r].p, run[r].evs \ {ev})
    <3>1. run[r].pc = "notify"
      BY <2>9 DEF Notify, NotifyFails, At
    <3>2. /\ run[r].todo \in SUBSET Loadable /\ run[r].subs \in SUBSET Provider
          /\ run[r].p \in Loadable /\ run[r].evs \ {ev} \in SUBSET Diff
      BY <1>1, <3>1, PassShape
    <3>3. y \in PassType
      BY <1>1, <3>1, <3>2, RemainingType
    <3>4. CASE run' = [run EXCEPT ![r] = y] /\ UNCHANGED nextId
      <4> HIDE DEF y
      <4> QED
        BY <1>1, <1>2, <3>3, <3>4
    <3>5. CASE nextId <= MaxEvent /\ nextId' = nextId + 1 /\ run' = [run EXCEPT ![r] = x]
      <4>1. nextId \in 1..MaxEvent /\ nextId' \in 1..MaxEvent + 1
        BY <1>1, <3>5, PushAssumption
      <4>2. T \ InApp \in SUBSET (Endpoint \ InApp)
        BY DEF SubscribersOf
      <4>3. x \in PassType
        <5> HIDE DEF T
        <5> QED
          BY <3>2, <4>1, <4>2 DEF PassType
      <4> HIDE DEF x
      <4> QED
        BY <1>2, <3>5, <4>1, <4>3
    <3>6. \/ run' = [run EXCEPT ![r] = y] /\ UNCHANGED nextId
          \/ nextId <= MaxEvent /\ nextId' = nextId + 1 /\ run' = [run EXCEPT ![r] = x]
      BY <1>1, <2>9 DEF Notify, NotifyFails, eventVars, RunTypes
    <3> QED
      BY <3>4, <3>5, <3>6
  <2> QED
    BY <1>1, <1>3, <2>1, <2>2, <2>3, <2>4, <2>5, <2>6, <2>7, <2>8, <2>9
       DEF PassStep, Diff
<1>4. CASE Crash
  BY <1>1, <1>4, IdleIsTyped DEF Crash, eventVars, RunTypes
<1>5. CASE UNCHANGED <<run, nextId>>
  BY <1>1, <1>5 DEF RunTypes
<1> QED
  BY <1>3, <1>4, <1>5, WritesRun

----------------------------------------------------------------------------
(* Polling. *)

\* A page holds what a poll finds up to its last id, and nothing that is left
\* out lies before it.
LEMMA PageEnds ==
    ASSUME EventTypes, NEW e \in InApp, Visible(e) # {}
    PROVE  LET m == Max({v.id : v \in EventsForEndpoint(e)}) IN
              /\ m \in 1..MaxEvent
              /\ \A v \in Visible(e) \ EventsForEndpoint(e) : v.id > m
              /\ \E v \in Visible(e) : v.id = m
<1> DEFINE V == Visible(e)
           Before(v) == {x \in V : x.id < v.id}
           Page == {v \in V : Cardinality(Before(v)) < PageLimit}
           Ids == {v.id : v \in Page}
<1>1. IsFiniteSet(V) /\ V # {} /\ \A v \in V : v.id \in 1..MaxEvent
  <2>1. V \subseteq events
    BY DEF Visible
  <2>2. \A v \in V : v.id \in 1..MaxEvent
    BY <2>1 DEF EventTypes, Event
  <2> QED
    BY <2>1, <2>2, FS_Subset DEF EventTypes
<1>2. Page = EventsForEndpoint(e)
  BY DEF EventsForEndpoint
<1>3. MaxEvent \in Nat /\ PageLimit \in Nat \ {0}
  BY PushAssumption
<1> HIDE DEF V
<1>4. \A v \in V : IsFiniteSet(Before(v)) /\ Cardinality(Before(v)) \in Nat
  BY <1>1, FS_Subset, FS_CardinalityType
<1>5. Page # {}
  <2> DEFINE All == {v.id : v \in V}
  <2>1. All \in SUBSET Nat
    BY <1>1
  <2>2. All # {}
    <3>1. PICK v \in V : TRUE
      BY <1>1
    <3>2. v.id \in All
      OBVIOUS
    <3> QED
      BY <3>2
  <2>3. PICK i \in All : \A j \in All : i <= j
    <3> HIDE DEF All
    <3> QED
      BY <2>1, <2>2, LeastOf
  <2>4. PICK v \in V : v.id = i
    BY <2>3
  <2>5. Before(v) = {}
    <3>1. ASSUME NEW x \in V PROVE ~(x.id < v.id)
      <4>1. x.id \in All
        OBVIOUS
      <4>2. v.id <= x.id
        BY <2>3, <2>4, <4>1
      <4> QED
        BY <1>1, <4>2
    <3> QED
      BY <3>1
  <2>6. Cardinality(Before(v)) = 0
    BY <2>5, FS_EmptySet
  <2> HIDE DEF Before
  <2>7. v \in Page
    BY <1>3, <2>6
  <2> QED
    BY <2>7
<1>6. Ids \in SUBSET (0..MaxEvent)
  <2>1. \A v \in Page : v.id \in 0..MaxEvent
    BY <1>1, <1>3
  <2> HIDE DEF Page
  <2> QED
    BY <2>1
<1>7. Ids # {}
  <2> HIDE DEF Page
  <2>1. PICK v \in Page : TRUE
    BY <1>5
  <2>2. v.id \in Ids
    OBVIOUS
  <2> QED
    BY <2>2
<1>8. Max(Ids) \in Ids /\ \A y \in Ids : y <= Max(Ids)
  <2> HIDE DEF Ids
  <2> QED
    BY <1>3, <1>6, <1>7, MaxOf
<1>9. PICK last \in Page : last.id = Max(Ids)
  <2> HIDE DEF Page
  <2> QED
    BY <1>8
<1>10. Max(Ids) \in 1..MaxEvent
  <2>1. last \in V
    OBVIOUS
  <2> HIDE DEF Page
  <2> QED
    BY <1>1, <1>9, <2>1
<1>11. ASSUME NEW v \in V \ Page, ~(v.id > Max(Ids)) PROVE FALSE
  <2>1. v.id \in Nat /\ last.id \in Nat /\ last \in V
    BY <1>1
  <2>2. v.id <= last.id
    <3> HIDE DEF Page
    <3> QED
      BY <1>9, <1>11, <2>1
  <2>3. Before(v) \subseteq Before(last)
    <3>1. ASSUME NEW x \in V, x.id < v.id PROVE x.id < last.id
      <4>1. x.id \in Nat
        BY <1>1
      <4> QED
        BY <2>1, <2>2, <3>1, <4>1
    <3> QED
      BY <3>1
  <2>4. IsFiniteSet(Before(last))
    BY <1>4, <2>1
  <2>5. Cardinality(Before(v)) <= Cardinality(Before(last))
    <3> HIDE DEF Before
    <3> QED
      BY <2>3, <2>4, FS_Subset
  <2>6. Cardinality(Before(last)) < PageLimit /\ ~(Cardinality(Before(v)) < PageLimit)
    OBVIOUS
  <2>7. Cardinality(Before(v)) \in Nat /\ Cardinality(Before(last)) \in Nat
    BY <1>4, <2>1
  <2> HIDE DEF Before
  <2> QED
    BY <1>3, <2>5, <2>6, <2>7
<1>12. \A v \in V \ Page : v.id > Max(Ids)
  <2> HIDE DEF Page, Ids
  <2> QED
    BY <1>11
<1>13. \E v \in V : v.id = Max(Ids)
  <2>1. last \in V
    OBVIOUS
  <2> HIDE DEF Page
  <2> QED
    BY <1>9, <2>1
<1> HIDE DEF Page
<1> QED
  BY <1>2, <1>10, <1>12, <1>13 DEF V

\* Events and cursors keep their types.
LEMMA EventTypesStep ==
    ASSUME Types, Next
    PROVE  EventTypes'
<1>1. EventTypes /\ RunTypes
  BY DEF Types
<1>2. nextId' \in 1..MaxEvent + 1
  BY RunTypesStep
<1>3. /\ events' \subseteq Event /\ IsFiniteSet(events')
      /\ cursor' \in [InApp -> 0..MaxEvent]
  <2> USE DEF EventTypes
  <2>1. ASSUME NEW c \in Client, Request(c) PROVE UNCHANGED <<events, cursor>>
    BY <2>1 DEF Request, Subscribe, Unsubscribe, PanelLoads, InsertTopic, DeleteUnused,
                StatementFails, PanelSaves, eventVars
  <2>2. ASSUME NEW r \in Run, Send(r) PROVE UNCHANGED <<events, cursor>>
    BY <2>2 DEF Send, eventVars
  <2>3. ASSUME NEW r \in Run, AppendEvent(r)
        PROVE  /\ events' \subseteq Event /\ IsFiniteSet(events')
               /\ cursor' \in [InApp -> 0..MaxEvent]
    <3> DEFINE ev == [id |-> run[r].id, subject |-> run[r].p]
    <3>1. run[r].pc = "append"
      BY <2>3 DEF AppendEvent, At
    <3>2. ev \in Event
      BY <1>1, <3>1, PassShape, PushAssumption DEF Event
    <3>3. (events' = events \cup {ev} \/ events' = events) /\ cursor' = cursor
      BY <2>3 DEF AppendEvent
    <3> HIDE DEF ev
    <3>4. IsFiniteSet(events \cup {ev})
      BY <1>1, FS_AddElement
    <3> QED
      BY <1>1, <3>2, <3>3, <3>4
  <2>4. ASSUME NEW e \in InApp, ListNotificationEvents(e)
        PROVE  events' = events /\ cursor' \in [InApp -> 0..MaxEvent]
    <3>1. Max({v.id : v \in EventsForEndpoint(e)}) \in 0..MaxEvent
      <4>1. Max({v.id : v \in EventsForEndpoint(e)}) \in 1..MaxEvent
        BY <1>1, <2>4, PageEnds DEF ListNotificationEvents
      <4> QED
        BY <4>1, PushAssumption
    <3> QED
      BY <1>1, <2>4, <3>1 DEF ListNotificationEvents
  <2>5. CASE PruneEvents
    <3>1. events' \subseteq events /\ cursor' = cursor
      BY <2>5 DEF PruneEvents
    <3> QED
      BY <1>1, <3>1, FS_Subset
  <2> QED
    BY <1>1, <2>1, <2>2, <2>3, <2>4, <2>5, WritesEvents
<1> QED
  BY <1>2, <1>3 DEF EventTypes

LEMMA InputTypeStep ==
    ASSUME Types, Next
    PROVE  InputType'
<1>1. inputs \in 0..MaxInput /\ MaxInput \in Nat
  BY PushAssumption DEF Types, InputType
<1>2. ASSUME NEW r \in Run, PassStep(r) PROVE UNCHANGED inputs
  BY <1>2 DEF PassStep, StartPass, SaveQuota, ObserveLoads, ObserveStores, Send,
              AppendEvent, LoadQuota, LoadsNothing, Notify, NotifyFails
<1>3. ASSUME NEW c \in Client, Request(c) PROVE Input \/ UNCHANGED inputs
  BY <1>3 DEF Request, Subscribe, Unsubscribe, PanelLoads, InsertTopic, DeleteUnused,
              StatementFails, PanelSaves
<1>4. Input \/ UNCHANGED inputs
  BY <1>2, <1>3 DEF Next, EndpointGoes, ListNotificationEvents, GetPushConfig,
          PruneEvents, SaveVapidKeysFails, UsageChanges, Crash
<1> QED
  BY <1>1, <1>4 DEF Input, InputType

\* An id that is being inserted was so before, or has just been given out.
LEMMA FlightRuns ==
    ASSUME Types, Next
    PROVE  /\ nextId' \in {nextId, nextId + 1}
           /\ \A r \in Run : run'[r].pc = "append" =>
                 \/ run[r].pc = "append" /\ run'[r].id = run[r].id
                 \/ run'[r].id = nextId /\ nextId' = nextId + 1
<1> DEFINE Old(r) == run[r].pc = "append" /\ run'[r].id = run[r].id
           New(r) == run'[r].id = nextId /\ nextId' = nextId + 1
           Goal == /\ nextId' \in {nextId, nextId + 1}
                   /\ \A r \in Run : run'[r].pc = "append" => Old(r) \/ New(r)
<1>1. RunTypes /\ nextId \in 1..MaxEvent + 1
  BY DEF Types, EventTypes
<1>2. ASSUME NEW r \in Run, NEW x, run' = [run EXCEPT ![r] = x], x.pc # "append",
             UNCHANGED nextId
      PROVE  Goal
  BY <1>1, <1>2 DEF RunTypes
<1>3. ASSUME NEW r, NEW p, NEW evs
      PROVE  NextProvider(r, p).pc # "append" /\ Remaining(r, p, evs).pc # "append"
  BY DEF NextProvider, Remaining, Idle
<1>4. ASSUME NEW r \in Run, PassStep(r) PROVE Goal
  <2>1. CASE StartPass(r)
    BY <1>1, <2>1 DEF StartPass, eventVars, RunTypes
  <2>2. CASE SaveQuota(r)
    <3> DEFINE x == [run[r] EXCEPT !.pc = "observe"]
    <3>1. x.pc # "append"
      <4>1. run[r] \in PassType
        BY <1>1 DEF RunTypes
      <4> QED
        BY <4>1 DEF PassType
    <3>2. \/ run' = [run EXCEPT ![r] = x]
          \/ run' = [run EXCEPT ![r] = NextProvider(r, run[r].p)]
      BY <1>1, <2>2 DEF SaveQuota, RunTypes
    <3>3. UNCHANGED nextId
      BY <2>2 DEF SaveQuota, eventVars
    <3> HIDE DEF x, Goal
    <3> QED
      BY <1>2, <1>3, <3>1, <3>2, <3>3
  <2>3. CASE ObserveLoads(r)
    BY <1>1, <2>3 DEF ObserveLoads, eventVars, RunTypes
  <2>4. CASE ObserveStores(r)
    <3>1. PICK p, evs : run' = [run EXCEPT ![r] = Remaining(r, p, evs)]
      BY <2>4 DEF ObserveStores
    <3>2. UNCHANGED nextId
      BY <2>4 DEF ObserveStores, eventVars
    <3> DEFINE x == Remaining(r, p, evs)
    <3>3. x.pc # "append" /\ run' = [run EXCEPT ![r] = x]
      BY <1>3, <3>1
    <3> HIDE DEF x, Goal
    <3> QED
      BY <1>2, <3>2, <3>3
  <2>5. CASE AppendEvent(r)
    <3> DEFINE x == [run[r] EXCEPT !.pc = "send"]
    <3>1. x.pc # "append"
      <4>1. run[r] \in PassType
        BY <1>1 DEF RunTypes
      <4> QED
        BY <4>1 DEF PassType
    <3>2. run' = [run EXCEPT ![r] = x] /\ UNCHANGED nextId
      BY <1>1, <2>5 DEF AppendEvent, RunTypes
    <3> HIDE DEF x, Goal
    <3> QED
      BY <1>2, <3>1, <3>2
  <2>6. CASE Send(r)
    <3>1. run' = [run EXCEPT ![r] = Remaining(r, run[r].p, run[r].evs)]
      BY <1>1, <2>6 DEF Send, RunTypes
    <3>2. UNCHANGED nextId
      BY <2>6 DEF Send, eventVars
    <3> DEFINE x == Remaining(r, run[r].p, run[r].evs)
    <3>3. x.pc # "append" /\ run' = [run EXCEPT ![r] = x]
      BY <1>3, <3>1
    <3> HIDE DEF x, Goal
    <3> QED
      BY <1>2, <3>2, <3>3
  <2>7. ASSUME NEW p \in Loadable, NEW q \in Quota, LoadQuota(r, p, q) PROVE Goal
    BY <1>1, <2>7 DEF LoadQuota, eventVars, RunTypes
  <2>8. ASSUME NEW p \in Loadable, LoadsNothing(r, p) PROVE Goal
    <3>1. run' = [run EXCEPT ![r] = NextProvider(r, p)] /\ UNCHANGED nextId
      BY <2>8 DEF LoadsNothing, eventVars
    <3> HIDE DEF Goal
    <3> QED
      BY <1>2, <1>3, <3>1
  <2>9. ASSUME NEW ev \in Diff, Notify(r, ev) \/ NotifyFails(r, ev) PROVE Goal
    <3> DEFINE y == Remaining(r, run[r].p, run[r].evs \ {ev})
    <3>1. CASE run' = [run EXCEPT ![r] = y] /\ UNCHANGED nextId
      <4>1. y.pc # "append"
        BY <1>3
      <4> HIDE DEF y, Goal
      <4> QED
        BY <1>2, <3>1, <4>1
    <3>2. ASSUME NEW x, x.id = nextId, run' = [run EXCEPT ![r] = x],
                 nextId' = nextId + 1
          PROVE  Goal
      BY <1>1, <3>2 DEF RunTypes
    <3>3. \/ run' = [run EXCEPT ![r] = y] /\ UNCHANGED nextId
          \/ /\ nextId' = nextId + 1
             /\ \E x : x.id = nextId /\ run' = [run EXCEPT ![r] = x]
      <4> HIDE DEF y
      <4>1. CASE NotifyFails(r, ev)
        BY <1>1, <4>1 DEF NotifyFails, eventVars, RunTypes, y
      <4>2. CASE Notify(r, ev) /\ UNCHANGED nextId
        BY <1>1, <4>2 DEF Notify, RunTypes, y
      <4>3. CASE Notify(r, ev) /\ nextId' = nextId + 1
        BY <1>1, <4>3 DEF Notify, RunTypes
      <4> QED
        BY <2>9, <4>1, <4>2, <4>3 DEF Notify
    <3> HIDE DEF y, Goal
    <3> QED
      BY <3>1, <3>2, <3>3
  <2> HIDE DEF Goal
  <2> QED
    BY <1>4, <2>1, <2>2, <2>3, <2>4, <2>5, <2>6, <2>7, <2>8, <2>9
       DEF PassStep, Diff
<1>5. CASE Crash
  BY <1>5 DEF Crash, eventVars, Idle
<1>6. CASE UNCHANGED <<run, nextId>>
  BY <1>6
<1> QED
  BY <1>4, <1>5, <1>6, WritesRun

\* A poll notes the ids it reads past while they are being inserted, and a new
\* id lies ahead of every cursor.
LEMMA FlightStep ==
    ASSUME Types, FlightInv, Next
    PROVE  FlightInv'
<1>1. /\ EventTypes /\ RunTypes /\ FlightInv /\ nextId \in Nat
      /\ RunTypes' /\ EventTypes'
  BY RunTypesStep, EventTypesStep, PushAssumption DEF Types, EventTypes
<1>2. /\ late \in [InApp -> SUBSET (1..MaxEvent)]
      /\ \A v \in events : v.id < nextId /\ v.id \in Nat
      /\ \A e \in InApp : cursor[e] < nextId /\ cursor[e] \in Nat
  BY <1>1 DEF FlightInv, EventTypes, Event
<1>3. nextId' \in Nat /\ nextId' >= nextId
  BY <1>1, FlightRuns
<1>4. ASSUME NEW r \in Run, run[r].pc = "append"
      PROVE  /\ run[r].id \in 1..MaxEvent /\ run[r].id < nextId
             /\ \A e \in InApp : run[r].id > cursor[e] \/ run[r].id \in late[e]
  BY <1>1, <1>4, PassShape DEF FlightInv
<1>5. ASSUME UNCHANGED <<cursor, late>>, \A v \in events' : v.id < nextId'
      PROVE  FlightInv'
  <2>1. \A e \in InApp : cursor'[e] < nextId'
    BY <1>1, <1>2, <1>3, <1>5
  <2>2. ASSUME NEW r \in Run, run'[r].pc = "append"
        PROVE  /\ run'[r].id < nextId'
               /\ \A e \in InApp : run'[r].id > cursor'[e] \/ run'[r].id \in late'[e]
    <3>1. CASE run[r].pc = "append" /\ run'[r].id = run[r].id
      BY <1>1, <1>3, <1>4, <1>5, <3>1, PushAssumption
    <3>2. CASE run'[r].id = nextId /\ nextId' = nextId + 1
      BY <1>1, <1>2, <1>5, <3>2
    <3> QED
      BY <2>2, <3>1, <3>2, FlightRuns
  <2> QED
    BY <1>2, <1>5, <2>1, <2>2 DEF FlightInv
<1>6. ASSUME events' \subseteq events PROVE \A v \in events' : v.id < nextId'
  BY <1>1, <1>2, <1>3, <1>6
<1>7. ASSUME NEW c \in Client, Request(c) PROVE UNCHANGED <<events, cursor, late>>
  BY <1>7 DEF Request, Subscribe, Unsubscribe, PanelLoads, InsertTopic, DeleteUnused,
              StatementFails, PanelSaves, eventVars
<1>8. ASSUME NEW r \in Run, Send(r) PROVE UNCHANGED <<events, cursor, late>>
  BY <1>8 DEF Send, eventVars
<1>9. ASSUME NEW r \in Run, AppendEvent(r) PROVE FlightInv'
  <2>1. run[r].pc = "append" /\ UNCHANGED <<cursor, late, nextId>>
    BY <1>9 DEF AppendEvent, At
  <2>2. \/ events' = events \cup {[id |-> run[r].id, subject |-> run[r].p]}
        \/ events' = events
    BY <1>9 DEF AppendEvent
  <2>3. \A v \in events' : v.id < nextId'
    BY <1>2, <1>4, <2>1, <2>2
  <2> QED
    BY <1>5, <2>1, <2>3
<1>10. ASSUME NEW e \in InApp, ListNotificationEvents(e) PROVE FlightInv'
  <2> DEFINE m == Max({v.id : v \in EventsForEndpoint(e)})
  <2>1. m \in Nat /\ m < nextId
    <3>1. PICK v \in Visible(e) : v.id = m
      BY <1>1, <1>10, PageEnds DEF ListNotificationEvents
    <3> HIDE DEF m
    <3> QED
      BY <1>2, <3>1 DEF Visible
  <2>2. /\ cursor' = [cursor EXCEPT ![e] = m]
        /\ late' = [late EXCEPT ![e] = late[e] \cup {i \in InFlight : i <= cursor'[e]}]
        /\ UNCHANGED <<events, run, nextId>>
    BY <1>1, <1>2, <1>10 DEF ListNotificationEvents
  <2> HIDE DEF m
  <2>3. cursor' = [cursor EXCEPT ![e] = m] /\ cursor'[e] = m
    BY <1>1, <2>2 DEF EventTypes
  <2>4. InFlight \subseteq 1..MaxEvent
    BY <1>4 DEF InFlight, At
  <2>5. late' \in [InApp -> SUBSET (1..MaxEvent)]
    BY <1>2, <2>2, <2>4
  <2>6. \A x \in InApp : cursor'[x] < nextId'
    BY <1>1, <1>2, <2>1, <2>2, <2>3 DEF EventTypes
  <2>7. ASSUME NEW r \in Run, run'[r].pc = "append"
        PROVE  /\ run'[r].id < nextId'
               /\ \A x \in InApp : run'[r].id > cursor'[x] \/ run'[r].id \in late'[x]
    <3>1. run[r].pc = "append" /\ run'[r].id = run[r].id
      BY <2>2, <2>7
    <3>2. run[r].id \in InFlight
      BY <3>1 DEF InFlight, At
    <3>3. run[r].id > m \/ run[r].id \in late'[e]
      BY <1>2, <1>4, <2>1, <2>2, <2>3, <3>1, <3>2, PushAssumption
    <3>4. ASSUME NEW x \in InApp, x # e
          PROVE  run[r].id > cursor'[x] \/ run[r].id \in late'[x]
      BY <1>1, <1>2, <1>4, <2>2, <3>1, <3>4 DEF EventTypes
    <3> QED
      BY <1>4, <2>2, <2>3, <3>1, <3>3, <3>4
  <2> QED
    BY <1>2, <2>2, <2>5, <2>6, <2>7 DEF FlightInv
<1>11. CASE PruneEvents
  <2>1. events' \subseteq events /\ UNCHANGED <<cursor, late>>
    BY <1>11 DEF PruneEvents
  <2> QED
    BY <1>5, <1>6, <2>1
<1>12. CASE UNCHANGED <<events, cursor, late>>
  BY <1>5, <1>6, <1>12
<1> QED
  BY <1>7, <1>8, <1>9, <1>10, <1>11, <1>12, WritesEvents

\* What is due to an endpoint stays visible until a page shows it.
LEMMA DueStep ==
    ASSUME Types, DueInv, FlightInv, Next
    PROVE  DueInv'
<1>1. /\ EventTypes /\ RunTypes /\ ReqTypes /\ SubTypes
      /\ due \in [InApp -> SUBSET events]
  BY DEF Types, DueInv
<1>2. InApp \subseteq Endpoint /\ late \in [InApp -> SUBSET (1..MaxEvent)]
  BY PushAssumption DEF FlightInv
<1>3. ASSUME NEW e \in InApp, NEW v \in due[e]
      PROVE  v \in events /\ v.subject \in topics[e]
             /\ (v.id > cursor[e] \/ v.id \in late[e])
  BY <1>1 DEF DueInv
<1>4. ASSUME NEW c \in Client, Request(c) PROVE DueInv'
  <2>1. ASSUME NEW e \in Endpoint, NEW s \in Provider, Unsubscribe(c, e, s)
        PROVE  DueInv'
    BY <1>1, <1>2, <1>3, <2>1 DEF Unsubscribe, ForgetDue, DueInv, SubTypes
  <2>2. CASE InsertTopic(c)
    <3>1. req[c].pc = "topic"
      BY <2>2 DEF InsertTopic
    <3>2. \A e \in Endpoint : topics[e] \subseteq topics'[e]
      BY <1>1, <2>2, <3>1, ReqShape DEF InsertTopic, SubTypes
    <3>3. UNCHANGED <<events, cursor, due, late>>
      BY <2>2 DEF InsertTopic, eventVars
    <3> QED
      BY <1>1, <1>2, <1>3, <3>2, <3>3 DEF DueInv
  <2>3. CASE DeleteUnused(c) \/ StatementFails(c) \/ PanelSaves(c)
             \/ (\E p \in Loadable : PanelLoads(c, p))
             \/ \E e \in Endpoint, s \in Provider : Subscribe(c, e, s)
    <3>1. UNCHANGED <<events, cursor, due, late, topics>>
      BY <2>3 DEF DeleteUnused, StatementFails, PanelSaves, PanelLoads, Subscribe,
                  eventVars, subVars
    <3> QED
      BY <1>1, <1>3, <3>1 DEF DueInv
  <2> QED
    BY <1>4, <2>1, <2>2, <2>3 DEF Request
<1>5. ASSUME NEW r \in Run, Send(r) PROVE DueInv'
  <2>1. PICK D \in SUBSET (run[r].to \cap gone) :
           topics' = [e \in Endpoint |-> IF e \in (run[r].to \cap gone) \ D THEN {}
                                         ELSE topics[e]]
    BY <1>5 DEF Send
  <2>2. \A e \in InApp : topics'[e] = topics[e]
    BY <1>1, <1>2, <2>1 DEF SubTypes
  <2> QED
    BY <1>1, <1>3, <1>5, <2>2 DEF Send, eventVars, DueInv
<1>6. ASSUME NEW r \in Run, AppendEvent(r) PROVE DueInv'
  <2> DEFINE ev == [id |-> run[r].id, subject |-> run[r].p]
  <2>1. /\ run[r].pc = "append" /\ UNCHANGED <<topics, cursor, late>>
    BY <1>6 DEF AppendEvent, At, subVars
  <2>2. \A e \in InApp : ev.id > cursor[e] \/ ev.id \in late[e]
    BY <2>1 DEF FlightInv
  <2>3. CASE UNCHANGED <<events, due>>
    BY <1>1, <1>3, <2>1, <2>3 DEF DueInv
  <2>4. CASE /\ events' = events \cup {ev}
             /\ due' = [e \in InApp |-> IF ev.subject \in topics[e]
                                        THEN due[e] \cup {ev} ELSE due[e]]
    <3> HIDE DEF ev
    <3> QED
      BY <1>1, <1>3, <2>1, <2>2, <2>4 DEF DueInv
  <2> QED
    BY <1>6, <2>3, <2>4 DEF AppendEvent
<1>7. ASSUME NEW e \in InApp, ListNotificationEvents(e) PROVE DueInv'
  <2> DEFINE m == Max({v.id : v \in EventsForEndpoint(e)})
  <2>1. \A v \in Visible(e) \ EventsForEndpoint(e) : v.id > m
    BY <1>1, <1>7, PageEnds DEF ListNotificationEvents
  <2>2. /\ cursor' = [cursor EXCEPT ![e] = m] /\ UNCHANGED <<events, topics>>
        /\ due' = [due EXCEPT ![e] = due[e] \ EventsForEndpoint(e)]
        /\ \A x \in InApp : late[x] \subseteq late'[x]
    BY <1>1, <1>2, <1>7 DEF ListNotificationEvents, subVars
  <2> HIDE DEF m
  <2>3. ASSUME NEW x \in InApp, NEW v \in due'[x]
        PROVE  /\ v \in events /\ v.subject \in topics[x]
               /\ v.id > cursor'[x] \/ v.id \in late'[x]
    <3>1. CASE x = e
      <4>1. v \in due[e] /\ v \notin EventsForEndpoint(e)
        BY <1>1, <2>2, <3>1
      <4>2. CASE v.id \in late[e]
        BY <1>3, <2>2, <3>1, <4>1, <4>2
      <4>3. CASE v.id > cursor[e]
        <5>1. v \in Visible(e)
          BY <1>3, <4>1, <4>3 DEF Visible
        <5> QED
          BY <1>1, <1>3, <2>1, <2>2, <3>1, <4>1, <5>1 DEF EventTypes
      <4> QED
        BY <1>3, <4>1, <4>2, <4>3
    <3>2. CASE x # e
      BY <1>1, <1>3, <2>2, <3>2 DEF EventTypes
    <3> QED
      BY <3>1, <3>2
  <2> QED
    BY <1>1, <2>2, <2>3 DEF DueInv
<1>8. CASE PruneEvents
  BY <1>1, <1>3, <1>8 DEF PruneEvents, DueInv, subVars
<1>9. CASE UNCHANGED <<events, cursor, due, late, topics>>
  BY <1>1, <1>3, <1>9 DEF DueInv
<1> QED
  BY <1>4, <1>5, <1>6, <1>7, <1>8, <1>9, WritesEvents

----------------------------------------------------------------------------
(* Subscriptions, keys and snapshots. *)

\* Deleting the rows E orphans the requests that would have used them.
LEMMA OrphanedReqs ==
    ASSUME ReqTypes, NEW E, NEW C, NEW x \in Client
    PROVE  LET o == Orphaned(E, C)[x] IN
              o.pc = "topic" /\ o.valid => /\ o = req[x] /\ req[x].e \notin E
<1>1. Idle.pc # "topic"
  BY DEF Idle
<1>2. Orphaned(E, C)[x] = IF x \in C THEN Idle
                          ELSE IF req[x].pc = "topic" /\ req[x].e \in E
                               THEN [req[x] EXCEPT !.valid = FALSE] ELSE req[x]
  BY DEF Orphaned
<1> QED
  BY <1>1, <1>2, OrphanShape

LEMMA RowsStep ==
    ASSUME Types, RowsInv, Next
    PROVE  RowsInv'
<1>1. /\ ReqTypes /\ SubTypes /\ DOMAIN req = Client /\ DOMAIN topics = Endpoint
      /\ \A e \in Endpoint : topics[e] # {} => e \in row
      /\ \A c \in Client : req[c].pc = "topic" /\ req[c].valid => req[c].e \in row
  BY DEF Types, RowsInv, ReqTypes, SubTypes
<1>2. Idle.pc = "idle"
  BY DEF Idle
<1>3. ASSUME NEW c \in Client, Request(c) PROVE RowsInv'
  <2>1. ASSUME NEW e \in Endpoint, NEW s \in Provider, Subscribe(c, e, s)
        PROVE  RowsInv'
    <3>1. /\ row' = row \cup {e} /\ UNCHANGED topics
          /\ req' = [req EXCEPT ![c] = [pc |-> "topic", e |-> e, s |-> s, valid |-> TRUE]]
      BY <2>1 DEF Subscribe
    <3> QED
      BY <1>1, <3>1 DEF RowsInv
  <2>2. ASSUME NEW e \in Endpoint, NEW s \in Provider, Unsubscribe(c, e, s)
        PROVE  RowsInv'
    <3>1. /\ UNCHANGED row /\ topics' = [topics EXCEPT ![e] = topics[e] \ {s}]
          /\ req' = [req EXCEPT ![c] = [pc |-> "cleanup", e |-> e]]
      BY <2>2 DEF Unsubscribe
    <3> QED
      BY <1>1, <3>1 DEF RowsInv
  <2>3. CASE InsertTopic(c)
    <3>1. req[c].pc = "topic" /\ UNCHANGED row /\ req' = [req EXCEPT ![c] = Idle]
      BY <2>3 DEF InsertTopic
    <3>2. \A e \in Endpoint : topics'[e] # {} => e \in row
      BY <1>1, <2>3, <3>1, ReqShape DEF InsertTopic
    <3> QED
      BY <1>1, <1>2, <3>1, <3>2 DEF RowsInv
  <2>4. CASE DeleteUnused(c)
    <3>1. req[c].pc = "cleanup" /\ UNCHANGED topics
      BY <2>4 DEF DeleteUnused
    <3>2. CASE topics[req[c].e] = {}
      <4>1. row' = row \ {req[c].e} /\ req' = Orphaned({req[c].e}, {c})
        BY <2>4, <3>2 DEF DeleteUnused
      <4>2. \A x \in Client : req'[x].pc = "topic" /\ req'[x].valid =>
                                 req'[x] = req[x] /\ req[x].e # req[c].e
        BY <1>1, <4>1, OrphanedReqs
      <4> QED
        BY <1>1, <3>1, <3>2, <4>1, <4>2 DEF RowsInv
    <3>3. CASE topics[req[c].e] # {}
      <4>1. UNCHANGED row /\ req' = [req EXCEPT ![c] = Idle]
        BY <2>4, <3>3 DEF DeleteUnused
      <4> QED
        BY <1>1, <1>2, <3>1, <4>1 DEF RowsInv
    <3> QED
      BY <3>2, <3>3
  <2>5. CASE StatementFails(c) \/ PanelSaves(c)
    BY <1>1, <1>2, <2>5 DEF StatementFails, PanelSaves, subVars, RowsInv
  <2>6. ASSUME NEW p \in Loadable, PanelLoads(c, p) PROVE RowsInv'
    <3>1. PICK q : req' = [req EXCEPT ![c] = [pc |-> "quota", p |-> p, q |-> q]]
      BY <2>6 DEF PanelLoads
    <3> QED
      BY <1>1, <2>6, <3>1 DEF PanelLoads, subVars, RowsInv
  <2> QED
    BY <1>3, <2>1, <2>2, <2>3, <2>4, <2>5, <2>6 DEF Request
<1>4. ASSUME NEW r \in Run, Send(r) PROVE RowsInv'
  <2>1. PICK dead :
           /\ row' = row \ dead
           /\ topics' = [e \in Endpoint |-> IF e \in dead THEN {} ELSE topics[e]]
           /\ req' = Orphaned(dead, {})
    BY <1>4 DEF Send
  <2>2. \A x \in Client : req'[x].pc = "topic" /\ req'[x].valid =>
                             req'[x] = req[x] /\ req[x].e \notin dead
    BY <1>1, <2>1, OrphanedReqs
  <2> QED
    BY <1>1, <2>1, <2>2 DEF RowsInv
<1>5. CASE Crash
  BY <1>1, <1>2, <1>5 DEF Crash, subVars, RowsInv
<1>6. CASE UNCHANGED <<req, row, topics>>
  BY <1>1, <1>6 DEF RowsInv
<1> QED
  BY <1>3, <1>4, <1>5, <1>6, WritesReq

\* A row goes with the last of its topics, or with its endpoint.
LEMMA RowsGo ==
    ASSUME Types, Next, NEW e \in row \ row'
    PROVE  e \in gone \/ topics[e] = {}
<1>1. ASSUME NEW c \in Client, Request(c) PROVE topics[e] = {}
  BY <1>1 DEF Request, Subscribe, Unsubscribe, InsertTopic, DeleteUnused, StatementFails,
              PanelLoads, PanelSaves, subVars
<1>2. ASSUME NEW r \in Run, Send(r) PROVE e \in gone
  BY <1>2 DEF Send
<1> QED
  BY <1>1, <1>2, WritesReq DEF Crash, subVars

\* A generated pair is a pair.
LEMMA FreshPairType == FreshPair \in KeyPair
<1>1. \E k \in KeyPair : k # handed
  BY PushAssumption
<1> QED
  BY <1>1 DEF FreshPair

\* Memory and browsers keep to the one pair, once there is one.
LEMMA KeysStep ==
    ASSUME KeysInv, Next
    PROVE  KeysInv'
<1>1. /\ keysDb \in KeyPair \cup {NoKeys} /\ EnvKeys \in KeyPair \cup {NoKeys}
      /\ keysMem = Pair \/ keysMem = NoKeys
      /\ handed = Pair \/ handed = NoKeys
      /\ NoKeys \notin KeyPair
  BY PushAssumption DEF KeysInv
<1>2. {keysMem, keysDb, EnvKeys} = {NoKeys} <=>
         keysMem = NoKeys /\ keysDb = NoKeys /\ EnvKeys = NoKeys
  OBVIOUS
<1>3. ASSUME ResolveKeys
      PROVE  /\ keysDb' \in KeyPair \cup {NoKeys} /\ keysMem' = Pair'
             /\ Resolved = Pair' /\ (handed = Pair' \/ handed = NoKeys)
  BY <1>1, <1>2, <1>3, FreshPairType DEF ResolveKeys, Resolved, Pair
<1>4. CASE ResolveKeys /\ UNCHANGED handed
  <2>1. keysMem' = Pair' /\ (handed' = Pair' \/ handed' = NoKeys)
    BY <1>3, <1>4
  <2> QED
    BY <1>3, <1>4, <2>1 DEF KeysInv
<1>5. CASE GetPushConfig
  <2>1. ResolveKeys /\ (handed' = Resolved \/ handed' = handed)
    BY <1>5 DEF GetPushConfig
  <2>2. keysMem' = Pair' /\ (handed' = Pair' \/ handed' = NoKeys)
    BY <1>3, <2>1
  <2> QED
    BY <1>3, <2>1, <2>2 DEF KeysInv
<1>6. CASE SaveVapidKeysFails
  BY <1>1, <1>2, <1>6, FreshPairType DEF SaveVapidKeysFails, Pair, KeysInv
<1>7. CASE Crash
  BY <1>1, <1>7 DEF Crash, Pair, KeysInv
<1>8. CASE UNCHANGED keyVars
  BY <1>1, <1>8 DEF keyVars, Pair, KeysInv
<1> QED
  BY <1>4, <1>5, <1>6, <1>7, <1>8, WritesKeys

\* A snapshot that was compared with the one it replaces has its exhausted
\* windows reported.
LEMMA ReportStep ==
    ASSUME Types, ExhaustionReported, Next
    PROVE  ExhaustionReported'
<1>1. QuotaTypes /\ RunTypes
  BY DEF Types
<1>2. ASSUME NEW r \in Run, ObserveStores(r) PROVE ExhaustionReported'
  <2> DEFINE evs == UNION {diffQuota(old, run[r].q) : old \in run[r].old}
  <2>1. run[r].pc = "store"
    BY <1>2 DEF ObserveStores, At
  <2>2. PICK p \in Provider : p = run[r].p
    BY <1>1, <2>1, PassShape, PushAssumption
  <2>3. PICK q \in Quota : q = run[r].q
    BY <1>1, <2>1, PassShape
  <2>4. /\ prev' = [prev EXCEPT ![p] = {q}]
        /\ torn' = IF run[r].old = prev[p] THEN torn ELSE torn \cup {p}
        /\ alarm' = [alarm EXCEPT ![p] = [w \in Window |-> AlarmAfter(p, q, evs, w)]]
    BY <1>2, <2>2, <2>3 DEF ObserveStores
  <2>5. ASSUME p \notin torn', NEW w \in Window, w \in DOMAIN q,
               q[w] >= exhaustedThreshold
        PROVE  AlarmAfter(p, q, evs, w) # "quiet"
    <3>1. run[r].old = prev[p] /\ p \notin torn
      BY <2>4, <2>5
    <3>2. q[w] \in Nat
      BY <2>5, QuotaFacts
    <3>3. ASSUME <<w, "exhausted">> \notin evs, NEW old \in prev[p], w \in DOMAIN old
          PROVE  alarm[p][w] # "quiet"
      <4>1. old \in Quota
        BY <1>1 DEF QuotaTypes, Kept
      <4>2. old[w] \in Nat
        BY <3>3, <4>1, QuotaFacts
      <4>3. <<w, "exhausted">> \notin diffQuota(old, q)
        BY <2>3, <3>1, <3>3
      <4>4. ~(old[w] < 100000)
        BY <2>5, <3>3, <4>3 DEF diffQuota
      <4>5. old[w] >= exhaustedThreshold
        BY <4>2, <4>4 DEF exhaustedThreshold
      <4> QED
        BY <3>1, <3>3, <4>5 DEF ExhaustionReported
    <3>4. ~(q[w] < exhaustedThreshold)
      BY <2>5, <3>2 DEF exhaustedThreshold
    <3> HIDE DEF evs
    <3> QED
      BY <2>5, <3>3, <3>4 DEF AlarmAfter
  <2> HIDE DEF evs
  <2>6. ASSUME NEW x \in Provider \ torn', NEW w \in Window, NEW y \in prev'[x],
               w \in DOMAIN y, y[w] >= exhaustedThreshold
        PROVE  alarm'[x][w] # "quiet"
    <3>1. CASE x = p
      <4>1. y = q /\ alarm'[x][w] = AlarmAfter(p, q, evs, w)
        BY <1>1, <2>4, <2>6, <3>1 DEF QuotaTypes
      <4> QED
        BY <2>5, <2>6, <3>1, <4>1
    <3>2. CASE x # p
      <4>1. x \notin torn /\ y \in prev[x] /\ alarm'[x][w] = alarm[x][w]
        BY <1>1, <2>4, <2>6, <3>2 DEF QuotaTypes
      <4> QED
        BY <2>6, <4>1 DEF ExhaustionReported
    <3> QED
      BY <3>1, <3>2
  <2> QED
    BY <2>6 DEF ExhaustionReported, exhaustedThreshold
<1>3. CASE Crash
  BY <1>3 DEF Crash, ExhaustionReported
<1>4. CASE UNCHANGED <<prev, alarm, torn>>
  BY <1>4 DEF ExhaustionReported
<1> QED
  BY <1>2, <1>3, <1>4, WritesSnapshots

----------------------------------------------------------------------------
(* The theorems. *)

LEMMA PushInvInit == Init => PushInv
<1> SUFFICES ASSUME Init PROVE PushInv
  OBVIOUS
<1>1. Idle \in ReqType /\ Idle \in PassType /\ Idle.pc = "idle"
  BY IdleIsTyped DEF Idle
<1>2. MaxEvent \in Nat /\ MaxInput \in Nat
  BY PushAssumption
<1>3. IsFiniteSet({})
  BY FS_EmptySet
<1>4. Types
  BY <1>1, <1>2, <1>3 DEF Init, Types, ReqTypes, SubTypes, QuotaTypes, RunTypes,
        EventTypes, InputType, Kept
<1>5. RowsInv
  BY <1>1 DEF Init, RowsInv
<1>6. KeysInv
  BY DEF Init, KeysInv
<1>7. ExhaustionReported
  BY DEF Init, ExhaustionReported
<1>8. DueInv
  BY DEF Init, DueInv
<1>9. FlightInv
  BY <1>1 DEF Init, FlightInv
<1> QED
  BY <1>4, <1>5, <1>6, <1>7, <1>8, <1>9 DEF PushInv

LEMMA PushInvStep == PushInv /\ [Next]_vars => PushInv'
<1> SUFFICES ASSUME PushInv, [Next]_vars PROVE PushInv'
  OBVIOUS
<1>1. Types /\ RowsInv /\ KeysInv /\ ExhaustionReported /\ DueInv /\ FlightInv
  BY DEF PushInv
<1>2. CASE Next
  <2>1. Types'
    BY <1>1, <1>2, ReqTypesStep, SubTypesStep, QuotaTypesStep, RunTypesStep,
       EventTypesStep, InputTypeStep DEF Types
  <2> QED
    BY <1>1, <1>2, <2>1, RowsStep, KeysStep, ReportStep, DueStep, FlightStep
       DEF PushInv
<1>3. CASE UNCHANGED vars
  <2> USE <1>3 DEF vars, subVars, quotaVars, eventVars, keyVars
  <2>1. Types'
    BY <1>1 DEF Types, ReqTypes, SubTypes, QuotaTypes, RunTypes, EventTypes, InputType
  <2>2. RowsInv' /\ ExhaustionReported'
    BY <1>1 DEF RowsInv, ExhaustionReported
  <2>3. KeysInv'
    BY <1>1 DEF KeysInv, Pair
  <2>4. DueInv' /\ FlightInv'
    BY <1>1 DEF DueInv, FlightInv
  <2> QED
    BY <2>1, <2>2, <2>3, <2>4 DEF PushInv
<1> QED
  BY <1>2, <1>3

\* Requests, passes, snapshots, events and keys are of their types, and hold
\* together as PushInv says, in every state (push_repo.go, push.go,
\* quota_watcher.go, notifications.go).
THEOREM PushInvariant == Spec => []PushInv
<1> QED
  BY PushInvInit, PushInvStep, PTL DEF Spec

LEMMA PushTypeOK == PushInv => TypeOK
<1> SUFFICES ASSUME PushInv PROVE TypeOK
  OBVIOUS
<1>1. Types /\ KeysInv /\ DueInv /\ FlightInv
  BY DEF PushInv
<1>2. {keysMem, keysDb, handed} \subseteq KeyPair \cup {NoKeys}
  BY <1>1, PushAssumption DEF KeysInv, Pair
<1>3. \A r \in Run : run[r].pc # "idle" => run[r].todo \subseteq Loadable
  BY <1>1, PassShape DEF Types
<1> QED
  BY <1>1, <1>2, <1>3 DEF Types, SubTypes, QuotaTypes, EventTypes, InputType, DueInv,
        FlightInv, TypeOK

\* A topic always belongs to a subscription, and a subscription is only deleted
\* without topics or with a dead endpoint, however many requests and passes
\* overlap (push_repo.go Subscribe, Unsubscribe, push.go Notify).
THEOREM TopicsBelongToRows == Spec => TopicsFollowRows
<1> DEFINE Safe == TypeOK /\ \A e \in Endpoint : topics[e] # {} => e \in row
           Goes == \A e \in row \ row' : e \in gone \/ topics[e] = {}
<1>1. PushInv => Safe
  BY PushTypeOK DEF PushInv, RowsInv
<1>2. PushInv /\ [Next]_vars => [Goes]_vars
  BY RowsGo DEF PushInv
<1>3. Spec => []Safe
  <2> HIDE DEF Safe
  <2> QED
    BY <1>1, PushInvariant, PTL
<1>4. Spec => [][Goes]_vars
  <2> HIDE DEF Goes
  <2> QED
    BY <1>2, PushInvariant, PTL DEF Spec
<1> QED
  BY <1>3, <1>4 DEF TopicsFollowRows

\* An exhausted window was reported when it got there (quota_watcher.go
\* Observe, diffQuota), for any number of windows, levels and passes.
THEOREM ExhaustionIsReported == Spec => []ExhaustionReported
<1>1. PushInv => ExhaustionReported
  BY DEF PushInv
<1> QED
  BY <1>1, PushInvariant, PTL

\* Polling by id skips an event only if its insert was under way when the
\* endpoint read past its id, for any page size and any number of overlapping
\* passes (push_repo.go AppendEvent, EventsForEndpoint, notifications.go lastID).
THEOREM PollingSkipsOnlyLate == Spec => []DueIsAhead
<1>1. PushInv => DueIsAhead
  BY DEF PushInv, DueInv, DueIsAhead
<1> QED
  BY <1>1, PushInvariant, PTL

\* The key pair browsers subscribed with is the one the process uses, after
\* any crashes and half-stored pairs (push.go resolveKeys, push_repo.go
\* SaveVapidKeys).
THEOREM KeysStay == Spec => []KeysAreKept
<1>1. PushInv => KeysAreKept
  BY DEF PushInv, KeysInv, KeysAreKept
<1> QED
  BY <1>1, PushInvariant, PTL
============================================================================
