----------------------------- MODULE QuotaPush -----------------------------
(***************************************************************************)
(* Provider quotas and the notifications about them.  Passes of the cron   *)
(* quota_loader ask the vendors for each provider's usage, cache it, and   *)
(* hand it to the QuotaWatcher, which compares it with the snapshot before *)
(* and has the Notifier write an event and push it to the subscribers.     *)
(* Browsers subscribe and unsubscribe meanwhile, the panel reads quotas    *)
(* through the same cache and polls the events, endpoints die at the push  *)
(* service, and the process may crash.                                     *)
(*                                                                         *)
(* A quota is a function from the windows it reports to their used share,  *)
(* in thousandths of a percent; a vendor's error is a quota without        *)
(* windows.  A subject is the quota topic of a provider and stands for it. *)
(* A statement of the database is atomic, two statements are not.          *)
(***************************************************************************)
EXTENDS Integers, FiniteSets, FiniteSetsExt

CONSTANTS
    Provider,   \* the providers; each is the subject of a topic
    Loadable,   \* those quota_loader asks about: not custom, not disabled
    Window,     \* the windows of a quota (name and minutes)
    Level,      \* the used shares a vendor may report
    Endpoint,   \* the endpoints of the browsers
    InApp,      \* those with the prefix "inapp:", which poll for events
    Client,     \* panel requests in progress
    Run,        \* passes of quota_loader; a slow one overlaps the next
    KeyPair,    \* VAPID key pairs
    EnvKeys,    \* the pair in the environment, or NoKeys
    NoKeys,
    PageLimit,  \* notificationEventsLimit
    MaxEvent,   \* bound: event ids given out
    MaxBusy,    \* bound: requests and passes in progress at once
    MaxInput    \* bound: requests, changes of usage, crashes

ASSUME PushAssumption ==
    /\ Loadable \subseteq Provider /\ InApp \subseteq Endpoint
    /\ Level \subseteq Nat /\ NoKeys \notin KeyPair
    /\ \E k, l \in KeyPair : k # l
    /\ EnvKeys \in KeyPair \cup {NoKeys}
    /\ PageLimit \in Nat \ {0} /\ {MaxEvent, MaxBusy, MaxInput} \subseteq Nat

exhaustedThreshold == 99999
resetDropThreshold == 1000

VARIABLES
    row,        \* endpoints with a row in push_subscriptions
    topics,     \* topics[e]: subjects of e in push_subscription_topics
    gone,       \* endpoints the push service answers 404 or 410 for
    req,        \* req[c]: the request client c is in
    usage,      \* what the vendor would report of a loadable provider
    cache,      \* the cache: the quotas saved per provider
    prev,       \* QuotaWatcher.previous
    run,        \* run[r]: the pass r
    events,     \* the committed rows of push_events
    nextId,     \* the sequence behind their ids
    cursor,     \* the last id an in-app endpoint has read up to
    due,        \* history: the events an in-app endpoint has still to be shown
    late,       \* history: the ids an endpoint read past while their rows were
                \* being inserted
    keysMem,    \* Notifier.keys
    keysDb,     \* the row of push_vapid_keys
    handed,     \* history: the public key browsers subscribed with
    alarm,      \* history: how the last stored snapshot's windows came about
    torn,       \* history: providers whose snapshot two passes replaced at once
    inputs      \* the inputs so far

subVars == <<row, topics, gone>>
keyVars == <<keysMem, keysDb, handed>>
quotaVars == <<cache, prev, alarm, torn>>
eventVars == <<events, nextId, cursor, due, late>>
vars == <<subVars, req, usage, quotaVars, run, eventVars, keyVars, inputs>>

Quota == UNION {[W -> Level] : W \in SUBSET Window}
NoWindows == CHOOSE q \in Quota : DOMAIN q = {}
Kept == {{}} \cup {{q} : q \in Quota}   \* a map entry: absent, or a quota
Event == [id : 1..MaxEvent, subject : Provider]

Idle == [pc |-> "idle"]
At(r, pc) == run[r].pc = pc
Input == inputs < MaxInput /\ inputs' = inputs + 1
Room == Cardinality({c \in Client : req[c] # Idle})
        + Cardinality({r \in Run : run[r] # Idle}) < MaxBusy

Init ==
    /\ row = {} /\ topics = [e \in Endpoint |-> {}] /\ gone = {}
    /\ req = [c \in Client |-> Idle]
    /\ usage \in [Loadable -> [Window -> Level]]
    /\ cache = [p \in Provider |-> {}] /\ prev = [p \in Provider |-> {}]
    /\ run = [r \in Run |-> Idle]
    /\ events = {} /\ nextId = 1
    /\ cursor = [e \in InApp |-> 0] /\ due = [e \in InApp |-> {}]
    /\ late = [e \in InApp |-> {}]
    /\ keysMem = NoKeys /\ keysDb = NoKeys /\ handed = NoKeys
    /\ alarm = [p \in Provider |-> [w \in Window |-> "blind"]] /\ torn = {}
    /\ inputs = 0

----------------------------------------------------------------------------
(***************************************************************************)
(* Subscriptions.  Subscribe and Unsubscribe are two statements each; a    *)
(* row that is deleted takes its topics with it, and its id is no longer   *)
(* good for a Subscribe that has upserted it.                              *)
(***************************************************************************)
SubscribersOf(s) == {e \in Endpoint : s \in topics[e]}
SubscribedProviderIDs == {s \in Provider : SubscribersOf(s) # {}}

ForgetDue(e, S) ==
    due' = [x \in InApp |-> IF x = e THEN {v \in due[x] : v.subject \notin S}
                                    ELSE due[x]]

Subscribe(c, e, s) ==
    /\ req[c] = Idle /\ Room /\ Input
    /\ row' = row \cup {e}
    /\ req' = [req EXCEPT ![c] = [pc |-> "topic", e |-> e, s |-> s, valid |-> TRUE]]
    /\ UNCHANGED <<topics, gone, usage, quotaVars, run, eventVars, keyVars>>

\* The second statement; it fails when the row with that id was deleted.
InsertTopic(c) ==
    /\ req[c].pc = "topic"
    /\ topics' = IF req[c].valid
                 THEN [topics EXCEPT ![req[c].e] = @ \cup {req[c].s}]
                 ELSE topics
    /\ req' = [req EXCEPT ![c] = Idle]
    /\ UNCHANGED <<row, gone, usage, quotaVars, run, eventVars, keyVars, inputs>>

\* Of an endpoint without a row it would change nothing.
Unsubscribe(c, e, s) ==
    /\ e \in row /\ req[c] = Idle /\ Room /\ Input
    /\ topics' = [topics EXCEPT ![e] = @ \ {s}]
    /\ ForgetDue(e, {s})
    /\ req' = [req EXCEPT ![c] = [pc |-> "cleanup", e |-> e]]
    /\ UNCHANGED <<row, gone, usage, quotaVars, run, events, nextId, cursor,
                   late, keyVars>>

\* Requests after the deletion of the rows E, with those of C ended.
Orphaned(E, C) ==
    [x \in Client |-> IF x \in C THEN Idle
                      ELSE IF req[x].pc = "topic" /\ req[x].e \in E
                           THEN [req[x] EXCEPT !.valid = FALSE] ELSE req[x]]

\* Mutant: the row is deleted whatever topics it still has.
DeleteUnusedAlways(c) ==
    /\ req[c].pc = "cleanup"
    /\ LET e == req[c].e IN
          /\ row' = row \ {e} /\ topics' = [topics EXCEPT ![e] = {}]
          /\ ForgetDue(e, Provider) /\ req' = Orphaned({e}, {c})
    /\ UNCHANGED <<gone, usage, quotaVars, run, events, nextId, cursor, late,
                   keyVars, inputs>>

\* The second statement of Unsubscribe: the row, if it has no topic left.
DeleteUnused(c) ==
    /\ req[c].pc = "cleanup"
    /\ LET e == req[c].e IN
          IF topics[e] = {}
          THEN row' = row \ {e} /\ req' = Orphaned({e}, {c})
          ELSE UNCHANGED row /\ req' = [req EXCEPT ![c] = Idle]
    /\ UNCHANGED <<topics, gone, usage, quotaVars, run, eventVars, keyVars, inputs>>

\* The second statement of either fails.
StatementFails(c) ==
    /\ req[c].pc \in {"topic", "cleanup"}
    /\ req' = [req EXCEPT ![c] = Idle]
    /\ UNCHANGED <<subVars, usage, quotaVars, run, eventVars, keyVars, inputs>>

EndpointGoes(e) ==
    /\ e \notin gone \cup InApp
    /\ gone' = gone \cup {e}
    /\ UNCHANGED <<row, topics, req, usage, quotaVars, run, eventVars, keyVars,
                   inputs>>

----------------------------------------------------------------------------
(***************************************************************************)
(* The VAPID keys, resolved under keysMu by GetPushConfig and Notify.      *)
(***************************************************************************)
\* A generated pair differs from the one browsers hold.
FreshPair == CHOOSE k \in KeyPair : k # handed

\* The pair the caller gets.
Resolved ==
    IF keysMem # NoKeys THEN keysMem
    ELSE IF EnvKeys # NoKeys THEN EnvKeys
    ELSE IF keysDb # NoKeys THEN keysDb ELSE FreshPair

\* Mutant: generated keys are used although they were not stored.
ResolveKeysUnsaved == keysMem' = Resolved /\ UNCHANGED keysDb

\* A pair just generated is stored before it is used.
ResolveKeys ==
    /\ keysMem' = Resolved
    /\ keysDb' = IF {keysMem, keysDb, EnvKeys} = {NoKeys} THEN Resolved ELSE keysDb

GetPushConfig ==
    /\ ResolveKeys
    /\ handed' = IF handed = NoKeys THEN Resolved ELSE handed
    /\ handed = NoKeys \/ keysMem = NoKeys
    /\ UNCHANGED <<subVars, req, usage, quotaVars, run, eventVars, inputs>>

\* SaveVapidKeys inserts a pair and then cannot read it back.
SaveVapidKeysFails ==
    /\ {keysMem, keysDb, EnvKeys} = {NoKeys}
    /\ keysDb' = FreshPair
    /\ UNCHANGED <<subVars, req, usage, quotaVars, run, eventVars, keysMem,
                   handed, inputs>>

----------------------------------------------------------------------------
(***************************************************************************)
(* Quotas: the vendor, the cache, the panel's reads.                       *)
(***************************************************************************)
UsageChanges(p) ==
    /\ Input
    /\ usage' \in {[usage EXCEPT ![p] = q] : q \in [Window -> Level]}
    /\ UNCHANGED <<subVars, req, quotaVars, run, eventVars, keyVars>>

\* loadQuota of GetProvider and GetProvidersList: a miss asks the vendor.
PanelLoads(c, p) ==
    /\ req[c] = Idle /\ Room /\ cache[p] = {} /\ Input
    /\ \E q \in {usage[p], NoWindows} :
          req' = [req EXCEPT ![c] = [pc |-> "quota", p |-> p, q |-> q]]
    /\ UNCHANGED <<subVars, usage, quotaVars, run, eventVars, keyVars>>

PanelSaves(c) ==
    /\ req[c].pc = "quota"
    /\ cache' = [cache EXCEPT ![req[c].p] = {req[c].q}]
    /\ req' = [req EXCEPT ![c] = Idle]
    /\ UNCHANGED <<subVars, usage, prev, alarm, torn, run, eventVars, keyVars,
                   inputs>>

----------------------------------------------------------------------------
(***************************************************************************)
(* A pass of quota_loader, with QuotaWatcher.Observe and Notifier.Notify.  *)
(***************************************************************************)
\* The providers and the subscribed ones are read at the start; an error of
\* the second query leaves none subscribed.
StartPass(r) ==
    /\ At(r, "idle") /\ Room
    /\ \E S \in {SubscribedProviderIDs, {}} :
          run' = [run EXCEPT ![r] = [pc |-> "load", todo |-> Loadable, subs |-> S]]
    /\ UNCHANGED <<subVars, req, usage, quotaVars, eventVars, keyVars, inputs>>

NextProvider(r, p) ==
    IF run[r].todo = {p} THEN Idle
    ELSE [pc |-> "load", todo |-> run[r].todo \ {p}, subs |-> run[r].subs]

LoadQuota(r, p, q) ==
    /\ At(r, "load") /\ p \in run[r].todo
    /\ q \in {usage[p], NoWindows}
    /\ run' = [run EXCEPT ![r] = [pc |-> "save", todo |-> @.todo, subs |-> @.subs,
                                  p |-> p, q |-> q]]
    /\ UNCHANGED <<subVars, req, usage, quotaVars, eventVars, keyVars, inputs>>

\* LoadQuota returns nil.
LoadsNothing(r, p) ==
    /\ At(r, "load") /\ p \in run[r].todo
    /\ run' = [run EXCEPT ![r] = NextProvider(r, p)]
    /\ UNCHANGED <<subVars, req, usage, quotaVars, eventVars, keyVars, inputs>>

SaveQuota(r) ==
    /\ At(r, "save")
    /\ LET p == run[r].p IN
          /\ cache' = [cache EXCEPT ![p] = {run[r].q}]
          /\ run' = [run EXCEPT ![r] = IF p \in @.subs
                                       THEN [@ EXCEPT !.pc = "observe"]
                                       ELSE NextProvider(r, p)]
    /\ UNCHANGED <<subVars, req, usage, prev, alarm, torn, eventVars, keyVars,
                   inputs>>

\* Mutant: only a window at its very end counts as exhausted.
diffQuotaAbove(old, new) ==
    LET Both == DOMAIN old \cap DOMAIN new
        Exhausted == {w \in Both : old[w] < 100000 /\ new[w] > 100000}
        Reset == {w \in Both : old[w] > 0 /\ new[w] <= old[w] - resetDropThreshold}
    IN  (Exhausted \X {"exhausted"}) \cup ((Reset \ Exhausted) \X {"reset"})

\* The events a new quota gives rise to, window by window.
diffQuota(old, new) ==
    LET Both == DOMAIN old \cap DOMAIN new
        Exhausted == {w \in Both : old[w] < 100000 /\ new[w] >= exhaustedThreshold}
        Reset == {w \in Both : old[w] > 0 /\ new[w] <= old[w] - resetDropThreshold}
    IN  (Exhausted \X {"exhausted"}) \cup ((Reset \ Exhausted) \X {"reset"})

ObserveLoads(r) ==
    /\ At(r, "observe")
    /\ run' = [run EXCEPT ![r] = [pc |-> "store", todo |-> @.todo, subs |-> @.subs,
                                  p |-> @.p, q |-> @.q, old |-> prev[@.p]]]
    /\ UNCHANGED <<subVars, req, usage, quotaVars, eventVars, keyVars, inputs>>

\* How window w of the stored snapshot came about: below the threshold, or
\* above it with an event, or above it from a window nobody had seen before.
AlarmAfter(p, q, evs, w) ==
    IF w \notin DOMAIN q THEN "blind"
    ELSE IF q[w] < exhaustedThreshold THEN "quiet"
    ELSE IF <<w, "exhausted">> \in evs THEN "raised"
    ELSE IF \A old \in prev[p] : w \notin DOMAIN old THEN "blind"
    ELSE alarm[p][w]

\* The pass when the events evs of provider p are still to be notified of.
Remaining(r, p, evs) ==
    IF evs = {} THEN NextProvider(r, p)
    ELSE [pc |-> "notify", todo |-> run[r].todo, subs |-> run[r].subs,
          p |-> p, evs |-> evs]

\* The snapshot is replaced before anybody is notified.
ObserveStores(r) ==
    /\ At(r, "store")
    /\ LET p == run[r].p
           q == run[r].q
           evs == UNION {diffQuota(old, q) : old \in run[r].old}
       IN  /\ prev' = [prev EXCEPT ![p] = {q}]
           /\ torn' = IF run[r].old = prev[p] THEN torn ELSE torn \cup {p}
           /\ alarm' = [alarm EXCEPT ![p] = [w \in Window |-> AlarmAfter(p, q, evs, w)]]
           /\ run' = [run EXCEPT ![r] = Remaining(r, p, evs)]
    /\ UNCHANGED <<subVars, req, usage, cache, eventVars, keyVars, inputs>>

\* Notify finds the subscribers and takes an id for the event; the row is not
\* visible before the insert has committed.
Notify(r, ev) ==
    /\ At(r, "notify") /\ ev \in run[r].evs
    /\ ResolveKeys
    /\ LET T == SubscribersOf(run[r].p) IN
          IF T = {}
          THEN /\ run' = [run EXCEPT ![r] = Remaining(r, @.p, @.evs \ {ev})]
               /\ UNCHANGED nextId
          ELSE /\ nextId <= MaxEvent /\ nextId' = nextId + 1
               /\ run' = [run EXCEPT ![r] =
                     [pc |-> "append", todo |-> @.todo, subs |-> @.subs, p |-> @.p,
                      evs |-> @.evs \ {ev}, id |-> nextId, to |-> T \ InApp]]
    /\ UNCHANGED <<subVars, req, usage, quotaVars, events, cursor, due, late,
                   handed, inputs>>

\* resolveKeys or SubscribersOf fails: the event is logged and lost.
NotifyFails(r, ev) ==
    /\ At(r, "notify") /\ ev \in run[r].evs
    /\ run' = [run EXCEPT ![r] = Remaining(r, @.p, @.evs \ {ev})]
    /\ UNCHANGED <<subVars, req, usage, quotaVars, eventVars, keyVars, inputs>>

\* The insert commits, or fails; the pushes follow in either case.
AppendEvent(r) ==
    /\ At(r, "append")
    /\ LET ev == [id |-> run[r].id, subject |-> run[r].p] IN
          \/ /\ events' = events \cup {ev}
             /\ due' = [e \in InApp |-> IF ev.subject \in topics[e]
                                        THEN due[e] \cup {ev} ELSE due[e]]
          \/ UNCHANGED <<events, due>>
    /\ run' = [run EXCEPT ![r].pc = "send"]
    /\ UNCHANGED <<subVars, req, usage, quotaVars, nextId, cursor, late,
                   keyVars, inputs>>

\* The pushes to all subscribers; the endpoints that are gone lose their rows,
\* except for those D whose deletion fails.
Send(r) ==
    /\ At(r, "send")
    /\ \E D \in SUBSET (run[r].to \cap gone) :
          LET dead == (run[r].to \cap gone) \ D IN
          /\ row' = row \ dead
          /\ topics' = [e \in Endpoint |-> IF e \in dead THEN {} ELSE topics[e]]
          /\ req' = Orphaned(dead, {})
    /\ run' = [run EXCEPT ![r] = Remaining(r, @.p, @.evs)]
    /\ UNCHANGED <<gone, usage, quotaVars, eventVars, keyVars, inputs>>

----------------------------------------------------------------------------
(***************************************************************************)
(* Events: the panel polls them by id; a cron prunes the old ones.         *)
(***************************************************************************)
Visible(e) == {v \in events : v.subject \in topics[e] /\ v.id > cursor[e]}

\* Mutant: the newest events first.
EventsForEndpointDesc(e) ==
    {v \in Visible(e) : Cardinality({x \in Visible(e) : x.id > v.id}) < PageLimit}

EventsForEndpoint(e) ==
    {v \in Visible(e) : Cardinality({x \in Visible(e) : x.id < v.id}) < PageLimit}

\* Ids that were given out and whose rows are not committed yet.
InFlight == {run[r].id : r \in {x \in Run : At(x, "append")}}

ListNotificationEvents(e) ==
    /\ Visible(e) # {}
    /\ cursor' = [cursor EXCEPT ![e] = Max({v.id : v \in EventsForEndpoint(e)})]
    /\ due' = [due EXCEPT ![e] = @ \ EventsForEndpoint(e)]
    /\ late' = [late EXCEPT ![e] = @ \cup {i \in InFlight : i <= cursor'[e]}]
    /\ UNCHANGED <<subVars, req, usage, quotaVars, run, events, nextId, keyVars,
                   inputs>>

\* PruneEvents deletes what is older than a week, up to some event.
PruneEvents ==
    /\ \E v \in events :
          /\ events' = {x \in events : x.id > v.id}
          /\ due' = [e \in InApp |-> {x \in due[e] : x.id > v.id}]
    /\ UNCHANGED <<subVars, req, usage, quotaVars, run, nextId, cursor, late,
                   keyVars, inputs>>

\* The process ends and starts again: what was only in memory is lost.
Crash ==
    /\ Input
    /\ req' = [c \in Client |-> Idle] /\ run' = [r \in Run |-> Idle]
    /\ cache' = [p \in Provider |-> {}] /\ prev' = [p \in Provider |-> {}]
    /\ alarm' = [p \in Provider |-> [w \in Window |-> "blind"]]
    /\ keysMem' = NoKeys
    /\ UNCHANGED <<subVars, usage, torn, eventVars, keysDb, handed>>

----------------------------------------------------------------------------
Request(c) ==
    \/ \E e \in Endpoint, s \in Provider : Subscribe(c, e, s) \/ Unsubscribe(c, e, s)
    \/ \E p \in Loadable : PanelLoads(c, p)
    \/ InsertTopic(c) \/ DeleteUnused(c) \/ StatementFails(c) \/ PanelSaves(c)

PassStep(r) ==
    \/ StartPass(r) \/ SaveQuota(r) \/ ObserveLoads(r) \/ ObserveStores(r)
    \/ AppendEvent(r) \/ Send(r)
    \/ \E p \in Loadable : (\E q \in Quota : LoadQuota(r, p, q)) \/ LoadsNothing(r, p)
    \/ \E ev \in Window \X {"exhausted", "reset"} : Notify(r, ev) \/ NotifyFails(r, ev)

Next ==
    \/ \E c \in Client : Request(c)
    \/ \E e \in Endpoint : EndpointGoes(e)
    \/ \E e \in InApp : ListNotificationEvents(e)
    \/ GetPushConfig \/ SaveVapidKeysFails
    \/ \E p \in Loadable : UsageChanges(p)
    \/ \E r \in Run : PassStep(r)
    \/ PruneEvents \/ Crash

Spec == Init /\ [][Next]_vars

----------------------------------------------------------------------------
TypeOK ==
    /\ row \subseteq Endpoint /\ topics \in [Endpoint -> SUBSET Provider]
    /\ gone \subseteq Endpoint \ InApp
    /\ usage \in [Loadable -> [Window -> Level]]
    /\ cache \in [Provider -> Kept] /\ prev \in [Provider -> Kept]
    /\ events \subseteq Event /\ nextId \in 1..MaxEvent + 1
    /\ cursor \in [InApp -> 0..MaxEvent] /\ due \in [InApp -> SUBSET events]
    /\ late \in [InApp -> SUBSET (1..MaxEvent)]
    /\ {keysMem, keysDb, handed} \subseteq KeyPair \cup {NoKeys}
    /\ \A r \in Run : run[r].pc # "idle" => run[r].todo \subseteq Loadable
    /\ torn \subseteq Provider /\ inputs \in 0..MaxInput

\* A topic always belongs to a subscription: Subscribe's second statement never
\* revives a row that an Unsubscribe or a dead endpoint removed since its first.
\* And a row that is deleted takes no topic with it, whichever requests overlap:
\* a subscription to one subject survives the clean-up after unsubscribing
\* another; only the push service's 404 or 410 takes all of them
\* (push_repo.go Subscribe, Unsubscribe, push.go Notify).
TopicsFollowRows ==
    /\ [](TypeOK /\ \A e \in Endpoint : topics[e] # {} => e \in row)
    /\ [][\A e \in row \ row' : e \in gone \/ topics[e] = {}]_vars

\* A window whose stored snapshot is exhausted was reported when it got there,
\* unless it was never seen below the threshold since the process started or
\* the vendor last failed to report it, or two passes replaced the snapshot at
\* once (quota_watcher.go Observe, diffQuota).
ExhaustionReported ==
    \A p \in Provider \ torn, w \in Window : \A q \in prev[p] :
        w \in DOMAIN q /\ q[w] >= exhaustedThreshold => alarm[p][w] # "quiet"

\* Polling by id skips only what overlapping passes commit out of order: every
\* event committed while an in-app endpoint is subscribed to its subject lies
\* ahead of the endpoint's cursor until the endpoint is shown it, page by page,
\* unless its insert was still under way when the endpoint read past its id.
\* Such an event is never shown: ids are given out before the rows are visible
\* (push_repo.go AppendEvent, EventsForEndpoint, notifications.go lastID).
DueIsAhead == \A e \in InApp : \A v \in due[e] : v.id > cursor[e] \/ v.id \in late[e]

\* Browsers subscribed with a public key can be reached for good: a restarted
\* process, or one whose first attempt to store a pair failed half way, goes on
\* with that pair (push.go resolveKeys, push_repo.go SaveVapidKeys).
KeysAreKept == handed # NoKeys /\ keysMem # NoKeys => keysMem = handed

============================================================================
