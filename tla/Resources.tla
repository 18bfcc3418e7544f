----------------------------- MODULE Resources -----------------------------
(***************************************************************************)
(* What the process opens and has to close: the database pool, the HTTP    *)
(* server, the proxy service, the crons, warp proxies and bridges to       *)
(* Cursor.  Whatever is opened leaves a function with the closer, which a  *)
(* signal makes call all of them at once and wait, for 30 seconds at most. *)
(* Warp proxies and bridges are opened while requests run: by a restart,   *)
(* under cpapiMu, and by the panel, under configMu, hence by several       *)
(* workers at a time, and also when the closer is already at work.         *)
(*                                                                         *)
(* An endpoint is <<address, round-trip time>>, as the scan measured it.   *)
(* Close functions stop their resource and then may wait for ever.         *)
(***************************************************************************)
EXTENDS Integers, Sequences, FiniteSets, Functions

CONSTANTS
    Basic,      \* what initProvider, initHttpServer and initCPAPI open
    Endpoint,   \* what the scan found: none, if it failed or is turned off
    Cron,       \* the crons of initCrons, in their order
    Worker,     \* goroutines that register providers
    MaxMade     \* bound: proxies and bridges

ASSUME ResourcesAssumption ==
    /\ \A e \in Endpoint : e \in {e[1]} \X Nat
    /\ Basic \in Seq({"db", "http", "cpapi"} \X {0}) /\ IsInjective(Basic)
    /\ MaxMade \in Nat

VARIABLES
    phase,      \* "init", "up", "stopping", "exited", "crashed"
    opened,     \* resources that run
    \* closer.C
    funcs,      \* the resources of funcs
    running,    \* close functions that were started and have not returned
    once, done,
    \* Warp
    warpMu,     \* the worker that holds p.mu, if any
    used,       \* endpoints marked as used
    proxies,    \* pairs of an address and its proxy
    \* CursorServer and the config entries that name a bridge
    server,     \* bridges s.server points to: one or none
    tokens,     \* pairs of a bridge and a worker whose token's proxy it knows
    entries,    \* pairs of a bridge and a worker whose entry has its BaseURL
    at,         \* at[w]: where worker w is
    made,       \* number of proxies and bridges made
    refused     \* history: CreateProxy found no endpoint

closer == <<funcs, running, once, done>>
warp == <<warpMu, used, proxies>>
cursor == <<server, tokens, entries>>
vars == <<phase, opened, closer, warp, cursor, at, made, refused>>

Idle == [pc |-> "idle"]
Goto(w, pc, r) == at' = [at EXCEPT ![w] = [pc |-> pc, r |-> r]]
Leave(w) == at' = [at EXCEPT ![w] = Idle]
At(w, pc) == phase \in {"up", "stopping"} /\ at[w].pc = pc

\* All but initCrons is done.  For providers it finds in the table InitCPAPI has
\* opened proxies and bridges by then, one after the other; here workers open
\* them from "up" on, together.
Init ==
    /\ phase = "init" /\ opened = Range(Basic)
    /\ funcs = Basic /\ running = {} /\ once = FALSE /\ done = FALSE
    /\ warpMu = {} /\ used = {} /\ proxies = {}
    /\ server = {} /\ tokens = {} /\ entries = {}
    /\ at = [w \in Worker |-> Idle] /\ made = 0 /\ refused = FALSE

----------------------------------------------------------------------------
(* The closer. *)

Add(r) == funcs' = Append(funcs, r) /\ UNCHANGED <<running, once, done>>

\* CloseAll takes the functions, and starts all of them.
CloseAll ==
    /\ phase = "stopping" /\ ~once /\ once' = TRUE
    /\ running' = Range(funcs) /\ funcs' = <<>>
    /\ UNCHANGED <<phase, opened, done, warp, cursor, at, made, refused>>

Stops(r) ==
    /\ phase = "stopping" /\ r \in running /\ r \in opened
    /\ opened' = opened \ {r}
    /\ UNCHANGED <<phase, closer, warp, cursor, at, made, refused>>

\* It has stopped its resource; its error, if any, is logged.
Returns(r) ==
    /\ phase = "stopping" /\ r \in running \ opened
    /\ running' = running \ {r}
    /\ UNCHANGED <<phase, opened, funcs, once, done, warp, cursor, at, made, refused>>

AllReturned ==
    /\ phase = "stopping" /\ once /\ ~done /\ running = {} /\ done' = TRUE
    /\ UNCHANGED <<phase, opened, funcs, running, once, warp, cursor, at, made, refused>>

Exit == phase' = "exited" /\ UNCHANGED <<opened, closer, warp, cursor, at, made, refused>>

\* GracefullyStop returns when all is closed or after 30 seconds, main follows.
WaitTimeout == phase = "stopping" /\ Exit

----------------------------------------------------------------------------
(* main and App. *)

Started == {r \in opened : r[1] = "cron"}

\* Crons.Run: start the schedule, leave the function, run once, detached.
RunCron ==
    /\ phase = "init" /\ Cardinality(Started) < Len(Cron)
    /\ LET r == <<"cron", Cardinality(Started) + 1>>
       IN  opened' = opened \cup {r} /\ Add(r)
    /\ UNCHANGED <<phase, warp, cursor, at, made, refused>>

Start ==
    /\ phase = "init" /\ Cardinality(Started) = Len(Cron) /\ phase' = "up"
    /\ UNCHANGED <<opened, closer, warp, cursor, at, made, refused>>

\* Start returns an error: the port is taken, or the proxy failed.
StartFails ==
    /\ phase = "up" /\ phase' = "crashed"
    /\ UNCHANGED <<opened, closer, warp, cursor, at, made, refused>>

GracefullyStop ==
    /\ phase = "up" /\ phase' = "stopping"
    /\ UNCHANGED <<opened, closer, warp, cursor, at, made, refused>>

----------------------------------------------------------------------------
(* Warp.CreateProxy, under p.mu throughout. *)

FreeEndpoints == {e \in Endpoint \ used : \A x \in proxies : x[1] # e[1]}

CreateProxy(w) ==
    /\ At(w, "idle") /\ warpMu = {}
    /\ \/ \E e \in FreeEndpoints :
            /\ warpMu' = {w} /\ Goto(w, "dial", e) /\ UNCHANGED refused
       \/ /\ FreeEndpoints = {} /\ refused' = TRUE /\ UNCHANGED <<warpMu, at>>
    /\ UNCHANGED <<phase, opened, closer, used, proxies, cursor, made>>

\* Mutant: an endpoint is marked before it is tried.
DialFailsMarked(w) ==
    /\ At(w, "dial") /\ warpMu' = {} /\ Leave(w) /\ used' = used \cup {at[w].r}
    /\ UNCHANGED <<phase, opened, closer, proxies, cursor, made, refused>>

\* No identity, no tunnel or no start.
DialFails(w) ==
    /\ At(w, "dial") /\ warpMu' = {} /\ Leave(w)
    /\ UNCHANGED <<phase, opened, closer, used, proxies, cursor, made, refused>>

\* The proxy has started and is registered ...
Register(w) ==
    /\ At(w, "dial") /\ made < MaxMade
    /\ LET r == <<"proxy", made + 1>> IN
       /\ made' = made + 1 /\ opened' = opened \cup {r}
       /\ proxies' = proxies \cup {<<at[w].r[1], r>>} /\ used' = used \cup {at[w].r}
       /\ Goto(w, "addproxy", r)
    /\ UNCHANGED <<phase, closer, warpMu, cursor, refused>>

\* ... and leaves its close function.
AddProxyFunc(w) ==
    /\ At(w, "addproxy") /\ Add(at[w].r) /\ warpMu' = {} /\ Leave(w)
    /\ UNCHANGED <<phase, opened, used, proxies, cursor, made, refused>>

----------------------------------------------------------------------------
(* A cursor provider: GetOrCreateServer has no lock. *)

GetOrCreateServer(w) ==
    /\ At(w, "idle")
    /\ \/ \E b \in server : Goto(w, "entry", b)
       \/ server = {} /\ Goto(w, "create", <<"bridge", 0>>)
    /\ UNCHANGED <<phase, opened, closer, warp, cursor, made, refused>>

\* It is bound and serves; it may not get a port.
CreateServer(w) ==
    /\ At(w, "create")
    /\ \/ /\ made < MaxMade /\ made' = made + 1
          /\ opened' = opened \cup {<<"bridge", made + 1>>}
          /\ Goto(w, "addbridge", <<"bridge", made + 1>>)
       \/ Leave(w) /\ UNCHANGED <<made, opened>>
    /\ UNCHANGED <<phase, closer, warp, cursor, refused>>

\* Mutant: only for the first bridge.
AddBridgeFuncOnce(w) ==
    /\ At(w, "addbridge") /\ Goto(w, "set", at[w].r)
    /\ IF server = {} THEN Add(at[w].r) ELSE UNCHANGED closer
    /\ UNCHANGED <<phase, opened, warp, cursor, made, refused>>

AddBridgeFunc(w) ==
    /\ At(w, "addbridge") /\ Add(at[w].r) /\ Goto(w, "set", at[w].r)
    /\ UNCHANGED <<phase, opened, warp, cursor, made, refused>>

SetServer(w) ==
    /\ At(w, "set") /\ server' = {at[w].r} /\ Goto(w, "entry", at[w].r)
    /\ UNCHANGED <<phase, opened, closer, warp, tokens, entries, made, refused>>

\* Mutant: the proxy of the token goes to the shared server.
SetProxyShared(w) ==
    /\ At(w, "entry") /\ Leave(w)
    /\ tokens' = tokens \cup (server \X {w}) /\ entries' = entries \cup {<<at[w].r, w>>}
    /\ UNCHANGED <<phase, opened, closer, warp, server, made, refused>>

\* HandleModels, SetProxy and the entry with the bridge's URL; without models
\* there is no entry.
SetProxy(w) ==
    /\ At(w, "entry") /\ Leave(w)
    /\ \/ tokens' = tokens \cup {<<at[w].r, w>>} /\ entries' = entries \cup {<<at[w].r, w>>}
       \/ UNCHANGED <<tokens, entries>>
    /\ UNCHANGED <<phase, opened, closer, warp, server, made, refused>>

----------------------------------------------------------------------------
Closing == CloseAll \/ AllReturned \/ WaitTimeout
           \/ \E r \in running : Stops(r) \/ Returns(r)
Proxying(w) == CreateProxy(w) \/ DialFails(w) \/ Register(w) \/ AddProxyFunc(w)
Bridging(w) == GetOrCreateServer(w) \/ CreateServer(w) \/ AddBridgeFunc(w)
               \/ SetServer(w) \/ SetProxy(w)

Next == RunCron \/ Start \/ StartFails \/ GracefullyStop \/ Closing
        \/ \E w \in Worker : Proxying(w) \/ Bridging(w)

\* Close functions may hang, and workers may stop anywhere: no fairness.
Spec == Init /\ [][Next]_vars

----------------------------------------------------------------------------
Kind == {"db", "http", "cpapi", "cron", "proxy", "bridge"}
Resource == Kind \X Nat

TypeOK ==
    /\ phase \in {"init", "up", "stopping", "exited", "crashed"}
    /\ opened \subseteq Resource /\ funcs \in Seq(Resource) /\ running \subseteq Resource
    /\ once \in BOOLEAN /\ done \in BOOLEAN /\ refused \in BOOLEAN /\ made \in 0..MaxMade
    /\ warpMu \in {{}} \cup {{w} : w \in Worker} /\ used \subseteq Endpoint
    /\ server \in {{}} \cup {{<<"bridge", n>>} : n \in 1..MaxMade}
    /\ \A w \in Worker :
          warpMu = {w} <=> at[w].pc \in {"dial", "addproxy"}

\* Workers between opening a resource and leaving its close function.
Pending == {at[w].r : w \in {v \in Worker : at[v].pc \in {"addproxy", "addbridge"}}}

\* The closer knows whatever runs, a bridge that lost the race of
\* GetOrCreateServer included: its function waits, runs, or is about to be left
\* by the worker that opened it.  None waits twice, or waits and runs.  And when
\* the closer reports that all is closed, what still runs was opened too late:
\* its function came, or will come, after CloseAll took the list
\* (Closer.Add in CreateServer, createProxy and Run; CloseAll).
NothingForgotten ==
    /\ TypeOK
    /\ opened \subseteq Range(funcs) \cup running \cup Pending
    /\ IsInjective(funcs) /\ Range(funcs) \cap running = {}
    /\ done => running = {} /\ opened \subseteq Range(funcs) \cup Pending

\* An address serves one proxy at most, although the scan may list it with two
\* times, and every registered proxy runs until the shutdown.  "amount of warps
\* already maxed out" is only said when every address found carries a proxy:
\* one that failed to start has cost no endpoint (createProxy).
PoolIsExact ==
    /\ \A x, y \in proxies : x[1] = y[1] => x = y
    /\ ~once => \A x \in proxies : x[2] \in opened
    /\ refused => \A e \in Endpoint : \E x \in proxies : x[1] = e[1]

\* An entry in the configuration names a bridge that runs until the shutdown and
\* knows the proxy of the entry's token, also when two workers made a bridge each
\* (AddProviderConfig of ProviderCursor).
EntriesAreServed == \A x \in entries : x \in tokens /\ (~once => x[1] \in opened)

=============================================================================
