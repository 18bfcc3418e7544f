--------------------------- MODULE ResourcesProofs ---------------------------
(***************************************************************************)
(* The invariants of Resources for any number of workers, endpoints, crons *)
(* and resources.                                                          *)
(*                                                                         *)
(* NothingForgotten needs to know that a worker with a close function in   *)
(* its hands is the only one to know it, which rests on the numbers given  *)
(* out so far; the crons, which number themselves, are started before any  *)
(* worker moves.                                                           *)
(***************************************************************************)
EXTENDS Resources, FiniteSetTheorems, TLAPS

AtType ==
    {Idle}
    \cup [pc : {"dial"}, r : Endpoint]
    \cup [pc : {"addproxy"}, r : {"proxy"} \X (1..MaxMade)]
    \cup [pc : {"create"}, r : {"bridge"} \X {0}]
    \cup [pc : {"addbridge", "set", "entry"}, r : {"bridge"} \X (1..MaxMade)]

Typed == TypeOK /\ at \in [Worker -> AtType]

\* Worker w has opened something and not yet left its close function.
Holding(w) == at[w].pc \in {"addproxy", "addbridge"}

\* What will get a number has none of those in use.
Numbered ==
    /\ \A r \in opened \cup Range(funcs) \cup running :
          r[1] \in {"proxy", "bridge"} => r[2] <= made
    /\ \A w \in Worker : Holding(w) => at[w].r[2] <= made

OnlyOnce ==
    /\ IsInjective(funcs) /\ Range(funcs) \cap running = {}
    /\ \A w \in Worker : Holding(w) => at[w].r \notin Range(funcs) \cup running
    /\ \A v, w \in Worker : Holding(v) /\ Holding(w) /\ v # w => at[v].r # at[w].r

Covered == \A r \in opened : \/ r \in Range(funcs) \cup running
                             \/ \E w \in Worker : Holding(w) /\ at[w].r = r

ClosedAtEnd == (~once => running = {} /\ ~done) /\ (done => running = {})

\* While the crons are started nothing else moves.
BeforeStart ==
    phase = "init" =>
        /\ ~once /\ opened = Range(funcs) /\ \A w \in Worker : at[w] = Idle
        /\ IsFiniteSet(Started) /\ \A r \in Started : r[2] <= Cardinality(Started)

BridgesRun ==
    /\ entries \subseteq tokens
    /\ ~once => /\ \A w \in Worker : at[w].pc \in {"addbridge", "set", "entry"} => at[w].r \in opened
                /\ server \subseteq opened /\ \A x \in entries : x[1] \in opened

\* The endpoint that is being tried is free, and one that is used has a proxy.
PoolInv ==
    /\ PoolIsExact
    /\ \A w \in Worker : at[w].pc = "dial" => \A x \in proxies : x[1] # at[w].r[1]
    /\ \A e \in used : \E x \in proxies : x[1] = e[1]

Tracked == Numbered /\ OnlyOnce /\ Covered /\ ClosedAtEnd /\ BeforeStart
ResourcesInv == Typed /\ Tracked /\ BridgesRun /\ PoolInv

----------------------------------------------------------------------------
(* Close functions and workers. *)

\* Closer.Add of a function that is not there yet.
LEMMA AppendNew ==
    ASSUME NEW S, NEW f \in Seq(S), NEW r \in S
    PROVE  /\ Append(f, r) \in Seq(S) /\ Range(Append(f, r)) = Range(f) \cup {r}
           /\ IsInjective(f) /\ r \notin Range(f) => IsInjective(Append(f, r))
<1>1. /\ Append(f, r) \in Seq(S) /\ DOMAIN f = 1..Len(f) /\ Len(f) \in Nat
      /\ DOMAIN Append(f, r) = 1..(Len(f) + 1)
      /\ Append(f, r)[Len(f) + 1] = r /\ \A i \in 1..Len(f) : Append(f, r)[i] = f[i]
  OBVIOUS
<1>2. Range(Append(f, r)) = Range(f) \cup {r}
  BY <1>1 DEF Range
<1>3. IsInjective(f) /\ r \notin Range(f) => IsInjective(Append(f, r))
  BY <1>1 DEF Range, IsInjective
<1> QED
  BY <1>1, <1>2, <1>3

\* What a worker holds at each of its points.
LEMMA AtShape ==
    ASSUME NEW a \in AtType
    PROVE  /\ a.pc \in {"idle", "dial", "addproxy", "create", "addbridge", "set", "entry"}
           /\ a.pc = "idle" <=> a = Idle
           /\ a.pc = "dial" => a.r \in Endpoint
           /\ a.pc = "addproxy" => a.r \in {"proxy"} \X (1..MaxMade)
           /\ a.pc \in {"addbridge", "set", "entry"} => a.r \in {"bridge"} \X (1..MaxMade)
BY SMT DEF AtType, Idle

\* Every step of a worker is one of these; the others stay where they are.
LEMMA Moves ==
    ASSUME NEW w \in Worker, at \in [Worker -> AtType], NEW q, NEW r
    PROVE  /\ Goto(w, q, r) => at'[w].pc = q /\ at'[w].r = r /\ \A v \in Worker \ {w} : at'[v] = at[v]
           /\ Leave(w) => at'[w].pc = "idle" /\ at'[w] = Idle /\ \A v \in Worker \ {w} : at'[v] = at[v]
BY DEF Goto, Leave, Idle

\* Before the crons everything is as initProvider, initHttpServer and initCPAPI
\* left it.
LEMMA InitInv == Init => ResourcesInv
<1> SUFFICES ASSUME Init PROVE ResourcesInv
  OBVIOUS
<1>1. funcs \in Seq({"db", "http", "cpapi"} \X {0}) /\ IsInjective(funcs) /\ opened = Range(funcs)
      /\ running = {} /\ once = FALSE /\ done = FALSE
  BY ResourcesAssumption DEF Init
<1>2. Range(funcs) \subseteq {"db", "http", "cpapi"} \X {0} /\ funcs \in Seq(Resource)
  <2>1. \A i \in DOMAIN funcs : funcs[i] \in {"db", "http", "cpapi"} \X {0}
    BY <1>1
  <2>2. {"db", "http", "cpapi"} \X {0} \subseteq Resource
    BY DEF Resource, Kind
  <2> QED
    BY <1>1, <2>1, <2>2 DEF Range
<1>3. \A w \in Worker : at[w] = Idle /\ at[w].pc = "idle"
  BY DEF Init, Idle
<1>4. Typed
  <2>1. opened \subseteq Resource
    BY <1>1, <1>2 DEF Resource, Kind
  <2>2. at \in [Worker -> AtType] /\ \A w \in Worker : warpMu = {w} <=> at[w].pc \in {"dial", "addproxy"}
    BY <1>3 DEF Init, AtType
  <2>3. made \in 0..MaxMade
    BY ResourcesAssumption DEF Init
  <2>4. phase = "init" /\ refused = FALSE /\ warpMu = {} /\ used = {} /\ server = {}
    BY DEF Init
  <2> QED
    BY <1>1, <1>2, <2>1, <2>2, <2>3, <2>4, Zenon DEF Typed, TypeOK
<1>5. Started = {}
  BY <1>1, <1>2 DEF Started
<1>6. Tracked
  BY <1>1, <1>2, <1>3, <1>5, FS_EmptySet
     DEF Tracked, Numbered, OnlyOnce, Covered, ClosedAtEnd, BeforeStart, Holding
<1>7. BridgesRun /\ PoolInv
  BY <1>3 DEF Init, BridgesRun, PoolInv, PoolIsExact
<1> QED
  BY <1>4, <1>6, <1>7 DEF ResourcesInv

----------------------------------------------------------------------------
(* Types. *)

\* Every step keeps the types, and with them that p.mu is held by whoever dials.
LEMMA TypedStep == ResourcesInv /\ [Next]_vars => Typed'
<1> SUFFICES ASSUME Typed, BeforeStart, [Next]_vars PROVE Typed'
  BY DEF ResourcesInv, Tracked
<1> USE ResourcesAssumption
<1>1. CASE RunCron
  <2>1. PICK r : /\ r = <<"cron", Cardinality(Started) + 1>>
                 /\ opened' = opened \cup {r} /\ funcs' = Append(funcs, r)
    BY <1>1 DEF RunCron, Add
  <2>2. r \in Resource
    BY <1>1, <2>1, FS_CardinalityType DEF RunCron, BeforeStart, Resource, Kind
  <2>3. funcs' \in Seq(Resource) /\ opened' \subseteq Resource
    BY <2>1, <2>2, AppendNew DEF Typed, TypeOK
  <2> QED
    BY <1>1, <2>3 DEF RunCron, Add, Typed, TypeOK, warp, cursor
<1>2. CASE Start \/ StartFails \/ GracefullyStop \/ WaitTimeout
  BY <1>2 DEF Start, StartFails, GracefullyStop, WaitTimeout, Exit, Typed, TypeOK, closer, warp, cursor
<1>3. CASE CloseAll
  <2>1. Range(funcs) \subseteq Resource /\ <<>> \in Seq(Resource)
    BY DEF Typed, TypeOK, Range
  <2> QED
    BY <1>3, <2>1 DEF CloseAll, Typed, TypeOK, warp, cursor
<1>4. CASE AllReturned
  BY <1>4 DEF AllReturned, Typed, TypeOK, warp, cursor
<1>5. ASSUME NEW r \in running, Stops(r) \/ Returns(r) PROVE Typed'
  BY <1>5 DEF Stops, Returns, Typed, TypeOK, closer, warp, cursor
<1>6. ASSUME NEW w \in Worker, CreateProxy(w) PROVE Typed'
  <2>1. CASE UNCHANGED <<warpMu, at>>
    BY <1>6, <2>1 DEF CreateProxy, Typed, TypeOK, closer, cursor
  <2>2. ASSUME NEW e \in FreeEndpoints, warpMu' = {w}, Goto(w, "dial", e), UNCHANGED refused
        PROVE  Typed'
    <3>1. at' \in [Worker -> AtType]
      BY <2>2 DEF Goto, Typed, AtType, FreeEndpoints
    <3>2. \A v \in Worker : warpMu' = {v} <=> at'[v].pc \in {"dial", "addproxy"}
      BY <1>6, <2>2, Moves DEF CreateProxy, Typed, TypeOK
    <3> QED
      BY <1>6, <2>2, <3>1, <3>2 DEF CreateProxy, Typed, TypeOK, closer, cursor
  <2> QED
    BY <1>6, <2>1, <2>2 DEF CreateProxy
<1>7. ASSUME NEW w \in Worker, DialFails(w) PROVE Typed'
  <2>1. at' \in [Worker -> AtType]
    BY <1>7 DEF DialFails, Leave, Typed, AtType
  <2>2. \A v \in Worker : warpMu' = {v} <=> at'[v].pc \in {"dial", "addproxy"}
    BY <1>7, Moves DEF DialFails, At, Typed, TypeOK
  <2> QED
    BY <1>7, <2>1, <2>2 DEF DialFails, Typed, TypeOK, closer, cursor
<1>8. ASSUME NEW w \in Worker, Register(w) PROVE Typed'
  <2>1. PICK r : /\ r = <<"proxy", made + 1>> /\ Goto(w, "addproxy", r)
                 /\ opened' = opened \cup {r}
    BY <1>8 DEF Register
  <2>2. made + 1 \in 1..MaxMade /\ r \in Resource
    BY <1>8, <2>1 DEF Register, Typed, TypeOK, Resource, Kind
  <2>3. at' \in [Worker -> AtType]
    BY <2>1, <2>2 DEF Goto, Typed, AtType
  <2>4. \A v \in Worker : warpMu' = {v} <=> at'[v].pc \in {"dial", "addproxy"}
    BY <1>8, <2>1, Moves DEF Register, At, Typed, TypeOK
  <2>5. used' \subseteq Endpoint
    BY <1>8, AtShape DEF Register, At, Typed, TypeOK
  <2>6. opened' \subseteq Resource
    BY <2>1, <2>2 DEF Typed, TypeOK
  <2>7. made' \in 0..MaxMade
    BY <1>8, <2>2 DEF Register
  <2>8. UNCHANGED <<phase, funcs, running, once, done, refused, warpMu, server>>
    BY <1>8 DEF Register, closer, cursor
  <2> QED
    BY <2>3, <2>4, <2>5, <2>6, <2>7, <2>8 DEF Typed, TypeOK
<1>9. ASSUME NEW w \in Worker, AddProxyFunc(w) PROVE Typed'
  <2>1. at' \in [Worker -> AtType]
    BY <1>9 DEF AddProxyFunc, Leave, Typed, AtType
  <2>2. \A v \in Worker : warpMu' = {v} <=> at'[v].pc \in {"dial", "addproxy"}
    <3>1. warpMu = {w} /\ warpMu' = {} /\ Leave(w)
      BY <1>9 DEF AddProxyFunc, At, Typed, TypeOK
    <3>2. \A v \in Worker \ {w} : at[v].pc \notin {"dial", "addproxy"}
      BY <3>1 DEF Typed, TypeOK
    <3> QED
      BY <3>1, <3>2, Moves DEF Typed
  <2>3. at[w].r \in Resource
    BY <1>9, AtShape DEF AddProxyFunc, At, Typed, Resource, Kind
  <2>4. funcs' \in Seq(Resource)
    BY <1>9, <2>3, AppendNew DEF AddProxyFunc, Add, Typed, TypeOK
  <2> QED
    BY <1>9, <2>1, <2>2, <2>4 DEF AddProxyFunc, Add, Typed, TypeOK, cursor
<1>10. ASSUME NEW w \in Worker, GetOrCreateServer(w) PROVE Typed'
  <2>1. PICK q, b : /\ Goto(w, q, b) /\ q \in {"entry", "create"}
                    /\ q = "entry" => b \in {"bridge"} \X (1..MaxMade)
                    /\ q = "create" => b \in {"bridge"} \X {0}
    BY <1>10 DEF GetOrCreateServer, Typed, TypeOK
  <2>2. at' \in [Worker -> AtType]
    BY <2>1 DEF Goto, Typed, AtType
  <2>3. \A v \in Worker : warpMu' = {v} <=> at'[v].pc \in {"dial", "addproxy"}
    BY <1>10, <2>1, Moves DEF GetOrCreateServer, At, Typed, TypeOK, warp
  <2> QED
    BY <1>10, <2>2, <2>3 DEF GetOrCreateServer, Typed, TypeOK, closer, warp, cursor
<1>11. ASSUME NEW w \in Worker, CreateServer(w) PROVE Typed'
  <2>1. CASE Leave(w) /\ UNCHANGED <<made, opened>>
    <3>1. at' \in [Worker -> AtType]
      BY <2>1 DEF Leave, Typed, AtType
    <3>2. \A v \in Worker : warpMu' = {v} <=> at'[v].pc \in {"dial", "addproxy"}
      BY <1>11, <2>1, Moves DEF CreateServer, At, Typed, TypeOK, warp
    <3> QED
      BY <1>11, <2>1, <3>1, <3>2 DEF CreateServer, Typed, TypeOK, closer, warp, cursor
  <2>2. CASE /\ made < MaxMade /\ made' = made + 1
             /\ opened' = opened \cup {<<"bridge", made + 1>>}
             /\ Goto(w, "addbridge", <<"bridge", made + 1>>)
    <3>1. made + 1 \in 1..MaxMade /\ <<"bridge", made + 1>> \in Resource
      BY <2>2 DEF Typed, TypeOK, Resource, Kind
    <3>2. at' \in [Worker -> AtType]
      BY <2>2, <3>1 DEF Goto, Typed, AtType
    <3>3. \A v \in Worker : warpMu' = {v} <=> at'[v].pc \in {"dial", "addproxy"}
      BY <1>11, <2>2, Moves DEF CreateServer, At, Typed, TypeOK, warp
    <3>4. opened' \subseteq Resource
      BY <2>2, <3>1 DEF Typed, TypeOK
    <3>5. made' \in 0..MaxMade
      BY <2>2, <3>1
    <3>6. UNCHANGED <<phase, funcs, running, once, done, refused, warpMu, used, server>>
      BY <1>11 DEF CreateServer, closer, warp, cursor
    <3> QED
      BY <3>2, <3>3, <3>4, <3>5, <3>6 DEF Typed, TypeOK
  <2> QED
    BY <1>11, <2>1, <2>2 DEF CreateServer
<1>12. ASSUME NEW w \in Worker, AddBridgeFunc(w) \/ SetServer(w) PROVE Typed'
  <2>1. at[w].r \in {"bridge"} \X (1..MaxMade) /\ at[w].r \in Resource
    BY <1>12, AtShape DEF AddBridgeFunc, SetServer, At, Typed, Resource, Kind
  <2>2. at' \in [Worker -> AtType]
    BY <1>12, <2>1 DEF AddBridgeFunc, SetServer, Goto, Typed, AtType
  <2>3. \A v \in Worker : warpMu' = {v} <=> at'[v].pc \in {"dial", "addproxy"}
    BY <1>12, Moves DEF AddBridgeFunc, SetServer, At, Typed, TypeOK, warp
  <2>4. CASE AddBridgeFunc(w)
    <3>1. funcs' \in Seq(Resource)
      BY <2>4, <2>1, AppendNew DEF AddBridgeFunc, Add, Typed, TypeOK
    <3> QED
      BY <2>4, <2>2, <2>3, <3>1 DEF AddBridgeFunc, Add, Typed, TypeOK, warp, cursor
  <2>5. CASE SetServer(w)
    <3>1. server' \in {{<<"bridge", n>>} : n \in 1..MaxMade}
      <4>1. PICK n \in 1..MaxMade : at[w].r = <<"bridge", n>>
        BY <2>1
      <4> QED
        BY <4>1, <2>5 DEF SetServer
    <3> QED
      BY <2>5, <2>2, <2>3, <3>1 DEF SetServer, Typed, TypeOK, closer, warp
  <2> QED
    BY <1>12, <2>4, <2>5
<1>13. ASSUME NEW w \in Worker, SetProxy(w) PROVE Typed'
  <2>1. at' \in [Worker -> AtType]
    BY <1>13 DEF SetProxy, Leave, Typed, AtType
  <2>2. \A v \in Worker : warpMu' = {v} <=> at'[v].pc \in {"dial", "addproxy"}
    BY <1>13, Moves DEF SetProxy, At, Typed, TypeOK, warp
  <2> QED
    BY <1>13, <2>1, <2>2 DEF SetProxy, Typed, TypeOK, closer, warp
<1>14. CASE UNCHANGED vars
  BY <1>14 DEF vars, closer, warp, cursor, Typed, TypeOK
<1> QED
  BY <1>1, <1>2, <1>3, <1>4, <1>5, <1>6, <1>7, <1>8, <1>9, <1>10, <1>11, <1>12, <1>13, <1>14
     DEF Next, Closing, Proxying, Bridging

----------------------------------------------------------------------------
(* What the closer knows. *)

Others(w) == \A v \in Worker \ {w} : at'[v] = at[v]

\* Steps that neither open nor close anything.
LEMMA Quiet ==
    ASSUME Tracked, phase' # "init", UNCHANGED <<opened, funcs, running, once, done, made>>,
           \A w \in Worker : at'[w] = at[w] \/ (~Holding(w) /\ ~Holding(w)')
    PROVE  Tracked'
<1>1. \A w \in Worker : Holding(w)' <=> Holding(w)
  BY DEF Holding
<1>2. \A w \in Worker : Holding(w) => at'[w] = at[w]
  OBVIOUS
<1>3. Numbered' /\ OnlyOnce'
  BY <1>1, <1>2 DEF Tracked, Numbered, OnlyOnce
<1>4. Covered'
  BY <1>1, <1>2 DEF Tracked, Covered
<1> QED
  BY <1>3, <1>4 DEF Tracked, ClosedAtEnd, BeforeStart

\* A worker opens a resource: its number is new (createProxy, CreateServer).
LEMMA Opens ==
    ASSUME Typed, Tracked, NEW w \in Worker, NEW r, r[1] \in {"proxy", "bridge"},
           r[2] = made + 1, made' = made + 1, phase' # "init",
           opened' = opened \cup {r}, UNCHANGED <<funcs, running, once, done>>,
           ~Holding(w), Holding(w)', at'[w].r = r, Others(w)
    PROVE  Tracked'
<1>1. made \in Nat /\ \A v \in Worker \ {w} : Holding(v)' <=> Holding(v)
  BY DEF Typed, TypeOK, Others, Holding
<1>2. /\ r \notin opened \cup Range(funcs) \cup running
      /\ \A v \in Worker : Holding(v) => at[v].r # r
  <2>1. \A x \in opened \cup Range(funcs) \cup running : x # r
    BY <1>1 DEF Tracked, Numbered, Typed, TypeOK, Resource, Range
  <2> QED
    BY <1>1, <2>1, AtShape DEF Tracked, Numbered, Holding, Typed
<1>3. Numbered'
  <2>1. \A x \in opened \cup Range(funcs) \cup running :
           x[1] \in {"proxy", "bridge"} => x[2] <= made + 1
    BY <1>1 DEF Tracked, Numbered, Typed, TypeOK, Resource, Range
  <2>2. \A v \in Worker : Holding(v) => at[v].r[2] <= made + 1
    BY <1>1, AtShape DEF Tracked, Numbered, Holding, Typed
  <2>3. made + 1 <= made + 1
    BY <1>1
  <2> QED
    BY <1>1, <2>1, <2>2, <2>3 DEF Numbered, Others
<1>4. OnlyOnce'
  BY <1>1, <1>2 DEF Tracked, OnlyOnce, Others
<1>5. Covered'
  BY <1>1 DEF Tracked, Covered, Others
<1> QED
  BY <1>3, <1>4, <1>5 DEF Tracked, ClosedAtEnd, BeforeStart

\* The worker leaves the function with the closer (Closer.Add).
LEMMA Adds ==
    ASSUME Typed, Tracked, NEW w \in Worker, Holding(w), ~Holding(w)', Others(w),
           Add(at[w].r), phase' # "init", UNCHANGED <<opened, made>>
    PROVE  Tracked'
<1> DEFINE r == at[w].r
<1>1. r \in Resource
  BY AtShape DEF Typed, Holding, Resource, Kind
<1>2. r \notin Range(funcs) \cup running /\ IsInjective(funcs)
  BY DEF Tracked, OnlyOnce
<1>3. /\ Range(funcs') = Range(funcs) \cup {r} /\ IsInjective(funcs')
      /\ UNCHANGED <<running, once, done>>
  BY <1>1, <1>2, AppendNew DEF Add, Typed, TypeOK
<1>4. \A v \in Worker \ {w} : at'[v] = at[v] /\ (Holding(v)' <=> Holding(v))
  BY DEF Others, Holding
<1>5. Numbered'
  BY <1>3, <1>4 DEF Tracked, Numbered
<1>6. OnlyOnce'
  BY <1>2, <1>3, <1>4 DEF Tracked, OnlyOnce
<1>7. Covered'
  BY <1>3, <1>4 DEF Tracked, Covered
<1> QED
  BY <1>3, <1>5, <1>6, <1>7 DEF Tracked, ClosedAtEnd, BeforeStart

\* Crons.Run: each cron takes the next number.
LEMMA CronStep == Typed /\ Tracked /\ RunCron => Tracked'
<1> SUFFICES ASSUME Typed, Tracked, RunCron PROVE Tracked'
  OBVIOUS
<1>1. PICK r : /\ r = <<"cron", Cardinality(Started) + 1>>
               /\ opened' = opened \cup {r} /\ Add(r)
  BY DEF RunCron
<1>2. /\ phase = "init" /\ phase' = "init" /\ ~once /\ opened = Range(funcs)
      /\ IsFiniteSet(Started) /\ \A x \in Started : x[2] <= Cardinality(Started)
      /\ running = {} /\ ~done /\ UNCHANGED <<at, made>>
      /\ \A w \in Worker : at[w] = Idle
  BY DEF RunCron, Tracked, BeforeStart, ClosedAtEnd
<1>3. Cardinality(Started) \in Nat
  BY <1>2, FS_CardinalityType
<1>4. r[1] = "cron" /\ r[2] = Cardinality(Started) + 1 /\ r \in Resource
  BY <1>1, <1>3 DEF Resource, Kind
<1>5. r \notin Started /\ r \notin opened
  BY <1>2, <1>3, <1>4 DEF Started
<1>6. Started' = Started \cup {r}
  BY <1>1, <1>4 DEF Started
<1>7. IsFiniteSet(Started') /\ Cardinality(Started') = Cardinality(Started) + 1
  BY <1>2, <1>5, <1>6, FS_AddElement
<1>8. \A x \in Started' : x[2] <= Cardinality(Started')
  <2>1. \A x \in Started : x[2] \in Nat
    BY DEF Started, Typed, TypeOK, Resource
  <2> QED
    BY <1>2, <1>3, <1>4, <1>6, <1>7, <2>1
<1>9. /\ Range(funcs') = Range(funcs) \cup {r} /\ IsInjective(funcs')
      /\ UNCHANGED <<running, once, done>>
  BY <1>1, <1>2, <1>4, <1>5, AppendNew DEF Add, Typed, TypeOK, Tracked, OnlyOnce
<1>10. \A w \in Worker : ~Holding(w)'
  BY <1>2 DEF Holding, Idle
<1>11. Numbered' /\ OnlyOnce'
  BY <1>1, <1>2, <1>4, <1>9, <1>10 DEF Tracked, Numbered, OnlyOnce
<1>12. Covered' /\ ClosedAtEnd'
  BY <1>1, <1>2, <1>9 DEF Covered, ClosedAtEnd
<1>13. BeforeStart'
  BY <1>1, <1>2, <1>7, <1>8, <1>9 DEF BeforeStart
<1> QED
  BY <1>11, <1>12, <1>13 DEF Tracked

\* CloseAll, its goroutines and its end.
LEMMA CloserStep ==
    ASSUME Typed, Tracked, CloseAll \/ AllReturned \/ \E r \in running : Stops(r) \/ Returns(r)
    PROVE  Tracked'
<1>1. phase' # "init" /\ UNCHANGED <<at, made>>
  BY DEF CloseAll, AllReturned, Stops, Returns
<1>2. \A w \in Worker : Holding(w)' <=> Holding(w)
  BY <1>1 DEF Holding
<1>3. CASE CloseAll
  <2>1. /\ running' = Range(funcs) /\ Range(funcs') = {} /\ IsInjective(funcs') /\ once'
        /\ running = {} /\ ~done /\ UNCHANGED <<opened, done>>
    BY <1>3 DEF CloseAll, Tracked, ClosedAtEnd, Range, IsInjective
  <2>2. Numbered' /\ OnlyOnce'
    BY <1>1, <1>2, <2>1 DEF Tracked, Numbered, OnlyOnce
  <2>3. Covered' /\ ClosedAtEnd'
    BY <1>1, <1>2, <2>1 DEF Tracked, Covered, ClosedAtEnd
  <2> QED
    BY <1>1, <2>2, <2>3 DEF Tracked, BeforeStart
<1>4. ASSUME NEW r \in running, Stops(r) PROVE Tracked'
  <2>1. opened' = opened \ {r} /\ UNCHANGED <<funcs, running, once, done>>
    BY <1>4 DEF Stops, closer
  <2>2. Numbered' /\ OnlyOnce' /\ Covered'
    BY <1>1, <1>2, <2>1 DEF Tracked, Numbered, OnlyOnce, Covered
  <2> QED
    BY <1>1, <2>1, <2>2 DEF Tracked, ClosedAtEnd, BeforeStart
<1>5. ASSUME NEW r \in running, Returns(r) PROVE Tracked'
  <2>1. r \notin opened /\ running' = running \ {r} /\ UNCHANGED <<opened, funcs, once, done>>
    BY <1>5 DEF Returns
  <2>2. Numbered' /\ OnlyOnce' /\ Covered'
    BY <1>1, <1>2, <2>1 DEF Tracked, Numbered, OnlyOnce, Covered
  <2> QED
    BY <1>1, <2>1, <2>2 DEF Tracked, ClosedAtEnd, BeforeStart
<1>6. CASE AllReturned
  <2>1. once /\ running = {} /\ UNCHANGED <<opened, funcs, running, once>>
    BY <1>6 DEF AllReturned
  <2>2. Numbered' /\ OnlyOnce' /\ Covered'
    BY <1>1, <1>2, <2>1 DEF Tracked, Numbered, OnlyOnce, Covered
  <2> QED
    BY <1>1, <2>1, <2>2 DEF Tracked, ClosedAtEnd, BeforeStart
<1> QED
  BY <1>3, <1>4, <1>5, <1>6

\* Every step keeps what the closer knows.
LEMMA TrackedStep == ResourcesInv /\ [Next]_vars => Tracked'
<1> SUFFICES ASSUME Typed, Tracked, [Next]_vars PROVE Tracked'
  BY DEF ResourcesInv
<1>1. CASE RunCron
  BY <1>1, CronStep
<1>2. CASE Start \/ StartFails \/ GracefullyStop \/ WaitTimeout
  <2>1. phase' # "init" /\ UNCHANGED <<opened, funcs, running, once, done, made, at>>
    BY <1>2 DEF Start, StartFails, GracefullyStop, WaitTimeout, Exit, closer
  <2> QED
    BY <2>1, Quiet
<1>3. CASE CloseAll \/ AllReturned \/ \E r \in running : Stops(r) \/ Returns(r)
  BY <1>3, CloserStep
<1>4. ASSUME NEW w \in Worker, CreateProxy(w) \/ DialFails(w) \/ GetOrCreateServer(w)
                                \/ SetServer(w) \/ SetProxy(w)
      PROVE  Tracked'
  <2>1. phase' # "init" /\ UNCHANGED <<opened, funcs, running, once, done, made>>
    BY <1>4 DEF CreateProxy, DialFails, GetOrCreateServer, SetServer, SetProxy, At, closer
  <2>2. Others(w) /\ (at'[w] = at[w] \/ at'[w].pc \notin {"addproxy", "addbridge"})
    BY <1>4, Moves DEF CreateProxy, DialFails, GetOrCreateServer, SetServer, SetProxy,
                       Typed, Others
  <2>3. at[w].pc \notin {"addproxy", "addbridge"}
    BY <1>4 DEF CreateProxy, DialFails, GetOrCreateServer, SetServer, SetProxy, At
  <2> QED
    BY <2>1, <2>2, <2>3, Quiet DEF Others, Holding
<1>5. ASSUME NEW w \in Worker, Register(w) PROVE Tracked'
  <2>1. PICK r : /\ r = <<"proxy", made + 1>> /\ made' = made + 1
                 /\ opened' = opened \cup {r} /\ Goto(w, "addproxy", r)
    BY <1>5 DEF Register
  <2>2. Others(w) /\ Holding(w)' /\ ~Holding(w) /\ at'[w].r = r
    BY <1>5, <2>1, Moves DEF Register, At, Typed, Others, Holding
  <2>3. phase' # "init" /\ UNCHANGED <<funcs, running, once, done>>
    BY <1>5 DEF Register, At, closer
  <2>4. r[1] \in {"proxy", "bridge"} /\ r[2] = made + 1
    BY <2>1
  <2> QED
    BY <2>1, <2>2, <2>3, <2>4, Opens
<1>6. ASSUME NEW w \in Worker, CreateServer(w) PROVE Tracked'
  <2>1. phase' # "init" /\ UNCHANGED <<funcs, running, once, done>> /\ ~Holding(w)
    BY <1>6 DEF CreateServer, At, closer, Holding
  <2>2. CASE Leave(w) /\ UNCHANGED <<made, opened>>
    <3>1. Others(w) /\ ~Holding(w)'
      BY <2>2, Moves DEF Typed, Others, Holding
    <3> QED
      BY <2>1, <2>2, <3>1, Quiet DEF Others
  <2>3. CASE /\ made' = made + 1 /\ opened' = opened \cup {<<"bridge", made + 1>>}
             /\ Goto(w, "addbridge", <<"bridge", made + 1>>)
    <3>1. PICK r : r = <<"bridge", made + 1>>
      OBVIOUS
    <3>2. Others(w) /\ Holding(w)' /\ at'[w].r = r
      BY <2>3, <3>1, Moves DEF Typed, Others, Holding
    <3>3. r[1] \in {"proxy", "bridge"} /\ r[2] = made + 1
      BY <3>1
    <3> QED
      BY <2>1, <2>3, <3>1, <3>2, <3>3, Opens
  <2> QED
    BY <1>6, <2>2, <2>3 DEF CreateServer
<1>7. ASSUME NEW w \in Worker, AddProxyFunc(w) \/ AddBridgeFunc(w) PROVE Tracked'
  <2>1. Holding(w) /\ Add(at[w].r) /\ phase' # "init" /\ UNCHANGED <<opened, made>>
    BY <1>7 DEF AddProxyFunc, AddBridgeFunc, At, Holding
  <2>2. Others(w) /\ ~Holding(w)'
    BY <1>7, Moves DEF AddProxyFunc, AddBridgeFunc, Typed, Others, Holding
  <2> QED
    BY <2>1, <2>2, Adds
<1>8. CASE UNCHANGED vars
  BY <1>8 DEF vars, closer, Tracked, Numbered, OnlyOnce, Covered, ClosedAtEnd, BeforeStart,
              Holding, Started
<1> QED
  BY <1>1, <1>2, <1>3, <1>4, <1>5, <1>6, <1>7, <1>8 DEF Next, Closing, Proxying, Bridging

----------------------------------------------------------------------------
(* Bridges and proxies. *)

\* Nothing that runs is stopped before CloseAll.
LEMMA RunsOn == Tracked /\ [Next]_vars => (~once' => ~once /\ opened \subseteq opened')
<1> SUFFICES ASSUME Tracked, [Next]_vars, ~once' PROVE ~once /\ opened \subseteq opened'
  OBVIOUS
<1>1. ~once
  BY DEF Next, vars, Closing, Proxying, Bridging, RunCron, Start, StartFails, GracefullyStop,
         CloseAll, AllReturned, WaitTimeout, Exit, Stops, Returns, CreateProxy, DialFails,
         Register, AddProxyFunc, GetOrCreateServer, CreateServer, AddBridgeFunc, SetServer,
         SetProxy, Add, closer
<1>2. running = {}
  BY <1>1 DEF Tracked, ClosedAtEnd
<1> QED
  BY <1>1, <1>2
     DEF Next, vars, Closing, Proxying, Bridging, RunCron, Start, StartFails, GracefullyStop,
         CloseAll, AllReturned, WaitTimeout, Exit, Stops, Returns, CreateProxy, DialFails,
         Register, AddProxyFunc, GetOrCreateServer, CreateServer, AddBridgeFunc, SetServer,
         SetProxy

\* A worker takes its bridge from the shared one, which runs, or has opened it.
LEMMA BridgesStep == ResourcesInv /\ [Next]_vars => BridgesRun'
<1> SUFFICES ASSUME Typed, Tracked, BridgesRun, [Next]_vars PROVE BridgesRun'
  BY DEF ResourcesInv
<1>0. ~once' => ~once /\ opened \subseteq opened'
  BY RunsOn
<1>1. CASE UNCHANGED <<server, tokens, entries, at>>
  BY <1>0, <1>1 DEF BridgesRun
<1>2. ASSUME NEW w \in Worker, CreateProxy(w) \/ DialFails(w) \/ Register(w) \/ AddProxyFunc(w)
      PROVE  BridgesRun'
  <2>1. UNCHANGED <<server, tokens, entries>>
    BY <1>2 DEF CreateProxy, DialFails, Register, AddProxyFunc, cursor
  <2>2. \A v \in Worker : at'[v] = at[v] \/ at'[v].pc \notin {"addbridge", "set", "entry"}
    BY <1>2, Moves DEF CreateProxy, DialFails, Register, AddProxyFunc, Typed
  <2> QED
    BY <1>0, <2>1, <2>2 DEF BridgesRun
<1>3. ASSUME NEW w \in Worker, GetOrCreateServer(w) \/ CreateServer(w) \/ AddBridgeFunc(w)
      PROVE  BridgesRun'
  <2>1. UNCHANGED <<server, tokens, entries>> /\ Others(w)
    BY <1>3, Moves DEF GetOrCreateServer, CreateServer, AddBridgeFunc, cursor, Typed, Others
  <2>2. ~once' /\ at'[w].pc \in {"addbridge", "set", "entry"} => at'[w].r \in opened'
    <3>1. CASE GetOrCreateServer(w)
      BY <1>0, <3>1, Moves DEF GetOrCreateServer, Typed, BridgesRun
    <3>2. CASE CreateServer(w)
      BY <3>2, Moves DEF CreateServer, Typed
    <3>3. CASE AddBridgeFunc(w)
      BY <1>0, <3>3, Moves DEF AddBridgeFunc, At, Typed, BridgesRun
    <3> QED
      BY <1>3, <3>1, <3>2, <3>3
  <2> QED
    BY <1>0, <2>1, <2>2 DEF BridgesRun, Others
<1>4. ASSUME NEW w \in Worker, SetServer(w) PROVE BridgesRun'
  <2>1. /\ server' = {at[w].r} /\ UNCHANGED <<tokens, entries>> /\ Others(w)
        /\ at[w].pc = "set" /\ at'[w].r = at[w].r
    BY <1>4, Moves DEF SetServer, At, Typed, Others
  <2> QED
    BY <1>0, <2>1 DEF BridgesRun, Others
<1>5. ASSUME NEW w \in Worker, SetProxy(w) PROVE BridgesRun'
  <2>1. UNCHANGED server /\ Others(w) /\ at[w].pc = "entry" /\ at'[w].pc = "idle"
    BY <1>5, Moves DEF SetProxy, At, Typed, Others
  <2>2. /\ entries' \subseteq entries \cup {<<at[w].r, w>>} /\ tokens \subseteq tokens'
        /\ entries' # entries => <<at[w].r, w>> \in tokens'
    BY <1>5 DEF SetProxy
  <2> QED
    BY <1>0, <2>1, <2>2 DEF BridgesRun, Others
<1> QED
  BY <1>1, <1>2, <1>3, <1>4, <1>5
     DEF Next, vars, Closing, Proxying, Bridging, RunCron, Start, StartFails, GracefullyStop,
         CloseAll, AllReturned, WaitTimeout, Exit, Stops, Returns, cursor

\* p.mu is held from the choice of an endpoint to the registration, so that the
\* endpoint is still free then (createProxy).
LEMMA PoolStep == ResourcesInv /\ [Next]_vars => PoolInv'
<1> SUFFICES ASSUME Typed, Tracked, PoolInv, [Next]_vars PROVE PoolInv'
  BY DEF ResourcesInv
<1>0. ~once' => ~once /\ opened \subseteq opened'
  BY RunsOn
<1>1. CASE UNCHANGED <<used, proxies, refused, at>>
  BY <1>0, <1>1 DEF PoolInv, PoolIsExact
<1>2. ASSUME NEW w \in Worker, CreateProxy(w) PROVE PoolInv'
  <2>1. UNCHANGED <<used, proxies>>
    BY <1>2 DEF CreateProxy
  <2>2. PoolIsExact'
    <3>1. CASE UNCHANGED refused
      BY <1>0, <2>1, <3>1 DEF PoolInv, PoolIsExact
    <3>2. CASE FreeEndpoints = {}
      <4>1. \A e \in Endpoint : \E x \in proxies : x[1] = e[1]
        BY <3>2 DEF FreeEndpoints, PoolInv
      <4> QED
        BY <1>0, <2>1, <4>1 DEF PoolInv, PoolIsExact
    <3> QED
      BY <1>2, <3>1, <3>2 DEF CreateProxy
  <2>3. \A v \in Worker : at'[v].pc = "dial" => \A x \in proxies : x[1] # at'[v].r[1]
    BY <1>2, Moves DEF CreateProxy, FreeEndpoints, PoolInv, Typed
  <2> QED
    BY <2>1, <2>2, <2>3 DEF PoolInv
<1>3. ASSUME NEW w \in Worker, Register(w) PROVE PoolInv'
  <2>1. PICK r : /\ Goto(w, "addproxy", r) /\ opened' = opened \cup {r}
                 /\ proxies' = proxies \cup {<<at[w].r[1], r>>}
                 /\ used' = used \cup {at[w].r} /\ UNCHANGED refused
    BY <1>3 DEF Register
  <2>2. at[w].pc = "dial" /\ \A x \in proxies : x[1] # at[w].r[1]
    BY <1>3 DEF Register, At, PoolInv
  <2>3. \A v \in Worker : at'[v].pc # "dial"
    <3>1. warpMu = {w}
      BY <2>2 DEF Typed, TypeOK
    <3>2. \A v \in Worker \ {w} : at[v].pc # "dial"
      BY <3>1 DEF Typed, TypeOK
    <3> QED
      BY <2>1, <3>2, Moves DEF Typed
  <2>4. \A x, y \in proxies' : x[1] = y[1] => x = y
    BY <2>1, <2>2 DEF PoolInv, PoolIsExact
  <2>5. ~once' => \A x \in proxies' : x[2] \in opened'
    BY <1>0, <2>1 DEF PoolInv, PoolIsExact
  <2>6. refused' => \A e \in Endpoint : \E x \in proxies' : x[1] = e[1]
    BY <2>1 DEF PoolInv, PoolIsExact
  <2>7. \A e \in used' : \E x \in proxies' : x[1] = e[1]
    <3>1. \E x \in proxies' : x[1] = at[w].r[1]
      <4>1. PICK a : a = at[w].r[1]
        OBVIOUS
      <4>2. <<a, r>> \in proxies' /\ <<a, r>>[1] = a
        BY <2>1, <4>1
      <4> QED
        BY <4>1, <4>2, Zenon
    <3>2. \A e \in used : \E y \in proxies' : y[1] = e[1]
      BY <2>1 DEF PoolInv
    <3> QED
      BY <2>1, <3>1, <3>2
  <2> QED
    BY <2>3, <2>4, <2>5, <2>6, <2>7 DEF PoolInv, PoolIsExact
<1>4. ASSUME NEW w \in Worker, DialFails(w) \/ AddProxyFunc(w) \/ Bridging(w) PROVE PoolInv'
  <2>1. UNCHANGED <<used, proxies, refused>>
    BY <1>4 DEF DialFails, AddProxyFunc, Bridging, GetOrCreateServer, CreateServer,
                AddBridgeFunc, SetServer, SetProxy, warp
  <2>2. \A v \in Worker : at'[v] = at[v] \/ at'[v].pc # "dial"
    <3>1. PICK q, r : \/ Leave(w)
                      \/ Goto(w, q, r) /\ q \in {"entry", "create", "addbridge", "set"}
      BY <1>4 DEF DialFails, AddProxyFunc, Bridging, GetOrCreateServer, CreateServer,
                  AddBridgeFunc, SetServer, SetProxy
    <3> QED
      BY <3>1, Moves DEF Typed
  <2> QED
    BY <1>0, <2>1, <2>2 DEF PoolInv, PoolIsExact
<1> QED
  BY <1>1, <1>2, <1>3, <1>4
     DEF Next, vars, Closing, Proxying, RunCron, Start, StartFails, GracefullyStop,
         CloseAll, AllReturned, WaitTimeout, Exit, Stops, Returns, warp

----------------------------------------------------------------------------
(* The properties. *)

\* ResourcesInv is an invariant, whatever the numbers of workers, endpoints,
\* crons and resources.
THEOREM ResourcesInvariant == Spec => []ResourcesInv
<1>1. ResourcesInv /\ [Next]_vars => ResourcesInv'
  BY TypedStep, TrackedStep, BridgesStep, PoolStep DEF ResourcesInv
<1> QED
  BY <1>1, InitInv, PTL DEF Spec

\* Whatever runs is known to the closer, once, or about to be; and what still
\* runs when it reports that all is closed was opened too late (closer.go).
THEOREM CloserKnowsAll == Spec => []NothingForgotten
<1>1. ResourcesInv => NothingForgotten
  <2> SUFFICES ASSUME ResourcesInv PROVE NothingForgotten
    OBVIOUS
  <2>1. opened \subseteq Range(funcs) \cup running \cup Pending
    BY DEF ResourcesInv, Tracked, Covered, Pending, Holding
  <2>2. done => running = {} /\ opened \subseteq Range(funcs) \cup Pending
    BY <2>1 DEF ResourcesInv, Tracked, ClosedAtEnd
  <2> QED
    BY <2>1, <2>2 DEF ResourcesInv, Typed, Tracked, OnlyOnce, NothingForgotten
<1> QED
  BY <1>1, ResourcesInvariant, PTL

\* An address carries one proxy at most, proxies run until the shutdown, and the
\* pool is said to be full only when every address carries one (createProxy).
THEOREM PoolStaysExact == Spec => []PoolIsExact
<1>1. ResourcesInv => PoolIsExact
  BY DEF ResourcesInv, PoolInv
<1> QED
  BY <1>1, ResourcesInvariant, PTL

\* A configuration entry names a bridge that runs until the shutdown and knows
\* the entry's token, however many workers race for the first bridge
\* (GetOrCreateServer, AddProviderConfig of ProviderCursor).
THEOREM EntriesStayServed == Spec => []EntriesAreServed
<1>1. ResourcesInv => EntriesAreServed
  BY DEF ResourcesInv, BridgesRun, EntriesAreServed
<1> QED
  BY <1>1, ResourcesInvariant, PTL

=============================================================================
