----------------------------- MODULE ProxyProofs -----------------------------
(***************************************************************************)
(* The invariants of the two components around the embedded proxy:         *)
(* CPAPILifecycle, for any number of rebuilds, and ProviderRegistry, for   *)
(* any providers, clients, rows and number of requests.                    *)
(*                                                                         *)
(* Lifecycle.  ServesCurrent speaks of runners inside Run.  It survives    *)
(* the step in which a runner stores its cancel function only because      *)
(* nobody serves then, and the step in which one fetches its service only  *)
(* because the stored cancel function is still its own: the invariant says *)
(* so of the runners on their way.                                         *)
(*                                                                         *)
(* Registry.  The properties speak of providers nobody works on.  In       *)
(* between, a request has changed the table and not the lists, or the      *)
(* lists and not the table; what it then knows is what makes its next step *)
(* right: the row it has read or written is the one the lists show or will *)
(* show, up to what registration makes of a row, because it is alone on    *)
(* its provider.  A restart has read the table before: what it holds is    *)
(* the table's row or an overtaken one, and what it has built so far lists *)
(* the enabled providers it is done with.  A step for one provider touches *)
(* only entries in places that provider has had, so it keeps what is known *)
(* of the others about places of their own; and a provider that gets a     *)
(* place nobody had finds it free in every list, because every entry is    *)
(* traced to some provider's past.  So the invariant is one per provider,  *)
(* with the locks and the traces.                                          *)
(***************************************************************************)
EXTENDS CPAPILifecycle, ProviderRegistry, TLAPS, SequenceTheorems, WellFoundedInduction

----------------------------------------------------------------------------
(***************************************************************************)
(* CLIProxyAPI lifecycle.                                                  *)
(***************************************************************************)
\* Runners are started in the order of the builds.
Unborn == \A n \in Runners : n > builds => pc[n] = "none"

\* A runner on its way belongs to the current service, ...
StartsCurrent == \A n \in Starting : n = current

\* ... nobody serves before it has stored its cancel function, ...
NobodyServes == (\E n \in Runners : pc[n] = "spawned") => \A n \in Runners : ~Serving(n)

\* ... and that function stays the stored one.
Registered == \A n \in Runners : pc[n] = "registered" => canceller = n

ServingIsCurrent == \A n \in Runners : Serving(n) => canceller = n /\ runs[n] = current

Unhurried == StartsCurrent /\ NobodyServes /\ Registered /\ ServingIsCurrent

LifecycleInv ==
    /\ LifecycleTypes /\ Unborn
    /\ ~hurried => Unhurried
    /\ RunnerFindsService

\* The first runner is on its way and nobody serves.
LEMMA InitLifecycle == LifecycleInit => LifecycleInv
<1> SUFFICES ASSUME LifecycleInit PROVE LifecycleInv
  OBVIOUS
<1>1. LifecycleTypes /\ Unborn /\ RunnerFindsService
  <2>1. builds \in Runners /\ current \in 0..MaxBuilds /\ canceller \in 0..MaxBuilds
        /\ runs \in [Runners -> 0..MaxBuilds]
    BY BuildsAssumption DEF LifecycleInit, Runners
  <2>2. pc \in [Runners -> {"none", "spawned", "registered", "running", "returned"}]
        /\ Unborn
    BY DEF LifecycleInit, Unborn
  <2>3. panicked \in BOOLEAN /\ hurried \in BOOLEAN /\ RunnerFindsService
    BY DEF LifecycleInit, RunnerFindsService
  <2> QED
    BY <2>1, <2>2, <2>3 DEF LifecycleInit, LifecycleTypes
<1>2. Unhurried
  BY DEF LifecycleInit, Unhurried, StartsCurrent, Starting, NobodyServes, Registered,
         ServingIsCurrent, Serving
<1> QED
  BY <1>1, <1>2 DEF LifecycleInv

\* Every step keeps types and the order of runners.
LEMMA LifecycleTypesStep ==
    LifecycleInv /\ [LifecycleNext]_lifecycleVars => LifecycleTypes' /\ Unborn'
<1> SUFFICES ASSUME LifecycleTypes, Unborn, [LifecycleNext]_lifecycleVars
             PROVE  LifecycleTypes' /\ Unborn'
  BY DEF LifecycleInv
<1> USE BuildsAssumption DEF LifecycleTypes, Unborn, Runners
<1>1. CASE RestartCPAPI
  BY <1>1 DEF RestartCPAPI, CancelSelector
<1>2. CASE RebuildFails
  BY <1>2 DEF RebuildFails, CancelSelector
<1>3. CASE CloseCancels
  BY <1>3 DEF CloseCancels, CancelSelector
<1>4. CASE CloseShutsDown
  BY <1>4 DEF CloseShutsDown
<1>5. ASSUME NEW n \in Runners, Runner(n) PROVE LifecycleTypes' /\ Unborn'
  <2>1. CASE SetSelectorCancel(n)
    BY <2>1, <1>5 DEF SetSelectorCancel
  <2>2. CASE FetchService(n)
    BY <2>2, <1>5 DEF FetchService
  <2>3. CASE FetchPanics(n)
    BY <2>3, <1>5 DEF FetchPanics
  <2> QED
    BY <1>5, <2>1, <2>2, <2>3 DEF Runner
<1>6. ASSUME NEW n \in Runners, RunStops(n) \/ RunFails(n) PROVE LifecycleTypes' /\ Unborn'
  BY <1>6 DEF RunStops, RunFails
<1>7. CASE UNCHANGED lifecycleVars
  BY <1>7 DEF lifecycleVars
<1> QED
  BY <1>1, <1>2, <1>3, <1>4, <1>5, <1>6, <1>7 DEF LifecycleNext

\* cancelSelector ends whoever serves, and was hurried if a runner was on its
\* way.
LEMMA CancelEndsServing ==
    ASSUME LifecycleTypes, ~hurried => Unhurried, CancelSelector, ~hurried'
    PROVE  /\ ~hurried /\ Starting = {} /\ canceller' = 0
           /\ \A n \in Runners : pc[n] = "running" => n \in cancelled' \/ appCtx # "live"
<1>1. ~hurried /\ Starting = {}
  BY Zenon DEF CancelSelector
<1>2. \A n \in Runners : pc[n] = "running" /\ Live(n) => canceller = n
  BY <1>1 DEF Unhurried, ServingIsCurrent, Serving
<1>3. canceller' = 0 /\ cancelled' = cancelled \cup ({canceller} \ {0})
  BY DEF CancelSelector
<1>4. ASSUME NEW n \in Runners, pc[n] = "running", appCtx = "live"
      PROVE  n \in cancelled'
  BY <1>2, <1>3, <1>4, BuildsAssumption DEF Live, Runners
<1> QED
  BY <1>1, <1>3, <1>4

\* Every step keeps the facts about runners, as long as none was hurried.
LEMMA UnhurriedStep ==
    LifecycleInv /\ [LifecycleNext]_lifecycleVars => (~hurried' => Unhurried')
<1> SUFFICES ASSUME LifecycleTypes, Unborn, ~hurried => Unhurried,
                    [LifecycleNext]_lifecycleVars, ~hurried'
             PROVE  Unhurried'
  BY DEF LifecycleInv
<1>1. CASE RestartCPAPI
  <2>1. Starting = {} /\ \A n \in Runners : pc[n] = "running" => ~Live(n)'
    BY <1>1, CancelEndsServing DEF RestartCPAPI, Live
  <2>2. builds' \in Runners /\ current' = builds' /\ pc[builds'] = "none"
    BY <1>1, BuildsAssumption DEF RestartCPAPI, LifecycleTypes, Unborn, Runners
  <2>3. pc'[builds'] = "spawned" /\ \A n \in Runners \ {builds'} : pc'[n] = pc[n]
    BY <1>1, <2>2 DEF RestartCPAPI, LifecycleTypes
  <2>4. \A n \in Runners : ~Serving(n)'
    BY <2>1, <2>3 DEF Serving
  <2> QED
    BY <2>1, <2>2, <2>3, <2>4 DEF Unhurried, StartsCurrent, NobodyServes, Registered,
                                  ServingIsCurrent, Starting
<1>2. CASE RebuildFails \/ CloseCancels
  <2>1. Starting = {} /\ \A n \in Runners : pc[n] = "running" => ~Live(n)'
    BY <1>2, CancelEndsServing DEF RebuildFails, CloseCancels, Live
  <2>2. UNCHANGED pc
    BY <1>2 DEF RebuildFails, CloseCancels
  <2>3. \A n \in Runners : ~Serving(n)'
    BY <2>1, <2>2 DEF Serving
  <2> QED
    BY <2>1, <2>2, <2>3 DEF Unhurried, StartsCurrent, NobodyServes, Registered,
                            ServingIsCurrent, Starting
<1>3. CASE CloseShutsDown
  BY <1>3 DEF CloseShutsDown, Unhurried, StartsCurrent, NobodyServes, Registered,
              ServingIsCurrent, Starting, Serving, Live
<1>4. ASSUME NEW n \in Runners, SetSelectorCancel(n) PROVE Unhurried'
  <2>1. Unhurried /\ n = current /\ \A m \in Runners : ~Serving(m)
    BY <1>4 DEF SetSelectorCancel, Unhurried, StartsCurrent, NobodyServes, Starting
  <2>2. pc'[n] = "registered" /\ \A m \in Runners \ {n} : pc'[m] = pc[m]
    BY <1>4 DEF SetSelectorCancel, LifecycleTypes
  <2>3. canceller' = n /\ UNCHANGED <<current, cancelled, appCtx>>
    BY <1>4 DEF SetSelectorCancel
  <2>4. \A m \in Runners : ~Serving(m)'
    BY <2>1, <2>2, <2>3 DEF Serving, Live
  <2> QED
    BY <2>1, <2>2, <2>3, <2>4 DEF Unhurried, StartsCurrent, NobodyServes, Registered,
                                  ServingIsCurrent, Starting
<1>5. ASSUME NEW n \in Runners, FetchService(n) PROVE Unhurried'
  <2>1. Unhurried /\ n = current /\ canceller = n
    BY <1>5 DEF FetchService, Unhurried, StartsCurrent, Registered, Starting
  <2>2. pc'[n] = "running" /\ \A m \in Runners \ {n} : pc'[m] = pc[m]
    BY <1>5 DEF FetchService, LifecycleTypes
  <2>3. runs'[n] = current /\ \A m \in Runners \ {n} : runs'[m] = runs[m]
    BY <1>5 DEF FetchService, LifecycleTypes
  <2>4. UNCHANGED <<current, canceller, cancelled, appCtx>>
    BY <1>5 DEF FetchService
  <2>5. \A m \in Runners : pc'[m] # "spawned"
    BY <1>5, <2>1, <2>2 DEF FetchService, Unhurried, StartsCurrent, Starting
  <2> QED
    BY <2>1, <2>2, <2>3, <2>4, <2>5 DEF Unhurried, StartsCurrent, NobodyServes, Registered,
                                        ServingIsCurrent, Starting, Serving, Live
<1>6. ASSUME NEW n \in Runners, FetchPanics(n) PROVE Unhurried'
  BY <1>6 DEF FetchPanics, Unhurried, StartsCurrent, NobodyServes, Registered,
              ServingIsCurrent, Starting, Serving, Live
<1>7. ASSUME NEW n \in Runners, RunStops(n) \/ RunFails(n) PROVE Unhurried'
  <2>1. pc'[n] = "returned" /\ \A m \in Runners \ {n} : pc'[m] = pc[m]
    BY <1>7 DEF RunStops, RunFails, LifecycleTypes
  <2>2. /\ UNCHANGED <<current, canceller, runs, cancelled, hurried>>
        /\ appCtx' = "live" => appCtx = "live"
    BY <1>7 DEF RunStops, RunFails
  <2> QED
    BY <2>1, <2>2 DEF Unhurried, StartsCurrent, NobodyServes, Registered,
                      ServingIsCurrent, Starting, Serving, Live
<1>8. CASE UNCHANGED lifecycleVars
  BY <1>8 DEF lifecycleVars, Unhurried, StartsCurrent, NobodyServes, Registered,
              ServingIsCurrent, Starting, Serving, Live
<1> QED
  BY <1>1, <1>2, <1>3, <1>4, <1>5, <1>6, <1>7, <1>8 DEF LifecycleNext, Runner

\* A runner that fetches its service finds one: it is on its way, so the
\* service is its own and not nil.
LEMMA FindsServiceStep ==
    LifecycleInv /\ [LifecycleNext]_lifecycleVars => RunnerFindsService'
<1> SUFFICES ASSUME LifecycleInv, [LifecycleNext]_lifecycleVars PROVE RunnerFindsService'
  OBVIOUS
<1>1. ASSUME NEW n \in Runners, FetchPanics(n) PROVE RunnerFindsService'
  <2>1. hurried
    BY <1>1, BuildsAssumption DEF FetchPanics, LifecycleInv, Unhurried, StartsCurrent,
                                  Starting, Runners
  <2> QED
    BY <1>1, <2>1 DEF FetchPanics, RunnerFindsService
<1>2. CASE CloseShutsDown
  BY <1>2 DEF CloseShutsDown, RunnerFindsService
<1>3. CASE UNCHANGED lifecycleVars
  BY <1>3 DEF lifecycleVars, LifecycleInv, RunnerFindsService
<1>4. CASE ~panicked /\ UNCHANGED panicked
  BY <1>4 DEF RunnerFindsService
<1> QED
  BY <1>1, <1>2, <1>3, <1>4
     DEF LifecycleNext, Runner, RestartCPAPI, RebuildFails, CloseCancels, SetSelectorCancel,
         FetchService, RunStops, RunFails

\* LifecycleInv is an invariant, however many restarts there are.
THEOREM LifecycleInvariant == LifecycleSpec => []LifecycleInv
<1>1. LifecycleInv /\ [LifecycleNext]_lifecycleVars => LifecycleInv'
  BY LifecycleTypesStep, UnhurriedStep, FindsServiceStep DEF LifecycleInv
<1> QED
  BY <1>1, InitLifecycle, PTL DEF LifecycleSpec

\* As long as no restart or closer overtook a runner on its way, whoever serves
\* runs the current service, and the next restart or the closer can cancel it
\* (RestartCPAPI, RunCPAPI, cancelSelector).
THEOREM CurrentIsServed == LifecycleSpec => []ServesCurrent
<1>1. LifecycleInv => ServesCurrent
  BY DEF LifecycleInv, Unhurried, ServingIsCurrent, ServesCurrent, Cancellable
<1> QED
  BY <1>1, LifecycleInvariant, PTL

\* ... and no runner meets a nil service, not even after failed rebuilds
\* (CLIProxyAPI).
THEOREM RunnersFindServices == LifecycleSpec => []RunnerFindsService
<1>1. LifecycleInv => RunnerFindsService
  BY DEF LifecycleInv
<1> QED
  BY <1>1, LifecycleInvariant, PTL

----------------------------------------------------------------------------
(***************************************************************************)
(* Provider configuration.                                                 *)
(***************************************************************************)
\* A place of a list; the configurations are lists of them.
AnyEntry == {Blank} \cup {Entry(p, r) : p \in Provider, r \in Row}
Lists == [Slot -> Seq(AnyEntry)]
Places == Slot \X (AnyEntry \ {Blank})

\* The rows of a provider, one or none.
AtMostOne == {{}} \cup {{r} : r \in Row}

\* A request, by the step it is before.
ReqType ==
    [pc : {"idle"}]
    \cup [pc : {"add"}, p : Provider, new : Row]
    \cup [pc : {"created", "restart", "restarting"}, p : Provider]
    \cup [pc : {"update", "swap"}, p : Provider, old : Row, new : Row]
    \cup [pc : {"updated", "remove", "delete"}, p : Provider, old : Row]

\* A restart, by the step it is before.
RestartType ==
    [pc : {"idle"}]
    \cup [pc : {"list"}, by : SUBSET Client]
    \cup [pc : {"register"}, by : SUBSET Client, todo : [Provider -> AtMostOne],
          cfg : Lists]

TableTypes ==
    /\ row \in [Provider -> AtMostOne] /\ edit \in [Provider -> AtMostOne]
    /\ past \in [Provider -> SUBSET Places]
ListTypes == mem \in Lists /\ file \in Lists
ReqTypes == req \in [Client -> ReqType]
RestartTypes == restart \in RestartType
RegistryTypes == TableTypes /\ ListTypes /\ ReqTypes /\ RestartTypes

\* Request c is about provider p; it has changed one of table and configuration
\* and not yet the other.
On(c, p) == req[c].pc # "idle" /\ req[c].p = p
HalfDone(c, p) == On(c, p) /\ req[c].pc \in {"created", "add", "updated", "swap", "delete"}
Quiet(p) == \A c \in Client : ~HalfDone(c, p)

\* Whoever waits for a restart, or holds configMu for one, is in that step.
LocksInv ==
    /\ mu \subseteq Client
    /\ \A c \in mu : req[c].pc \in {"restart", "restarting"}
    /\ restart.pc # "idle" => \A c \in restart.by : req[c].pc = "restarting"
    /\ unborn \subseteq Provider /\ inputs \in 0..MaxInput

\* What is in a list, some row had once.
TracedIn(cfg) ==
    \A s \in Slot : \A e : Contains(cfg[s], e) =>
        e = Blank \/ \E q \in Provider : <<s, e>> \in past[q]
Traced ==
    TracedIn(mem) /\ TracedIn(file) /\ (restart.pc = "register" => TracedIn(restart.cfg))

\* Nothing knows a provider before it is created.
UnbornAt(p) ==
    p \in unborn =>
        /\ edit[p] = {} /\ row[p] = {} /\ past[p] = {} /\ (\A c \in Client : ~On(c, p))
        /\ restart.pc = "register" => restart.todo[p] = {}

\* All rows of a provider that are still used somewhere are in its past.
PastAt(p) ==
    /\ \A r \in row[p] \cup edit[p] : Place(p, r) \in past[p]
    /\ restart.pc = "register" => \A r \in restart.todo[p] : Place(p, r) \in past[p]
    /\ \A c \in Client : On(c, p) =>
          /\ req[c].pc \in {"update", "updated", "swap", "remove"} =>
                Place(p, req[c].old) \in past[p]
          /\ req[c].pc \in {"add", "swap"} => Place(p, req[c].new) \in past[p]

\* The table has the last edit, up to what registration makes of it, and so does
\* a restart that is to write the row back.
TableAt(p) ==
    /\ row[p] = {} <=> edit[p] = {}
    /\ p \in undone => p \in overtaken
    /\ p \notin undone => \A now \in row[p], last \in edit[p] : Kept(p, now, last)
    /\ restart.pc = "register" =>
          \A r \in restart.todo[p] :
              p \notin overtaken \/ (r.type = "cursor" /\ p \notin undone) =>
                  edit[p] # {} /\ \A last \in edit[p] : Kept(p, r, last)

\* Rows with the same place and switch.
Twin(p, r, t) == Place(p, r) = Place(p, t) /\ r.disabled = t.disabled

\* Without crossing, a request is alone on its provider and knows its row.
AloneAt(p) ==
    p \notin crossed =>
        /\ \A c, d \in Client : On(c, p) /\ On(d, p) => c = d
        /\ \A c \in Client : On(c, p) /\ p \notin undone =>
              /\ req[c].pc \in {"add", "swap"} =>
                    edit[p] # {} /\ \A r \in edit[p] : Twin(p, req[c].new, r)
              /\ req[c].pc \in {"update", "remove"} =>
                    \A r \in edit[p] : Twin(p, req[c].old, r)

\* Enabled providers with a place of their own are listed, ...
Listed(cfg, p) == \A r \in edit[p] : ~r.disabled /\ Alone(p, Place(p, r)) => Has(cfg, p, r)
ListedAt(p) ==
    p \notin partial \cup crossed /\ Quiet(p) =>
        /\ p \notin undone => Listed(mem, p)
        /\ p \notin overtaken => Listed(file, p)

\* ... also in what a restart builds.
BuiltAt(p) ==
    restart.pc = "register" /\ p \notin partial \cup overtaken
           /\ restart.todo[p] = {} =>
        Listed(restart.cfg, p)

\* The plain keys that p alone ever had are in a configuration only for the rows
\* R, and of a list from which one key is removed at a time each is there once.
Once(list, e) == \A i, j \in 1..Len(list) : list[i] = e /\ list[j] = e => i = j
Mine(had, p, place) == place \in had[p] /\ \A q \in Provider \ {p} : place \notin had[q]
OnlyKeysOf(cfg, had, p, R) ==
    \A s \in Slot \ {"own"} : \A e : Mine(had, p, <<s, e>>) =>
        /\ Contains(cfg[s], e) => \E r \in R : ~r.disabled /\ Place(p, r) = <<s, e>>
        /\ s \in Keyed => Once(cfg[s], e)
Before(c) == IF req[c].pc \in {"updated", "swap"} THEN {req[c].old} ELSE {}
KeysAt(p) ==
    p \notin partial \cup crossed \cup undone =>
        /\ Quiet(p) => OnlyKeysOf(mem, past, p, edit[p])
        /\ \A c \in Client : HalfDone(c, p) => OnlyKeysOf(mem, past, p, Before(c))

ProviderInv(p) ==
    /\ UnbornAt(p) /\ PastAt(p) /\ TableAt(p) /\ AloneAt(p)
    /\ ListedAt(p) /\ BuiltAt(p) /\ KeysAt(p)

RegistryInv ==
    RegistryTypes /\ LocksInv /\ Traced /\ \A p \in Provider : ProviderInv(p)

----------------------------------------------------------------------------
(* Lists. *)

\* What appending does to a list of entries.
LEMMA AppendFacts ==
    ASSUME NEW l \in Seq(AnyEntry), NEW e \in AnyEntry, NEW x
    PROVE  /\ Append(l, e) \in Seq(AnyEntry)
           /\ Contains(Append(l, e), x) <=> Contains(l, x) \/ x = e
           /\ Once(l, x) /\ (x = e => ~Contains(l, x)) => Once(Append(l, e), x)
<1> DEFINE m == Append(l, e)
<1>1. /\ m \in Seq(AnyEntry) /\ Len(m) = Len(l) + 1 /\ m[Len(l) + 1] = e
      /\ Len(l) \in Nat /\ \A i \in 1..Len(l) : m[i] = l[i]
  OBVIOUS
<1> HIDE DEF m
<1>2. Contains(m, x) <=> Contains(l, x) \/ x = e
  BY <1>1 DEF Contains
<1>3. Once(l, x) /\ (x = e => ~Contains(l, x)) => Once(m, x)
  BY <1>1 DEF Contains, Once
<1> QED
  BY <1>1, <1>2, <1>3 DEF m

\* A nonempty set of naturals has a least element.
LEMMA LeastOf ==
    ASSUME NEW S \in SUBSET Nat, S # {}
    PROVE  \E x \in S : \A y \in S : x <= y
<1> DEFINE R == {ss \in Nat \X Nat : ss[1] < ss[2]}
<1>1. IsWellFoundedOn(R, Nat)
  BY NatLessThanWellFounded, Zenon DEF OpToRel
<1>2. PICK x \in S : \A y \in S : ~(<<y, x>> \in R)
  <2> HIDE DEF R
  <2> QED
    BY <1>1, WFMin
<1>3. ASSUME NEW y \in S PROVE x <= y
  <2>1. y < x => <<y, x>> \in R
    OBVIOUS
  <2> HIDE DEF R
  <2>2. ~(y < x)
    BY <1>2, <2>1
  <2> QED
    BY <2>2
<1> QED
  BY <1>3

\* RemoveFirst takes one place out and moves the later ones up.
LEMMA RemoveFirstShape ==
    ASSUME NEW l \in Seq(AnyEntry), NEW e, Contains(l, e)
    PROVE  \E k \in 1..Len(l) :
              /\ l[k] = e
              /\ RemoveFirst(l, e) \in Seq(AnyEntry)
              /\ Len(RemoveFirst(l, e)) = Len(l) - 1
              /\ \A i \in 1..Len(l) - 1 :
                    RemoveFirst(l, e)[i] = IF i < k THEN l[i] ELSE l[i + 1]
<1> DEFINE I == {i \in 1..Len(l) : l[i] = e}
           k == Min(I)
<1>1. I \in SUBSET Nat /\ I # {}
  BY DEF Contains
<1>2. k \in 1..Len(l) /\ l[k] = e
  <2>1. PICK x \in I : \A y \in I : x <= y
    <3> HIDE DEF I
    <3> QED
      BY <1>1, LeastOf
  <2>2. k \in I
    BY <2>1 DEF Min
  <2> QED
    BY <2>2
<1>3. RemoveFirst(l, e) = SubSeq(l, 1, k - 1) \o SubSeq(l, k + 1, Len(l))
  BY <1>1 DEF RemoveFirst, RemoveAt, SelectInSeq, Contains
<1> HIDE DEF k
<1> DEFINE a == SubSeq(l, 1, k - 1)
           b == SubSeq(l, k + 1, Len(l))
<1>4. /\ a \in Seq(AnyEntry) /\ Len(a) = k - 1 /\ \A i \in 1..k - 1 : a[i] = l[i]
  BY <1>2
<1>5. /\ b \in Seq(AnyEntry) /\ Len(b) = Len(l) - k
      /\ \A i \in 1..Len(l) - k : b[i] = l[i + k]
  BY <1>2
<1> HIDE DEF a, b
<1>6. /\ a \o b \in Seq(AnyEntry) /\ Len(a \o b) = Len(l) - 1
      /\ \A i \in 1..Len(l) - 1 : (a \o b)[i] = IF i < k THEN l[i] ELSE l[i + 1]
  <2>1. /\ a \o b \in Seq(AnyEntry) /\ Len(a \o b) = Len(a) + Len(b)
        /\ \A i \in 1..Len(a) + Len(b) :
              (a \o b)[i] = IF i <= Len(a) THEN a[i] ELSE b[i - Len(a)]
    <3>1. a \in Seq(AnyEntry) /\ b \in Seq(AnyEntry)
      BY <1>4, <1>5
    <3> QED
      BY <3>1, ConcatProperties
  <2>2. Len(l) \in Nat /\ k \in 1..Len(l)
    BY <1>2
  <2>3. Len(a) + Len(b) = Len(l) - 1
    BY <1>4, <1>5, <2>2
  <2>4. ASSUME NEW i \in 1..Len(l) - 1
        PROVE  (a \o b)[i] = IF i < k THEN l[i] ELSE l[i + 1]
    <3>1. CASE i < k
      <4>1. i \in 1..k - 1 /\ i <= Len(a)
        BY <1>4, <2>2, <3>1
      <4> QED
        BY <1>4, <2>1, <2>3, <3>1, <4>1
    <3>2. CASE ~(i < k)
      <4>1. /\ ~(i <= Len(a)) /\ i - Len(a) \in 1..Len(l) - k
            /\ (i - Len(a)) + k = i + 1
        BY <1>4, <2>2, <3>2
      <4> QED
        BY <1>5, <2>1, <2>3, <3>2, <4>1
    <3> QED
      BY <3>1, <3>2
  <2> QED
    BY <2>1, <2>3, <2>4
<1>7. RemoveFirst(l, e) = a \o b
  BY <1>3 DEF a, b
<1> QED
  BY <1>2, <1>6, <1>7

\* What RemoveFirst leaves of a list.
LEMMA RemoveFirstFacts ==
    ASSUME NEW l \in Seq(AnyEntry), NEW e, NEW x
    PROVE  /\ RemoveFirst(l, e) \in Seq(AnyEntry)
           /\ x # e /\ Contains(l, x) => Contains(RemoveFirst(l, e), x)
           /\ Contains(RemoveFirst(l, e), x) => Contains(l, x)
           /\ Once(l, x) => Once(RemoveFirst(l, e), x)
           /\ Once(l, e) => ~Contains(RemoveFirst(l, e), e)
<1>1. CASE ~Contains(l, e)
  <2>1. RemoveFirst(l, e) = l
    BY <1>1 DEF RemoveFirst, Contains
  <2> QED
    BY <1>1, <2>1
<1>2. CASE Contains(l, e)
  <2> DEFINE m == RemoveFirst(l, e)
  <2>1. PICK k \in 1..Len(l) :
           /\ l[k] = e /\ m \in Seq(AnyEntry) /\ Len(m) = Len(l) - 1
           /\ \A i \in 1..Len(l) - 1 : m[i] = IF i < k THEN l[i] ELSE l[i + 1]
    BY <1>2, RemoveFirstShape
  <2>2. Len(l) \in Nat
    OBVIOUS
  <2> HIDE DEF m
  \* Every other place is found again, ...
  <2>3. ASSUME NEW j \in 1..Len(l), j # k
        PROVE  \E i \in 1..Len(m) : m[i] = l[j]
    <3>1. CASE j < k
      <4>1. j \in 1..Len(l) - 1
        BY <2>2, <3>1
      <4> QED
        BY <2>1, <3>1, <4>1
    <3>2. CASE j > k
      <4>1. j - 1 \in 1..Len(l) - 1 /\ ~(j - 1 < k) /\ (j - 1) + 1 = j
        BY <2>2, <3>2
      <4> QED
        BY <2>1, <4>1
    <3> QED
      BY <2>3, <3>1, <3>2
  \* ... and every place left is one of them.
  <2>4. ASSUME NEW i \in 1..Len(m)
        PROVE  LET j == IF i < k THEN i ELSE i + 1
               IN  j \in 1..Len(l) /\ j # k /\ m[i] = l[j]
    BY <2>1, <2>2
  <2>5. x # e /\ Contains(l, x) => Contains(m, x)
    BY <2>1, <2>3 DEF Contains
  <2>6. Contains(m, x) => Contains(l, x)
    BY <2>4 DEF Contains
  <2>7. ASSUME Once(l, x), NEW i \in 1..Len(m), NEW j \in 1..Len(m), m[i] = x, m[j] = x
        PROVE  i = j
    <3> DEFINE f(n) == IF n < k THEN n ELSE n + 1
    <3>1. f(i) \in 1..Len(l) /\ f(j) \in 1..Len(l) /\ l[f(i)] = x /\ l[f(j)] = x
      BY <2>4, <2>7
    <3>2. f(i) = f(j)
      <4> HIDE DEF f
      <4> QED
        BY <2>7, <3>1 DEF Once
    <3>3. i \in Int /\ j \in Int /\ k \in Int
      BY <2>1, <2>2
    <3> QED
      BY <3>2, <3>3
  <2>8. Once(l, e) => ~Contains(m, e)
    BY <2>1, <2>4 DEF Contains, Once
  <2>9. Once(l, x) => Once(m, x)
    BY <2>7 DEF Once
  <2> QED
    BY <2>1, <2>5, <2>6, <2>8, <2>9 DEF m
<1> QED
  BY <1>1, <1>2

\* What RemoveCompatibility leaves of a list.
LEMMA RemoveCompatibilityFacts ==
    ASSUME NEW l \in Seq(AnyEntry), NEW p, NEW r, NEW x, x # Blank
    PROVE  LET m == RemoveCompatibility(l, p, r) IN
           /\ m \in Seq(AnyEntry)
           /\ x # Entry(p, r) /\ Contains(l, x) => Contains(m, x)
           /\ Contains(m, x) => Contains(l, x)
           /\ ~(x = Entry(p, r) /\ Contains(m, x))
<1> DEFINE m == RemoveCompatibility(l, p, r)
<1>1. Len(l) \in Nat /\ \A i \in 1..Len(l) : l[i] \in AnyEntry
  OBVIOUS
<1>2. m = [i \in 1..Len(l) |-> IF l[i] = Entry(p, r) THEN Blank ELSE l[i]]
  BY DEF RemoveCompatibility
<1>3. m \in Seq(AnyEntry) /\ Len(m) = Len(l)
  BY <1>1, <1>2 DEF AnyEntry
<1>4. \A i \in 1..Len(l) : m[i] = IF l[i] = Entry(p, r) THEN Blank ELSE l[i]
  BY <1>2
<1> HIDE DEF m
<1> QED
  BY <1>3, <1>4 DEF Contains, m

----------------------------------------------------------------------------
(* Configurations. *)

LEMMA RowShape ==
    ASSUME NEW r \in Row
    PROVE  /\ r.type \in {"xai", "kimi", "opencode", "custom", "cursor"}
           /\ r.disabled \in BOOLEAN /\ r.proxied \in BOOLEAN
           /\ SlotOf(r) \in Slot
BY DEF Row, Keyed, Shared, Own, SlotOf, Slot

\* An entry is not blank, and a place is made of its list and its entry.
LEMMA EntryFacts ==
    ASSUME NEW p \in Provider, NEW r \in Row
    PROVE  /\ Entry(p, r) # Blank
           /\ Entry(p, r) \in AnyEntry /\ Place(p, r) \in Places
           /\ \A s, e : <<s, e>> = Place(p, r) <=> s = SlotOf(r) /\ e = Entry(p, r)
<1>1. /\ r.type \in {"xai", "kimi", "opencode", "custom", "cursor"}
      /\ SlotOf(r) \in Slot
  BY RowShape
<1>2. \A x, y, z : <<x>> # <<>> /\ <<x, y>> # <<>> /\ <<x, y, z>> # <<>>
  OBVIOUS
<1>3. Entry(p, r) # Blank
  BY <1>1, <1>2 DEF Entry, Blank, Keyed, Shared
<1>4. Entry(p, r) \in AnyEntry
  BY DEF AnyEntry
<1>5. Place(p, r) \in Places
  BY <1>1, <1>3, <1>4 DEF Place, Places
<1>6. \A s, e : <<s, e>> = Place(p, r) <=> s = SlotOf(r) /\ e = Entry(p, r)
  BY DEF Place
<1> QED
  BY <1>3, <1>4, <1>5, <1>6

\* What a vendor adds is the entry of the row and nothing else.
LEMMA AddFacts ==
    ASSUME NEW cfg \in Lists, NEW p \in Provider, NEW r \in Row
    PROVE  LET a == addProviderConfig(cfg, p, r) IN
           /\ a \in Lists
           /\ ~r.disabled => Has(a, p, r)
           /\ \A s \in Slot : \A e :
                 /\ Contains(cfg[s], e) => Contains(a[s], e)
                 /\ Contains(a[s], e) =>
                       Contains(cfg[s], e) \/ (~r.disabled /\ <<s, e>> = Place(p, r))
                 /\ Once(cfg[s], e) /\ (<<s, e>> = Place(p, r) => ~Contains(cfg[s], e)) =>
                       Once(a[s], e)
<1> DEFINE a == addProviderConfig(cfg, p, r)
           t == SlotOf(r)
<1>1. CASE r.disabled
  <2>1. a = cfg
    BY <1>1 DEF addProviderConfig
  <2> QED
    BY <1>1, <2>1
<1>2. CASE ~r.disabled
  <2>1. t \in Slot /\ Entry(p, r) \in AnyEntry
        /\ \A s, e : <<s, e>> = Place(p, r) <=> s = t /\ e = Entry(p, r)
    BY RowShape, EntryFacts
  <2>2. VendorAdds(cfg[t], p, r) = Append(cfg[t], Entry(p, r))
    BY RowShape DEF VendorAdds, AddKey, AddCompatibility, AddCustom, AddCursor,
                    Keyed, Shared
  <2>3. a = [cfg EXCEPT ![t] = Append(cfg[t], Entry(p, r))]
    BY <1>2, <2>2 DEF addProviderConfig
  <2> HIDE DEF t, a
  <2>4. cfg[t] \in Seq(AnyEntry)
    BY <2>1 DEF Lists
  <2>5. /\ a[t] = Append(cfg[t], Entry(p, r))
        /\ \A s \in Slot \ {t} : a[s] = cfg[s]
    BY <2>1, <2>3 DEF Lists
  <2>6. a \in Lists
    BY <2>1, <2>3, <2>4, AppendFacts DEF Lists
  <2>7. Contains(a[t], Entry(p, r))
    BY <2>1, <2>4, <2>5, AppendFacts
  <2>8. ASSUME NEW e
        PROVE  /\ Contains(a[t], e) <=> Contains(cfg[t], e) \/ e = Entry(p, r)
               /\ Once(cfg[t], e) /\ (e = Entry(p, r) => ~Contains(cfg[t], e)) => Once(a[t], e)
    BY <2>1, <2>4, <2>5, AppendFacts
  <2>9. ASSUME NEW s \in Slot, NEW e
        PROVE  /\ Contains(cfg[s], e) => Contains(a[s], e)
               /\ Contains(a[s], e) => Contains(cfg[s], e) \/ <<s, e>> = Place(p, r)
               /\ Once(cfg[s], e) /\ (<<s, e>> = Place(p, r) => ~Contains(cfg[s], e)) =>
                       Once(a[s], e)
    <3>1. CASE s = t
      BY <2>1, <2>8, <3>1
    <3>2. CASE s # t
      BY <2>5, <3>2
    <3> QED
      BY <3>1, <3>2
  <2> QED
    BY <1>2, <2>6, <2>7, <2>9 DEF Has, t, a
<1> QED
  BY <1>1, <1>2

\* What a vendor removes is the entry of the row or nothing.
LEMMA RemoveFacts ==
    ASSUME NEW cfg \in Lists, NEW p \in Provider, NEW r \in Row
    PROVE  LET a == removeProviderConfig(cfg, p, r) IN
           /\ a \in Lists
           /\ \A s \in Slot : \A e : e # Blank =>
                 /\ <<s, e>> # Place(p, r) /\ Contains(cfg[s], e) => Contains(a[s], e)
                 /\ Contains(a[s], e) => Contains(cfg[s], e)
                 /\ s \in Keyed /\ Once(cfg[s], e) => Once(a[s], e)
                 /\ <<s, e>> = Place(p, r) /\ s # "own" =>
                       ~Contains(a[s], e) \/ (s \in Keyed /\ ~Once(cfg[s], e))
<1> DEFINE a == removeProviderConfig(cfg, p, r)
           t == SlotOf(r)
           x == Entry(p, r)
           v == VendorRemoves(cfg[t], p, r)
<1>1. t \in Slot /\ x # Blank /\ \A s, e : <<s, e>> = Place(p, r) <=> s = t /\ e = x
  BY RowShape, EntryFacts
<1>2. cfg[t] \in Seq(AnyEntry)
  BY <1>1 DEF Lists
<1>3. /\ t \in Keyed => v = RemoveFirst(cfg[t], x)
      /\ t \in Shared => v = RemoveCompatibility(cfg[t], p, r)
      /\ t \notin Keyed \cup Shared => t = "own"
      /\ t = "own" => (v = RemoveFirst(cfg[t], x) \/ v = cfg[t])
      /\ ~(t \in Keyed /\ t \in Shared)
  BY <1>1, RowShape DEF VendorRemoves, RemoveKey, RemoveCustom, RemoveCursor, Keyed,
                        Shared, Own, SlotOf
<1>4. a = [cfg EXCEPT ![t] = v]
  BY DEF removeProviderConfig
<1> HIDE DEF t, v, a
<1>5. a[t] = v /\ \A s \in Slot \ {t} : a[s] = cfg[s]
  BY <1>1, <1>4 DEF Lists
<1>6. ASSUME NEW e, e # Blank
      PROVE  /\ v \in Seq(AnyEntry)
             /\ e # x /\ Contains(cfg[t], e) => Contains(v, e)
             /\ Contains(v, e) => Contains(cfg[t], e)
             /\ t \in Keyed /\ Once(cfg[t], e) => Once(v, e)
             /\ e = x /\ t # "own" => ~Contains(v, e) \/ (t \in Keyed /\ ~Once(cfg[t], e))
  <2>1. CASE t = "own" /\ v = cfg[t]
    BY <1>2, <2>1
  <2>2. CASE v = RemoveFirst(cfg[t], x) /\ (t = "own" \/ t \in Keyed)
    <3> HIDE DEF x
    <3> QED
      BY <1>2, <2>2, RemoveFirstFacts
  <2>3. CASE v = RemoveCompatibility(cfg[t], p, r) /\ t \in Shared
    <3>1. /\ v \in Seq(AnyEntry)
          /\ e # Entry(p, r) /\ Contains(cfg[t], e) => Contains(v, e)
          /\ Contains(v, e) => Contains(cfg[t], e)
          /\ ~(e = Entry(p, r) /\ Contains(v, e))
      BY <1>2, <1>6, <2>3, RemoveCompatibilityFacts
    <3> QED
      BY <1>3, <2>3, <3>1
  <2> QED
    BY <1>3, <2>1, <2>2, <2>3
<1>7. v \in Seq(AnyEntry)
  BY <1>1, <1>6
<1>8. a \in Lists
  BY <1>1, <1>4, <1>7 DEF Lists
<1> HIDE DEF x
<1>9. ASSUME NEW s \in Slot, NEW e, e # Blank
      PROVE  /\ <<s, e>> # Place(p, r) /\ Contains(cfg[s], e) => Contains(a[s], e)
             /\ Contains(a[s], e) => Contains(cfg[s], e)
             /\ s \in Keyed /\ Once(cfg[s], e) => Once(a[s], e)
             /\ <<s, e>> = Place(p, r) /\ s # "own" =>
                   ~Contains(a[s], e) \/ (s \in Keyed /\ ~Once(cfg[s], e))
  <2>1. CASE s = t
    BY <1>1, <1>5, <1>6, <1>9, <2>1
  <2>2. CASE s # t
    BY <1>1, <1>5, <2>2
  <2> QED
    BY <2>1, <2>2
<1> QED
  BY <1>8, <1>9 DEF a

----------------------------------------------------------------------------
(* Requests and restarts: their shapes, and what each step does to them. *)

LEMMA ReqShape ==
    ASSUME ReqTypes, NEW c \in Client
    PROVE  /\ req[c].pc = "idle" <=> req[c] = Idle
           /\ req[c].pc # "idle" => req[c].p \in Provider
           /\ req[c].pc \in {"add", "update", "swap"} => req[c].new \in Row
           /\ req[c].pc \in {"update", "updated", "swap", "remove", "delete"} =>
                 req[c].old \in Row
<1>1. req[c] \in ReqType
  BY DEF ReqTypes
<1> QED
  BY <1>1 DEF ReqType, Idle

LEMMA BusyIsOn ==
    ASSUME ReqTypes, NEW p
    PROVE  Busy(p) <=> \E c \in Client : On(c, p)
BY ReqShape DEF Busy, On

\* A request that goes one step on.
LEMMA ReqMoves ==
    ASSUME ReqTypes, NEW c \in Client
    PROVE  /\ req[c].pc = "remove" => LET x == [req[c] EXCEPT !.pc = "delete"] IN
                 /\ x \in ReqType /\ x.pc = "delete" /\ x.p = req[c].p
           /\ req[c].pc = "restart" => LET x == [req[c] EXCEPT !.pc = "restarting"] IN
                 /\ x \in ReqType /\ x.pc = "restarting" /\ x.p = req[c].p
<1>1. req[c] \in ReqType
  BY DEF ReqTypes
<1>2. CASE req[c].pc = "remove"
  <2>1. req[c] \in [pc : {"remove"}, p : Provider, old : Row]
    BY <1>1, <1>2 DEF ReqType
  <2> QED
    BY <2>1 DEF ReqType
<1>3. CASE req[c].pc = "restart"
  <2>1. req[c] \in [pc : {"restart"}, p : Provider]
    BY <1>1, <1>3 DEF ReqType
  <2> QED
    BY <2>1 DEF ReqType
<1> QED
  BY <1>2, <1>3

LEMMA RestartShape ==
    ASSUME RestartTypes
    PROVE  /\ restart.pc \in {"idle", "list", "register"}
           /\ restart.pc = "idle" <=> restart = Idle
           /\ restart.pc # "idle" => restart.by \subseteq Client
           /\ restart.pc = "register" => /\ restart.todo \in [Provider -> AtMostOne]
                                         /\ restart.cfg \in Lists
<1>1. restart \in RestartType
  BY DEF RestartTypes
<1> QED
  BY <1>1 DEF RestartType, Idle

LEMMA MovesFacts ==
    ASSUME ReqTypes, NEW c \in Client, NEW x \in ReqType, Goto(c, x)
    PROVE  /\ ReqTypes'
           /\ req'[c] = x /\ \A d \in Client : d # c => req'[d] = req[d]
BY DEF ReqTypes, Goto

LEMMA IdleIsTyped == Idle \in ReqType /\ Idle \in RestartType /\ Idle.pc = "idle"
BY DEF Idle, ReqType, RestartType

\* Rows of the table are rows.
LEMMA TableShape ==
    ASSUME TableTypes, NEW p \in Provider
    PROVE  /\ row[p] \subseteq Row /\ edit[p] \subseteq Row
           /\ \A r, t \in row[p] : r = t
           /\ \A r, t \in edit[p] : r = t
           /\ \A s, e : <<s, e>> \in past[p] => s \in Slot /\ e # Blank
<1>1. row[p] \in AtMostOne /\ edit[p] \in AtMostOne
  BY DEF TableTypes
<1>2. past[p] \subseteq Slot \X (AnyEntry \ {Blank})
  BY DEF TableTypes, Places
<1>3. \A s, e : <<s, e>> \in past[p] => s \in Slot /\ e # Blank
  BY <1>2
<1> QED
  BY <1>1, <1>3 DEF AtMostOne

\* Nothing of what registration changes is in the place of a row.
LEMMA KeptIsTwin ==
    ASSUME NEW p, NEW r \in Row, NEW t \in Row, Kept(p, r, t)
    PROVE  Twin(p, r, t) /\ Twin(p, t, r)
<1>1. r.type \in {"xai", "kimi", "opencode", "custom", "cursor"}
  BY RowShape
<1>2. r.type = t.type /\ r.key = t.key /\ r.disabled = t.disabled
      /\ (r.type # "cursor" => r.url = t.url)
  BY DEF Kept
<1>3. SlotOf(r) = SlotOf(t)
  BY <1>2 DEF SlotOf
<1>4. CASE r.type = "cursor"
  <2>1. Entry(p, r) = <<p, Bridge, Login>> /\ Entry(p, t) = <<p, Bridge, Login>>
    BY <1>2, <1>4 DEF Entry, Keyed, Shared
  <2> QED
    BY <1>2, <1>3, <2>1 DEF Twin, Place
<1>5. CASE r.type # "cursor"
  <2>1. Entry(p, r) = Entry(p, t)
    BY <1>2, <1>5 DEF Entry
  <2> QED
    BY <1>2, <1>3, <2>1 DEF Twin, Place
<1> QED
  BY <1>4, <1>5

\* Rows in the same place are listed alike.
LEMMA HasByPlace ==
    ASSUME NEW cfg, NEW p \in Provider, NEW r \in Row, NEW t \in Row, Place(p, r) = Place(p, t)
    PROVE  Has(cfg, p, r) <=> Has(cfg, p, t)
<1>1. SlotOf(r) = SlotOf(t) /\ Entry(p, r) = Entry(p, t)
  BY DEF Place
<1> QED
  BY <1>1 DEF Has

----------------------------------------------------------------------------
(* A request leaves all providers but its own as they were. *)

\* From cfg to a, only entries in the places had come or go.
Apart(cfg, a, had) ==
    \A s \in Slot : \A e : e # Blank /\ <<s, e>> \notin had =>
        /\ Contains(a[s], e) <=> Contains(cfg[s], e)
        /\ s \in Keyed /\ Once(cfg[s], e) => Once(a[s], e)

\* The entries q has and p never had.
SameKeys(q, p) ==
    \A s \in Slot : \A e : <<s, e>> \in past[q] /\ <<s, e>> \notin past'[p] =>
        /\ Contains(mem'[s], e) <=> Contains(mem[s], e)
        /\ s \in Keyed /\ Once(mem[s], e) => Once(mem'[s], e)

Touches(c, p) ==
    /\ req[c].pc = "idle" \/ req[c].p = p
    /\ req'[c].pc = "idle" \/ req'[c].p = p
    /\ \A d \in Client : d # c => req'[d] = req[d]
    /\ past[p] \subseteq past'[p]
    /\ \A q \in Provider : q # p =>
          /\ row'[q] = row[q] /\ edit'[q] = edit[q] /\ past'[q] = past[q]
          /\ q \in partial' <=> q \in partial
          /\ q \in crossed' <=> q \in crossed
          /\ q \in overtaken' <=> q \in overtaken
          /\ q \in undone' <=> q \in undone
          /\ q \in unborn' <=> q \in unborn
    /\ Apart(mem, mem', past'[p])
    /\ file' = file \/ file' = mem'
    /\ UNCHANGED restart

\* The lists stay traced.
LEMMA TouchesTraced ==
    ASSUME Traced, NEW c, NEW p \in Provider, Touches(c, p)
    PROVE  Traced'
<1>1. \A q \in Provider : past[q] \subseteq past'[q]
  BY DEF Touches
<1>2. TracedIn(mem)'
  <2> SUFFICES ASSUME NEW s \in Slot, NEW e, Contains(mem'[s], e), e # Blank
               PROVE  \E q \in Provider : <<s, e>> \in past'[q]
    BY DEF TracedIn
  <2>1. CASE <<s, e>> \in past'[p]
    BY <2>1
  <2>2. CASE <<s, e>> \notin past'[p]
    <3>1. Contains(mem[s], e)
      BY <2>2 DEF Touches, Apart
    <3> QED
      BY <1>1, <3>1 DEF Traced, TracedIn
  <2> QED
    BY <2>1, <2>2
<1>3. TracedIn(file)'
  <2>1. CASE file' = file
    BY <1>1, <2>1 DEF Traced, TracedIn
  <2>2. CASE file' = mem'
    BY <1>2, <2>2 DEF TracedIn
  <2> QED
    BY <2>1, <2>2 DEF Touches
<1>4. restart'.pc = "register" => TracedIn(restart.cfg)'
  <2>1. restart' = restart
    BY DEF Touches
  <2> QED
    BY <1>1, <2>1 DEF Traced, TracedIn
<1> QED
  BY <1>2, <1>3, <1>4 DEF Traced

LEMMA OthersKeep ==
    ASSUME RegistryTypes, NEW c \in Client, NEW p \in Provider, Touches(c, p),
           NEW q \in Provider, q # p, ProviderInv(q)
    PROVE  ProviderInv(q)'
<1>1. /\ row'[q] = row[q] /\ edit'[q] = edit[q] /\ past'[q] = past[q]
      /\ q \in partial' <=> q \in partial
      /\ q \in crossed' <=> q \in crossed
      /\ q \in overtaken' <=> q \in overtaken
      /\ q \in undone' <=> q \in undone
      /\ q \in unborn' <=> q \in unborn
      /\ file' = file \/ file' = mem'
      /\ UNCHANGED restart
  BY DEF Touches
<1>0. SameKeys(q, p)
  <2>1. \A s, e : <<s, e>> \in past[q] => e # Blank
    BY TableShape DEF RegistryTypes
  <2> QED
    BY <2>1 DEF SameKeys, Touches, Apart
<1>2. \A d \in Client : (On(d, q)' <=> On(d, q)) /\ (On(d, q) => req'[d] = req[d])
  BY DEF Touches, On
<1>3. \A d \in Client : HalfDone(d, q)' <=> HalfDone(d, q)
  BY <1>2 DEF HalfDone
<1>4. Quiet(q)' <=> Quiet(q)
  BY <1>3 DEF Quiet
<1>5. \A pl : Alone(q, pl)' => Alone(q, pl) /\ pl \notin past'[p]
  <2>1. \A o \in Provider : past[o] \subseteq past'[o]
    BY DEF Touches
  <2> QED
    BY <2>1 DEF Alone
<1>6. UnbornAt(q)' /\ PastAt(q)'
  BY <1>1, <1>2 DEF ProviderInv, UnbornAt, PastAt
<1>7. TableAt(q)'
  BY <1>1 DEF ProviderInv, TableAt, Kept
<1>8. AloneAt(q)'
  BY <1>1, <1>2 DEF ProviderInv, AloneAt
<1>9. ListedAt(q)' /\ BuiltAt(q)'
  <2>1. edit[q] \subseteq Row
    BY TableShape DEF RegistryTypes
  <2>2. \A r \in edit[q] : Alone(q, Place(q, r))' /\ Has(mem, q, r) => Has(mem', q, r)
    <3> SUFFICES ASSUME NEW r \in edit[q], Alone(q, Place(q, r))', Has(mem, q, r)
                 PROVE  Has(mem', q, r)
      OBVIOUS
    <3>1. SlotOf(r) \in Slot
      BY <2>1, RowShape
    <3>2. Place(q, r) \in past[q] /\ Place(q, r) \notin past'[p]
      BY <1>5 DEF ProviderInv, PastAt
    <3> QED
      BY <1>0, <3>1, <3>2 DEF Has, SameKeys, Place
  <2>3. Listed(mem, q) => Listed(mem, q)'
    BY <1>1, <1>5, <2>2 DEF Listed
  <2>4. Listed(mem, q)' /\ file' = mem' => Listed(file, q)'
    BY DEF Listed
  <2>5. Listed(file, q) /\ file' = file => Listed(file, q)'
    BY <1>1, <1>5 DEF Listed
  <2>6. restart.pc = "register" /\ Listed(restart.cfg, q) => Listed(restart.cfg, q)'
    BY <1>1, <1>5 DEF Listed
  <2>7. q \notin overtaken => q \notin undone
    BY DEF ProviderInv, TableAt
  <2> QED
    BY <1>1, <1>4, <2>3, <2>4, <2>5, <2>6, <2>7 DEF ProviderInv, ListedAt, BuiltAt
<1>10. KeysAt(q)'
  <2>1. ASSUME NEW R, OnlyKeysOf(mem, past, q, R) PROVE OnlyKeysOf(mem', past', q, R)
    <3> SUFFICES ASSUME NEW s \in Slot \ {"own"}, NEW e, Mine(past', q, <<s, e>>)
                 PROVE  /\ Contains(mem'[s], e) =>
                              \E r \in R : ~r.disabled /\ Place(q, r) = <<s, e>>
                        /\ s \in Keyed => Once(mem'[s], e)
      BY DEF OnlyKeysOf
    <3>1. Mine(past, q, <<s, e>>) /\ <<s, e>> \notin past'[p]
      BY DEF Mine, Touches
    <3>2. /\ Contains(mem'[s], e) <=> Contains(mem[s], e)
          /\ s \in Keyed /\ Once(mem[s], e) => Once(mem'[s], e)
      BY <1>0, <3>1 DEF SameKeys, Mine
    <3> QED
      BY <2>1, <3>1, <3>2 DEF OnlyKeysOf
  <2>2. \A d \in Client : HalfDone(d, q) => Before(d)' = Before(d)
    BY <1>2 DEF HalfDone, Before
  <2>3. OnlyKeysOf(mem, past, q, edit[q]) => OnlyKeysOf(mem, past, q, edit[q])'
    BY <1>1, <2>1
  <2>4. ASSUME NEW d \in Client, HalfDone(d, q), OnlyKeysOf(mem, past, q, Before(d))
        PROVE  OnlyKeysOf(mem, past, q, Before(d))'
    <3>1. OnlyKeysOf(mem', past', q, Before(d))
      BY <2>1, <2>4
    <3> QED
      BY <2>2, <2>4, <3>1
  <2> QED
    BY <1>1, <1>3, <1>4, <2>3, <2>4 DEF ProviderInv, KeysAt
<1> QED
  BY <1>6, <1>7, <1>8, <1>9, <1>10 DEF ProviderInv

----------------------------------------------------------------------------
(* The steps of a request, for its own provider. *)

LEMMA SameApart ==
    ASSUME NEW cfg, NEW had
    PROVE  Apart(cfg, cfg, had)
BY DEF Apart

\* A vendor's change is about the place of its row.
LEMMA AddApart ==
    ASSUME NEW cfg \in Lists, NEW p \in Provider, NEW r \in Row, NEW had,
           Place(p, r) \in had
    PROVE  Apart(cfg, addProviderConfig(cfg, p, r), had)
<1> DEFINE a == addProviderConfig(cfg, p, r)
<1>1. \A s \in Slot : \A e :
         /\ Contains(cfg[s], e) => Contains(a[s], e)
         /\ Contains(a[s], e) =>
               Contains(cfg[s], e) \/ (~r.disabled /\ <<s, e>> = Place(p, r))
         /\ Once(cfg[s], e) /\ (<<s, e>> = Place(p, r) => ~Contains(cfg[s], e)) =>
               Once(a[s], e)
  BY AddFacts
<1> HIDE DEF a
<1> QED
  BY <1>1 DEF Apart, a

LEMMA RemoveApart ==
    ASSUME NEW cfg \in Lists, NEW p \in Provider, NEW r \in Row, NEW had,
           Place(p, r) \in had
    PROVE  Apart(cfg, removeProviderConfig(cfg, p, r), had)
<1> DEFINE a == removeProviderConfig(cfg, p, r)
<1>1. \A s \in Slot : \A e : e # Blank =>
         /\ <<s, e>> # Place(p, r) /\ Contains(cfg[s], e) => Contains(a[s], e)
         /\ Contains(a[s], e) => Contains(cfg[s], e)
         /\ s \in Keyed /\ Once(cfg[s], e) => Once(a[s], e)
  BY RemoveFacts
<1> HIDE DEF a
<1> QED
  BY <1>1 DEF Apart, a

LEMMA ApartTwice ==
    ASSUME NEW x, NEW y, NEW z, NEW had, Apart(x, y, had), Apart(y, z, had)
    PROVE  Apart(x, z, had)
BY DEF Apart

\* No plain key is left unexpected by the places a provider gets.
LEMMA GrowKeys ==
    ASSUME TracedIn(mem), NEW p \in Provider, NEW R, OnlyKeysOf(mem, past, p, R),
           TableTypes', past[p] \subseteq past'[p],
           \A q \in Provider : q # p => past'[q] = past[q]
    PROVE  OnlyKeysOf(mem, past', p, R)
<1> SUFFICES ASSUME NEW s \in Slot \ {"own"}, NEW e, Mine(past', p, <<s, e>>)
             PROVE  /\ Contains(mem[s], e) =>
                          \E r \in R : ~r.disabled /\ Place(p, r) = <<s, e>>
                    /\ s \in Keyed => Once(mem[s], e)
  BY DEF OnlyKeysOf
<1>1. CASE <<s, e>> \in past[p]
  <2>1. Mine(past, p, <<s, e>>)
    BY <1>1 DEF Mine
  <2> QED
    BY <2>1 DEF OnlyKeysOf
<1>2. CASE <<s, e>> \notin past[p]
  <2>1. \A q \in Provider : <<s, e>> \notin past[q]
    BY <1>2 DEF Mine
  <2>2. e # Blank
    <3>1. past'[p] \subseteq Slot \X (AnyEntry \ {Blank})
      BY DEF TableTypes, Places
    <3> QED
      BY <3>1 DEF Mine
  <2>3. ~Contains(mem[s], e)
    BY <2>1, <2>2 DEF TracedIn
  <2> QED
    BY <2>3 DEF Contains, Once
<1> QED
  BY <1>1, <1>2

\* An entry added to a configuration without keys of p, and one removed again.
LEMMA KeysAdded ==
    ASSUME NEW cfg \in Lists, NEW had, NEW p \in Provider, NEW r \in Row,
           OnlyKeysOf(cfg, had, p, {})
    PROVE  OnlyKeysOf(addProviderConfig(cfg, p, r), had, p, {r})
<1> DEFINE a == addProviderConfig(cfg, p, r)
<1>1. \A s \in Slot : \A e :
         /\ Contains(a[s], e) =>
               Contains(cfg[s], e) \/ (~r.disabled /\ <<s, e>> = Place(p, r))
         /\ Once(cfg[s], e) /\ (<<s, e>> = Place(p, r) => ~Contains(cfg[s], e)) =>
               Once(a[s], e)
  BY AddFacts
<1>2. ASSUME NEW s \in Slot \ {"own"}, NEW e, Mine(had, p, <<s, e>>)
      PROVE  ~Contains(cfg[s], e) /\ (s \in Keyed => Once(cfg[s], e))
  BY <1>2 DEF OnlyKeysOf
<1> HIDE DEF a
<1> QED
  BY <1>1, <1>2 DEF OnlyKeysOf, a

LEMMA KeysRemoved ==
    ASSUME NEW cfg \in Lists, NEW had, NEW p \in Provider, NEW r \in Row,
           \A s, e : <<s, e>> \in had[p] => e # Blank,
           OnlyKeysOf(cfg, had, p, {r})
    PROVE  OnlyKeysOf(removeProviderConfig(cfg, p, r), had, p, {})
<1> DEFINE a == removeProviderConfig(cfg, p, r)
<1>1. \A s \in Slot : \A e : e # Blank =>
         /\ Contains(a[s], e) => Contains(cfg[s], e)
         /\ s \in Keyed /\ Once(cfg[s], e) => Once(a[s], e)
         /\ <<s, e>> = Place(p, r) /\ s # "own" =>
               ~Contains(a[s], e) \/ (s \in Keyed /\ ~Once(cfg[s], e))
  BY RemoveFacts
<1> HIDE DEF a
<1>2. ASSUME NEW s \in Slot \ {"own"}, NEW e, Mine(had, p, <<s, e>>)
      PROVE  ~Contains(a[s], e) /\ (s \in Keyed => Once(a[s], e))
  <2>1. e # Blank
    BY <1>2 DEF Mine
  <2>2. /\ Contains(cfg[s], e) => Place(p, r) = <<s, e>>
        /\ s \in Keyed => Once(cfg[s], e)
    BY <1>2 DEF OnlyKeysOf
  <2> QED
    BY <1>1, <2>1, <2>2
<1> QED
  BY <1>2 DEF OnlyKeysOf, a

\* Rows that are twins stand for the same keys.
LEMMA KeysOfTwin ==
    ASSUME NEW cfg, NEW had, NEW p, NEW R, NEW t
    PROVE  /\ OnlyKeysOf(cfg, had, p, {t}) /\ (\E r \in R : Twin(p, t, r)) =>
                 OnlyKeysOf(cfg, had, p, R)
           /\ OnlyKeysOf(cfg, had, p, R) /\ (\A r \in R : Twin(p, t, r)) =>
                 OnlyKeysOf(cfg, had, p, {t})
BY DEF OnlyKeysOf, Twin

LEMMA KeysOfNone ==
    ASSUME NEW cfg, NEW had, NEW p, NEW R, OnlyKeysOf(cfg, had, p, {})
    PROVE  OnlyKeysOf(cfg, had, p, R)
BY DEF OnlyKeysOf

\* What writing rows R of p does to the table.
LEMMA WriteFacts ==
    ASSUME TableTypes, NEW p \in Provider, NEW R \in AtMostOne, Write(p, R)
    PROVE  /\ TableTypes' /\ row'[p] = R /\ edit'[p] = R
           /\ past[p] \subseteq past'[p] /\ \A r \in R : Place(p, r) \in past'[p]
           /\ \A q \in Provider : q # p =>
                 /\ row'[q] = row[q] /\ edit'[q] = edit[q] /\ past'[q] = past[q]
                 /\ q \in overtaken' <=> q \in overtaken
                 /\ q \in undone' <=> q \in undone
           /\ p \notin overtaken' => p \notin overtaken /\ restart.pc # "register"
           /\ p \notin undone' => /\ p \notin undone
                                  /\ restart.pc = "register" =>
                                        \A r \in restart.todo[p] : r.type # "cursor"
           /\ p \in undone' => p \in undone \/ p \in overtaken'
           /\ p \in overtaken => p \in overtaken'
<1>1. /\ row' = [row EXCEPT ![p] = R] /\ edit' = [edit EXCEPT ![p] = R]
      /\ past' = [past EXCEPT ![p] = past[p] \cup {Place(p, r) : r \in R}]
  BY DEF Write
<1>2. {Place(p, r) : r \in R} \subseteq Places
  BY EntryFacts DEF AtMostOne
<1>3. /\ TableTypes' /\ row'[p] = R /\ edit'[p] = R
      /\ past'[p] = past[p] \cup {Place(p, r) : r \in R}
      /\ \A q \in Provider : q # p =>
            row'[q] = row[q] /\ edit'[q] = edit[q] /\ past'[q] = past[q]
  BY <1>1, <1>2 DEF TableTypes
<1>4. /\ \A q \in Provider : q # p => /\ q \in overtaken' <=> q \in overtaken
                                      /\ q \in undone' <=> q \in undone
      /\ p \notin overtaken' => p \notin overtaken /\ restart.pc # "register"
      /\ p \notin undone' => /\ p \notin undone
                             /\ restart.pc = "register" =>
                                   \A r \in restart.todo[p] : r.type # "cursor"
      /\ p \in undone' => p \in undone \/ p \in overtaken'
      /\ p \in overtaken => p \in overtaken'
  BY DEF Write
<1> QED
  BY <1>3, <1>4

\* The table after a row of p was written.
LEMMA WrittenAt ==
    ASSUME RegistryInv, NEW p \in Provider, NEW R \in AtMostOne, Write(p, R),
           UNCHANGED restart, p \notin unborn'
    PROVE  UnbornAt(p)' /\ TableAt(p)' /\ BuiltAt(p)'
<1>1. TableTypes /\ ProviderInv(p)
  BY DEF RegistryInv, RegistryTypes
<1>2. /\ row'[p] = R /\ edit'[p] = R
      /\ p \notin overtaken' => p \notin overtaken /\ restart.pc # "register"
      /\ p \notin undone' => /\ p \notin undone
                             /\ restart.pc = "register" =>
                                   \A r \in restart.todo[p] : r.type # "cursor"
      /\ p \in undone' => p \in undone \/ p \in overtaken'
      /\ p \in overtaken => p \in overtaken'
  BY <1>1, WriteFacts
<1>3. \A r, t \in R : Kept(p, r, t)'
  BY DEF Kept, AtMostOne
<1>4. p \in undone => p \in overtaken
  BY <1>1 DEF ProviderInv, TableAt
<1>5. TableAt(p)'
  BY <1>2, <1>3, <1>4 DEF TableAt
<1> QED
  BY <1>2, <1>5 DEF UnbornAt, BuiltAt

LEMMA CreateStep ==
    ASSUME RegistryInv, NEW c \in Client, NEW p \in Provider, NEW r \in RowChoice,
           CreateProvider(c, p, r)
    PROVE  RegistryTypes' /\ Touches(c, p) /\ ProviderInv(p)'
<1>1. /\ TableTypes /\ ListTypes /\ ReqTypes /\ RestartTypes /\ ProviderInv(p)
      /\ Traced /\ r \in Row
  BY RegistryAssumption DEF RegistryInv, RegistryTypes
<1> DEFINE x == [pc |-> "created", p |-> p]
<1>2. x \in ReqType /\ x.pc = "created" /\ x.p = p
  BY <1>1 DEF ReqType
<1>3. /\ req[c].pc = "idle" /\ p \in unborn
      /\ Write(p, {r}) /\ unborn' = unborn \ {p} /\ Goto(c, x)
      /\ UNCHANGED <<mem, file, mu, restart, partial, crossed>>
  BY IdleIsTyped DEF CreateProvider
<1> HIDE DEF x
<1>4. ReqTypes' /\ req'[c] = x /\ \A d \in Client : d # c => req'[d] = req[d]
  BY <1>1, <1>2, <1>3, MovesFacts
<1>0. {r} \in AtMostOne
  BY <1>1 DEF AtMostOne
<1>5. /\ TableTypes' /\ row'[p] = {r} /\ edit'[p] = {r}
      /\ past[p] \subseteq past'[p] /\ Place(p, r) \in past'[p]
      /\ \A q \in Provider : q # p =>
            /\ row'[q] = row[q] /\ edit'[q] = edit[q] /\ past'[q] = past[q]
            /\ q \in overtaken' <=> q \in overtaken
            /\ q \in undone' <=> q \in undone
  BY <1>0, <1>1, <1>3, WriteFacts
<1>6. RegistryTypes'
  BY <1>1, <1>3, <1>4, <1>5 DEF RegistryTypes, ListTypes, RestartTypes
<1>7. Touches(c, p)
  BY <1>2, <1>3, <1>4, <1>5, SameApart DEF Touches
<1>8. /\ \A d \in Client : ~On(d, p)
      /\ past[p] = {} /\ (restart.pc = "register" => restart.todo[p] = {})
  BY <1>1, <1>3 DEF ProviderInv, UnbornAt
<1>9. \A d \in Client : On(d, p)' <=> d = c
  BY <1>2, <1>4, <1>8 DEF On
<1>10. HalfDone(c, p)' /\ \A d \in Client : HalfDone(d, p)' => d = c
  BY <1>2, <1>4, <1>9 DEF HalfDone
<1>11. ~Quiet(p)'
  BY <1>10 DEF Quiet
<1>12. UnbornAt(p)' /\ TableAt(p)' /\ BuiltAt(p)'
  BY <1>0, <1>3, WrittenAt
<1>13. PastAt(p)'
  BY <1>2, <1>3, <1>4, <1>5, <1>8, <1>9 DEF PastAt
<1>14. AloneAt(p)'
  BY <1>2, <1>4, <1>9 DEF AloneAt
<1>15. ListedAt(p)'
  BY <1>11 DEF ListedAt
<1>16. KeysAt(p)'
  <2>1. OnlyKeysOf(mem, past, p, {})
    BY <1>8 DEF OnlyKeysOf, Mine
  <2>2. OnlyKeysOf(mem, past', p, {})
    BY <1>1, <1>5, <2>1, GrowKeys DEF Traced
  <2>3. Before(c)' = {}
    BY <1>2, <1>4 DEF Before
  <2>4. OnlyKeysOf(mem, past, p, Before(c))'
    BY <1>3, <2>2, <2>3
  <2> QED
    BY <1>10, <1>11, <2>4 DEF KeysAt
<1> QED
  BY <1>6, <1>7, <1>12, <1>13, <1>14, <1>15, <1>16 DEF ProviderInv

\* A step of a request that leaves the table alone and ends it, or takes it to
\* a step that knows no row.
LEMMA WorkStep ==
    ASSUME RegistryTypes, NEW c \in Client, NEW p \in Provider, On(c, p), ProviderInv(p),
           UNCHANGED <<writes, restart, unborn, crossed>>,
           partial' = partial \/ partial' = partial \cup {p},
           \A d \in Client : d # c => req'[d] = req[d],
           req'[c].pc = "idle" \/ (req'[c].p = p /\ req'[c].pc \in {"restart", "delete"})
    PROVE  /\ UnbornAt(p)' /\ PastAt(p)' /\ TableAt(p)' /\ AloneAt(p)' /\ BuiltAt(p)'
           /\ p \in partial' => ListedAt(p)' /\ KeysAt(p)'
           /\ p \notin crossed => \A d \in Client : On(d, p) \/ On(d, p)' => d = c
<1>0. UNCHANGED <<row, edit, past, overtaken, undone, restart, unborn, crossed>>
  BY DEF writes
<1>1. p \notin unborn
  BY DEF ProviderInv, UnbornAt
<1>2. UnbornAt(p)'
  BY <1>0, <1>1 DEF UnbornAt
<1>3. TableAt(p)'
  BY <1>0 DEF ProviderInv, TableAt, Kept
<1>4. \A d \in Client : On(d, p)' => On(d, p)
  BY DEF On
<1>5. p \notin crossed => \A d \in Client : On(d, p) => d = c
  BY DEF ProviderInv, AloneAt
<1>6. AloneAt(p)'
  BY <1>0, <1>4, <1>5 DEF AloneAt, On
<1>7. BuiltAt(p)'
  BY <1>0 DEF ProviderInv, BuiltAt, Listed, Alone
<1>8. p \in partial' => ListedAt(p)' /\ KeysAt(p)'
  BY DEF ListedAt, KeysAt
<1>9. PastAt(p)'
  BY <1>0 DEF ProviderInv, PastAt, On
<1> QED
  BY <1>2, <1>3, <1>4, <1>5, <1>6, <1>7, <1>8, <1>9

\* After the entry of a twin of the row was added, and nothing else is under way.
LEMMA ListedTwin ==
    ASSUME NEW cfg, NEW p \in Provider, edit[p] \subseteq Row, NEW t \in Row,
           \A r \in edit[p] : Twin(p, t, r), ~t.disabled => Has(cfg, p, t)
    PROVE  Listed(cfg, p)
BY HasByPlace DEF Listed, Twin

LEMMA AddStep ==
    ASSUME RegistryInv, NEW c \in Client, NEW p, req[c].p = p, addProvider(c)
    PROVE  p \in Provider /\ RegistryTypes' /\ Touches(c, p) /\ ProviderInv(p)'
<1>0. PICK r : r = req[c].new
  OBVIOUS
<1> DEFINE x == [pc |-> "restart", p |-> p]
           added == addProviderConfig(mem, p, r)
<1>1. /\ TableTypes /\ ListTypes /\ ReqTypes /\ RestartTypes /\ RegistryTypes
      /\ req[c].pc = "add"
  BY DEF RegistryInv, RegistryTypes, addProvider
<1>2. p \in Provider /\ r \in Row /\ x \in ReqType /\ x.pc = "restart" /\ x.p = p
  BY <1>0, <1>1, ReqShape DEF ReqType
<1>3. /\ UNCHANGED <<writes, restart, unborn, crossed>>
      /\ \/ /\ mem' = added /\ file' = mem' /\ Goto(c, x) /\ partial' = partial
         \/ /\ mem' = mem /\ file' = mem' /\ Goto(c, x) /\ partial' = partial \cup {p}
         \/ /\ mem' = added /\ file' = file /\ Goto(c, Idle)
            /\ partial' = partial \cup {p}
  BY <1>0 DEF addProvider
<1>4. ProviderInv(p)
  BY <1>2 DEF RegistryInv
<1> HIDE DEF x
<1>5. /\ ReqTypes' /\ \A d \in Client : d # c => req'[d] = req[d]
      /\ req'[c].pc = "idle" \/ (req'[c].p = p /\ req'[c].pc = "restart")
  BY <1>1, <1>2, <1>3, MovesFacts, IdleIsTyped
<1>6. On(c, p) /\ HalfDone(c, p) /\ ~Quiet(p)
  BY <1>1 DEF On, HalfDone, Quiet
<1>7. mem \in Lists /\ added \in Lists /\ (~r.disabled => Has(added, p, r))
  BY <1>1, <1>2, AddFacts DEF ListTypes
<1>8. Apart(mem, mem', past'[p])
  <2>1. Place(p, r) \in past'[p]
    BY <1>0, <1>1, <1>3, <1>4, <1>6 DEF ProviderInv, PastAt, writes
  <2>2. Apart(mem, added, past'[p])
    BY <1>2, <1>7, <2>1, AddApart
  <2> HIDE DEF added
  <2> QED
    BY <1>3, <2>2, SameApart
<1>17. OnlyKeysOf(mem, past, p, {}) => OnlyKeysOf(added, past, p, {r})
  BY <1>2, <1>7, KeysAdded
<1> HIDE DEF added
<1>18. UNCHANGED <<row, edit, past, overtaken, undone>>
  BY <1>3 DEF writes
<1>9. RegistryTypes'
  BY <1>1, <1>3, <1>5, <1>7, <1>18 DEF RegistryTypes, TableTypes, ListTypes, RestartTypes
<1>10. Touches(c, p)
  BY <1>1, <1>3, <1>5, <1>8, <1>18 DEF Touches
<1>11. /\ UnbornAt(p)' /\ PastAt(p)' /\ TableAt(p)' /\ AloneAt(p)' /\ BuiltAt(p)'
       /\ p \in partial' => ListedAt(p)' /\ KeysAt(p)'
       /\ p \notin crossed => \A d \in Client : On(d, p) \/ On(d, p)' => d = c
  BY <1>1, <1>2, <1>3, <1>4, <1>5, <1>6, WorkStep
<1>12. ASSUME p \notin partial' \cup crossed PROVE ListedAt(p)' /\ KeysAt(p)'
  <2>1. mem' = added /\ file' = added /\ partial' = partial
    BY <1>3, <1>12
  <2>2. \A d \in Client : ~HalfDone(d, p)'
    BY <1>5, <1>11, <1>12 DEF HalfDone
  <2>3. SUFFICES ASSUME p \notin undone PROVE ListedAt(p)' /\ KeysAt(p)'
    <3>1. p \in undone => p \in overtaken
      BY <1>4 DEF ProviderInv, TableAt
    <3> QED
      BY <1>18, <2>3, <3>1 DEF ListedAt, KeysAt
  <2>4. edit[p] # {} /\ \A t \in edit[p] : Twin(p, r, t)
    BY <1>0, <1>1, <1>4, <1>6, <1>12, <2>3 DEF ProviderInv, AloneAt
  <2>5. Listed(added, p)
    <3>1. edit[p] \subseteq Row
      BY <1>1, <1>2, TableShape
    <3> QED
      BY <1>2, <1>7, <2>4, <3>1, ListedTwin
  <2>6. ListedAt(p)'
    BY <1>18, <2>1, <2>5 DEF ListedAt, Listed, Alone
  <2>7. OnlyKeysOf(mem, past, p, {})
    <3>1. Before(c) = {}
      BY <1>1 DEF Before
    <3> QED
      BY <1>4, <1>6, <1>12, <2>1, <2>3, <3>1 DEF ProviderInv, KeysAt
  <2>8. OnlyKeysOf(added, past, p, edit[p])
    BY <1>17, <2>4, <2>7, KeysOfTwin
  <2>9. OnlyKeysOf(mem, past, p, edit[p])'
    BY <1>18, <2>1, <2>8
  <2> QED
    BY <2>2, <2>6, <2>9 DEF KeysAt
<1>13. ListedAt(p)' /\ KeysAt(p)'
  <2>1. p \in crossed => ListedAt(p)' /\ KeysAt(p)'
    BY <1>3 DEF ListedAt, KeysAt
  <2> QED
    BY <1>11, <1>12, <2>1
<1>14. ProviderInv(p)'
  BY <1>11, <1>13 DEF ProviderInv
<1> QED
  BY <1>2, <1>9, <1>10, <1>14

\* A step in which nothing is written and the configuration stays, for the rest
\* of what is known of the provider.
LEMMA StillStep ==
    ASSUME RegistryTypes, NEW c \in Client, NEW p \in Provider, ProviderInv(p),
           UNCHANGED <<writes, mem, file, restart, unborn>>,
           p \in partial => p \in partial', p \in crossed => p \in crossed',
           \A d \in Client : d # c => req'[d] = req[d],
           HalfDone(c, p)' <=> HalfDone(c, p), HalfDone(c, p) => Before(c)' = Before(c)
    PROVE  TableAt(p)' /\ ListedAt(p)' /\ (partial' = partial => BuiltAt(p)') /\ KeysAt(p)'
<1>1. UNCHANGED <<row, edit, past, overtaken, undone, mem, file, restart, unborn>>
  BY DEF writes
<1>2. \A d \in Client : /\ HalfDone(d, p)' <=> HalfDone(d, p)
                        /\ HalfDone(d, p) => Before(d)' = Before(d)
  BY DEF HalfDone, On, Before
<1>3. Quiet(p)' <=> Quiet(p)
  BY <1>2 DEF Quiet
<1>4. TableAt(p)'
  BY <1>1 DEF ProviderInv, TableAt, Kept
<1>5. ListedAt(p)' /\ (partial' = partial => BuiltAt(p)')
  BY <1>1, <1>3 DEF ProviderInv, ListedAt, BuiltAt, Listed, Alone
<1>6. KeysAt(p)'
  BY <1>1, <1>2, <1>3 DEF ProviderInv, KeysAt
<1> QED
  BY <1>4, <1>5, <1>6

\* ReadForUpdate and ReadForDelete: a request x that has read the row begins.
LEMMA ReadStep ==
    ASSUME RegistryInv, NEW c \in Client, NEW p \in Provider, NEW x \in ReqType,
           req[c] = Idle, Overlaps(p), Goto(c, x),
           x.pc \in {"update", "remove"}, x.p = p, x.old \in row[p],
           UNCHANGED <<writes, mem, file, mu, restart, unborn, partial>>
    PROVE  RegistryTypes' /\ Touches(c, p) /\ ProviderInv(p)'
<1>1. /\ TableTypes /\ ListTypes /\ ReqTypes /\ RestartTypes /\ RegistryTypes
      /\ ProviderInv(p)
      /\ UNCHANGED <<row, edit, past, overtaken, undone>>
  BY DEF RegistryInv, RegistryTypes, writes
<1>2. ReqTypes' /\ req'[c] = x /\ \A d \in Client : d # c => req'[d] = req[d]
  BY <1>1, MovesFacts
<1>3. /\ req[c].pc = "idle"
      /\ crossed' = crossed \/ crossed' = crossed \cup {p}
      /\ p \notin crossed' => p \notin crossed /\ \A d \in Client : ~On(d, p)
  BY <1>1, BusyIsOn, IdleIsTyped DEF Overlaps
<1>4. RegistryTypes'
  BY <1>1, <1>2 DEF RegistryTypes, TableTypes, ListTypes, RestartTypes
<1>5. Touches(c, p)
  BY <1>1, <1>2, <1>3, SameApart DEF Touches
<1>6. ~HalfDone(c, p)' /\ ~HalfDone(c, p)
  BY <1>2, <1>3 DEF HalfDone, On
<1>7. TableAt(p)' /\ ListedAt(p)' /\ BuiltAt(p)' /\ KeysAt(p)'
  BY <1>1, <1>2, <1>3, <1>6, StillStep
<1>8. UnbornAt(p)'
  BY <1>1 DEF ProviderInv, UnbornAt
<1>9. PastAt(p)'
  <2>1. Place(p, x.old) \in past[p]
    BY <1>1 DEF ProviderInv, PastAt
  <2> QED
    BY <1>1, <1>2, <2>1 DEF ProviderInv, PastAt, On
<1>10. AloneAt(p)'
  <2>1. SUFFICES ASSUME p \notin crossed'
                 PROVE  /\ \A d \in Client : On(d, p)' => d = c
                        /\ p \notin undone => \A r \in edit[p] : Twin(p, x.old, r)
    BY <1>1, <1>2 DEF AloneAt
  <2>2. \A d \in Client : On(d, p)' => d = c
    BY <1>2, <1>3, <2>1 DEF On
  <2>3. ASSUME p \notin undone, NEW r \in edit[p] PROVE Twin(p, x.old, r)
    <3>1. x.old \in Row /\ r \in Row
      BY <1>1, TableShape
    <3>2. Kept(p, x.old, r)
      BY <1>1, <2>3 DEF ProviderInv, TableAt
    <3> QED
      BY <3>1, <3>2, KeptIsTwin
  <2> QED
    BY <2>2, <2>3
<1> QED
  BY <1>4, <1>5, <1>7, <1>8, <1>9, <1>10 DEF ProviderInv

LEMMA ReadForUpdateStep ==
    ASSUME RegistryInv, NEW c \in Client, NEW p \in Provider, NEW r \in RowChoice,
           ReadForUpdate(c, p, r)
    PROVE  RegistryTypes' /\ Touches(c, p) /\ ProviderInv(p)'
<1>1. PICK old \in row[p] : Goto(c, [pc |-> "update", p |-> p, old |-> old, new |-> r])
  BY DEF ReadForUpdate
<1>2. old \in Row /\ r \in Row
  BY RegistryAssumption, TableShape DEF RegistryInv, RegistryTypes
<1> DEFINE x == [pc |-> "update", p |-> p, old |-> old, new |-> r]
<1>3. x \in ReqType /\ x.pc = "update" /\ x.p = p /\ x.old = old
  BY <1>2 DEF ReqType
<1> HIDE DEF x
<1>4. /\ req[c] = Idle /\ Overlaps(p) /\ Goto(c, x)
      /\ UNCHANGED <<writes, mem, file, mu, restart, unborn, partial>>
  BY <1>1 DEF ReadForUpdate, x
<1> QED
  BY <1>3, <1>4, ReadStep

LEMMA ReadForDeleteStep ==
    ASSUME RegistryInv, NEW c \in Client, NEW p \in Provider, ReadForDelete(c, p)
    PROVE  RegistryTypes' /\ Touches(c, p) /\ ProviderInv(p)'
<1>1. PICK old \in row[p] : Goto(c, [pc |-> "remove", p |-> p, old |-> old])
  BY DEF ReadForDelete
<1>2. old \in Row
  BY TableShape DEF RegistryInv, RegistryTypes
<1> DEFINE x == [pc |-> "remove", p |-> p, old |-> old]
<1>3. x \in ReqType /\ x.pc = "remove" /\ x.p = p /\ x.old = old
  BY <1>2 DEF ReqType
<1> HIDE DEF x
<1>4. /\ req[c] = Idle /\ Overlaps(p) /\ Goto(c, x)
      /\ UNCHANGED <<writes, mem, file, mu, restart, unborn, partial>>
  BY <1>1 DEF ReadForDelete, x
<1> QED
  BY <1>3, <1>4, ReadStep

\* The row read back is the last edit, up to what registration made of it.
LEMMA ReadBackStep ==
    ASSUME RegistryInv, NEW c \in Client, NEW p, req[c].p = p, ReadBack(c)
    PROVE  p \in Provider /\ RegistryTypes' /\ Touches(c, p) /\ ProviderInv(p)'
<1>1. /\ TableTypes /\ ListTypes /\ ReqTypes /\ RestartTypes /\ RegistryTypes
      /\ req[c].pc \in {"created", "updated"}
      /\ UNCHANGED <<writes, mem, file, mu, restart, unborn, crossed, inputs>>
      /\ UNCHANGED <<row, edit, past, overtaken, undone>>
  BY DEF RegistryInv, RegistryTypes, ReadBack, writes
<1>2. p \in Provider
  BY <1>1, ReqShape
<1>3. ProviderInv(p)
  BY <1>2 DEF RegistryInv
<1>4. On(c, p) /\ HalfDone(c, p)
  BY <1>1 DEF On, HalfDone
\* It fails.
<1>5. CASE Goto(c, Idle) /\ partial' = partial \cup {p}
  <2>1. /\ ReqTypes' /\ (\A d \in Client : d # c => req'[d] = req[d])
        /\ req'[c].pc = "idle"
    BY <1>1, <1>5, MovesFacts, IdleIsTyped
  <2>2. RegistryTypes'
    BY <1>1, <2>1 DEF RegistryTypes, TableTypes, ListTypes, RestartTypes
  <2>3. Touches(c, p)
    BY <1>1, <1>5, <2>1, SameApart DEF Touches
  <2>4. ProviderInv(p)'
    BY <1>1, <1>2, <1>3, <1>4, <1>5, <2>1, WorkStep DEF ProviderInv
  <2> QED
    BY <1>2, <2>2, <2>3, <2>4
\* It reads r.
<1>6. ASSUME NEW r \in row[p], partial' = partial,
             Goto(c, IF req[c].pc = "created"
                     THEN [pc |-> "add", p |-> p, new |-> r]
                     ELSE [pc |-> "swap", p |-> p, old |-> req[c].old, new |-> r])
      PROVE  RegistryTypes' /\ Touches(c, p) /\ ProviderInv(p)'
  <2> DEFINE x == IF req[c].pc = "created"
                  THEN [pc |-> "add", p |-> p, new |-> r]
                  ELSE [pc |-> "swap", p |-> p, old |-> req[c].old, new |-> r]
  <2>1. r \in Row
    BY <1>1, <1>2, TableShape
  <2>2. /\ x \in ReqType /\ x.p = p /\ x.new = r
        /\ \/ req[c].pc = "created" /\ x.pc = "add"
           \/ req[c].pc = "updated" /\ x.pc = "swap" /\ x.old = req[c].old
    BY <1>1, <1>2, <2>1, ReqShape DEF ReqType
  <2>3. Goto(c, x)
    BY <1>6
  <2> HIDE DEF x
  <2>4. ReqTypes' /\ req'[c] = x /\ \A d \in Client : d # c => req'[d] = req[d]
    BY <1>1, <2>2, <2>3, MovesFacts
  <2>5. RegistryTypes'
    BY <1>1, <2>4 DEF RegistryTypes, TableTypes, ListTypes, RestartTypes
  <2>6. Touches(c, p)
    BY <1>1, <1>6, <2>2, <2>4, SameApart DEF Touches
  <2>7. HalfDone(c, p)' /\ Before(c)' = Before(c)
    BY <2>2, <2>4 DEF HalfDone, On, Before
  <2>8. TableAt(p)' /\ ListedAt(p)' /\ BuiltAt(p)' /\ KeysAt(p)'
    BY <1>1, <1>2, <1>3, <1>4, <1>6, <2>4, <2>7, StillStep
  <2>9. \A d \in Client : On(d, p)' => On(d, p)
    BY <1>4, <2>4 DEF On
  <2>10. UnbornAt(p)'
    BY <1>1, <1>3, <1>4 DEF ProviderInv, UnbornAt
  <2>11. PastAt(p)'
    <3>1. /\ Place(p, r) \in past[p]
          /\ req[c].pc = "updated" => Place(p, req[c].old) \in past[p]
      BY <1>3, <1>4 DEF ProviderInv, PastAt
    <3> QED
      BY <1>1, <1>3, <2>2, <2>4, <3>1 DEF ProviderInv, PastAt, On
  <2>12. AloneAt(p)'
    <3>1. p \notin crossed => \A d \in Client : On(d, p)' => d = c
      BY <1>3, <1>4, <2>9 DEF ProviderInv, AloneAt
    <3>2. ASSUME p \notin undone
          PROVE  edit[p] # {} /\ \A t \in edit[p] : Twin(p, r, t)
      <4>1. edit[p] # {} /\ \A t \in edit[p] : t \in Row /\ Kept(p, r, t)
        BY <1>1, <1>2, <1>3, <3>2, TableShape DEF ProviderInv, TableAt
      <4> QED
        BY <2>1, <4>1, KeptIsTwin
    <3> QED
      BY <1>1, <2>2, <2>4, <3>1, <3>2 DEF AloneAt
  <2> QED
    BY <2>5, <2>6, <2>8, <2>10, <2>11, <2>12 DEF ProviderInv
<1> QED
  BY <1>2, <1>5, <1>6 DEF ReadBack

LEMMA SwapStep ==
    ASSUME RegistryInv, NEW c \in Client, NEW p, req[c].p = p, SwapConfig(c)
    PROVE  p \in Provider /\ RegistryTypes' /\ Touches(c, p) /\ ProviderInv(p)'
<1>0. PICK r, old : r = req[c].new /\ old = req[c].old
  OBVIOUS
<1> DEFINE without == removeProviderConfig(mem, p, old)
           added == addProviderConfig(without, p, r)
<1>1. /\ TableTypes /\ ListTypes /\ ReqTypes /\ RestartTypes /\ RegistryTypes
      /\ req[c].pc = "swap"
  BY DEF RegistryInv, RegistryTypes, SwapConfig
<1>2. p \in Provider /\ r \in Row /\ old \in Row
  BY <1>0, <1>1, ReqShape
<1>3. /\ UNCHANGED <<writes, restart, unborn, crossed>> /\ Goto(c, Idle)
      /\ \/ /\ mem' = added /\ file' = mem' /\ partial' = partial
         \/ /\ mem' = without /\ file' = mem' /\ partial' = partial \cup {p}
         \/ /\ mem' = added /\ file' = file /\ partial' = partial \cup {p}
  BY <1>0 DEF SwapConfig
<1>4. ProviderInv(p) /\ UNCHANGED <<row, edit, past, overtaken, undone>>
  BY <1>2, <1>3 DEF RegistryInv, writes
<1>5. /\ ReqTypes' /\ (\A d \in Client : d # c => req'[d] = req[d])
      /\ req'[c].pc = "idle"
  BY <1>1, <1>3, MovesFacts, IdleIsTyped
<1>6. On(c, p) /\ HalfDone(c, p)
  BY <1>1 DEF On, HalfDone
<1>7. mem \in Lists /\ without \in Lists
  BY <1>1, <1>2, RemoveFacts DEF ListTypes
<1>8. Place(p, old) \in past'[p] /\ Place(p, r) \in past'[p]
  BY <1>0, <1>1, <1>4, <1>6 DEF ProviderInv, PastAt
<1>9. p \notin partial \cup crossed \cup undone => OnlyKeysOf(without, past, p, {})
  <2>1. Before(c) = {old}
    BY <1>0, <1>1 DEF Before
  <2>2. p \notin partial \cup crossed \cup undone => OnlyKeysOf(mem, past, p, {old})
    BY <1>4, <1>6, <2>1 DEF ProviderInv, KeysAt
  <2>3. \A s, e : <<s, e>> \in past[p] => e # Blank
    BY <1>1, <1>2, TableShape
  <2> QED
    BY <1>2, <1>7, <2>2, <2>3, KeysRemoved
<1>10. Apart(mem, without, past'[p])
  BY <1>2, <1>7, <1>8, RemoveApart
<1> HIDE DEF without
<1>11. added \in Lists /\ (~r.disabled => Has(added, p, r))
  BY <1>2, <1>7, AddFacts
<1>12. OnlyKeysOf(without, past, p, {}) => OnlyKeysOf(added, past, p, {r})
  BY <1>2, <1>7, KeysAdded
<1>13. Apart(mem, mem', past'[p])
  <2>1. Apart(without, added, past'[p])
    BY <1>2, <1>7, <1>8, AddApart
  <2> HIDE DEF added
  <2>2. Apart(mem, added, past'[p])
    BY <1>10, <2>1, ApartTwice
  <2> QED
    BY <1>3, <1>10, <2>2
<1> HIDE DEF added
<1>14. RegistryTypes'
  BY <1>1, <1>3, <1>4, <1>5, <1>7, <1>11
     DEF RegistryTypes, TableTypes, ListTypes, RestartTypes
<1>15. Touches(c, p)
  BY <1>3, <1>4, <1>5, <1>13 DEF Touches
<1>16. /\ UnbornAt(p)' /\ PastAt(p)' /\ TableAt(p)' /\ AloneAt(p)' /\ BuiltAt(p)'
       /\ p \in partial' => ListedAt(p)' /\ KeysAt(p)'
       /\ p \notin crossed => \A d \in Client : On(d, p) \/ On(d, p)' => d = c
  BY <1>1, <1>2, <1>3, <1>4, <1>5, <1>6, WorkStep
<1>17. ASSUME p \notin partial' \cup crossed PROVE ListedAt(p)' /\ KeysAt(p)'
  <2>1. mem' = added /\ file' = added /\ partial' = partial
    BY <1>3, <1>17
  <2>2. \A d \in Client : ~HalfDone(d, p)'
    BY <1>5, <1>16, <1>17 DEF HalfDone
  <2>3. SUFFICES ASSUME p \notin undone PROVE ListedAt(p)' /\ KeysAt(p)'
    <3>1. p \in undone => p \in overtaken
      BY <1>4 DEF ProviderInv, TableAt
    <3> QED
      BY <1>4, <2>3, <3>1 DEF ListedAt, KeysAt
  <2>4. edit[p] # {} /\ \A t \in edit[p] : Twin(p, r, t)
    BY <1>0, <1>1, <1>4, <1>6, <1>17, <2>3 DEF ProviderInv, AloneAt
  <2>5. Listed(added, p)
    <3>1. edit[p] \subseteq Row
      BY <1>1, <1>2, TableShape
    <3> QED
      BY <1>2, <1>11, <2>4, <3>1, ListedTwin
  <2>6. ListedAt(p)'
    BY <1>4, <2>1, <2>5 DEF ListedAt, Listed, Alone
  <2>7. OnlyKeysOf(added, past, p, edit[p])
    BY <1>9, <1>12, <1>17, <2>1, <2>3, <2>4, KeysOfTwin
  <2>8. OnlyKeysOf(mem, past, p, edit[p])'
    BY <1>4, <2>1, <2>7
  <2> QED
    BY <2>2, <2>6, <2>8 DEF KeysAt
<1>18. ListedAt(p)' /\ KeysAt(p)'
  <2>1. p \in crossed => ListedAt(p)' /\ KeysAt(p)'
    BY <1>3 DEF ListedAt, KeysAt
  <2> QED
    BY <1>16, <1>17, <2>1
<1>19. ProviderInv(p)'
  BY <1>16, <1>18 DEF ProviderInv
<1> QED
  BY <1>2, <1>14, <1>15, <1>19

LEMMA UpdateStep ==
    ASSUME RegistryInv, NEW c \in Client, NEW p, req[c].p = p, UpdateProvider(c)
    PROVE  p \in Provider /\ RegistryTypes' /\ Touches(c, p) /\ ProviderInv(p)'
<1>0. PICK r, old : r = req[c].new /\ old = req[c].old
  OBVIOUS
<1>1. /\ TableTypes /\ ListTypes /\ ReqTypes /\ RestartTypes /\ RegistryTypes /\ Traced
      /\ req[c].pc = "update"
      /\ UNCHANGED <<mem, file, mu, restart, unborn, partial, crossed>>
  BY DEF RegistryInv, RegistryTypes, UpdateProvider
<1>2. p \in Provider /\ r \in Row /\ old \in Row
  BY <1>0, <1>1, ReqShape
<1>3. ProviderInv(p)
  BY <1>2 DEF RegistryInv
<1>4. On(c, p) /\ ~HalfDone(c, p) /\ p \notin unborn
  BY <1>1, <1>3 DEF On, HalfDone, ProviderInv, UnbornAt
<1>5. p \notin crossed => \A d \in Client : On(d, p) => d = c
  BY <1>3, <1>4 DEF ProviderInv, AloneAt
\* The statement fails.
<1>6. CASE Goto(c, Idle) /\ UNCHANGED writes
  <2>1. /\ UNCHANGED <<row, edit, past, overtaken, undone>>
        /\ ReqTypes' /\ (\A d \in Client : d # c => req'[d] = req[d])
        /\ req'[c].pc = "idle"
    BY <1>1, <1>6, MovesFacts, IdleIsTyped DEF writes
  <2>2. RegistryTypes'
    BY <1>1, <2>1 DEF RegistryTypes, TableTypes, ListTypes, RestartTypes
  <2>3. Touches(c, p)
    BY <1>1, <2>1, SameApart DEF Touches
  <2>4. UnbornAt(p)' /\ PastAt(p)' /\ AloneAt(p)'
    BY <1>1, <1>2, <1>3, <1>4, <1>6, <2>1, WorkStep
  <2>5. ~HalfDone(c, p)'
    BY <2>1 DEF HalfDone, On
  <2>6. TableAt(p)' /\ ListedAt(p)' /\ BuiltAt(p)' /\ KeysAt(p)'
    BY <1>1, <1>2, <1>3, <1>4, <1>6, <2>1, <2>5, StillStep
  <2> QED
    BY <1>2, <2>2, <2>3, <2>4, <2>6 DEF ProviderInv
\* It is done, on the row or on none.
<1> DEFINE x == [pc |-> "updated", p |-> p, old |-> old]
<1>7. CASE Goto(c, x) /\ IF row[p] = {} THEN UNCHANGED writes ELSE Write(p, {r})
  <2>1. x \in ReqType /\ x.pc = "updated" /\ x.p = p /\ x.old = old
    BY <1>2 DEF ReqType
  <2>2. Goto(c, x)
    BY <1>7
  <2> HIDE DEF x
  <2>3. ReqTypes' /\ req'[c] = x /\ \A d \in Client : d # c => req'[d] = req[d]
    BY <1>1, <2>1, <2>2, MovesFacts
  <2>4. {r} \in AtMostOne
    BY <1>2 DEF AtMostOne
  <2>5. /\ TableTypes' /\ past[p] \subseteq past'[p]
        /\ \A q \in Provider : q # p =>
              /\ row'[q] = row[q] /\ edit'[q] = edit[q] /\ past'[q] = past[q]
              /\ q \in overtaken' <=> q \in overtaken
              /\ q \in undone' <=> q \in undone
        /\ p \notin undone' => p \notin undone
        /\ \A t \in row'[p] \cup edit'[p] : Place(p, t) \in past'[p]
    <3>1. CASE row[p] = {}
      <4>1. UNCHANGED <<row, edit, past, overtaken, undone>>
        BY <1>7, <3>1 DEF writes
      <4> QED
        BY <1>1, <1>3, <4>1 DEF ProviderInv, PastAt, TableTypes
    <3>2. CASE row[p] # {}
      <4>1. Write(p, {r})
        BY <1>7, <3>2
      <4> QED
        BY <1>1, <1>2, <2>4, <4>1, WriteFacts
    <3> QED
      BY <3>1, <3>2
  <2>6. RegistryTypes'
    BY <1>1, <2>3, <2>5 DEF RegistryTypes, ListTypes, RestartTypes
  <2>7. Touches(c, p)
    BY <1>1, <2>1, <2>3, <2>5, SameApart DEF Touches
  <2>8. UnbornAt(p)' /\ TableAt(p)' /\ BuiltAt(p)'
    <3>1. CASE row[p] = {}
      <4>1. UNCHANGED <<row, edit, past, overtaken, undone>>
        BY <1>7, <3>1 DEF writes
      <4> QED
        BY <1>1, <1>3, <1>4, <4>1
           DEF ProviderInv, UnbornAt, TableAt, Kept, BuiltAt, Listed, Alone
    <3>2. CASE row[p] # {}
      <4>1. Write(p, {r})
        BY <1>7, <3>2
      <4> QED
        BY <1>1, <1>2, <1>4, <2>4, <4>1, WrittenAt
    <3> QED
      BY <3>1, <3>2
  <2>9. \A d \in Client : On(d, p)' => On(d, p)
    BY <1>4, <2>3 DEF On
  <2>10. AloneAt(p)'
    <3>1. p \notin crossed => \A d \in Client : On(d, p)' => d = c
      BY <1>5, <2>9
    <3> QED
      BY <1>1, <2>1, <2>3, <3>1 DEF AloneAt
  <2>11. PastAt(p)'
    <3>1. Place(p, old) \in past[p]
      BY <1>0, <1>1, <1>3, <1>4 DEF ProviderInv, PastAt
    <3> QED
      BY <1>1, <1>3, <2>1, <2>3, <2>5, <3>1 DEF ProviderInv, PastAt, On
  <2>12. HalfDone(c, p)' /\ Before(c)' = {old}
    BY <2>1, <2>3 DEF HalfDone, On, Before
  <2>13. ListedAt(p)'
    BY <2>12 DEF ListedAt, Quiet
  <2>14. ASSUME p \notin partial' \cup crossed' \cup undone'
         PROVE  OnlyKeysOf(mem, past, p, {old})'
    <3>1. p \notin partial \cup crossed \cup undone
      BY <1>1, <2>5, <2>14
    <3>2. Quiet(p)
      BY <1>4, <1>5, <3>1 DEF Quiet, HalfDone
    <3>3. OnlyKeysOf(mem, past, p, edit[p])
      BY <1>3, <3>1, <3>2 DEF ProviderInv, KeysAt
    <3>4. \A t \in edit[p] : Twin(p, old, t)
      BY <1>0, <1>1, <1>3, <1>4, <3>1 DEF ProviderInv, AloneAt
    <3>5. OnlyKeysOf(mem, past, p, {old})
      BY <3>3, <3>4, KeysOfTwin
    <3>6. OnlyKeysOf(mem, past', p, {old})
      BY <1>1, <1>2, <2>5, <3>5, GrowKeys DEF Traced
    <3> QED
      BY <1>1, <3>6
  <2>15. KeysAt(p)'
    <3>1. p \notin crossed => \A d \in Client : HalfDone(d, p)' => d = c
      BY <1>5, <2>9 DEF HalfDone
    <3> QED
      BY <1>1, <2>12, <2>14, <3>1 DEF KeysAt, Quiet
  <2> QED
    BY <1>2, <2>6, <2>7, <2>8, <2>10, <2>11, <2>13, <2>15 DEF ProviderInv
<1> QED
  BY <1>0, <1>6, <1>7 DEF UpdateProvider

LEMMA RemoveStep ==
    ASSUME RegistryInv, NEW c \in Client, NEW p, req[c].p = p, removeProvider(c)
    PROVE  p \in Provider /\ RegistryTypes' /\ Touches(c, p) /\ ProviderInv(p)'
<1>0. PICK old : old = req[c].old
  OBVIOUS
<1> DEFINE without == removeProviderConfig(mem, p, old)
           x == [req[c] EXCEPT !.pc = "delete"]
<1>1. /\ TableTypes /\ ListTypes /\ ReqTypes /\ RestartTypes /\ RegistryTypes
      /\ req[c].pc = "remove"
  BY DEF RegistryInv, RegistryTypes, removeProvider
<1>2. p \in Provider /\ old \in Row
  BY <1>0, <1>1, ReqShape
<1>3. /\ UNCHANGED <<writes, restart, unborn, crossed>>
      /\ \/ mem' = without /\ file' = mem' /\ Goto(c, x) /\ partial' = partial
         \/ /\ mem' = without /\ file' = file /\ Goto(c, Idle)
            /\ partial' = partial \cup {p}
  BY <1>0 DEF removeProvider
<1>4. ProviderInv(p) /\ UNCHANGED <<row, edit, past, overtaken, undone>>
  BY <1>2, <1>3 DEF RegistryInv, writes
<1>5. x \in ReqType /\ x.pc = "delete" /\ x.p = p
  BY <1>1, ReqMoves
<1> HIDE DEF x
<1>6. /\ ReqTypes' /\ (\A d \in Client : d # c => req'[d] = req[d])
      /\ \/ req'[c] = x /\ partial' = partial
         \/ req'[c].pc = "idle" /\ partial' = partial \cup {p}
  BY <1>1, <1>3, <1>5, MovesFacts, IdleIsTyped
<1>7. On(c, p) /\ ~HalfDone(c, p)
  BY <1>1 DEF On, HalfDone
<1>8. mem \in Lists /\ without \in Lists
  BY <1>1, <1>2, RemoveFacts DEF ListTypes
<1>9. Apart(mem, mem', past'[p])
  <2>1. Place(p, old) \in past'[p]
    BY <1>0, <1>1, <1>4, <1>7 DEF ProviderInv, PastAt
  <2>2. Apart(mem, without, past'[p])
    BY <1>2, <1>8, <2>1, RemoveApart
  <2> HIDE DEF without
  <2> QED
    BY <1>3, <2>2, SameApart
<1>10. OnlyKeysOf(mem, past, p, {old}) => OnlyKeysOf(mem', past, p, {})
  <2>1. \A s, e : <<s, e>> \in past[p] => e # Blank
    BY <1>1, <1>2, TableShape
  <2>2. OnlyKeysOf(mem, past, p, {old}) => OnlyKeysOf(without, past, p, {})
    BY <1>2, <1>8, <2>1, KeysRemoved
  <2> HIDE DEF without
  <2> QED
    BY <1>3, <2>2
<1> HIDE DEF without
<1>11. RegistryTypes'
  BY <1>1, <1>3, <1>4, <1>6, <1>8 DEF RegistryTypes, TableTypes, ListTypes, RestartTypes
<1>12. Touches(c, p)
  BY <1>3, <1>4, <1>5, <1>6, <1>9 DEF Touches
<1>13. /\ UnbornAt(p)' /\ PastAt(p)' /\ TableAt(p)' /\ AloneAt(p)' /\ BuiltAt(p)'
       /\ p \in partial' => ListedAt(p)' /\ KeysAt(p)'
       /\ p \notin crossed => \A d \in Client : On(d, p) \/ On(d, p)' => d = c
  BY <1>1, <1>2, <1>3, <1>4, <1>5, <1>6, <1>7, WorkStep
<1>14. ASSUME p \notin partial' \cup crossed PROVE ListedAt(p)' /\ KeysAt(p)'
  <2>1. req'[c] = x /\ partial' = partial
    BY <1>6, <1>14
  <2>2. HalfDone(c, p)' /\ Before(c)' = {}
    BY <1>5, <2>1 DEF HalfDone, On, Before
  <2>3. ListedAt(p)'
    BY <2>2 DEF ListedAt, Quiet
  <2>4. ASSUME p \notin undone PROVE OnlyKeysOf(mem, past, p, {})'
    <3>1. \A t \in edit[p] : Twin(p, old, t)
      BY <1>0, <1>1, <1>4, <1>7, <1>14, <2>4 DEF ProviderInv, AloneAt
    <3>2. Quiet(p)
      BY <1>7, <1>13, <1>14 DEF Quiet, HalfDone
    <3>3. OnlyKeysOf(mem, past, p, edit[p])
      BY <1>4, <1>14, <2>1, <2>4, <3>2 DEF ProviderInv, KeysAt
    <3>4. OnlyKeysOf(mem, past, p, {old})
      BY <3>1, <3>3, KeysOfTwin
    <3> QED
      BY <1>4, <1>10, <3>4
  <2>5. \A d \in Client : HalfDone(d, p)' => d = c
    BY <1>13, <1>14 DEF HalfDone
  <2>6. KeysAt(p)'
    BY <1>4, <2>2, <2>4, <2>5 DEF KeysAt, Quiet
  <2> QED
    BY <2>3, <2>6
<1>15. ListedAt(p)' /\ KeysAt(p)'
  <2>1. p \in crossed => ListedAt(p)' /\ KeysAt(p)'
    BY <1>3 DEF ListedAt, KeysAt
  <2> QED
    BY <1>13, <1>14, <2>1
<1>16. ProviderInv(p)'
  BY <1>13, <1>15 DEF ProviderInv
<1> QED
  BY <1>2, <1>11, <1>12, <1>16

LEMMA DeleteStep ==
    ASSUME RegistryInv, NEW c \in Client, NEW p, req[c].p = p, DeleteProvider(c)
    PROVE  p \in Provider /\ RegistryTypes' /\ Touches(c, p) /\ ProviderInv(p)'
<1>1. /\ TableTypes /\ ListTypes /\ ReqTypes /\ RestartTypes /\ RegistryTypes /\ Traced
      /\ req[c].pc = "delete" /\ Goto(c, Idle)
      /\ UNCHANGED <<mem, file, mu, restart, unborn, crossed>>
  BY DEF RegistryInv, RegistryTypes, DeleteProvider
<1>2. p \in Provider
  BY <1>1, ReqShape
<1>3. ProviderInv(p)
  BY <1>2 DEF RegistryInv
<1>4. On(c, p) /\ HalfDone(c, p) /\ p \notin unborn
  BY <1>1, <1>3 DEF On, HalfDone, ProviderInv, UnbornAt
<1>5. /\ ReqTypes' /\ (\A d \in Client : d # c => req'[d] = req[d])
      /\ req'[c].pc = "idle"
  BY <1>1, MovesFacts, IdleIsTyped
<1>6. p \notin crossed => \A d \in Client : ~On(d, p)'
  BY <1>3, <1>4, <1>5 DEF ProviderInv, AloneAt, On
\* The row is not deleted.
<1>7. CASE partial' = partial \cup {p} /\ UNCHANGED writes
  <2>0. UNCHANGED <<row, edit, past, overtaken, undone>>
    BY <1>7 DEF writes
  <2>1. RegistryTypes'
    BY <1>1, <1>5, <2>0 DEF RegistryTypes, TableTypes, ListTypes, RestartTypes
  <2>2. Touches(c, p)
    BY <1>1, <1>5, <1>7, <2>0, SameApart DEF Touches
  <2>3. ProviderInv(p)'
    BY <1>1, <1>2, <1>3, <1>4, <1>5, <1>7, WorkStep DEF ProviderInv
  <2> QED
    BY <1>2, <2>1, <2>2, <2>3
<1>8. CASE Write(p, {}) /\ partial' = partial
  <2>0. {} \in AtMostOne
    BY DEF AtMostOne
  <2>1. /\ TableTypes' /\ row'[p] = {} /\ edit'[p] = {} /\ past[p] \subseteq past'[p]
        /\ \A q \in Provider : q # p =>
              /\ row'[q] = row[q] /\ edit'[q] = edit[q] /\ past'[q] = past[q]
              /\ q \in overtaken' <=> q \in overtaken
              /\ q \in undone' <=> q \in undone
        /\ p \notin undone' => p \notin undone
    BY <1>1, <1>2, <1>8, <2>0, WriteFacts
  <2>2. RegistryTypes'
    BY <1>1, <1>5, <2>1 DEF RegistryTypes, ListTypes, RestartTypes
  <2>3. Touches(c, p)
    BY <1>1, <1>5, <1>8, <2>1, SameApart DEF Touches
  <2>4. UnbornAt(p)' /\ TableAt(p)' /\ BuiltAt(p)'
    BY <1>1, <1>2, <1>4, <1>8, <2>0, WrittenAt
  <2>5. AloneAt(p)'
    BY <1>1, <1>6 DEF AloneAt
  <2>6. PastAt(p)'
    BY <1>1, <1>3, <1>5, <2>1 DEF ProviderInv, PastAt, On
  <2>7. ListedAt(p)'
    BY <2>1 DEF ListedAt, Listed
  <2>8. KeysAt(p)'
    <3>1. SUFFICES ASSUME p \notin partial' \cup crossed' \cup undone' PROVE KeysAt(p)'
      BY DEF KeysAt
    <3>2. Before(c) = {}
      BY <1>1 DEF Before
    <3>3. OnlyKeysOf(mem, past, p, {})
      BY <1>1, <1>3, <1>4, <1>8, <2>1, <3>1, <3>2 DEF ProviderInv, KeysAt
    <3>4. OnlyKeysOf(mem, past', p, {})
      BY <1>1, <1>2, <2>1, <3>3, GrowKeys DEF Traced
    <3>5. OnlyKeysOf(mem, past, p, edit[p])'
      BY <1>1, <2>1, <3>4
    <3> QED
      BY <1>1, <1>6, <3>1, <3>5 DEF KeysAt, HalfDone
  <2> QED
    BY <1>2, <2>2, <2>3, <2>4, <2>5, <2>6, <2>7, <2>8 DEF ProviderInv
<1> QED
  BY <1>7, <1>8 DEF DeleteProvider

----------------------------------------------------------------------------
(* The steps of a restart. *)

\* A step that only begins, drops or ends a restart keeps what is known of every
\* provider, as long as the file is the old one or what the restart has built.
LEMMA QuietRestartStep ==
    ASSUME RegistryInv, NEW p \in Provider,
           UNCHANGED <<row, mem, unborn, history>>, restart'.pc # "register",
           file' = file
             \/ (restart.pc = "register" /\ restart.todo[p] = {} /\ file' = restart.cfg),
           \A c \in Client :
              \/ req'[c] = req[c]
              \/ req'[c].pc = "idle" /\ req[c].pc = "restarting"
              \/ req'[c].pc = "restarting" /\ req[c].pc = "restart" /\ req'[c].p = req[c].p
    PROVE  ProviderInv(p)'
<1>1. /\ ProviderInv(p) /\ RegistryTypes
      /\ UNCHANGED <<edit, past, partial, crossed, overtaken, undone>>
  BY DEF RegistryInv, history
<1>2. \A c \in Client : /\ On(c, p)' => On(c, p)
                        /\ HalfDone(c, p)' <=> HalfDone(c, p)
                        /\ HalfDone(c, p)' => req'[c] = req[c]
                        /\ req'[c].pc \in {"add", "swap", "update", "updated", "remove"} =>
                              req'[c] = req[c]
  BY DEF On, HalfDone
<1>3. Quiet(p)' <=> Quiet(p)
  BY <1>2 DEF Quiet
<1>4. UnbornAt(p)'
  BY <1>1, <1>2 DEF ProviderInv, UnbornAt
<1>5. TableAt(p)' /\ BuiltAt(p)'
  BY <1>1 DEF ProviderInv, TableAt, BuiltAt, Kept
<1>6. AloneAt(p)' /\ PastAt(p)'
  BY <1>1, <1>2 DEF ProviderInv, AloneAt, PastAt
<1>7. ListedAt(p)'
  <2>1. p \notin partial \cup overtaken /\ file' = restart.cfg /\ file' # file =>
           Listed(file, p)'
    BY <1>1 DEF ProviderInv, BuiltAt, Listed, Alone
  <2> QED
    BY <1>1, <1>3, <2>1 DEF ProviderInv, ListedAt, Listed, Alone
<1>8. KeysAt(p)'
  <2>1. \A c \in Client : HalfDone(c, p)' => Before(c)' = Before(c)
    BY <1>2 DEF Before
  <2> QED
    BY <1>1, <1>2, <1>3, <2>1 DEF ProviderInv, KeysAt
<1> QED
  BY <1>4, <1>5, <1>6, <1>7, <1>8 DEF ProviderInv

LEMMA BeginStep ==
    ASSUME RegistryInv,
           ReloadProviders \/ \E c \in Client : RestartForAdd(c)
    PROVE  RegistryTypes' /\ Traced' /\ \A p \in Provider : ProviderInv(p)'
<1>1. TableTypes /\ ListTypes /\ ReqTypes /\ RestartTypes
  BY DEF RegistryInv, RegistryTypes
<1>2. PICK B \in SUBSET Client : restart' = [pc |-> "list", by |-> B]
  BY DEF ReloadProviders, RestartForAdd
<1>3. RestartTypes' /\ restart'.pc = "list"
  BY <1>2 DEF RestartTypes, RestartType
<1>4. UNCHANGED <<row, mem, file, unborn, history>>
  BY DEF ReloadProviders, RestartForAdd
<1>5. /\ ReqTypes'
      /\ \A c \in Client :
            \/ req'[c] = req[c]
            \/ req'[c].pc = "restarting" /\ req[c].pc = "restart" /\ req'[c].p = req[c].p
  <2>1. CASE ReloadProviders
    BY <1>1, <2>1 DEF ReloadProviders, ReqTypes
  <2>2. ASSUME NEW c \in Client, RestartForAdd(c) PROVE <1>5!:
    <3> DEFINE x == [req[c] EXCEPT !.pc = "restarting"]
    <3>1. req[c].pc = "restart" /\ Goto(c, x)
      BY <2>2 DEF RestartForAdd
    <3>2. x \in ReqType /\ x.pc = "restarting" /\ x.p = req[c].p
      BY <1>1, <3>1, ReqMoves
    <3> HIDE DEF x
    <3> QED
      BY <1>1, <3>1, <3>2, MovesFacts
  <2> QED
    BY <2>1, <2>2
<1>6. RegistryTypes'
  BY <1>1, <1>3, <1>4, <1>5 DEF RegistryTypes, TableTypes, ListTypes, history
<1>7. Traced'
  BY <1>3, <1>4 DEF RegistryInv, Traced, TracedIn, history
<1>8. \A p \in Provider : ProviderInv(p)'
  BY <1>3, <1>4, <1>5, QuietRestartStep
<1> QED
  BY <1>6, <1>7, <1>8

LEMMA EndStep ==
    ASSUME RegistryInv, SaveProviders \/ RestartFails
    PROVE  RegistryTypes' /\ Traced' /\ \A p \in Provider : ProviderInv(p)'
<1>1. TableTypes /\ ListTypes /\ ReqTypes /\ RestartTypes /\ LocksInv /\ Traced
  BY DEF RegistryInv, RegistryTypes
<1>2. /\ UNCHANGED <<row, mem, unborn, history>> /\ RestartEnds /\ restart.pc # "idle"
      /\ \/ file' = file
         \/ /\ restart.pc = "register" /\ file' = restart.cfg
            /\ \A p \in Provider : restart.todo[p] = {}
  BY DEF SaveProviders, RestartFails
<1>3. RestartTypes' /\ restart'.pc = "idle"
  BY <1>2, IdleIsTyped DEF RestartEnds, RestartTypes
<1>4. \A c \in restart.by : req[c].pc = "restarting"
  BY <1>1, <1>2 DEF LocksInv
<1>5. /\ ReqTypes'
      /\ \A c \in Client : \/ req'[c] = req[c]
                           \/ req'[c].pc = "idle" /\ req[c].pc = "restarting"
  BY <1>1, <1>2, <1>4, IdleIsTyped DEF RestartEnds, ReqTypes
<1>6. file' \in Lists
  BY <1>1, <1>2, RestartShape DEF ListTypes
<1>7. RegistryTypes'
  BY <1>1, <1>2, <1>3, <1>5, <1>6 DEF RegistryTypes, TableTypes, ListTypes, history
<1>8. Traced'
  BY <1>1, <1>2, <1>3 DEF Traced, TracedIn, history
<1>9. \A p \in Provider : ProviderInv(p)'
  BY <1>2, <1>3, <1>5, QuietRestartStep
<1> QED
  BY <1>7, <1>8, <1>9

LEMMA ListStep ==
    ASSUME RegistryInv, GetProviders
    PROVE  RegistryTypes' /\ Traced' /\ \A p \in Provider : ProviderInv(p)'
<1> DEFINE empty == [s \in Slot |-> <<>>]
           x == [pc |-> "register", by |-> restart.by, todo |-> row, cfg |-> empty]
<1>1. TableTypes /\ ListTypes /\ ReqTypes /\ RestartTypes /\ Traced
  BY DEF RegistryInv, RegistryTypes
<1>2. /\ restart.pc = "list" /\ restart' = x
      /\ UNCHANGED <<row, mem, file, req, unborn, edit, past, partial, crossed,
                     overtaken, undone>>
  BY DEF GetProviders, history
<1>3. empty \in Lists
  BY DEF Lists
<1>4. \A s \in Slot : \A e : ~Contains(empty[s], e)
  BY DEF Contains
<1> HIDE DEF empty
<1>5. restart.by \subseteq Client
  BY <1>1, <1>2, RestartShape
<1>6. x \in RestartType /\ x.pc = "register" /\ x.todo = row /\ x.cfg = empty
  BY <1>1, <1>3, <1>5 DEF RestartType, TableTypes
<1> HIDE DEF x
<1>7. RegistryTypes'
  BY <1>1, <1>2, <1>6 DEF RegistryTypes, TableTypes, ListTypes, ReqTypes, RestartTypes
<1>8. Traced'
  BY <1>1, <1>2, <1>4, <1>6 DEF Traced, TracedIn
<1>9. ASSUME NEW p \in Provider PROVE ProviderInv(p)'
  <2>1. ProviderInv(p)
    BY DEF RegistryInv
  <2>2. UnbornAt(p)'
    BY <1>2, <1>6, <2>1 DEF ProviderInv, UnbornAt, On
  <2>3. TableAt(p)'
    BY <1>2, <1>6, <2>1 DEF ProviderInv, TableAt, Kept
  <2>4. AloneAt(p)' /\ PastAt(p)'
    BY <1>2, <1>6, <2>1 DEF ProviderInv, AloneAt, PastAt, On
  <2>5. ListedAt(p)'
    BY <1>2, <2>1 DEF ProviderInv, ListedAt, Listed, Alone, Quiet, HalfDone, On
  <2>6. BuiltAt(p)'
    BY <1>2, <1>6, <2>1 DEF ProviderInv, TableAt, BuiltAt, Listed
  <2>7. KeysAt(p)'
    BY <1>2, <2>1 DEF ProviderInv, KeysAt, Before, Quiet, HalfDone, On
  <2> QED
    BY <2>2, <2>3, <2>4, <2>5, <2>6, <2>7 DEF ProviderInv
<1> QED
  BY <1>7, <1>8, <1>9

\* What the turn of the restart that has read r may leave of a row.
LEMMA RewrittenFacts ==
    ASSUME NEW p \in Provider, NEW r \in Row, NEW now \in Row, NEW U,
           U \subseteq {Bridge, r.url}, NEW w \in Rewritten(r, now, U)
    PROVE  /\ w \in Row
           /\ Place(p, w) = Place(p, now) \/ Place(p, w) = Place(p, r)
           /\ \A last \in Row :
                 /\ Kept(p, now, last)
                 /\ p \notin overtaken \/ r.type = "cursor" => Kept(p, r, last)
                 => Kept(p, w, last)
<1>0. /\ r.type \in {"xai", "kimi", "opencode", "custom", "cursor"}
      /\ r.proxied \in BOOLEAN /\ now.proxied \in BOOLEAN
  BY RowShape
<1>1. CASE w = now
  BY <1>1
<1>2. ASSUME NEW a \in {"warp", r.proxy}, r.proxied,
             w = [now EXCEPT !.proxy = a, !.proxied = TRUE]
      PROVE  /\ w \in Row /\ Place(p, w) = Place(p, now)
             /\ \A last \in Row :
                   /\ Kept(p, now, last)
                   /\ p \notin overtaken \/ r.type = "cursor" => Kept(p, r, last)
                   => Kept(p, w, last)
  <2>1. /\ w.type = now.type /\ w.key = now.key /\ w.url = now.url
        /\ w.disabled = now.disabled /\ w.proxied = TRUE /\ w \in Row
    BY <1>2 DEF Row
  <2>2. Place(p, w) = Place(p, now)
    BY <2>1 DEF Place, SlotOf, Entry
  <2>3. ASSUME NEW last \in Row, Kept(p, now, last),
               p \notin overtaken \/ r.type = "cursor" => Kept(p, r, last)
        PROVE  Kept(p, w, last)
    <3>1. p \in overtaken \/ last.proxied
      BY <1>0, <1>2, <2>3, RowShape DEF Kept
    <3> QED
      BY <2>1, <2>3, <3>1 DEF Kept
  <2> QED
    BY <2>1, <2>2, <2>3
<1>3. ASSUME NEW u \in U, r.type = "cursor",
             NEW a \in IF r.proxied THEN {"warp", r.proxy} ELSE {r.proxy},
             w = [r EXCEPT !.url = u, !.proxy = a]
      PROVE  /\ w \in Row /\ Place(p, w) = Place(p, r)
             /\ \A last \in Row : Kept(p, r, last) => Kept(p, w, last)
  <2>1. /\ w.type = "cursor" /\ w.key = r.key /\ w.url = u /\ w.proxy = a
        /\ w.disabled = r.disabled /\ w.proxied = r.proxied /\ w \in Row
    BY <1>3 DEF Row
  <2>2. Place(p, w) = Place(p, r)
    <3>1. Entry(p, w) = <<p, Bridge, Login>> /\ Entry(p, r) = <<p, Bridge, Login>>
      BY <1>3, <2>1 DEF Entry, Keyed, Shared
    <3> QED
      BY <1>3, <2>1, <3>1 DEF Place, SlotOf
  <2>3. ASSUME NEW last \in Row, Kept(p, r, last) PROVE Kept(p, w, last)
    <3>1. w.url = last.url \/ w.url = Bridge
      BY <1>3, <2>1, <2>3 DEF Kept
    <3>2. r.proxied => last.proxied \/ p \in overtaken
      BY <1>0, <2>3, RowShape DEF Kept
    <3>3. ~r.proxied => w.proxy = r.proxy
      BY <1>3, <2>1
    <3> QED
      BY <1>3, <2>1, <2>3, <3>1, <3>2, <3>3 DEF Kept
  <2> QED
    BY <2>1, <2>2, <2>3
<1>4. \/ w = now
      \/ r.proxied /\ \E a \in {"warp", r.proxy} :
                         w = [now EXCEPT !.proxy = a, !.proxied = TRUE]
      \/ r.type = "cursor" /\ \E u \in U :
            \E a \in IF r.proxied THEN {"warp", r.proxy} ELSE {r.proxy} :
               w = [r EXCEPT !.url = u, !.proxy = a]
  <2> DEFINE f(a) == [now EXCEPT !.proxy = a, !.proxied = TRUE]
             g(u, a) == [r EXCEPT !.url = u, !.proxy = a]
             C == IF r.proxied THEN {"warp", r.proxy} ELSE {r.proxy}
  <2>1. \/ w = now
        \/ r.proxied /\ w \in {f(a) : a \in C}
        \/ r.type = "cursor" /\ w \in UNION {{g(u, a) : a \in C} : u \in U}
    BY Zenon DEF Rewritten
  <2> HIDE DEF f, g
  <2>2. \/ w = now
        \/ r.proxied /\ \E a \in C : w = f(a)
        \/ r.type = "cursor" /\ \E u \in U : \E a \in C : w = g(u, a)
    BY <2>1
  <2>3. r.proxied => C = {"warp", r.proxy}
    OBVIOUS
  <2> QED
    BY <2>2, <2>3 DEF f, g
<1> QED
  BY <1>1, <1>2, <1>3, <1>4

\* Writing back what the restart has read keeps what the row is, and its place
\* is one it had.
LEMMA WriteBackFacts ==
    ASSUME TableTypes, NEW p \in Provider, NEW r \in Row, NEW U,
           U \subseteq {Bridge, r.url}, WriteBack(p, r, U) \/ UNCHANGED row
    PROVE  /\ row' \in [Provider -> AtMostOne]
           /\ \A q \in Provider : q # p => row'[q] = row[q]
           /\ row'[p] = {} <=> row[p] = {}
           /\ \A w \in row'[p] : \E now \in row[p] :
                 /\ Place(p, w) = Place(p, now) \/ Place(p, w) = Place(p, r)
                 /\ \A last \in Row :
                       /\ Kept(p, now, last)
                       /\ p \notin overtaken \/ r.type = "cursor" => Kept(p, r, last)
                       => Kept(p, w, last)
<1>1. row \in [Provider -> AtMostOne] /\ row[p] \subseteq Row
  BY TableShape DEF TableTypes
<1>2. CASE row' = row
  BY <1>1, <1>2
<1>3. ASSUME NEW now \in row[p], NEW w \in Rewritten(r, now, U),
             row' = [row EXCEPT ![p] = {w}]
      PROVE  /\ row' \in [Provider -> AtMostOne]
             /\ \A q \in Provider : q # p => row'[q] = row[q]
             /\ row'[p] = {w}
             /\ Place(p, w) = Place(p, now) \/ Place(p, w) = Place(p, r)
             /\ \A last \in Row :
                   /\ Kept(p, now, last)
                   /\ p \notin overtaken \/ r.type = "cursor" => Kept(p, r, last)
                   => Kept(p, w, last)
  <2>1. /\ w \in Row
        /\ Place(p, w) = Place(p, now) \/ Place(p, w) = Place(p, r)
        /\ \A last \in Row :
              /\ Kept(p, now, last)
              /\ p \notin overtaken \/ r.type = "cursor" => Kept(p, r, last)
              => Kept(p, w, last)
    BY <1>1, RewrittenFacts
  <2>2. {w} \in AtMostOne
    BY <2>1 DEF AtMostOne
  <2>3. row' \in [Provider -> AtMostOne] /\ row'[p] = {w}
        /\ \A q \in Provider : q # p => row'[q] = row[q]
    BY <1>1, <1>3, <2>2
  <2> QED
    BY <2>1, <2>3
<1>4. \/ row' = row
      \/ row[p] # {} /\ \E now \in row[p] : \E w \in Rewritten(r, now, U) :
                           row' = [row EXCEPT ![p] = {w}]
  BY DEF WriteBack
<1>5. CASE \E now \in row[p] : \E w \in Rewritten(r, now, U) : row' = [row EXCEPT ![p] = {w}]
  <2>1. PICK now \in row[p] : \E w \in Rewritten(r, now, U) : row' = [row EXCEPT ![p] = {w}]
    BY <1>5
  <2>3. PICK w \in Rewritten(r, now, U) : row' = [row EXCEPT ![p] = {w}]
    BY <2>1
  <2>2. /\ row' \in [Provider -> AtMostOne]
        /\ \A q \in Provider : q # p => row'[q] = row[q]
        /\ row'[p] = {w}
        /\ Place(p, w) = Place(p, now) \/ Place(p, w) = Place(p, r)
        /\ \A last \in Row :
              /\ Kept(p, now, last)
              /\ p \notin overtaken \/ r.type = "cursor" => Kept(p, r, last)
              => Kept(p, w, last)
    BY <1>3, <2>3
  <2> QED
    BY <2>2
<1> QED
  BY <1>2, <1>4, <1>5

LEMMA RegisterStep ==
    ASSUME RegistryInv, NEW p \in Provider, RegisterProvider(p)
    PROVE  /\ RegistryTypes' /\ Traced' /\ restart'.pc = "register"
           /\ restart'.by = restart.by /\ \A q \in Provider : ProviderInv(q)'
<1>1. /\ TableTypes /\ ListTypes /\ ReqTypes /\ RestartTypes /\ restart.pc = "register"
      /\ Traced
      /\ UNCHANGED <<mem, file, mu, req, unborn, edit, past, crossed, overtaken, undone,
                     inputs>>
  BY DEF RegistryInv, RegistryTypes, RegisterProvider
<1>2. PICK r \in restart.todo[p] :
         /\ WriteBack(p, r, {Bridge}) \/ WriteBack(p, r, {Bridge, r.url}) \/ UNCHANGED row
         /\ \/ r.disabled /\ restart' = [restart EXCEPT !.todo[p] = {}] /\ partial' = partial
            \/ /\ restart' = [restart EXCEPT !.todo[p] = {},
                                             !.cfg = addProviderConfig(@, p, r)]
               /\ partial' = partial
            \/ restart' = [restart EXCEPT !.todo[p] = {}] /\ partial' = partial \cup {p}
  BY DEF RegisterProvider
<1>3. /\ restart.todo \in [Provider -> AtMostOne] /\ restart.cfg \in Lists
      /\ restart.by \subseteq Client
  BY <1>1, RestartShape
<1>4. r \in Row /\ restart.todo[p] = {r}
  <2>1. restart.todo[p] \in AtMostOne
    BY <1>3
  <2> QED
    BY <1>2, <2>1 DEF AtMostOne
<1> DEFINE added == addProviderConfig(restart.cfg, p, r)
<1>5. restart \in [pc : {"register"}, by : SUBSET Client, todo : [Provider -> AtMostOne],
                   cfg : Lists]
  BY <1>1 DEF RestartTypes, RestartType
<1>6. /\ added \in Lists /\ (~r.disabled => Has(added, p, r))
      /\ \A s \in Slot : \A e :
            /\ Contains(restart.cfg[s], e) => Contains(added[s], e)
            /\ Contains(added[s], e) =>
                  Contains(restart.cfg[s], e) \/ (~r.disabled /\ <<s, e>> = Place(p, r))
  <2>1. PICK cfg \in Lists : cfg = restart.cfg
    BY <1>3
  <2> DEFINE a == addProviderConfig(cfg, p, r)
  <2>2. a \in Lists /\ (~r.disabled => Has(a, p, r))
    BY <1>4, AddFacts
  <2>3. \A s \in Slot : \A e :
           /\ Contains(cfg[s], e) => Contains(a[s], e)
           /\ Contains(a[s], e) =>
                 Contains(cfg[s], e) \/ (~r.disabled /\ <<s, e>> = Place(p, r))
    BY <1>4, AddFacts
  <2>4. a = added
    BY <2>1
  <2> HIDE DEF a, added
  <2> QED
    BY <2>1, <2>2, <2>3, <2>4
<1> HIDE DEF added
<1>8. /\ RestartTypes' /\ restart'.pc = "register" /\ restart'.by = restart.by
      /\ restart'.todo = [restart.todo EXCEPT ![p] = {}]
      /\ \/ restart'.cfg = restart.cfg /\ (r.disabled \/ p \in partial')
         \/ restart'.cfg = added
      /\ partial' = partial \/ partial' = partial \cup {p}
  <2>1. [restart.todo EXCEPT ![p] = {}] \in [Provider -> AtMostOne]
    BY <1>3 DEF AtMostOne
  <2> DEFINE todo == [restart.todo EXCEPT ![p] = {}]
             x == [restart EXCEPT !.todo[p] = {}]
             y == [restart EXCEPT !.todo[p] = {}, !.cfg = added]
  <2>2. /\ x \in RestartType /\ x.pc = "register" /\ x.by = restart.by
        /\ x.todo = todo /\ x.cfg = restart.cfg
    BY <1>5, <2>1 DEF RestartType
  <2>3. /\ y \in RestartType /\ y.pc = "register" /\ y.by = restart.by
        /\ y.todo = todo /\ y.cfg = added
    BY <1>5, <1>6, <2>1 DEF RestartType
  <2>4. \/ restart' = x /\ (r.disabled \/ p \in partial')
        \/ restart' = y
    BY <1>2 DEF added
  <2>5. partial' = partial \/ partial' = partial \cup {p}
    BY <1>2
  <2> HIDE DEF x, y, todo
  <2> QED
    BY <2>2, <2>3, <2>4, <2>5 DEF RestartTypes, todo
<1>9. /\ row' \in [Provider -> AtMostOne]
      /\ \A q \in Provider : q # p => row'[q] = row[q]
      /\ row'[p] = {} <=> row[p] = {}
      /\ \A w \in row'[p] : \E now \in row[p] :
            /\ Place(p, w) = Place(p, now) \/ Place(p, w) = Place(p, r)
            /\ \A last \in Row :
                  /\ Kept(p, now, last)
                  /\ p \notin overtaken \/ r.type = "cursor" => Kept(p, r, last)
                  => Kept(p, w, last)
  <2>1. {Bridge} \subseteq {Bridge, r.url}
    OBVIOUS
  <2> QED
    BY <1>1, <1>2, <1>4, <2>1, WriteBackFacts
<1>10. RegistryTypes'
  BY <1>1, <1>8, <1>9 DEF RegistryTypes, TableTypes, ListTypes, ReqTypes
<1>11. /\ restart'.todo[p] = {}
       /\ \A q \in Provider : q # p => restart'.todo[q] = restart.todo[q]
  BY <1>3, <1>8
<1>7. ProviderInv(p) /\ Place(p, r) \in past[p]
  BY <1>1, <1>4 DEF RegistryInv, ProviderInv, PastAt
<1>15. Traced'
  <2>1. TracedIn(mem)' /\ TracedIn(file)'
    BY <1>1 DEF Traced, TracedIn
  <2>2. TracedIn(restart.cfg)'
    BY <1>1, <1>6, <1>7, <1>8 DEF Traced, TracedIn
  <2> QED
    BY <2>1, <2>2 DEF Traced
\* What holds of requests and the server's lists is not touched.
<1>12. ASSUME NEW q \in Provider PROVE AloneAt(q)' /\ ListedAt(q)' /\ KeysAt(q)'
  <2>1. ProviderInv(q) /\ (q \in partial => q \in partial')
    BY <1>8 DEF RegistryInv
  <2>2. AloneAt(q)'
    BY <1>1, <2>1 DEF ProviderInv, AloneAt, On
  <2>3. ListedAt(q)'
    BY <1>1, <2>1 DEF ProviderInv, ListedAt, Listed, Alone, Quiet, HalfDone, On
  <2>4. KeysAt(q)'
    BY <1>1, <2>1 DEF ProviderInv, KeysAt, Before, Quiet, HalfDone, On
  <2> QED
    BY <2>2, <2>3, <2>4
<1>13. UnbornAt(p)' /\ PastAt(p)' /\ TableAt(p)' /\ BuiltAt(p)'
  <2>1. p \notin unborn
    BY <1>1, <1>4, <1>7 DEF ProviderInv, UnbornAt
  <2>2. edit[p] \subseteq Row
    BY <1>1, TableShape
  <2>3. p \notin overtaken \/ (r.type = "cursor" /\ p \notin undone) =>
           edit[p] # {} /\ \A last \in edit[p] : Kept(p, r, last)
    BY <1>1, <1>4, <1>7 DEF ProviderInv, TableAt
  <2>4. ASSUME p \notin undone, NEW w \in row'[p], NEW last \in edit[p]
        PROVE  Kept(p, w, last)
    <3>1. PICK now \in row[p] :
             /\ Kept(p, now, last)
             /\ p \notin overtaken \/ r.type = "cursor" => Kept(p, r, last)
             => Kept(p, w, last)
      BY <1>9, <2>2
    <3>2. Kept(p, now, last)
      BY <1>7, <2>4 DEF ProviderInv, TableAt
    <3> QED
      BY <2>3, <2>4, <3>1, <3>2
  <2>5. TableAt(p)'
    <3>1. ASSUME p \notin undone, NEW w \in row'[p], NEW last \in edit[p]
          PROVE  Kept(p, w, last)'
      BY <1>1, <2>4, <3>1 DEF Kept
    <3>2. (row[p] = {} <=> edit[p] = {}) /\ (p \in undone => p \in overtaken)
      BY <1>7 DEF ProviderInv, TableAt
    <3> QED
      BY <1>1, <1>9, <1>11, <3>1, <3>2 DEF TableAt
  <2>6. PastAt(p)'
    <3>1. \A w \in row'[p] : Place(p, w) \in past[p]
      BY <1>7, <1>9 DEF ProviderInv, PastAt
    <3> QED
      BY <1>1, <1>7, <1>11, <3>1 DEF ProviderInv, PastAt, On
  <2>7. BuiltAt(p)'
    <3>1. SUFFICES ASSUME p \notin partial' \cup overtaken PROVE Listed(restart.cfg, p)'
      BY <1>1 DEF BuiltAt
    <3>2. \A last \in edit[p] : Twin(p, r, last)
      BY <1>4, <2>2, <2>3, <3>1, KeptIsTwin
    <3>3. ~r.disabled => Has(restart'.cfg, p, r)
      BY <1>6, <1>8, <3>1
    <3>4. Listed(restart'.cfg, p)
      BY <1>4, <2>2, <3>2, <3>3, ListedTwin
    <3> QED
      BY <1>1, <3>4 DEF Listed, Alone
  <2>8. UnbornAt(p)'
    BY <1>1, <2>1 DEF UnbornAt
  <2> QED
    BY <2>5, <2>6, <2>7, <2>8
<1>14. ASSUME NEW q \in Provider, q # p
       PROVE  UnbornAt(q)' /\ PastAt(q)' /\ TableAt(q)' /\ BuiltAt(q)'
  <2>1. /\ ProviderInv(q) /\ row'[q] = row[q] /\ restart'.todo[q] = restart.todo[q]
        /\ q \in partial' <=> q \in partial
    BY <1>8, <1>9, <1>11, <1>14 DEF RegistryInv
  <2>2. UnbornAt(q)' /\ PastAt(q)'
    BY <1>1, <1>8, <2>1 DEF ProviderInv, UnbornAt, PastAt, On
  <2>3. TableAt(q)'
    BY <1>1, <1>8, <2>1 DEF ProviderInv, TableAt, Kept
  <2>4. BuiltAt(q)'
    <3>1. edit[q] \subseteq Row
      BY <1>1, TableShape
    <3>2. \A m \in Row : Has(restart.cfg, q, m) => Has(restart'.cfg, q, m)
      BY <1>6, <1>8, RowShape DEF Has
    <3> QED
      BY <1>1, <1>8, <2>1, <3>1, <3>2 DEF ProviderInv, BuiltAt, Listed, Alone
  <2> QED
    BY <2>2, <2>3, <2>4
<1> QED
  BY <1>8, <1>10, <1>12, <1>13, <1>14, <1>15 DEF ProviderInv

----------------------------------------------------------------------------
(* All steps together. *)

LEMMA RequestStep ==
    ASSUME RegistryInv, NEW c \in Client, Request(c), ~RestartForAdd(c)
    PROVE  RegistryTypes' /\ Traced' /\ \A q \in Provider : ProviderInv(q)'
<1>1. SUFFICES \E p \in Provider : RegistryTypes' /\ Touches(c, p) /\ ProviderInv(p)'
  <2>1. PICK p \in Provider : RegistryTypes' /\ Touches(c, p) /\ ProviderInv(p)'
    BY <1>1
  <2>2. \A q \in Provider : q # p => ProviderInv(q)'
    BY <2>1, OthersKeep DEF RegistryInv
  <2>3. Traced'
    BY <2>1, TouchesTraced DEF RegistryInv
  <2> QED
    BY <2>1, <2>2, <2>3
<1>2. PICK w : w = req[c].p
  OBVIOUS
<1>3. ASSUME NEW p \in Provider, NEW r \in RowChoice, CreateProvider(c, p, r) PROVE <1>1!1
  BY <1>3, CreateStep
<1>4. ASSUME NEW p \in Provider, NEW r \in RowChoice, ReadForUpdate(c, p, r) PROVE <1>1!1
  BY <1>4, ReadForUpdateStep
<1>5. ASSUME NEW p \in Provider, ReadForDelete(c, p) PROVE <1>1!1
  BY <1>5, ReadForDeleteStep
<1>6. CASE addProvider(c)
  BY <1>2, <1>6, AddStep
<1>7. CASE UpdateProvider(c)
  BY <1>2, <1>7, UpdateStep
<1>8. CASE SwapConfig(c)
  BY <1>2, <1>8, SwapStep
<1>9. CASE removeProvider(c)
  BY <1>2, <1>9, RemoveStep
<1>10. CASE DeleteProvider(c)
  BY <1>2, <1>10, DeleteStep
<1>11. CASE ReadBack(c)
  BY <1>2, <1>11, ReadBackStep
<1> QED
  BY <1>3, <1>4, <1>5, <1>6, <1>7, <1>8, <1>9, <1>10, <1>11 DEF Request

\* A request that is not in the restart, or goes there, leaves the locks right.
LEMMA RequestLocks ==
    ASSUME RegistryInv, NEW c \in Client, Request(c)
    PROVE  LocksInv'
<1>1. ReqTypes /\ RestartTypes /\ LocksInv
  BY DEF RegistryInv, RegistryTypes
<1>2. PICK x : req' = [req EXCEPT ![c] = x]
  BY DEF Request, CreateProvider, ReadBack, ReadForUpdate, ReadForDelete, addProvider,
         UpdateProvider, SwapConfig, removeProvider, DeleteProvider, RestartForAdd, Goto
<1>3. req'[c] = x /\ \A d \in Client : d # c => req'[d] = req[d]
  BY <1>1, <1>2 DEF ReqTypes
<1>4. unborn' \subseteq Provider /\ inputs' \in 0..MaxInput
  <2>1. unborn' \subseteq unborn /\ (inputs' = inputs \/ Input)
    BY DEF Request, CreateProvider, ReadBack, ReadForUpdate, ReadForDelete, addProvider,
           UpdateProvider, SwapConfig, removeProvider, DeleteProvider, RestartForAdd
  <2> QED
    BY <1>1, <2>1, RegistryAssumption DEF LocksInv, Input
<1>5. restart.pc # "idle" => restart.by \subseteq Client
  BY <1>1, RestartShape
<1>6. CASE addProvider(c)
  <2>1. /\ req[c].pc = "add" /\ UNCHANGED restart
        /\ \/ mu' = {c} /\ Goto(c, [pc |-> "restart", p |-> req[c].p])
           \/ mu' = mu /\ Goto(c, Idle)
    BY <1>6 DEF addProvider
  <2>2. req'[c].pc = "restart" \/ mu' = mu
    BY <1>1, <2>1 DEF Goto, ReqTypes
  <2>3. (mu' = {c} /\ req'[c].pc = "restart") \/ mu' = mu
    BY <2>1, <2>2
  <2> QED
    BY <1>1, <1>3, <1>4, <1>5, <2>1, <2>3 DEF LocksInv
<1>7. CASE RestartForAdd(c)
  <2>1. /\ req[c].pc = "restart" /\ UNCHANGED mu
        /\ Goto(c, [req[c] EXCEPT !.pc = "restarting"])
        /\ restart' = [pc |-> "list", by |-> {c}]
    BY <1>7 DEF RestartForAdd
  <2>2. req'[c].pc = "restarting"
    <3>1. [req[c] EXCEPT !.pc = "restarting"].pc = "restarting"
      BY <1>1, <2>1, ReqMoves
    <3> QED
      BY <1>1, <2>1, <3>1 DEF Goto, ReqTypes
  <2> QED
    BY <1>1, <1>3, <1>4, <2>1, <2>2 DEF LocksInv
<1>8. CASE req[c].pc \notin {"restart", "restarting"} /\ UNCHANGED <<mu, restart>>
  BY <1>1, <1>3, <1>4, <1>5, <1>8 DEF LocksInv
<1>9. \/ req[c].pc \notin {"restart", "restarting"} /\ UNCHANGED <<mu, restart>>
      \/ addProvider(c) \/ RestartForAdd(c)
  <2>1. req[c] = Idle => req[c].pc = "idle"
    BY IdleIsTyped
  <2> QED
    BY <2>1 DEF Request, CreateProvider, ReadBack, ReadForUpdate, ReadForDelete,
                UpdateProvider, SwapConfig, removeProvider, DeleteProvider
<1> QED
  BY <1>6, <1>7, <1>8, <1>9

LEMMA RestartLocks ==
    ASSUME RegistryInv,
           \/ ReloadProviders \/ GetProviders \/ SaveProviders \/ RestartFails
           \/ \E p \in Provider : RegisterProvider(p)
    PROVE  LocksInv'
<1>1. ReqTypes /\ RestartTypes /\ LocksInv
  BY DEF RegistryInv, RegistryTypes
<1>2. CASE ReloadProviders
  <2>1. /\ restart'.by = {} /\ UNCHANGED <<mu, req, unborn>> /\ Input
    BY <1>2 DEF ReloadProviders
  <2>2. inputs' \in 0..MaxInput
    BY <1>1, <2>1, RegistryAssumption DEF LocksInv, Input
  <2> QED
    BY <1>1, <2>1, <2>2 DEF LocksInv
<1>3. CASE GetProviders
  <2>1. /\ restart.pc = "list" /\ restart'.by = restart.by
        /\ UNCHANGED <<mu, req, unborn, inputs>>
    BY <1>3 DEF GetProviders
  <2> QED
    BY <1>1, <2>1 DEF LocksInv
<1>4. CASE SaveProviders \/ RestartFails
  <2>1. RestartEnds /\ UNCHANGED <<unborn, inputs>>
    BY <1>4 DEF SaveProviders, RestartFails
  <2>2. restart'.pc = "idle"
    BY <2>1, IdleIsTyped DEF RestartEnds
  <2>3. \A c \in Client : c \notin restart.by => req'[c] = req[c]
    BY <2>1 DEF RestartEnds
  <2>4. mu' = mu \ restart.by
    BY <2>1 DEF RestartEnds
  <2> QED
    BY <1>1, <2>1, <2>2, <2>3, <2>4 DEF LocksInv
<1>5. ASSUME NEW p \in Provider, RegisterProvider(p) PROVE LocksInv'
  <2>1. /\ restart.pc = "register" /\ restart'.by = restart.by
        /\ UNCHANGED <<mu, req, unborn, inputs>>
    BY <1>5, RegisterStep DEF RegisterProvider
  <2> QED
    BY <1>1, <2>1 DEF LocksInv
<1> QED
  BY <1>2, <1>3, <1>4, <1>5

LEMMA InitRegistry == Init => RegistryInv
<1> SUFFICES ASSUME Init PROVE RegistryInv
  OBVIOUS
<1>1. TableTypes
  BY DEF Init, TableTypes, AtMostOne
<1>2. ListTypes
  BY DEF Init, ListTypes, Lists
<1>3. ReqTypes /\ RestartTypes
  BY IdleIsTyped DEF Init, ReqTypes, RestartTypes
<1>4. restart.pc = "idle" /\ \A c \in Client : req[c].pc = "idle"
  BY IdleIsTyped DEF Init
<1>5. LocksInv
  BY <1>4, RegistryAssumption DEF Init, LocksInv
<1>6. \A s \in Slot : \A e : ~Contains(mem[s], e) /\ ~Contains(file[s], e)
  BY DEF Init, Contains
<1>8. Traced
  BY <1>4, <1>6 DEF Traced, TracedIn
<1>7. ASSUME NEW p \in Provider PROVE ProviderInv(p)
  <2>1. row[p] = {} /\ edit[p] = {} /\ past[p] = {} /\ p \notin undone
    BY DEF Init
  <2>2. \A c \in Client : ~On(c, p) /\ ~HalfDone(c, p)
    BY <1>4 DEF On, HalfDone
  <2>3. UnbornAt(p) /\ PastAt(p)
    BY <1>4, <2>1, <2>2 DEF UnbornAt, PastAt
  <2>4. TableAt(p) /\ AloneAt(p) /\ ListedAt(p) /\ BuiltAt(p)
    BY <1>4, <2>1, <2>2 DEF TableAt, AloneAt, ListedAt, BuiltAt, Listed
  <2>5. KeysAt(p)
    BY <2>1, <2>2 DEF KeysAt, OnlyKeysOf, Mine
  <2> QED
    BY <2>3, <2>4, <2>5 DEF ProviderInv
<1> QED
  BY <1>1, <1>2, <1>3, <1>5, <1>7, <1>8 DEF RegistryInv, RegistryTypes

LEMMA RegistryStutter == RegistryInv /\ UNCHANGED vars => RegistryInv'
<1> SUFFICES ASSUME RegistryInv, UNCHANGED vars PROVE RegistryInv'
  OBVIOUS
<1>1. UNCHANGED <<row, mem, file, mu, req, restart, unborn, edit, past, partial, crossed,
                  overtaken, undone, inputs>>
  BY DEF vars, history
<1>2. RegistryTypes' /\ LocksInv' /\ Traced'
  BY <1>1 DEF RegistryInv, RegistryTypes, TableTypes, ListTypes, ReqTypes, RestartTypes,
              LocksInv, Traced, TracedIn
<1>3. ASSUME NEW p \in Provider PROVE ProviderInv(p)'
  <2>1. ProviderInv(p)
    BY DEF RegistryInv
  <2>2. UnbornAt(p)' /\ PastAt(p)' /\ TableAt(p)' /\ AloneAt(p)'
    BY <1>1, <2>1 DEF ProviderInv, UnbornAt, PastAt, TableAt, Kept, AloneAt, On
  <2>3. ListedAt(p)' /\ BuiltAt(p)'
    BY <1>1, <2>1 DEF ProviderInv, ListedAt, BuiltAt, Listed, Alone, Quiet, HalfDone, On
  <2>4. KeysAt(p)'
    BY <1>1, <2>1 DEF ProviderInv, KeysAt, Before, Quiet, HalfDone, On
  <2> QED
    BY <2>2, <2>3, <2>4 DEF ProviderInv
<1> QED
  BY <1>2, <1>3 DEF RegistryInv

\* The registry's inductive invariant: the table has the last edit of every
\* provider no restart is to write over, up to what registration makes of it; a
\* request that is alone on its provider knows the row; every place of a list
\* is one some provider had; and the lists of the server, of config.yaml and of
\* a restart under way have the entries the row asks for where no other provider
\* ever had the same one (providers.go, cpapi.go registerAllProvidersLocked).
THEOREM RegistryInvariant == Spec => []RegistryInv
<1>1. Init => RegistryInv
  BY InitRegistry
<1>2. RegistryInv /\ [Next]_vars => RegistryInv'
  <2> SUFFICES ASSUME RegistryInv, [Next]_vars PROVE RegistryInv'
    OBVIOUS
  <2>1. CASE UNCHANGED vars
    BY <2>1, RegistryStutter
  <2>2. ASSUME NEW c \in Client, Request(c) PROVE RegistryInv'
    BY <2>2, RequestStep, RequestLocks, BeginStep DEF RegistryInv
  <2>3. CASE ReloadProviders
    BY <2>3, BeginStep, RestartLocks DEF RegistryInv
  <2>4. CASE GetProviders
    BY <2>4, ListStep, RestartLocks DEF RegistryInv
  <2>5. CASE SaveProviders \/ RestartFails
    BY <2>5, EndStep, RestartLocks DEF RegistryInv
  <2>6. ASSUME NEW p \in Provider, RegisterProvider(p) PROVE RegistryInv'
    BY <2>6, RegisterStep, RestartLocks DEF RegistryInv
  <2> QED
    BY <2>1, <2>2, <2>3, <2>4, <2>5, <2>6 DEF Next
<1> QED
  BY <1>1, <1>2, PTL DEF Spec

\* A settled provider has no request half done.
LEMMA SettledIsQuiet ==
    ASSUME RegistryInv, NEW p \in Provider, Settled(p)
    PROVE  p \notin partial \cup crossed /\ Quiet(p)
<1>1. \A c \in Client : ~On(c, p)
  BY BusyIsOn DEF Settled, RegistryInv, RegistryTypes
<1> QED
  BY <1>1 DEF Settled, Quiet, HalfDone

\* However the requests of the panel, the restarts they wait for and reloads
\* interleave, a provider that was left enabled, with a key no other provider
\* ever had, is in the server's lists unless a restart is to write its row back
\* whole, and in config.yaml unless its edit overtook a restart
\* (EnabledIsConfigured).
THEOREM EnabledAreConfigured == Spec => []EnabledIsConfigured
<1>1. RegistryInv => EnabledIsConfigured
  <2> SUFFICES ASSUME RegistryInv PROVE EnabledIsConfigured
    OBVIOUS
  <2>1. RegistryTypes /\ TableTypes /\ ListTypes /\ LocksInv /\ Traced
    BY DEF RegistryInv, RegistryTypes
  <2>2. ASSUME NEW s \in Slot, NEW cfg \in {mem, file}, NEW i \in 1..Len(cfg[s])
        PROVE  cfg[s][i] = Blank \/ \E q \in Provider : <<s, cfg[s][i]>> \in past[q]
    <3>1. Contains(cfg[s], cfg[s][i])
      BY DEF Contains
    <3> QED
      BY <2>1, <3>1 DEF Traced, TracedIn
  <2>3. TypeOK
    <3>1. \A p \in Provider : row[p] \subseteq Row /\ edit[p] \subseteq Row
      BY <2>1, TableShape
    <3> QED
      BY <2>1, <2>2, <3>1 DEF TypeOK, LocksInv
  <2>4. ASSUME NEW p \in Provider, Settled(p), NEW r \in edit[p], ~r.disabled,
               Alone(p, Place(p, r))
        PROVE  /\ p \notin undone => Has(mem, p, r)
               /\ p \notin overtaken => Has(file, p, r)
    BY <2>4, SettledIsQuiet DEF RegistryInv, ProviderInv, ListedAt, Listed
  <2> QED
    BY <2>3, <2>4 DEF EnabledIsConfigured
<1> QED
  BY <1>1, RegistryInvariant, PTL

\* No plain key that only a disabled or deleted provider ever had stays in the
\* server's lists, unless a restart is to write a row of it back whole
\* (DisabledIsGone).
THEOREM DisabledAreGone == Spec => []DisabledIsGone
<1>1. RegistryInv => DisabledIsGone
  <2> SUFFICES ASSUME RegistryInv, NEW p \in Provider \ undone, Settled(p),
                      \A r \in edit[p] : r.disabled,
                      NEW s \in Slot \ {"own"}, NEW i \in 1..Len(mem[s]),
                      <<s, mem[s][i]>> \in past[p], Alone(p, <<s, mem[s][i]>>)
               PROVE  FALSE
    BY DEF DisabledIsGone
  <2>1. p \notin partial \cup crossed /\ Quiet(p)
    BY SettledIsQuiet
  <2>2. OnlyKeysOf(mem, past, p, edit[p])
    BY <2>1 DEF RegistryInv, ProviderInv, KeysAt
  <2>3. Mine(past, p, <<s, mem[s][i]>>)
    BY DEF Mine, Alone
  <2>4. Contains(mem[s], mem[s][i])
    BY DEF Contains
  <2> QED
    BY <2>2, <2>3, <2>4 DEF OnlyKeysOf
<1> QED
  BY <1>1, RegistryInvariant, PTL

\* A deleted row stays deleted and a row keeps the type, the key, the base URL
\* and the switch of its last edit up to what its own registration puts there,
\* whatever proxies and rows the restarts write back, unless one of them is to
\* write an older cursor row over the edit (RowIsLastEdit).
THEOREM RowsAreLastEdits == Spec => []RowIsLastEdit
<1>1. RegistryInv => RowIsLastEdit
  BY DEF RegistryInv, ProviderInv, TableAt, RowIsLastEdit
<1> QED
  BY <1>1, RegistryInvariant, PTL
=============================================================================
