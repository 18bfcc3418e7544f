---------------------------- MODULE Computations ----------------------------
(***************************************************************************)
(* What the computations of ModelCatalog, VendorQuota and PanelReads are   *)
(* for.  The variable is one input of one of them; AnyInput is the set of  *)
(* all inputs the code may be given, without bounds, and the properties    *)
(* compare what the code computes from one with what it should.            *)
(* Algorithms checks them over bounded inputs, RequestProofs proves them   *)
(* for all.                                                                *)
(***************************************************************************)
EXTENDS ModelCatalog, VendorQuota, PanelReads

VARIABLE input

----------------------------------------------------------------------------
(* Inputs of ModelCatalog. *)

\* The name of a model: a string between its dashes.
Name == Seq(STRING) \ {<<>>}

ModelInput ==
    [kind : {"model"}, id : Name, method : STRING, body : {"model", "other"},
     path : [route : {"/v1/chat/completions", "/v1/messages", "/v1beta/messages", "/v1/models"},
             slashes : Nat]]

StrategyInput == [kind : {"strategy"}, strategy : STRING]

Restriction(kind, models, capitals, toks) ==
    [kind |-> kind, models |-> models, capitals |-> capitals, toks |-> toks]
AnyRestriction ==
    [kind : {"literal", "star", "bad"}, models : BOOLEAN, capitals : BOOLEAN, toks : Seq(STRING)]

NamesInput ==
    [kind : {"names"}, values : Seq(AnyRestriction), value : AnyRestriction]

LoginType == {"OPENAI", "ANTHROPIC", "ANTIGRAVITY", "KIMI", "GROK"}
AnyType == LoginType \cup {"OPENCODE_ZEN", "OPENCODE_GO", "CLINE", "CURSOR", "CUSTOM"}

TypeInput ==
    [kind : {"type"},
     rows : Seq([id : Int, type : LoginType \cup {"CURSOR"}, disabled : BOOLEAN,
                 credentials : BOOLEAN, useProxy : BOOLEAN, proxy : STRING])]

ListInput ==
    [kind : {"list"}, presets : BOOLEAN, rowsFail : BOOLEAN,
     auth : [scheme : {"Password", "Bearer", "Basic"}, who : {"admin", "key", "nobody"}],
     status : Int, body : {"list", "other", "unreadable"},
     rows : Seq([id : Int, type : AnyType]),
     data : Seq([id : Name, owner : STRING]),
     key : [models : Seq(AnyRestriction), providers : SUBSET Int, types : SUBSET STRING]]

----------------------------------------------------------------------------
(* Inputs of VendorQuota: what the vendors may answer. *)

Vendor == {"xai", "anthropic", "codex", "kimi", "antigravity"}
MaybeInt == Int \cup {None}
Int32 == (-MaxInt32 - 1)..MaxInt32
CodexWindow == {None} \cup [percent : Int, minutes : Int32, seconds : Int32]
KimiDetail == {None} \cup [used : MaybeInt, limit : MaybeInt]

Body(vendor) ==
    {Garbage} \cup
    CASE vendor = "xai" ->
            {None} \cup [percent : MaybeInt, limit : MaybeInt, used : MaybeInt,
                         from : MaybeInt, to : MaybeInt]
      [] vendor = "anthropic" ->
            [five : {None} \cup [utilization : MaybeInt], seven : {None} \cup [utilization : MaybeInt]]
      [] vendor = "codex" -> [primary : Seq(CodexWindow), secondary : Seq(CodexWindow)]
      [] vendor = "kimi" ->
            [limits : Seq([detail : KimiDetail,
                           window : [duration : (-MaxInt64 - 1)..MaxInt64, unit : STRING]]),
             usage : KimiDetail]
      [] vendor = "antigravity" -> [buckets : Seq(Int)]

Verdict == {"ok", "proxy", "send", "read"}

QuotaOf(vendor) ==
    [kind : {"quota"}, vendor : {vendor}, token : BOOLEAN,
     user : [client : Verdict, status : Int, body : {"id", Garbage}, valid : BOOLEAN],
     http : [client : Verdict, status : Int, body : Body(vendor)]]

QuotaInput ==
    QuotaOf("xai") \cup QuotaOf("anthropic") \cup QuotaOf("codex") \cup QuotaOf("kimi")
    \cup QuotaOf("antigravity")

----------------------------------------------------------------------------
(* Inputs of PanelReads. *)

\* Usage entries of any number of keys, no two of the same time.
Entry == [key : STRING \ {"all"}, time : Int, tokens : Int]
Entries == {E \in SUBSET Entry : IsFiniteSet(E) /\ \A e, f \in E : e.time = f.time => e = f}

PagesInput ==
    [kind : {"pages"}, limit : Nat, who : [admin : BOOLEAN, key : STRING \ {"all"}],
     entries : Entries]

HealthInput ==
    [kind : {"health"}, header : [scheme : STRING, secret : STRING], isAdmin : BOOLEAN,
     query : BOOLEAN, alive : BOOLEAN, again : BOOLEAN, unhealthy : SUBSET Int,
     restricted : SUBSET Int, rows : Seq([id : Int, disabled : BOOLEAN, secret : STRING])]

\* Lines of a log.
PairLine == [kind : {"pair"}, name : STRING, capitals : BOOLEAN, value : STRING]
TextLine == [kind : {"text"}, value : STRING]
Line == PairLine \cup TextLine \cup [kind : {"mark"}, name : STRING] \cup [kind : {"blank"}]

\* A line that gives the secret away.
Tells(line) == line.kind = "pair" /\ line.value = "secret"

\* The secret of a request is in headers that carry secrets, or in a header of
\* the response.
LogInput ==
    [kind : {"log"}, admin : BOOLEAN, files : Nat,
     log : [url : STRING, status : STRING,
            headers : Seq({l \in PairLine \cup TextLine : Tells(l) => l.name \in sensitiveHeaders}),
            body : Seq({l \in Line : ~Tells(l)}), sent : Seq(PairLine),
            response : Seq({l \in Line : ~Tells(l)})]]

AnyInput ==
    ModelInput \cup StrategyInput \cup NamesInput \cup TypeInput \cup ListInput
    \cup QuotaInput \cup PagesInput \cup HealthInput \cup LogInput

----------------------------------------------------------------------------
(* ModelCatalog. *)

EndsWithLevel(name) == Len(name) > 1 /\ Last(name) \in Range(effortSuffixes)

\* A client that asks for a model of the expanded list gets that model with
\* that level, whatever its own name ends with; a listed model whose name does
\* not end with a level reaches the proxy unchanged, as does everything on
\* other routes (effort_presets.go).
EffortRoundTrips ==
    input.kind = "model" =>
        LET list == ExpandEffortModels(<<[id |-> input.id]>>)
            Ask(m) == EffortPresetMiddleware([method |-> input.method, path |-> input.path,
                                              body |-> input.body, model |-> m])
            rewritten == input.method = "POST" /\ input.body = "model" /\ input.path.slashes <= 2
                         /\ input.path.route # "/v1/models"
        IN  /\ ~rewritten => \A i \in DOMAIN list : Ask(list[i].id) = effortModel(list[i].id, "")
            /\ rewritten => \A l \in 1..3 : Ask(list[l + 1].id) = effortModel(input.id, effortSuffixes[l])
            /\ ~EndsWithLevel(input.id) => Ask(input.id) = effortModel(input.id, "")

\* What the panel stores of a list of restrictions restricts exactly what the
\* list says: capitals, repetitions, blank entries and the prefix models/ of a
\* request make no difference, and a malformed pattern denies
\* (normalizedUniqueStrings, normalizeRestrictions, restrictedMatch).
RestrictionsSurviveStorage ==
    input.kind = "names" =>
        LET Says(r) == /\ r.toks # <<>>
                       /\ \/ r.kind = "bad"
                          \/ /\ r.models => input.value.models
                             /\ IF r.kind = "star" THEN IsPrefix(r.toks, input.value.toks)
                                ELSE r.toks = input.value.toks
        IN  PickModel(normalizedUniqueStrings(input.values), input.value) <=>
               input.value.toks = <<>> \/ ~\E i \in DOMAIN input.values : Says(input.values[i])

\* A type that is restricted by the name its models are listed under is also
\* restricted under the name its credentials have, so that none of the proxy's
\* candidates escapes; and a provider that is switched off, or whose login is
\* not done, is no candidate, nor does one use a proxy that is switched off
\* (providerTypeRestricted, ProviderCredentialStore.List).
TypeRestrictionCatches ==
    input.kind = "type" =>
        \A a \in Range(CredentialList(input.rows)) : \E r \in Range(input.rows) :
            LET d == GetOAuthDefinition(r.type)
            IN  /\ a.id = r.id /\ ~r.disabled /\ r.credentials /\ (a.proxy # "" => r.useProxy)
                /\ a.provider = d.Provider \/ providerTypeRestricted(d.Provider, a.provider)

Listed == Range(ModifyResponse(input).models)

\* The rows of the type that owns a model.
RowsOf(m) == {r \in Range(input.rows) : GetOAuthDefinition(r.type).Provider = m.owner}

\* Nobody but a holder of the password or of a key is shown a model.  What a
\* restricted key is shown, whatever fails on the way, was let through by one of
\* its two lists: the key restricts models and not this one by its name, or it
\* restricts providers and a row of the model's type is not among them.  One of
\* them is enough, so that a key with both lists is shown a model it restricts if
\* it does not restrict the provider, and the other way round
\* (ModifyResponse, AccessProviderMiddleware).
RestrictedNeverListed ==
    input.kind = "list" =>
        LET key == input.key
        IN  /\ input.auth.who = "nobody" \/ input.auth.scheme = "Basic" => Listed = {}
            /\ input.auth.who = "key" /\ (key.models # <<>> \/ RestrictsProviders(key)) =>
                  \A m \in Listed :
                      \/ key.models # <<>> /\ Literal(m.id) \notin Range(key.models)
                      \/ RestrictsProviders(key) /\ \E r \in RowsOf(m) : r.id \notin key.providers

\* A key asks for the list and nothing fails: the proxy has answered with a list,
\* the rows can be read and each of them is of a type with a definition.
ListIsServed ==
    /\ input.kind = "list" /\ input.auth = [scheme |-> "Bearer", who |-> "key"]
    /\ input.body = "list" /\ ~input.rowsFail
    /\ \A j \in DOMAIN input.rows : input.rows[j].type # "CUSTOM"

\* Every key is listed the models it may use: those the selector lets through of
\* a type one of whose rows it does not restrict, in whatever way it restricts
\* (both lists, patterns, capitals, names of types).  The converse holds only
\* for a key that restricts models alone, by their names as they are listed: of
\* patterns, other spellings and names of types the list knows nothing
\* (ExcludeRestrictedModels, Pick).
ListAndSelectorAgree ==
    ListIsServed =>
        \A m \in Range(input.data) :
            LET key == input.key
                may == PickModel(key.models, Literal(m.id))
            IN  /\ may /\ (\E r \in RowsOf(m) : r.id \notin key.providers) => m \in Listed
                /\ /\ m \in Listed /\ ~RestrictsProviders(key)
                   /\ \A i \in DOMAIN key.models : key.models[i].kind = "literal" /\ ~key.models[i].capitals
                   => may

\* The list is expanded before it is filtered, so that a variant of a model with
\* an effort is hidden from a key that restricts models only by a restriction
\* with the variant's own name: variants of a model that is restricted, and that
\* the selector refuses, are listed (ExpandEffortModels, ExcludeRestrictedModels).
VariantsListedByName ==
    ListIsServed /\ input.presets /\ input.status = 200 /\ input.key.models # <<>> =>
        \A m \in Range(input.data), l \in 1..3 :
            LET variant == [m EXCEPT !.id = Append(@, effortSuffixes[l])]
            IN  RowsOf(m) # {} /\ Literal(variant.id) \notin Range(input.key.models) => variant \in Listed

----------------------------------------------------------------------------
(* VendorQuota. *)

Loaded == LoadQuota(input)

\* Anthropic has answered, and the answer lacks one of its two windows.
LacksWindow ==
    /\ input.vendor = "anthropic" /\ input.token /\ input.http.client = "ok"
    /\ Succeeded(input.http.status) /\ input.http.body # Garbage
    /\ input.http.body.five = None \/ input.http.body.seven = None

\* A window of Codex's quota: nil exactly if Codex sent none in either spelling,
\* else with the percentage of one it sent, which nothing clamps.
CodexPasses(sent, window) ==
    \/ window = None /\ \A w \in Range(sent) : w = None
    \/ window # None /\ \E w \in Range(sent) : w # None /\ window.UsedPercent = w.percent

\* LoadQuota panics exactly if Anthropic's answer lacks a window.  Otherwise an
\* answer becomes an error without windows, or a quota with a first window: what
\* quota_loader caches never looks like a quota with nothing in it, except that
\* of Codex, which has two windows and either may be nil (Primary, LoadAnthropic,
\* LoadCodex, LoadKimi, LoadAntigravity).
QuotaHasWindow ==
    input.kind = "quota" =>
        /\ Loaded.Panics <=> LacksWindow
        /\ Loaded.Error # "" \/ Loaded.Panics => Loaded.Quotas = <<>>
        /\ Loaded.Error = "" /\ ~Loaded.Panics =>
              IF input.vendor = "codex"
              THEN /\ Len(Loaded.Quotas) = 2
                   /\ CodexPasses(input.http.body.primary, Loaded.Quotas[1])
                   /\ CodexPasses(input.http.body.secondary, Loaded.Quotas[2])
              ELSE Loaded.Quotas # <<>> /\ Loaded.Quotas[1] # None

\* The length Codex sends is passed on, negative or not, and those of Kimi
\* become minutes in 64 bits: what has to hold of them.
LengthsFit ==
    IF input.http.body = Garbage THEN TRUE
    ELSE CASE input.vendor = "codex" ->
                \A w \in Range(input.http.body.primary) \cup Range(input.http.body.secondary) :
                    w # None => w.minutes >= 0
           [] input.vendor = "kimi" ->
                \A l \in Range(input.http.body.limits) : l.window.duration <= MaxInt64 \div (7 * 24 * 60)
           [] OTHER -> TRUE

\* The watcher compares percentages with fixed thresholds: whatever number xAI,
\* Anthropic or Antigravity sends, it gets one between 0 and 100; those of Codex
\* and Kimi are not clamped, and nothing is said of them here.  And no window
\* is given a negative or truncated length, unless Codex sent a negative one or
\* Kimi one that does not fit 64 bits (xaiUsedPercent, anthropicQuotaWindow,
\* antigravityQuotaWindow, kimiWindowMinutes).
WindowsInRange ==
    input.kind = "quota" =>
        \A i \in DOMAIN Loaded.Quotas : Loaded.Quotas[i] # None =>
            /\ input.vendor \in {"xai", "anthropic", "antigravity"} => Loaded.Quotas[i].UsedPercent \in 0..100
            /\ LengthsFit => Loaded.Quotas[i].WindowMinutes \in 0..MaxInt32
            /\ LengthsFit /\ input.vendor = "kimi" =>
                  Loaded.Quotas[i].WindowMinutes \in {0, 7 * 24 * 60} \cup
                      {l.window.duration * Factor(l.window.unit) : l \in Range(input.http.body.limits)}

----------------------------------------------------------------------------
(* PanelReads. *)

\* Page after page, a key reads each of its own entries exactly once, newest
\* first, and none of another's; an admin reads all.  Only the last page is
\* shorter than the limit (GetUsageLogs, queryUsageEntries).
PagesCoverOwn ==
    input.kind = "pages" =>
        LET size == clampLimit(input.limit)
            Page(k) == GetUsageLogs(input.entries, input.who, input.limit, k * size)
            own == {e \in input.entries : input.who.admin \/ e.key = input.who.key}
            pages == Cardinality(own) + 1
            all == FlattenSeq([k \in 1..pages |-> Page(k - 1)])
        IN  /\ Range(all) = own /\ Len(all) = Cardinality(own)
            /\ \A i, j \in DOMAIN all : i < j => all[i].time > all[j].time
            /\ \A k \in 0..pages : Page(k + 1) # <<>> => Len(Page(k)) = size
            /\ \A e \in input.entries : e.key # input.who.key =>
                  (GetProviderLogsByKeyID(input.entries, input.who, e.key) # <<>> <=> input.who.admin)
            /\ ~input.who.admin /\ own # {} =>
                  SumUsageEntries(input.entries, input.who.key) =
                  SumOf([i \in DOMAIN all |-> all[i].tokens])

Admins == {"password", "admin"}

\* A key is shown exactly the providers it does not restrict, an admin all of
\* them and an unknown caller none; where only admins may come, no other key
\* does.  And "ok" is only said of a system in which nothing is known to be
\* wrong: a login that is not done is missed only if the providers could not be
\* read a second time (AuthInterceptor, GetProvidersList, HealthCheck).
PanelTellsAll ==
    input.kind = "health" =>
        LET caller == AuthInterceptor(input.isAdmin, input.header)
            shown == GetProvidersList(input.rows, caller.who, input.restricted)
            health == HealthCheck(input)
        IN  /\ caller.status = 200 =>
                  /\ input.header.secret # "unknown" /\ input.header.scheme # "Basic"
                  /\ input.isAdmin => caller.who.admin
                  /\ Range(shown) = {input.rows[i].id : i \in DOMAIN input.rows} \
                                    (IF input.header.secret \in Admins THEN {} ELSE input.restricted)
            /\ health.status = "ok" =>
                  /\ input.query /\ input.alive /\ input.unhealthy = {}
                  /\ input.again => \A i \in DOMAIN input.rows :
                        input.rows[i].secret = "oauth:pending" => input.rows[i].disabled

Parsed == parseErrorLog(WrittenLog(input.log))

\* The value of a sensitive header of the request, or of a cookie the response
\* sets, is in no part of what GetErrors returns, in whatever spelling and even
\* if a body contains the mark of a section (redactHeader, extractResponseBody).
SecretsStayHidden ==
    input.kind = "log" =>
        LET lines == Range(Parsed.headers) \cup Range(Parsed.body) \cup Range(Parsed.response)
            answer == GetErrors([i \in 1..input.files |-> WrittenLog(input.log)],
                                [admin |-> input.admin])
        IN  /\ ~\E l \in lines : Tells(l)
            /\ Len(answer) <= maxErrorFiles /\ (answer # <<>> => input.admin)

\* A log whose bodies contain no mark reads back as it was written: headers in
\* order, bodies with their blank lines; and the status, unless what the
\* response says has a line of that name (splitSections, parseKeyValue).
LogReadsBack ==
    input.kind = "log" =>
        LET log == input.log
            Unmarked(ls) == \A i \in DOMAIN ls : ls[i].kind # "mark"
        IN  Unmarked(log.body) /\ Unmarked(log.response) =>
               /\ Parsed.url = log.url
               /\ Parsed.headers = [i \in DOMAIN log.headers |-> redactHeader(log.headers[i])]
               /\ Parsed.body = Trimmed(log.body)
               /\ Parsed.response = Trimmed(log.response)
               /\ (\A l \in Range(log.sent) \cup Range(log.response) :
                      l.kind = "pair" => l.name # "status") => Parsed.status = log.status

\* The strategy a key is shown with is the one it was given, over the names of
\* the table; one that is unknown is refused (quotaPeriod, quotaResetStrategy).
StrategyRoundTrips ==
    input.kind = "strategy" =>
        IF input.strategy \notin Range(Strategies) THEN quotaPeriod(input.strategy) = "invalid argument"
        ELSE quotaResetStrategy(quotaPeriod(input.strategy)) = input.strategy

----------------------------------------------------------------------------
(* What is checked and proved. *)

\* A name that is made for another part of the system is read back there as
\* what it was made from: an effort in a model's name, a quota strategy
\* (effort_presets.go, apikeys.go quotaPeriod).
NamesRoundTrip == EffortRoundTrips /\ StrategyRoundTrips

\* A restriction survives its storage, an error never lifts it, no key is denied
\* the sight of what it may use, and what it is shown that it may not use is what
\* the parts above say: patterns and other spellings, names of types, variants
\* of a restricted model, and one of two lists (access_policy.go,
\* access_provider.go, effort_presets.go).
RestrictionsApply ==
    /\ RestrictionsSurviveStorage /\ TypeRestrictionCatches
    /\ RestrictedNeverListed /\ ListAndSelectorAgree /\ VariantsListedByName

\* A vendor's answer becomes an error, or windows within the ranges above, and
\* only one of Anthropic's that lacks a window ends the process instead.  Not
\* covered: Codex may leave a window nil, and the percentages of Codex and Kimi
\* are whatever they send (LoadQuota of the vendors).
QuotaIsUsable == QuotaHasWindow /\ WindowsInRange

\* A caller of the panel reads all of its own usage and nothing else, the
\* providers it may use, the state of health, and error logs as they were written
\* but for the secrets (AuthInterceptor, GetUsageLogs, HealthCheck, GetErrors).
PanelShowsOwn == PagesCoverOwn /\ PanelTellsAll /\ SecretsStayHidden /\ LogReadsBack
=============================================================================
