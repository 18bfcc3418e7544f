---------------------------- MODULE ModelCatalog ----------------------------
(***************************************************************************)
(* What stands between a client and the proxy on /v1: the rewriting of     *)
(* model names with an effort suffix, the list of models as one key sees   *)
(* it, and the matching of names against a key's restrictions.  All of it  *)
(* is computed from one request or one response, so that these are         *)
(* operators; Algorithms checks them over bounded inputs.                  *)
(*                                                                         *)
(* A model's name is the sequence of its parts, "gpt-4-high" being         *)
(* <<"gpt", "4", "high">>.  A name in a restriction or a request also says *)
(* whether it begins with "models/" and whether it is spelled with         *)
(* capitals.  JSON, headers and lengths are left out.                      *)
(***************************************************************************)
EXTENDS Lists

effortSuffixes == <<"low", "medium", "high">>

----------------------------------------------------------------------------
(* Effort presets on the way in. *)

\* Mutant: a name that is nothing but a level is taken for a suffix.
parseEffortAlone(model) ==
    IF Len(model) >= 1 /\ Last(model) \in Range(effortSuffixes)
    THEN [base |-> Front(model), effort |-> Last(model), ok |-> TRUE]
    ELSE [base |-> model, effort |-> "", ok |-> FALSE]

\* The suffix is "-" and the level: a part of its own, after another one.
parseEffortModel(model) ==
    IF Len(model) >= 2 /\ Last(model) \in Range(effortSuffixes)
    THEN [base |-> Front(model), effort |-> Last(model), ok |-> TRUE]
    ELSE [base |-> model, effort |-> "", ok |-> FALSE]

\* "base(level)", the syntax of CLIProxyAPI.
effortModel(base, effort) == [name |-> base, effort |-> effort]

isRewritePath(path) ==
    /\ path.slashes <= 1
    /\ path.route \in {"/v1/chat/completions", "/v1/messages", "/v1beta/messages"}

\* The model the proxy is asked for.  A body that cannot be read, is empty, is
\* compressed, is not JSON or has no model goes on as it came.
EffortPresetMiddleware(r) ==
    LET p == parseEffortModel(r.model)
        trimmed == [r.path EXCEPT !.slashes = IF @ = 0 THEN 0 ELSE @ - 1]
    IN  IF r.method = "POST" /\ isRewritePath(trimmed) /\ r.body = "model" /\ p.ok
        THEN effortModel(p.base, p.effort)
        ELSE effortModel(r.model, "")

----------------------------------------------------------------------------
(* Matching of names against restrictions. *)

normalizeRestriction(v) == [v EXCEPT !.capitals = FALSE]

\* Positions of values that are not blank and not seen before.
Unseen(values) ==
    {i \in DOMAIN values :
        /\ values[i].toks # <<>>
        /\ \A j \in 1..(i - 1) : normalizeRestriction(values[j]) # normalizeRestriction(values[i])}

\* The panel's own list, before it is stored: first spellings are kept.
normalizedUniqueStrings(values) == At(values, Unseen(values))

normalizeRestrictions(values) ==
    LET kept == At(values, Unseen(values))
    IN  [i \in DOMAIN kept |-> normalizeRestriction(kept[i])]

\* path.Match: "*" stands for anything but "/"; a bad pattern is an error.
Match(r, v) ==
    IF r.kind = "star" THEN IsPrefix(r.toks, v.toks) /\ r.models = v.models
    ELSE r.toks = v.toks /\ r.models = v.models

restrictedMatch(restrictions, value) ==
    LET v == normalizeRestriction(value)
        variants == {v} \cup (IF v.models THEN {[v EXCEPT !.models = FALSE]} ELSE {})
    IN  /\ value.toks # <<>>
        /\ \E i \in DOMAIN restrictions, w \in variants :
              restrictions[i].kind = "bad" \/ Match(restrictions[i], w)

\* The candidates a provider's type stands for when it is restricted by name.
\* Cline and cursor have no name here.  ("openai-compatible-opencode-zen"
\* contains "opencode" and "zen".)
providerTypeRestricted(restriction, provider) ==
    CASE restriction = "openai" -> provider \in {"openai", "codex"}
      [] restriction = "anthropic" -> provider \in {"anthropic", "claude"}
      [] restriction = "grok" -> provider \in {"grok", "xai"}
      [] restriction \in {"kimi", "moonshot"} ->
            provider \in {"kimi", "moonshot", "openai-compatible-kimi"}
      [] restriction = "antigravity" -> provider \in {"antigravity", "gemini"}
      [] restriction \in {"opencode-zen", "opencode_zen", "zen"} ->
            provider \in {"opencode-zen", "openai-compatible-opencode-zen"}
      [] restriction \in {"opencode-go", "opencode_go", "go"} ->
            provider \in {"opencode-go", "openai-compatible-opencode-go"}
      [] OTHER -> FALSE

\* The name a vendor's models are owned by, and that of its credentials.
Definition(provider, credential) == [Provider |-> provider, CredentialProvider |-> credential]
CodexDefinition == Definition("openai", "codex")
AnthropicDefinition == Definition("anthropic", "claude")
AntigravityDefinition == Definition("antigravity", "antigravity")
KimiDefinition == Definition("kimi", "kimi")
XAIDefinition == Definition("xai", "xai")
OpencodeZenDefinition == Definition("opencode-zen", "opencode")
OpencodeGoDefinition == Definition("opencode-go", "opencode")
ClineDefinition == Definition("cline", "cline")
CursorDefinition == Definition("cursor", "cursor")

\* GetOAuthDefinition of the vendor ProviderOAuthConfig finds for a type.  A
\* custom provider has none: its definition is nil.
GetOAuthDefinition(type) ==
    CASE type = "OPENAI" -> CodexDefinition
      [] type = "ANTHROPIC" -> AnthropicDefinition
      [] type = "ANTIGRAVITY" -> AntigravityDefinition
      [] type = "KIMI" -> KimiDefinition
      [] type = "GROK" -> XAIDefinition
      [] type = "OPENCODE_ZEN" -> OpencodeZenDefinition
      [] type = "OPENCODE_GO" -> OpencodeGoDefinition
      [] type = "CLINE" -> ClineDefinition
      [] type = "CURSOR" -> CursorDefinition

\* ProviderCredentialStore.List: the credentials the proxy may choose from.  A
\* cursor provider is an entry of the configuration instead; only types that
\* log in have credentials in their rows.
CredentialList(rows) ==
    LET usable == At(rows, {i \in DOMAIN rows :
                               rows[i].type # "CURSOR" /\ ~rows[i].disabled /\ rows[i].credentials})
    IN  [i \in DOMAIN usable |->
            [id |-> usable[i].id,
             provider |-> GetOAuthDefinition(usable[i].type).CredentialProvider,
             proxy |-> IF usable[i].useProxy THEN usable[i].proxy ELSE ""]]

\* The selector on a request for one model: the model is refused, or goes to
\* the credentials that are not restricted by name.
PickModel(restricted, model) == ~restrictedMatch(normalizeRestrictions(restricted), model)

----------------------------------------------------------------------------
(* GET /v1/models on the way out. *)

ExpandEffortModels(data) ==
    FlattenSeq([i \in DOMAIN data |->
        <<data[i]>> \o [l \in 1..3 |->
            [data[i] EXCEPT !.id = Append(@, effortSuffixes[l])]]])

Literal(id) == [kind |-> "literal", models |-> FALSE, capitals |-> FALSE, toks |-> id]

\* The list of restricted providers holds ids and names of types.
RestrictsProviders(key) == key.providers # {} \/ key.types # {}

\* The entries of a list that a restricted key keeps: one copy for every row
\* of the type that owns the model.  slices.Contains compares spellings, of
\* models as they are listed and of providers by their ids; the second list is
\* only looked at where the first does not keep the entry.
Keeps(key, item, row) ==
    /\ row.type # "CUSTOM" /\ item.owner = GetOAuthDefinition(row.type).Provider
    /\ \/ key.models # <<>> /\ Literal(item.id) \notin Range(key.models)
       \/ /\ key.models = <<>> \/ Literal(item.id) \in Range(key.models)
          /\ RestrictsProviders(key) /\ row.id \notin key.providers

\* Mutant: only the first row is compared.
ExcludeByFirstRow(data, key, rows) ==
    SelectSeq(data, LAMBDA item : rows # <<>> /\ Keeps(key, item, rows[1]))

ExcludeRestrictedModels(data, key, rows) ==
    FlattenSeq([i \in DOMAIN data |->
        FlattenSeq([j \in DOMAIN rows |->
            IF Keeps(key, data[i], rows[j]) THEN <<data[i]>> ELSE <<>>])])

\* AuthorizeRequest with LoginUser: the header's scheme and its secret.
AuthorizeRequest(auth) == auth.scheme \in {"Password", "Bearer"} /\ auth.who # "nobody"

Answer(status, models) == [status |-> status, models |-> models]

\* AccessProviderMiddleware: an admin and an unrestricted key see the response
\* as it is.  Otherwise the body has been read: what is no list becomes an empty
\* body, and so does a list while the rows cannot be read or one of them is of
\* a type without a definition (the handler panics, and the answer is cut off).
AccessProviderMiddleware(resp, in) ==
    IF in.auth.who = "admin" \/ (in.key.models = <<>> /\ ~RestrictsProviders(in.key))
    THEN resp
    ELSE IF \/ in.body # "list" \/ resp.models = <<>> \/ in.rowsFail
            \/ \E j \in DOMAIN in.rows : in.rows[j].type = "CUSTOM"
         THEN [resp EXCEPT !.models = <<>>]
         ELSE [resp EXCEPT !.models = ExcludeRestrictedModels(@, in.key, in.rows)]

\* ModifyEffortModelsResponse: only a list with status 200 is expanded.
ModifyEffortModelsResponse(resp, in) ==
    IF resp.status = 200 /\ in.body = "list"
    THEN [resp EXCEPT !.models = ExpandEffortModels(@)] ELSE resp

\* ModifyResponse of the reverse proxy, for /v1/models.
ModifyResponse(in) ==
    LET resp == Answer(in.status, IF in.body = "list" THEN in.data ELSE <<>>)
    IN  IF ~AuthorizeRequest(in.auth) THEN Answer(401, <<>>)
        ELSE IF in.presets /\ in.body = "unreadable" /\ in.status = 200
             THEN Answer(502, <<>>)
             ELSE AccessProviderMiddleware(
                    IF in.presets THEN ModifyEffortModelsResponse(resp, in) ELSE resp, in)

=============================================================================
