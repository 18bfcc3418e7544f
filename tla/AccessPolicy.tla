---------------------------- MODULE AccessPolicy ----------------------------
(***************************************************************************)
(* The restrictions of one api key on their way from its row to the choice *)
(* of a credential.  Every request of the key authenticates: it reads the  *)
(* row, looks up the fingerprints of the restricted providers at most once *)
(* per TTL, and stores the restrictions as the policy of the key's scope.  *)
(* The selector then picks among the candidates with whatever policy is    *)
(* stored.  Keys and provider rows are edited meanwhile, and a restart     *)
(* begins with an empty store.                                             *)
(*                                                                         *)
(* A provider with an API key is known to the selector by the key and base *)
(* URL of its candidate only, one that logged in by its id; its secret is  *)
(* NoSecret.  The candidate follows the row when the row is registered.    *)
(* The providers of a vendor with one shared entry (kimi, cline, opencode) *)
(* get the base URL of the entry, which is that of the first of them.      *)
(* Keys do not share policies; fingerprints are shared, so that requests   *)
(* of one key stand for those of all.  Matching by name is in              *)
(* ModelCatalog.                                                           *)
(***************************************************************************)
EXTENDS Integers

CONSTANTS
    Provider,   \* the providers, each a candidate of the selector
    Shared,     \* those of one vendor with a shared entry
    Key,        \* API keys
    Url,        \* base URLs
    NoSecret,   \* "oauth:..." of the providers that logged in
    NoUrl,      \* there is no shared entry
    Client,     \* requests in progress
    MaxInput    \* bound: requests, edits of rows, restarts

Secrets == Key \X Url

ASSUME PolicyAssumption ==
    /\ Shared \subseteq Provider /\ NoSecret \notin Secrets /\ NoUrl \notin Url
    /\ MaxInput \in Nat

VARIABLES
    row,        \* the key's row: restricted providers, and the number of the edit
    secret,     \* secret[p]: key and base URL of p in the providers table
    cand,       \* cand[p]: those of its candidate in the proxy
    base,       \* the base URL of the shared entry
    stale,      \* history: providers whose row changed since it was registered
    policy,     \* the stored policy; without restrictions none is stored
    fp,         \* providerFingerprints: NoSecret where there is none
    fresh,      \* providers with a resolvedAt younger than the TTL
    req,        \* req[c]: the request client c is in
    lapsed,     \* history: secret changed, or lookup failed, since the last lookup began
    crossed,    \* history: requests that began while one that had read older
                \* restrictions had not stored them yet
    inputs

candVars == <<cand, base, stale>>
vars == <<row, secret, candVars, policy, fp, fresh, req, lapsed, crossed, inputs>>

Idle == [pc |-> "idle"]
Input == inputs < MaxInput /\ inputs' = inputs + 1
Goto(c, r) == req' = [req EXCEPT ![c] = r]
Restrictions == [ver : 0..MaxInput, to : SUBSET Provider]

----------------------------------------------------------------------------
(* Candidates, as AddProviderConfig makes them. *)

HasKey(p) == secret[p] # NoSecret

\* The candidate of p in a configuration whose shared entry has the URL b.
Carried(p, b) ==
    IF p \in Shared /\ HasKey(p) THEN <<secret[p][1], b>> ELSE secret[p]

\* The shared entry of a fresh configuration: GetProviders has no order.
FirstUrl ==
    IF \E p \in Shared : HasKey(p) THEN {secret[p][2] : p \in {q \in Shared : HasKey(q)}}
    ELSE {NoUrl}

Init ==
    /\ row \in [ver : {0}, to : SUBSET Provider]
    /\ secret \in [Provider -> Secrets \cup {NoSecret}]
    /\ base \in FirstUrl /\ cand = [p \in Provider |-> Carried(p, base)] /\ stale = {}
    /\ policy = [ver |-> 0, to |-> {}]
    /\ fp = [p \in Provider |-> NoSecret] /\ fresh = {}
    /\ req = [c \in Client |-> Idle] /\ lapsed = {} /\ crossed = {} /\ inputs = 0

----------------------------------------------------------------------------
(* The environment. *)

EditKey ==
    /\ Input
    /\ \E R \in SUBSET Provider : row' = [ver |-> row.ver + 1, to |-> R]
    /\ UNCHANGED <<secret, candVars, policy, fp, fresh, req, lapsed, crossed>>

\* UpdateProvider, up to its row ...
ChangeSecret(p) ==
    /\ Input
    /\ \E s \in (Secrets \cup {NoSecret}) \ {secret[p]} : secret' = [secret EXCEPT ![p] = s]
    /\ lapsed' = lapsed \cup {p} /\ stale' = stale \cup {p}
    /\ UNCHANGED <<row, cand, base, policy, fp, fresh, req, crossed>>

\* ... and its entry: the first of a vendor makes the shared one.
Register(p) ==
    /\ p \in stale
    /\ base' = IF p \in Shared /\ HasKey(p) /\ base = NoUrl THEN secret[p][2] ELSE base
    /\ cand' = [cand EXCEPT ![p] = Carried(p, base')]
    /\ stale' = stale \ {p}
    /\ UNCHANGED <<row, secret, policy, fp, fresh, req, lapsed, crossed, inputs>>

TTLPasses(p) ==
    /\ p \in fresh
    /\ fresh' = fresh \ {p}
    /\ UNCHANGED <<row, secret, candVars, policy, fp, req, lapsed, crossed, inputs>>

\* A new store, and candidates from the rows there are; the requests of the old
\* service end with it.
Rebuild ==
    /\ Input
    /\ base' \in FirstUrl /\ cand' = [p \in Provider |-> Carried(p, base')] /\ stale' = {}
    /\ policy' = [ver |-> 0, to |-> {}]
    /\ fp' = [p \in Provider |-> NoSecret] /\ fresh' = {}
    /\ req' = [c \in Client |-> Idle] /\ lapsed' = {} /\ crossed' = {}
    /\ UNCHANGED <<row, secret>>

----------------------------------------------------------------------------
(* Authenticate, with Set and resolveProviderFingerprints. *)

\* A request that has read the row and not stored its restrictions yet.
Storing(c) == req[c].pc \in {"resolve", "query", "store"}

Authenticate(c) ==
    /\ req[c] = Idle /\ Input
    /\ Goto(c, [pc |-> "resolve", ver |-> row.ver, to |-> row.to, todo |-> row.to])
    /\ crossed' = IF \E d \in Client : Storing(d) /\ req[d].ver < row.ver
                  THEN crossed \cup {c} ELSE crossed \ {c}
    /\ UNCHANGED <<row, secret, candVars, policy, fp, fresh, lapsed>>

Looking(p) == \E c \in Client : req[c].pc \in {"query", "store"} /\ req[c].p = p

\* Mutant: the time of a lookup counts for all providers.
ResolveOnce(c, p) ==
    /\ req[c].pc = "resolve" /\ p \in req[c].todo
    /\ IF fresh # {}
       THEN /\ Goto(c, [pc |-> "resolve", ver |-> req[c].ver, to |-> req[c].to,
                        todo |-> req[c].todo \ {p}])
            /\ UNCHANGED <<fresh, lapsed>>
       ELSE /\ fresh' = fresh \cup {p}
            /\ lapsed' = IF Looking(p) THEN lapsed ELSE lapsed \ {p}
            /\ Goto(c, [pc |-> "query", ver |-> req[c].ver, to |-> req[c].to,
                        todo |-> req[c].todo \ {p}, p |-> p])
    /\ UNCHANGED <<row, secret, candVars, policy, fp, crossed, inputs>>

\* A provider looked up within the TTL is skipped; resolvedAt of another is
\* stored before its query.
Resolve(c, p) ==
    /\ req[c].pc = "resolve" /\ p \in req[c].todo
    /\ IF p \in fresh
       THEN /\ Goto(c, [pc |-> "resolve", ver |-> req[c].ver, to |-> req[c].to,
                        todo |-> req[c].todo \ {p}])
            /\ UNCHANGED <<fresh, lapsed>>
       ELSE /\ fresh' = fresh \cup {p}
            /\ lapsed' = IF Looking(p) THEN lapsed ELSE lapsed \ {p}
            /\ Goto(c, [pc |-> "query", ver |-> req[c].ver, to |-> req[c].to,
                        todo |-> req[c].todo \ {p}, p |-> p])
    /\ UNCHANGED <<row, secret, candVars, policy, fp, crossed, inputs>>

\* GetProvider; a failing query leaves nothing to store.
Query(c) ==
    /\ req[c].pc = "query"
    /\ \/ /\ Goto(c, [pc |-> "store", ver |-> req[c].ver, to |-> req[c].to,
                      todo |-> req[c].todo, p |-> req[c].p, s |-> secret[req[c].p]])
          /\ UNCHANGED lapsed
       \/ /\ Goto(c, [pc |-> "store", ver |-> req[c].ver, to |-> req[c].to,
                      todo |-> req[c].todo, p |-> req[c].p, s |-> NoSecret])
          /\ lapsed' = lapsed \cup {req[c].p}
    /\ UNCHANGED <<row, secret, candVars, policy, fp, fresh, crossed, inputs>>

StoreFingerprint(c) ==
    /\ req[c].pc = "store"
    /\ fp' = [fp EXCEPT ![req[c].p] = req[c].s]
    /\ Goto(c, [pc |-> "resolve", ver |-> req[c].ver, to |-> req[c].to,
                todo |-> req[c].todo])
    /\ UNCHANGED <<row, secret, candVars, policy, fresh, lapsed, crossed, inputs>>

\* Mutant: without restrictions the stored policy is left alone.
SetNonEmpty(c) ==
    /\ req[c].pc = "resolve" /\ req[c].todo = {}
    /\ policy' = IF req[c].to = {} THEN policy ELSE [ver |-> req[c].ver, to |-> req[c].to]
    /\ Goto(c, [pc |-> "pick", ver |-> req[c].ver, to |-> req[c].to])
    /\ UNCHANGED <<row, secret, candVars, fp, fresh, lapsed, crossed, inputs>>

\* The policy of the scope is stored, or deleted.
Set(c) ==
    /\ req[c].pc = "resolve" /\ req[c].todo = {}
    /\ policy' = [ver |-> req[c].ver, to |-> req[c].to]
    /\ Goto(c, [pc |-> "pick", ver |-> req[c].ver, to |-> req[c].to])
    /\ UNCHANGED <<row, secret, candVars, fp, fresh, lapsed, crossed, inputs>>

----------------------------------------------------------------------------
(* The selector. *)

\* Mutant: fingerprints of all providers are compared, restricted or not.
ProviderRestrictedByAny(p) ==
    \/ cand[p] = NoSecret /\ p \in policy.to
    \/ cand[p] # NoSecret /\ \E q \in Provider : fp[q] = cand[p]

\* By the id of the candidate, or by the fingerprint of its key and base URL.
ProviderRestricted(p) ==
    \/ cand[p] = NoSecret /\ p \in policy.to
    \/ cand[p] # NoSecret /\ \E q \in policy.to : fp[q] = cand[p]

Allowed == {p \in Provider : ~ProviderRestricted(p)}

\* The request gets one of the allowed candidates, or the answer 403.
Pick(c) ==
    /\ req[c].pc = "pick"
    /\ Goto(c, Idle)
    /\ UNCHANGED <<row, secret, candVars, policy, fp, fresh, lapsed, crossed, inputs>>

----------------------------------------------------------------------------
Next ==
    \/ EditKey \/ Rebuild
    \/ \E p \in Provider : ChangeSecret(p) \/ Register(p) \/ TTLPasses(p)
    \/ \E c \in Client :
          \/ Authenticate(c) \/ Query(c) \/ StoreFingerprint(c) \/ Set(c) \/ Pick(c)
          \/ \E p \in Provider : Resolve(c, p)

Spec == Init /\ [][Next]_vars

----------------------------------------------------------------------------
TypeOK ==
    /\ row \in Restrictions /\ policy \in Restrictions
    /\ secret \in [Provider -> Secrets \cup {NoSecret}]
    /\ cand \in [Provider -> Secrets \cup {NoSecret}] /\ base \in Url \cup {NoUrl}
    /\ fp \in [Provider -> Secrets \cup {NoSecret}]
    /\ fresh \subseteq Provider /\ lapsed \subseteq Provider /\ stale \subseteq Provider
    /\ \A c \in Client : req[c] # Idle /\ req[c].pc # "pick" => req[c].todo \subseteq req[c].to

Picking(c) == req[c].pc = "pick"

\* A request is never served under restrictions older than those it has itself
\* authenticated with, whatever is edited and whichever requests store after
\* it, unless a request that had read older ones was still to store them when
\* it began (access_policy.go Set, Pick).
PolicyNotOlder ==
    /\ TypeOK
    /\ \A c \in Client \ crossed : Picking(c) => policy.ver >= req[c].ver

\* The shared entry has another base URL than the row of p.
Misplaced(p) == p \in Shared /\ secret[p][2] # base

\* A restricted provider is not among the candidates of a request: one that
\* logged in never is, one with an API key unless its row changed or the query
\* failed since its last lookup, a lookup has yet to end, or the row is not
\* registered yet.  The TTL takes nothing away from it
\* (resolveProviderFingerprints, providerRestricted).  The restriction of a
\* provider in a shared entry that another provider gave its base URL never
\* takes effect: its candidate's fingerprint is not that of its row.
RestrictionTakesEffect ==
    (\E c \in Client : Picking(c) /\ policy = [ver |-> req[c].ver, to |-> req[c].to]) =>
        \A p \in policy.to \cap Allowed :
            /\ cand[p] # NoSecret
            /\ p \in lapsed \cup stale \/ Looking(p) \/ Misplaced(p)

\* A provider that is not restricted stays usable, whatever was restricted
\* before: only a restricted provider whose row has the key and base URL of its
\* candidate takes it along, or one whose fingerprint is out of date
\* (providerRestricted).
OthersStayUsable ==
    \A p \in Provider \ (policy.to \cup Allowed) :
        \E q \in policy.to : secret[q] = cand[p] \/ q \in lapsed \/ Looking(q)

=============================================================================
