---------------------------- MODULE RequestProofs ----------------------------
(***************************************************************************)
(* What a request of a client meets: the policy of its key (AccessPolicy), *)
(* for any number of providers, secrets and requests, and the stream of    *)
(* the Cursor bridge that answers it (CursorStream), for any number of     *)
(* frames.                                                                 *)
(*                                                                         *)
(* AccessPolicy.  The properties speak of requests that pick.  What makes  *)
(* them inductive is what holds of a request on its way there: none that   *)
(* is about to store its restrictions has older ones, unless it crossed,   *)
(* and every restricted provider it has dealt with is Known, that is, its  *)
(* fingerprint is that of its secret, or the secret changed, or somebody   *)
(* is looking it up.  A candidate is what its registered row makes of it.  *)
(*                                                                         *)
(* CursorStream.  A failure shows in the status as long as nothing has     *)
(* been streamed, and among the events after that.  The text is followed   *)
(* where it is collected, with the tagger's state as the one fact that     *)
(* says whether it is in a block.                                          *)
(*                                                                         *)
(* Computations.  What the code computes from an input is a loop over a    *)
(* list of any length: the facts about it go by induction on the length,   *)
(* through the least element of the set of those for which they fail.      *)
(***************************************************************************)
EXTENDS AccessPolicy, CursorStream, Computations, TLAPS, SequenceTheorems, WellFoundedInduction,
        FiniteSetTheorems

ReqType ==
    {Idle}
    \cup [pc : {"resolve"}, ver : 0..MaxInput, to : SUBSET Provider, todo : SUBSET Provider]
    \cup [pc : {"query"}, ver : 0..MaxInput, to : SUBSET Provider, todo : SUBSET Provider,
          p : Provider]
    \cup [pc : {"store"}, ver : 0..MaxInput, to : SUBSET Provider, todo : SUBSET Provider,
          p : Provider, s : Secrets \cup {NoSecret}]
    \cup [pc : {"pick"}, ver : 0..MaxInput, to : SUBSET Provider]

\* Types, with what bounds the version of the row.
Typed ==
    /\ TypeOK
    /\ req \in [Client -> ReqType] /\ crossed \subseteq Client
    /\ inputs \in 0..MaxInput /\ row.ver <= inputs

\* What is stored, and what is still to be stored, is not older than what a
\* request that did not cross has read.
NotOlder ==
    /\ \A c \in Client : req[c].pc # "idle" => req[c].ver <= row.ver
    /\ \A c \in Client \ crossed :
          req[c].pc # "idle" =>
              /\ \A d \in Client : Storing(d) => req[c].ver <= req[d].ver
              /\ Picking(c) => req[c].ver <= policy.ver

\* The candidate of a registered row.
Placed ==
    \A p \in Provider \ stale :
        cand[p] = Carried(p, base) /\ (p \in Shared /\ HasKey(p) => base # NoUrl)

Known(p) == p \in lapsed \/ Looking(p) \/ fp[p] = secret[p]
Done(c, p) ==
    /\ req[c].pc # "idle" /\ p \in req[c].to
    /\ req[c].pc = "pick" \/ p \notin req[c].todo

\* A secret that is about to be stored is the provider's.
StoresCurrent ==
    \A c \in Client : req[c].pc = "store" /\ req[c].p \notin lapsed
                      => req[c].s = secret[req[c].p]

\* Whatever was looked up is Known.
LookedUpIsKnown ==
    \A p \in Provider :
        fp[p] # NoSecret \/ p \in fresh \/ (\E c \in Client : Done(c, p)) => Known(p)

PolicyInv == Typed /\ NotOlder /\ Placed /\ StoresCurrent /\ LookedUpIsKnown

----------------------------------------------------------------------------
(* Requests. *)

\* What a request holds at each of its points (the locals of Authenticate, Set
\* and resolveProviderFingerprints).
LEMMA ReqShape ==
    ASSUME NEW r \in ReqType
    PROVE  /\ r.pc \in {"idle", "resolve", "query", "store", "pick"}
           /\ r.pc = "idle" <=> r = Idle
           /\ r.pc # "idle" => r.ver \in 0..MaxInput /\ r.to \in SUBSET Provider
           /\ r.pc \in {"resolve", "query", "store"} => r.todo \in SUBSET Provider
           /\ r.pc \in {"query", "store"} => r.p \in Provider
           /\ r.pc = "store" => r.s \in Secrets \cup {NoSecret}
BY SMT DEF ReqType, Idle

\* A fresh configuration: the candidates follow from the rows.
LEMMA FreshCandidates ==
    ASSUME secret \in [Provider -> Secrets \cup {NoSecret}], NEW b \in FirstUrl
    PROVE  /\ b \in Url \cup {NoUrl}
           /\ \A p \in Provider : Carried(p, b) \in Secrets \cup {NoSecret}
           /\ \A p \in Provider : p \in Shared /\ HasKey(p) => b # NoUrl
<1>1. \A p \in Provider : HasKey(p) => secret[p] \in Key \X Url
  BY DEF HasKey, Secrets
<1>2. (\E p \in Shared : HasKey(p)) => b \in Url
  BY <1>1, PolicyAssumption DEF FirstUrl
<1>3. b \in Url \cup {NoUrl}
  BY <1>2 DEF FirstUrl
<1>4. ASSUME NEW p \in Provider PROVE Carried(p, b) \in Secrets \cup {NoSecret}
  BY <1>1, <1>2 DEF Carried, Secrets
<1> QED
  BY <1>2, <1>3, <1>4, PolicyAssumption

\* The invariant holds before any request.
LEMMA InitInv == Init => PolicyInv
<1> SUFFICES ASSUME Init PROVE PolicyInv
  OBVIOUS
<1>1. /\ base \in Url \cup {NoUrl}
      /\ \A p \in Provider : Carried(p, base) \in Secrets \cup {NoSecret}
      /\ \A p \in Provider : p \in Shared /\ HasKey(p) => base # NoUrl
  BY FreshCandidates DEF Init
<1>2. \A c \in Client : req[c].pc = "idle"
  BY DEF Init, Idle
<1>3. Typed
  BY <1>1, PolicyAssumption DEF Init, Typed, TypeOK, Restrictions, ReqType, Idle
<1>4. NotOlder /\ StoresCurrent /\ LookedUpIsKnown
  BY <1>2 DEF Init, NotOlder, Picking, StoresCurrent, LookedUpIsKnown, Done
<1>5. Placed
  BY <1>1 DEF Init, Placed
<1> QED
  BY <1>3, <1>4, <1>5 DEF PolicyInv

----------------------------------------------------------------------------
(* Types and versions. *)

\* Registering a row gives its provider a candidate.
LEMMA RegisterTypes ==
    ASSUME Typed, NEW p \in Provider, Register(p)
    PROVE  /\ base' \in Url \cup {NoUrl} /\ Carried(p, base') \in Secrets \cup {NoSecret}
           /\ p \in Shared /\ HasKey(p) => base' # NoUrl
           /\ base # NoUrl => base' = base
<1>1. HasKey(p) => secret[p] \in Key \X Url /\ secret[p][2] \in Url
  BY DEF HasKey, Secrets, Typed, TypeOK
<1>2. base \in Url \cup {NoUrl} /\ secret[p] \in Secrets \cup {NoSecret}
  BY DEF Typed, TypeOK
<1>3. base' \in Url \cup {NoUrl} /\ (p \in Shared /\ HasKey(p) => base' \in Url)
      /\ (base # NoUrl => base' = base)
  BY <1>1, <1>2 DEF Register
<1>4. Carried(p, base') \in Secrets \cup {NoSecret}
  BY <1>1, <1>2, <1>3 DEF Carried, Secrets
<1> QED
  BY <1>3, <1>4, PolicyAssumption

\* Every step keeps the types; EditKey counts its edits, so that versions stay
\* within the bound.
LEMMA TypedStep == PolicyInv /\ [Next]_vars => Typed'
<1> SUFFICES ASSUME Typed, [Next]_vars PROVE Typed'
  BY DEF PolicyInv
<1> USE PolicyAssumption
<1>1. CASE EditKey
  BY <1>1 DEF EditKey, Input, Typed, TypeOK, Restrictions, candVars
<1>2. CASE Rebuild
  <2>1. base' \in Url \cup {NoUrl} /\ \A p \in Provider : Carried(p, base') \in Secrets \cup {NoSecret}
    BY <1>2, FreshCandidates DEF Rebuild, Typed, TypeOK
  <2> QED
    BY <1>2, <2>1 DEF Rebuild, Input, Typed, TypeOK, Restrictions, ReqType, Idle
<1>3. ASSUME NEW p \in Provider, ChangeSecret(p) PROVE Typed'
  BY <1>3 DEF ChangeSecret, Input, Typed, TypeOK, Restrictions
<1>4. ASSUME NEW p \in Provider, TTLPasses(p) PROVE Typed'
  BY <1>4 DEF TTLPasses, Typed, TypeOK, candVars
<1>5. ASSUME NEW c \in Client, Authenticate(c) PROVE Typed'
  BY <1>5 DEF Authenticate, Goto, Input, Typed, TypeOK, Restrictions, ReqType, Idle, candVars
<1>6. ASSUME NEW c \in Client, NEW p \in Provider, Resolve(c, p) PROVE Typed'
  BY <1>6, ReqShape DEF Resolve, Goto, Typed, TypeOK, ReqType, Idle, candVars
<1>7. ASSUME NEW c \in Client, Query(c) PROVE Typed'
  BY <1>7, ReqShape DEF Query, Goto, Typed, TypeOK, ReqType, Idle, candVars
<1>8. ASSUME NEW c \in Client, StoreFingerprint(c) PROVE Typed'
  BY <1>8, ReqShape DEF StoreFingerprint, Goto, Typed, TypeOK, ReqType, Idle, candVars
<1>9. ASSUME NEW c \in Client, Set(c) PROVE Typed'
  BY <1>9, ReqShape DEF Set, Goto, Typed, TypeOK, Restrictions, ReqType, Idle, candVars
<1>10. ASSUME NEW c \in Client, Pick(c) PROVE Typed'
  BY <1>10 DEF Pick, Goto, Typed, TypeOK, ReqType, Idle, candVars
<1>11. ASSUME NEW p \in Provider, Register(p) PROVE Typed'
  BY <1>11, RegisterTypes DEF Register, Typed, TypeOK
<1>12. CASE UNCHANGED vars
  BY <1>12 DEF vars, Typed, TypeOK, candVars
<1> QED
  BY <1>1, <1>2, <1>3, <1>4, <1>5, <1>6, <1>7, <1>8, <1>9, <1>10, <1>11, <1>12 DEF Next

\* A request that begins while an older one is to store counts as crossed; what
\* the others store is not older than what it has read, as versions only grow.
LEMMA NotOlderStep == PolicyInv /\ [Next]_vars => NotOlder'
<1> SUFFICES ASSUME Typed, NotOlder, [Next]_vars PROVE NotOlder'
  BY DEF PolicyInv
<1> USE DEF NotOlder, Picking, Storing
<1>0. /\ row.ver \in Nat /\ policy.ver \in Nat
      /\ \A c \in Client : req[c].pc # "idle" => req[c].ver \in Nat
  BY ReqShape, PolicyAssumption DEF Typed, TypeOK, Restrictions
<1>1. CASE EditKey
  BY <1>0, <1>1 DEF EditKey
<1>2. CASE Rebuild
  BY <1>2 DEF Rebuild, Idle
<1>3. ASSUME NEW p \in Provider, ChangeSecret(p) \/ Register(p) \/ TTLPasses(p) PROVE NotOlder'
  BY <1>3 DEF ChangeSecret, Register, TTLPasses
<1>4. ASSUME NEW c \in Client, Authenticate(c) PROVE NotOlder'
  <2>1. /\ req'[c].pc = "resolve" /\ req'[c].ver = row.ver /\ row' = row /\ policy' = policy
        /\ \A d \in Client \ {c} : req'[d] = req[d]
        /\ req[c].pc = "idle"
    BY <1>4 DEF Authenticate, Goto, Typed, Idle
  <2>2. c \notin crossed' => \A d \in Client : Storing(d) => ~(req[d].ver < row.ver)
    BY <1>4 DEF Authenticate
  <2>3. \A d \in Client \ {c} : d \notin crossed' => d \notin crossed
    BY <1>4 DEF Authenticate
  <2> QED
    BY <1>0, <2>1, <2>2, <2>3
<1>5. ASSUME NEW c \in Client, NEW p \in Provider, Resolve(c, p) PROVE NotOlder'
  <2>1. /\ req'[c].pc \in {"resolve", "query"} /\ req[c].pc = "resolve"
        /\ req'[c].ver = req[c].ver /\ \A d \in Client \ {c} : req'[d] = req[d]
    BY <1>5, ReqShape DEF Resolve, Goto, Typed
  <2>2. row' = row /\ policy' = policy /\ crossed' = crossed
    BY <1>5 DEF Resolve
  <2> QED
    BY <2>1, <2>2
<1>6. ASSUME NEW c \in Client, Query(c) PROVE NotOlder'
  <2>1. /\ req'[c].pc = "store" /\ req[c].pc = "query"
        /\ req'[c].ver = req[c].ver /\ \A d \in Client \ {c} : req'[d] = req[d]
    BY <1>6, ReqShape DEF Query, Goto, Typed
  <2>2. row' = row /\ policy' = policy /\ crossed' = crossed
    BY <1>6 DEF Query
  <2> QED
    BY <2>1, <2>2
<1>7. ASSUME NEW c \in Client, StoreFingerprint(c) PROVE NotOlder'
  <2>1. /\ req'[c].pc = "resolve" /\ req[c].pc = "store"
        /\ req'[c].ver = req[c].ver /\ \A d \in Client \ {c} : req'[d] = req[d]
    BY <1>7, ReqShape DEF StoreFingerprint, Goto, Typed
  <2>2. row' = row /\ policy' = policy /\ crossed' = crossed
    BY <1>7 DEF StoreFingerprint
  <2> QED
    BY <2>1, <2>2
<1>8. ASSUME NEW c \in Client, Set(c) PROVE NotOlder'
  <2>1. /\ req'[c].pc = "pick" /\ req[c].pc = "resolve" /\ req'[c].ver = req[c].ver
        /\ \A d \in Client \ {c} : req'[d] = req[d]
    BY <1>8 DEF Set, Goto, Typed
  <2>2. row' = row /\ policy'.ver = req[c].ver /\ crossed' = crossed
    BY <1>8 DEF Set
  <2>3. \A d \in Client \ crossed : req[d].pc # "idle" => req[d].ver <= req[c].ver
    BY <2>1
  <2> QED
    BY <1>0, <2>1, <2>2, <2>3
<1>9. ASSUME NEW c \in Client, Pick(c) PROVE NotOlder'
  <2>1. req'[c].pc = "idle" /\ \A d \in Client \ {c} : req'[d] = req[d]
    BY <1>9 DEF Pick, Goto, Idle, Typed
  <2>2. row' = row /\ policy' = policy /\ crossed' = crossed
    BY <1>9 DEF Pick
  <2> QED
    BY <2>1, <2>2
<1>10. CASE UNCHANGED vars
  BY <1>10 DEF vars
<1> QED
  BY <1>1, <1>2, <1>3, <1>4, <1>5, <1>6, <1>7, <1>8, <1>9, <1>10 DEF Next

\* Only an edit of a row parts it from its candidate, and the shared entry
\* keeps its base URL once it has one.
LEMMA PlacedStep == PolicyInv /\ [Next]_vars => Placed'
<1> SUFFICES ASSUME Typed, Placed, [Next]_vars PROVE Placed'
  BY DEF PolicyInv
<1>1. CASE Rebuild
  <2>1. \A p \in Provider : p \in Shared /\ HasKey(p) => base' # NoUrl
    BY <1>1, FreshCandidates DEF Rebuild, Typed, TypeOK
  <2> QED
    BY <1>1, <2>1 DEF Rebuild, Placed, Carried, HasKey
<1>2. ASSUME NEW p \in Provider, ChangeSecret(p) PROVE Placed'
  <2>1. \A q \in Provider \ {p} : secret'[q] = secret[q]
    BY <1>2 DEF ChangeSecret, Typed, TypeOK
  <2> QED
    BY <1>2, <2>1 DEF ChangeSecret, Placed, Carried, HasKey
<1>3. ASSUME NEW p \in Provider, Register(p) PROVE Placed'
  <2>1. /\ p \in Shared /\ HasKey(p) => base' # NoUrl
        /\ base # NoUrl => base' = base
    BY <1>3, RegisterTypes
  <2>2. cand'[p] = Carried(p, base') /\ \A q \in Provider \ {p} : cand'[q] = cand[q]
    BY <1>3 DEF Register, Typed, TypeOK
  <2>3. secret' = secret /\ stale' = stale \ {p}
    BY <1>3 DEF Register
  <2> QED
    BY <2>1, <2>2, <2>3 DEF Placed, Carried, HasKey
<1>4. CASE UNCHANGED <<secret, candVars>>
  BY <1>4 DEF candVars, Placed, Carried, HasKey
<1>5. CASE EditKey
  BY <1>4, <1>5 DEF EditKey
<1>6. ASSUME NEW p \in Provider, TTLPasses(p) PROVE Placed'
  BY <1>4, <1>6 DEF TTLPasses
<1>7. ASSUME NEW c \in Client,
             \/ Authenticate(c) \/ Query(c) \/ StoreFingerprint(c) \/ Set(c) \/ Pick(c)
             \/ \E p \in Provider : Resolve(c, p)
      PROVE  Placed'
  BY <1>4, <1>7 DEF Authenticate, Query, StoreFingerprint, Set, Pick, Resolve
<1>8. CASE UNCHANGED vars
  BY <1>4, <1>8 DEF vars
<1> QED
  BY <1>1, <1>2, <1>3, <1>5, <1>6, <1>7, <1>8 DEF Next

----------------------------------------------------------------------------
(* Fingerprints. *)

\* A changed secret, and a query that fails, count as lapsed, and they do so
\* until a lookup begins that has no other beside it.
LEMMA StoresCurrentStep == PolicyInv /\ [Next]_vars => StoresCurrent'
<1> SUFFICES ASSUME Typed, StoresCurrent, [Next]_vars PROVE StoresCurrent'
  BY DEF PolicyInv
<1> USE DEF StoresCurrent
<1>1. CASE EditKey
  BY <1>1 DEF EditKey
<1>2. CASE Rebuild
  BY <1>2 DEF Rebuild, Idle
<1>3. ASSUME NEW p \in Provider, ChangeSecret(p) PROVE StoresCurrent'
  BY <1>3, ReqShape DEF ChangeSecret, Typed, TypeOK
<1>4. ASSUME NEW p \in Provider, TTLPasses(p) \/ Register(p) PROVE StoresCurrent'
  BY <1>4 DEF TTLPasses, Register
<1>5. ASSUME NEW c \in Client, Authenticate(c) PROVE StoresCurrent'
  BY <1>5 DEF Authenticate, Goto, Typed
<1>6. ASSUME NEW c \in Client, NEW p \in Provider, Resolve(c, p) PROVE StoresCurrent'
  <2>1. req'[c].pc # "store" /\ \A d \in Client \ {c} : req'[d] = req[d]
    BY <1>6, ReqShape DEF Resolve, Goto, Typed
  <2>2. \A d \in Client : req[d].pc = "store" /\ req[d].p \notin lapsed' => req[d].p \notin lapsed
    BY <1>6 DEF Resolve, Looking
  <2> QED
    BY <2>1, <2>2, <1>6 DEF Resolve
<1>7. ASSUME NEW c \in Client, Query(c) PROVE StoresCurrent'
  BY <1>7 DEF Query, Goto, Typed
<1>8. ASSUME NEW c \in Client, StoreFingerprint(c) PROVE StoresCurrent'
  BY <1>8 DEF StoreFingerprint, Goto, Typed
<1>9. ASSUME NEW c \in Client, Set(c) PROVE StoresCurrent'
  BY <1>9 DEF Set, Goto, Typed
<1>10. ASSUME NEW c \in Client, Pick(c) PROVE StoresCurrent'
  BY <1>10 DEF Pick, Goto, Idle, Typed
<1>11. CASE UNCHANGED vars
  BY <1>11 DEF vars
<1> QED
  BY <1>1, <1>2, <1>3, <1>4, <1>5, <1>6, <1>7, <1>8, <1>9, <1>10, <1>11 DEF Next

\* A lookup makes its provider Known while it lasts, and leaves the current
\* fingerprint behind unless something lapsed meanwhile.
LEMMA LookedUpStep == PolicyInv /\ [Next]_vars => LookedUpIsKnown'
<1> SUFFICES ASSUME Typed, StoresCurrent, LookedUpIsKnown, [Next]_vars
             PROVE  LookedUpIsKnown'
  BY DEF PolicyInv
<1>1. CASE EditKey
  BY <1>1 DEF EditKey, LookedUpIsKnown, Done, Known, Looking
<1>2. CASE Rebuild
  BY <1>2 DEF Rebuild, Idle, LookedUpIsKnown, Done
<1>3. ASSUME NEW p \in Provider, ChangeSecret(p) PROVE LookedUpIsKnown'
  BY <1>3 DEF ChangeSecret, LookedUpIsKnown, Done, Known, Looking, Typed, TypeOK
<1>4. ASSUME NEW p \in Provider, TTLPasses(p) \/ Register(p) PROVE LookedUpIsKnown'
  BY <1>4 DEF TTLPasses, Register, LookedUpIsKnown, Done, Known, Looking
<1>5. ASSUME NEW c \in Client, Authenticate(c) PROVE LookedUpIsKnown'
  <2>1. /\ \A d \in Client \ {c} : req'[d] = req[d]
        /\ req[c].pc = "idle" /\ req'[c].pc = "resolve" /\ req'[c].todo = req'[c].to
    BY <1>5 DEF Authenticate, Goto, Idle, Typed
  <2> QED
    BY <1>5, <2>1 DEF Authenticate, LookedUpIsKnown, Done, Known, Looking
<1>6. ASSUME NEW c \in Client, NEW p \in Provider, Resolve(c, p) PROVE LookedUpIsKnown'
  <2> DEFINE Others == \A d \in Client \ {c} : req'[d] = req[d]
  <2>1. CASE p \in fresh
    <3>1. Others /\ req[c].pc = "resolve" /\ req'[c].pc = "resolve"
          /\ req'[c].to = req[c].to /\ req'[c].todo = req[c].todo \ {p}
      BY <1>6, <2>1 DEF Resolve, Goto, Typed
    <3>2. UNCHANGED <<secret, fp, fresh, lapsed>>
      BY <1>6, <2>1 DEF Resolve
    <3>3. \A q \in Provider : Known(q) => Known(q)'
      BY <3>1, <3>2 DEF Known, Looking
    <3>4. \A q \in Provider \ {p} : \A d \in Client : Done(d, q)' => Done(d, q)
      BY <3>1 DEF Done
    <3> QED
      BY <2>1, <3>2, <3>3, <3>4 DEF LookedUpIsKnown
  <2>2. CASE p \notin fresh
    <3>1. Others /\ req[c].pc = "resolve" /\ req'[c].pc = "query" /\ req'[c].p = p
          /\ req'[c].to = req[c].to /\ req'[c].todo = req[c].todo \ {p}
      BY <1>6, <2>2 DEF Resolve, Goto, Typed
    <3>2. UNCHANGED <<secret, fp>> /\ fresh' = fresh \cup {p} /\ lapsed \ {p} \subseteq lapsed'
      BY <1>6, <2>2 DEF Resolve
    <3>3. Known(p)'
      BY <3>1 DEF Known, Looking
    <3>4. \A q \in Provider \ {p} : Known(q) => Known(q)'
      BY <3>1, <3>2 DEF Known, Looking
    <3>5. \A q \in Provider \ {p} : \A d \in Client : Done(d, q)' => Done(d, q)
      BY <3>1 DEF Done
    <3> QED
      BY <3>2, <3>3, <3>4, <3>5 DEF LookedUpIsKnown
  <2> QED
    BY <2>1, <2>2
<1>7. ASSUME NEW c \in Client, Query(c) PROVE LookedUpIsKnown'
  <2>1. /\ \A d \in Client \ {c} : req'[d] = req[d]
        /\ req[c].pc = "query" /\ req'[c].pc = "store" /\ req'[c].p = req[c].p
        /\ req'[c].to = req[c].to /\ req'[c].todo = req[c].todo
    BY <1>7 DEF Query, Goto, Typed
  <2>2. UNCHANGED <<secret, fp, fresh>> /\ lapsed \subseteq lapsed'
    BY <1>7 DEF Query
  <2>3. \A q \in Provider : Known(q) => Known(q)'
    BY <2>1, <2>2 DEF Known, Looking
  <2>4. \A q \in Provider : \A d \in Client : Done(d, q)' => Done(d, q)
    BY <2>1 DEF Done
  <2> QED
    BY <2>2, <2>3, <2>4 DEF LookedUpIsKnown
<1>8. ASSUME NEW c \in Client, StoreFingerprint(c) PROVE LookedUpIsKnown'
  <2>0. PICK p \in Provider : p = req[c].p
    BY <1>8, ReqShape DEF StoreFingerprint, Typed
  <2>1. /\ \A d \in Client \ {c} : req'[d] = req[d]
        /\ req[c].pc = "store" /\ req'[c].pc = "resolve"
        /\ req'[c].to = req[c].to /\ req'[c].todo = req[c].todo
    BY <1>8 DEF StoreFingerprint, Goto, Typed
  <2>2. UNCHANGED <<secret, fresh, lapsed>> /\ fp'[p] = req[c].s
        /\ \A q \in Provider \ {p} : fp'[q] = fp[q]
    BY <1>8, <2>0 DEF StoreFingerprint, Typed, TypeOK
  <2>3. Known(p)'
    BY <2>0, <2>1, <2>2 DEF Known, StoresCurrent
  <2>4. \A q \in Provider \ {p} : Known(q) => Known(q)'
    BY <2>0, <2>1, <2>2 DEF Known, Looking
  <2>5. \A q \in Provider : \A d \in Client : Done(d, q)' => Done(d, q)
    BY <2>1 DEF Done
  <2> QED
    BY <2>2, <2>3, <2>4, <2>5 DEF LookedUpIsKnown
<1>9. ASSUME NEW c \in Client, Set(c) PROVE LookedUpIsKnown'
  <2>1. /\ \A d \in Client \ {c} : req'[d] = req[d]
        /\ req[c].pc = "resolve" /\ req[c].todo = {}
        /\ req'[c].pc = "pick" /\ req'[c].to = req[c].to
    BY <1>9 DEF Set, Goto, Typed
  <2>2. \A q \in Provider : Known(q) => Known(q)'
    BY <1>9, <2>1 DEF Set, Known, Looking
  <2>3. \A q \in Provider : \A d \in Client : Done(d, q)' => Done(d, q)
    BY <2>1 DEF Done
  <2> QED
    BY <1>9, <2>2, <2>3 DEF Set, LookedUpIsKnown
<1>10. ASSUME NEW c \in Client, Pick(c) PROVE LookedUpIsKnown'
  <2>1. /\ \A d \in Client \ {c} : req'[d] = req[d]
        /\ req[c].pc = "pick" /\ req'[c].pc = "idle"
    BY <1>10 DEF Pick, Goto, Idle, Typed
  <2> QED
    BY <1>10, <2>1 DEF Pick, LookedUpIsKnown, Done, Known, Looking
<1>11. CASE UNCHANGED vars
  BY <1>11 DEF vars, LookedUpIsKnown, Done, Known, Looking
<1> QED
  BY <1>1, <1>2, <1>3, <1>4, <1>5, <1>6, <1>7, <1>8, <1>9, <1>10, <1>11 DEF Next

----------------------------------------------------------------------------
(* The properties. *)

\* PolicyInv is an invariant, whatever the numbers of providers, secrets,
\* requests and edits.
THEOREM PolicyInvariant == Spec => []PolicyInv
<1>1. PolicyInv /\ [Next]_vars => PolicyInv'
  BY TypedStep, NotOlderStep, PlacedStep, StoresCurrentStep, LookedUpStep DEF PolicyInv
<1> QED
  BY <1>1, InitInv, PTL DEF Spec

\* No request is served under restrictions older than its own, whichever
\* requests store after it, unless one that had read older ones was still to
\* store them when it began (access_policy.go Set, Pick).
THEOREM PolicyIsNotOlder == Spec => []PolicyNotOlder
<1>1. PolicyInv => PolicyNotOlder
  <2> SUFFICES ASSUME PolicyInv, NEW c \in Client \ crossed, Picking(c)
               PROVE  policy.ver >= req[c].ver
    BY DEF PolicyInv, Typed, PolicyNotOlder
  <2>1. req[c].ver <= policy.ver
    BY DEF PolicyInv, NotOlder, Picking
  <2>2. req[c].ver \in Nat /\ policy.ver \in Nat
    BY ReqShape, PolicyAssumption DEF PolicyInv, Typed, TypeOK, Restrictions, Picking
  <2> QED
    BY <2>1, <2>2
<1> QED
  BY <1>1, PolicyInvariant, PTL

\* A restricted provider is no candidate of a request that has authenticated,
\* unless its row changed or its lookup failed since, its lookup is under way,
\* its row is not registered yet, or the shared entry it is in has the base URL
\* of another provider (resolveProviderFingerprints, providerRestricted).
THEOREM RestrictionsTakeEffect == Spec => []RestrictionTakesEffect
<1>1. PolicyInv => RestrictionTakesEffect
  <2> SUFFICES ASSUME PolicyInv, NEW c \in Client, Picking(c),
                      policy = [ver |-> req[c].ver, to |-> req[c].to],
                      NEW p \in policy.to \cap Allowed
               PROVE  /\ cand[p] # NoSecret
                      /\ p \in lapsed \cup stale \/ Looking(p) \/ Misplaced(p)
    BY DEF RestrictionTakesEffect
  <2>1. p \in Provider /\ p \in policy.to /\ ~ProviderRestricted(p)
    BY DEF Allowed
  <2>2. cand[p] # NoSecret /\ fp[p] # cand[p]
    BY <2>1 DEF ProviderRestricted
  <2>3. Done(c, p)
    BY <2>1 DEF Done, Picking
  <2>4. Known(p)
    BY <2>1, <2>3 DEF PolicyInv, LookedUpIsKnown
  <2>5. CASE p \notin stale /\ fp[p] = secret[p]
    <3>1. cand[p] = Carried(p, base) /\ cand[p] # secret[p]
      BY <2>1, <2>2, <2>5 DEF PolicyInv, Placed
    <3>2. p \in Shared /\ HasKey(p) /\ <<secret[p][1], base>> # secret[p]
      BY <3>1 DEF Carried
    <3>3. secret[p] \in Key \X Url
      BY <2>1, <3>2 DEF HasKey, Secrets, PolicyInv, Typed, TypeOK
    <3> QED
      BY <2>2, <3>2, <3>3 DEF Misplaced
  <2> QED
    BY <2>2, <2>4, <2>5 DEF Known
<1> QED
  BY <1>1, PolicyInvariant, PTL

\* A provider that is not restricted is refused only together with a restricted
\* one whose row has the key and base URL of its candidate, or whose fingerprint
\* is out of date (providerRestricted).
THEOREM UnrestrictedStayUsable == Spec => []OthersStayUsable
<1>1. PolicyInv => OthersStayUsable
  <2> SUFFICES ASSUME PolicyInv, NEW p \in Provider \ (policy.to \cup Allowed)
               PROVE  \E q \in policy.to : secret[q] = cand[p] \/ q \in lapsed \/ Looking(q)
    BY DEF OthersStayUsable
  <2>1. PICK q \in policy.to : cand[p] # NoSecret /\ fp[q] = cand[p]
    BY DEF Allowed, ProviderRestricted
  <2>2. q \in Provider
    BY DEF PolicyInv, Typed, TypeOK, Restrictions
  <2>3. Known(q)
    BY <2>1, <2>2 DEF PolicyInv, LookedUpIsKnown
  <2> QED
    BY <2>1, <2>3 DEF Known
<1> QED
  BY <1>1, PolicyInvariant, PTL

----------------------------------------------------------------------------
(* Sequences.  Induction over their length goes by the least length for    *)
(* which a statement fails, which is an element of a set: an induction     *)
(* theorem that takes a predicate is of no use to the provers.             *)

\* A nonempty set of naturals has a least element.
LEMMA LeastOf ==
    ASSUME NEW S \in SUBSET Nat, S # {}
    PROVE  \E x \in S : \A y \in S : x <= y
<1> DEFINE R == {ss \in Nat \X Nat : ss[1] < ss[2]}
<1>1. IsWellFoundedOn(R, Nat)
  BY NatLessThanWellFounded, Zenon DEF OpToRel
<1>2. PICK x \in S : \A y \in S : ~(<<y, x>> \in R)
  <2> HIDE DEF R
  <2> QED
    BY <1>1, WFMin
<1>3. ASSUME NEW y \in S PROVE x <= y
  <2>1. y < x => <<y, x>> \in R
    OBVIOUS
  <2> HIDE DEF R
  <2>2. ~(y < x)
    BY <1>2, <2>1
  <2> QED
    BY <2>2
<1> QED
  BY <1>3

\* Induction, over a set in place of a predicate.
LEMMA Induct ==
    ASSUME NEW S, 0 \in S, \A n \in Nat : n \in S => n + 1 \in S
    PROVE  \A n \in Nat : n \in S
<1> DEFINE B == Nat \ S
<1> SUFFICES ASSUME B # {} PROVE FALSE
  OBVIOUS
<1>1. PICK n \in B : \A m \in B : n <= m
  BY LeastOf
<1>2. n # 0
  BY <1>1
<1>3. n - 1 \in Nat /\ n - 1 \notin B
  BY <1>1, <1>2
<1>4. n - 1 \in S /\ n = (n - 1) + 1
  BY <1>3
<1> QED
  BY <1>1, <1>3, <1>4

\* f holds what FlattenSeq makes of each prefix of s.
Flattens(f, s) == f = [i \in 1..Len(s) |-> IF i = 1 THEN s[i] ELSE f[i - 1] \o s[i]]

LEMMA FlattensAt ==
    ASSUME NEW s, NEW f, Flattens(f, s), NEW i \in 1..Len(s)
    PROVE  f[i] = IF i = 1 THEN s[i] ELSE f[i - 1] \o s[i]
<1> DEFINE h == [j \in 1..Len(s) |-> IF j = 1 THEN s[j] ELSE f[j - 1] \o s[j]]
<1>1. f = h
  BY DEF Flattens
<1>2. h[i] = IF i = 1 THEN s[i] ELSE f[i - 1] \o s[i]
  OBVIOUS
<1> HIDE DEF h
<1> QED
  BY <1>1, <1>2

LEMMA SameFunction ==
    ASSUME NEW D, NEW f, f = [i \in D |-> f[i]], NEW g, g = [i \in D |-> g[i]],
           \A i \in D : f[i] = g[i]
    PROVE  f = g
OBVIOUS

LEMMA FlattensExists ==
    ASSUME NEW X, NEW s \in Seq(Seq(X))
    PROVE  \E f : Flattens(f, s)
<1> DEFINE Up(f, n) == f = [i \in 1..n |-> IF i = 1 THEN s[i] ELSE f[i - 1] \o s[i]]
           S == {n \in Nat : \E f : Up(f, n)}
<1>1. 0 \in S
  <2>1. Up([i \in 1..0 |-> 0], 0)
    OBVIOUS
  <2> QED
    BY <2>1
<1>2. ASSUME NEW n \in Nat, n \in S PROVE n + 1 \in S
  <2>1. PICK f : Up(f, n)
    BY <1>2
  <2>0. ASSUME NEW i \in 1..n
        PROVE  f[i] = IF i = 1 THEN s[i] ELSE f[i - 1] \o s[i]
    <3> DEFINE h == [j \in 1..n |-> IF j = 1 THEN s[j] ELSE f[j - 1] \o s[j]]
    <3>1. f = h
      BY <2>1
    <3>2. h[i] = IF i = 1 THEN s[i] ELSE f[i - 1] \o s[i]
      OBVIOUS
    <3> HIDE DEF h
    <3> QED
      BY <3>1, <3>2
  <2> DEFINE g == [i \in 1..n + 1 |->
                     IF i <= n THEN f[i] ELSE IF i = 1 THEN s[i] ELSE f[i - 1] \o s[i]]
  <2>2. ASSUME NEW i \in 1..n + 1
        PROVE  g[i] = IF i = 1 THEN s[i] ELSE g[i - 1] \o s[i]
    <3>1. CASE i <= n
      <4>1. g[i] = f[i] /\ f[i] = IF i = 1 THEN s[i] ELSE f[i - 1] \o s[i]
        BY <2>0, <3>1
      <4>2. i # 1 => g[i - 1] = f[i - 1]
        BY <3>1
      <4> QED
        BY <4>1, <4>2
    <3>2. CASE ~(i <= n)
      <4>1. i # 1 => i - 1 \in 1..n /\ g[i - 1] = f[i - 1]
        BY <3>2
      <4> QED
        BY <3>2, <4>1
    <3> QED
      BY <3>1, <3>2
  <2>3. g = [i \in 1..n + 1 |-> g[i]]
    OBVIOUS
  <2> HIDE DEF g
  <2>4. Up(g, n + 1)
    <3> DEFINE h == [i \in 1..n + 1 |-> IF i = 1 THEN s[i] ELSE g[i - 1] \o s[i]]
    <3>1. h = [i \in 1..n + 1 |-> h[i]]
      OBVIOUS
    <3>2. \A i \in 1..n + 1 : g[i] = h[i]
      BY <2>2
    <3> HIDE DEF h
    <3>3. g = h
      BY <2>3, <3>1, <3>2, SameFunction
    <3> QED
      BY <3>3 DEF h
  <2> HIDE DEF Up
  <2> QED
    BY <2>4
<1> HIDE DEF S
<1>3. Len(s) \in S
  BY <1>1, <1>2, Induct
<1> QED
  BY <1>3 DEF S, Flattens

LEMMA FlattenValue ==
    ASSUME NEW X, NEW s \in Seq(Seq(X)), Len(s) > 0
    PROVE  \E f : Flattens(f, s) /\ FlattenSeq(s) = f[Len(s)]
<1> DEFINE f == CHOOSE f : Flattens(f, s)
<1>1. Flattens(f, s)
  BY FlattensExists
<1>2. FlattenSeq(s) = f[Len(s)]
  BY DEF FlattenSeq, Flattens
<1> QED
  BY <1>1, <1>2

Begins(s, t) == Len(s) <= Len(t) /\ \A i \in 1..Len(s) : t[i] = s[i]

\* The prefixes of a longer sequence are flattened in the same way.
LEMMA FlattensPrefix ==
    ASSUME NEW X, NEW s \in Seq(Seq(X)), NEW t \in Seq(Seq(X)), Begins(s, t),
           NEW f, NEW g, Flattens(f, s), Flattens(g, t)
    PROVE  \A i \in 1..Len(s) : f[i] \in Seq(X) /\ g[i] = f[i]
<1> DEFINE S == {n \in Nat : n + 1 \in 1..Len(s) => f[n + 1] \in Seq(X) /\ g[n + 1] = f[n + 1]}
<1>0. /\ \A i \in 1..Len(s) : f[i] = IF i = 1 THEN s[i] ELSE f[i - 1] \o s[i]
      /\ \A i \in 1..Len(t) : g[i] = IF i = 1 THEN t[i] ELSE g[i - 1] \o t[i]
      /\ \A i \in 1..Len(s) : s[i] \in Seq(X)
      /\ Len(s) \in Nat /\ Len(t) \in Nat /\ Len(s) <= Len(t)
      /\ \A i \in 1..Len(s) : t[i] = s[i]
  <2>1. \A i \in 1..Len(s) : f[i] = IF i = 1 THEN s[i] ELSE f[i - 1] \o s[i]
    BY FlattensAt
  <2>2. \A i \in 1..Len(t) : g[i] = IF i = 1 THEN t[i] ELSE g[i - 1] \o t[i]
    BY FlattensAt
  <2> QED
    BY <2>1, <2>2 DEF Begins
<1>1. 0 \in S
  <2> SUFFICES ASSUME 1 \in 1..Len(s) PROVE f[1] \in Seq(X) /\ g[1] = f[1]
    OBVIOUS
  <2>1. 1 \in 1..Len(t)
    BY <1>0
  <2>2. f[1] = s[1] /\ g[1] = t[1] /\ s[1] \in Seq(X) /\ t[1] = s[1]
    BY <1>0, <2>1
  <2> QED
    BY <2>2
<1>2. ASSUME NEW n \in Nat, n \in S PROVE n + 1 \in S
  <2> SUFFICES ASSUME n + 2 \in 1..Len(s)
               PROVE  f[n + 2] \in Seq(X) /\ g[n + 2] = f[n + 2]
    OBVIOUS
  <2>1. f[n + 1] \in Seq(X) /\ g[n + 1] = f[n + 1]
    BY <1>2
  <2>2. f[n + 2] = f[n + 1] \o s[n + 2] /\ g[n + 2] = g[n + 1] \o t[n + 2]
    <3>1. n + 2 \in 1..Len(t) /\ n + 2 # 1 /\ (n + 2) - 1 = n + 1
      BY <1>0
    <3> QED
      BY <1>0, <3>1
  <2>3. s[n + 2] \in Seq(X) /\ t[n + 2] = s[n + 2]
    BY <1>0
  <2> QED
    BY <2>1, <2>2, <2>3
<1> HIDE DEF S
<1>3. \A n \in Nat : n \in S
  BY <1>1, <1>2, Induct
<1>4. ASSUME NEW i \in 1..Len(s) PROVE f[i] \in Seq(X) /\ g[i] = f[i]
  <2>1. i - 1 \in Nat /\ (i - 1) + 1 = i
    OBVIOUS
  <2>2. i - 1 \in S
    BY <1>3, <2>1
  <2> QED
    BY <2>1, <2>2 DEF S
<1> QED
  BY <1>4

LEMMA FlattenType ==
    ASSUME NEW X, NEW s \in Seq(Seq(X))
    PROVE  FlattenSeq(s) \in Seq(X)
<1>1. CASE Len(s) = 0
  <2>1. FlattenSeq(s) = s /\ s = <<>>
    BY <1>1 DEF FlattenSeq
  <2> QED
    BY <2>1
<1>2. CASE Len(s) > 0
  <2>1. PICK f : Flattens(f, s) /\ FlattenSeq(s) = f[Len(s)]
    BY <1>2, FlattenValue
  <2> QED
    <3>1. Begins(s, s) /\ Len(s) \in 1..Len(s)
      BY <1>2 DEF Begins
    <3>2. \A i \in 1..Len(s) : f[i] \in Seq(X) /\ f[i] = f[i]
      BY <2>1, <3>1, FlattensPrefix
    <3> QED
      BY <2>1, <3>1, <3>2
<1> QED
  BY <1>1, <1>2

LEMMA FlattenLonger ==
    ASSUME NEW X, NEW s \in Seq(Seq(X)), NEW t \in Seq(Seq(X)), Len(t) = Len(s) + 1,
           \A i \in 1..Len(s) : t[i] = s[i]
    PROVE  FlattenSeq(t) = FlattenSeq(s) \o t[Len(t)]
<1>1. Len(s) \in Nat /\ Len(t) > 0 /\ Len(s) <= Len(t) /\ t[Len(t)] \in Seq(X)
  OBVIOUS
<1>2. PICK g : Flattens(g, t) /\ FlattenSeq(t) = g[Len(t)]
  BY <1>1, FlattenValue
<1>3. \A i \in 1..Len(t) : g[i] = IF i = 1 THEN t[i] ELSE g[i - 1] \o t[i]
  BY <1>2, FlattensAt, ZenonT(60)
<1>4. CASE Len(s) = 0
  <2>1. FlattenSeq(s) = <<>>
    BY <1>4 DEF FlattenSeq
  <2>2. g[1] = t[1] /\ Len(t) = 1
    BY <1>3, <1>4
  <2> QED
    BY <1>1, <1>2, <2>1, <2>2
<1>5. CASE Len(s) > 0
  <2>1. PICK f : Flattens(f, s) /\ FlattenSeq(s) = f[Len(s)]
    BY <1>5, FlattenValue
  <2>2. Flattens(f, s) /\ Flattens(g, t) /\ Begins(s, t)
    BY <1>1, <1>2, <2>1 DEF Begins
  <2>3. \A i \in 1..Len(s) : f[i] \in Seq(X) /\ g[i] = f[i]
    BY <2>2, FlattensPrefix
  <2>4. Len(s) \in 1..Len(s) /\ Len(t) \in 1..Len(t) /\ Len(t) # 1 /\ Len(t) - 1 = Len(s)
    BY <1>1, <1>5
  <2>5. g[Len(t)] = g[Len(s)] \o t[Len(t)]
    BY <1>3, <2>4
  <2>6. g[Len(s)] = f[Len(s)]
    BY <2>3, <2>4
  <2> QED
    BY <1>2, <2>1, <2>5, <2>6
<1> QED
  BY <1>1, <1>4, <1>5

\* One more part.
LEMMA FlattenAppend ==
    ASSUME NEW X, NEW s \in Seq(Seq(X)), NEW e \in Seq(X)
    PROVE  FlattenSeq(Append(s, e)) = FlattenSeq(s) \o e
<1> DEFINE t == Append(s, e)
<1>1. /\ t \in Seq(Seq(X)) /\ Len(t) = Len(s) + 1 /\ t[Len(t)] = e
      /\ \A i \in 1..Len(s) : t[i] = s[i]
  OBVIOUS
<1> HIDE DEF t
<1>2. FlattenSeq(t) = FlattenSeq(s) \o t[Len(t)]
  BY <1>1, FlattenLonger
<1> QED
  BY <1>1, <1>2 DEF t

LEMMA FlattenEmpty == FlattenSeq(<<>>) = <<>>
BY DEF FlattenSeq

LEMMA FlattenOne ==
    ASSUME NEW X, NEW e \in Seq(X)
    PROVE  FlattenSeq(<<e>>) = e
<1>1. <<e>> = Append(<<>>, e) /\ <<>> \in Seq(Seq(X))
  OBVIOUS
<1>2. FlattenSeq(<<e>>) = <<>> \o e
  BY <1>1, FlattenAppend, FlattenEmpty
<1> QED
  BY <1>2

\* Concatenation is associative; named, so that it is only used where it is cited.
Regroups(s, t, u) == (s \o t) \o u = s \o (t \o u)

LEMMA Regroup ==
    ASSUME NEW X, NEW s \in Seq(X), NEW t \in Seq(X), NEW u \in Seq(X)
    PROVE  Regroups(s, t, u)
BY DEF Regroups

LEMMA FlattenConcat ==
    ASSUME NEW X, NEW s \in Seq(Seq(X)), NEW t \in Seq(Seq(X))
    PROVE  FlattenSeq(s \o t) = FlattenSeq(s) \o FlattenSeq(t)
<1> DEFINE S == {n \in Nat : \A u \in Seq(Seq(X)) :
                    Len(u) = n => FlattenSeq(s \o u) = FlattenSeq(s) \o FlattenSeq(u)}
<1>0. FlattenSeq(s) \in Seq(X)
  BY FlattenType
<1>1. 0 \in S
  <2> SUFFICES ASSUME NEW u \in Seq(Seq(X)), Len(u) = 0
               PROVE  FlattenSeq(s \o u) = FlattenSeq(s) \o FlattenSeq(u)
    OBVIOUS
  <2>1. u = <<>> /\ s \o u = s
    OBVIOUS
  <2> QED
    BY <1>0, <2>1, FlattenEmpty
<1>2. ASSUME NEW n \in Nat, n \in S PROVE n + 1 \in S
  <2> SUFFICES ASSUME NEW u \in Seq(Seq(X)), Len(u) = n + 1
               PROVE  FlattenSeq(s \o u) = FlattenSeq(s) \o FlattenSeq(u)
    OBVIOUS
  <2> DEFINE v == SubSeq(u, 1, n)
             e == u[n + 1]
  <2>1. v \in Seq(Seq(X)) /\ e \in Seq(X) /\ Len(v) = n
    OBVIOUS
  <2>2. u = Append(v, e)
    OBVIOUS
  <2> HIDE DEF v, e
  <2>3. s \o u = Append(s \o v, e) /\ s \o v \in Seq(Seq(X))
    BY <2>1, <2>2
  <2>4. FlattenSeq(s \o u) = FlattenSeq(s \o v) \o e
    BY <2>1, <2>3, FlattenAppend
  <2>5. FlattenSeq(u) = FlattenSeq(v) \o e
    BY <2>1, <2>2, FlattenAppend
  <2>6. FlattenSeq(s \o v) = FlattenSeq(s) \o FlattenSeq(v)
    BY <1>2, <2>1
  <2>7. FlattenSeq(v) \in Seq(X)
    BY <2>1, FlattenType
  <2> HIDE DEF S
  <2> QED
    <3> DEFINE a == FlattenSeq(s)
               b == FlattenSeq(v)
    <3>1. a \in Seq(X) /\ b \in Seq(X) /\ e \in Seq(X)
      BY <1>0, <2>1, <2>7
    <3>2. FlattenSeq(s \o u) = (a \o b) \o e /\ FlattenSeq(u) = b \o e
      BY <2>4, <2>5, <2>6
    <3> HIDE DEF a, b
    <3>3. Regroups(a, b, e)
      BY <3>1, Regroup, Zenon
    <3> QED
      BY <3>2, <3>3, Zenon DEF a, Regroups
<1> HIDE DEF S
<1>3. Len(t) \in Nat
  OBVIOUS
<1>4. Len(t) \in S
  BY <1>1, <1>2, <1>3, Induct
<1> QED
  BY <1>4 DEF S

\* What is in a flattened sequence is in one of its parts.
LEMMA FlattenRange ==
    ASSUME NEW X, NEW s \in Seq(Seq(X)), NEW x
    PROVE  x \in Range(FlattenSeq(s)) <=> \E i \in 1..Len(s) : x \in Range(s[i])
<1> DEFINE In(u) == x \in Range(FlattenSeq(u)) <=> \E i \in 1..Len(u) : x \in Range(u[i])
           S == {n \in Nat : \A u \in Seq(Seq(X)) : Len(u) = n => In(u)}
<1>1. 0 \in S
  <2> SUFFICES ASSUME NEW u \in Seq(Seq(X)), Len(u) = 0 PROVE In(u)
    OBVIOUS
  <2>1. u = <<>> /\ FlattenSeq(u) = <<>>
    BY FlattenEmpty
  <2> QED
    BY <2>1 DEF Range
<1>2. ASSUME NEW n \in Nat, n \in S PROVE n + 1 \in S
  <2> SUFFICES ASSUME NEW u \in Seq(Seq(X)), Len(u) = n + 1 PROVE In(u)
    OBVIOUS
  <2> DEFINE v == SubSeq(u, 1, n)
             e == u[n + 1]
  <2>1. v \in Seq(Seq(X)) /\ e \in Seq(X) /\ Len(v) = n /\ u = Append(v, e)
    OBVIOUS
  <2>2. /\ \A i \in 1..n : u[i] = v[i]
        /\ u[n + 1] = e
    OBVIOUS
  <2> HIDE DEF v, e
  <2>3. FlattenSeq(u) = FlattenSeq(v) \o e /\ FlattenSeq(v) \in Seq(X)
    BY <2>1, FlattenAppend, FlattenType
  <2>4. Range(FlattenSeq(v) \o e) = Range(FlattenSeq(v)) \cup Range(e)
    BY <2>1, <2>3, RangeConcatenation
  <2>5. In(v)
    BY <1>2, <2>1
  <2>6. (\E i \in 1..n + 1 : x \in Range(u[i])) <=> (\E i \in 1..n : x \in Range(v[i])) \/ x \in Range(e)
    <3>1. 1..n + 1 = (1..n) \cup {n + 1}
      OBVIOUS
    <3> QED
      BY <2>2, <3>1
  <2> HIDE DEF S
  <2> QED
    BY <2>1, <2>3, <2>4, <2>5, <2>6
<1> HIDE DEF S
<1>3. Len(s) \in S
  BY <1>1, <1>2, Induct
<1> QED
  BY <1>3 DEF S

----------------------------------------------------------------------------
(* CursorStream.  A failure shows in the status as long as nothing has been *)
(* streamed, and among the events after that: the proof has to know that   *)
(* no error is among the events of a request that still runs, and that it  *)
(* has written something only if something was decoded.                    *)

Text == Seq(Piece \cup Tags)
Event == [e : {"role", "error", "stop", "DONE"}] \cup [e : {"content", "message"}, c : Text]
Frame ==
    [kind : {"chunk"}, n : 1..MaxFrames, parts : SUBSET {"thinking", "text"}]
    \cup [kind : {"end"}, error : BOOLEAN, code : Code \cup {""}]
    \cup [kind : {"undecodable", "badgzip", "toobig", "eof", "short"}]

\* There is an error among the events.
HasError(events) == \E i \in 1..Len(events) : events[i].e = "error"

StreamTyped ==
    /\ pc \in {"new", "read", "ended"} /\ stream \in BOOLEAN /\ open \in BOOLEAN
    /\ frames \in 0..MaxFrames /\ wire \in Seq(Frame) /\ got \in Seq(Piece)
    /\ buffer \in Text /\ out \in Seq(Event)

\* A request that runs has met no error, and has a status once it has sent
\* an event.
Streaming ==
    /\ verdict = "none" /\ ~HasError(out)
    /\ out # <<>> => stream /\ got # <<>> /\ status = 200

StreamInv ==
    /\ StreamTyped
    /\ pc # "ended" => Streaming
    /\ pc = "ended" => status # 0
    /\ FailureIsVisible

\* Appending to a log of events, and what it does to the errors in it.
LEMMA MoreEvents ==
    ASSUME NEW s \in Seq(Event), NEW t \in Seq(Event)
    PROVE  /\ s \o t \in Seq(Event)
           /\ HasError(s \o t) <=> HasError(s) \/ HasError(t)
           /\ s \o t = <<>> <=> s = <<>> /\ t = <<>>
<1>1. /\ s \o t \in Seq(Event) /\ Len(s \o t) = Len(s) + Len(t)
      /\ \A i \in 1..Len(s) : (s \o t)[i] = s[i]
      /\ \A i \in 1..Len(t) : (s \o t)[Len(s) + i] = t[i]
      /\ Len(s) \in Nat /\ Len(t) \in Nat
  OBVIOUS
<1>2. ASSUME HasError(s) PROVE HasError(s \o t)
  BY <1>1, <1>2 DEF HasError
<1>3. ASSUME HasError(t) PROVE HasError(s \o t)
  <2>1. PICK i \in 1..Len(t) : t[i].e = "error"
    BY <1>3 DEF HasError
  <2>2. Len(s) + i \in 1..Len(s \o t) /\ (s \o t)[Len(s) + i].e = "error"
    BY <1>1, <2>1
  <2> QED
    BY <2>2 DEF HasError
<1>4. ASSUME HasError(s \o t) PROVE HasError(s) \/ HasError(t)
  <2>1. PICK i \in 1..Len(s \o t) : (s \o t)[i].e = "error"
    BY <1>4 DEF HasError
  <2>2. CASE i \in 1..Len(s)
    BY <1>1, <2>1, <2>2 DEF HasError
  <2>3. CASE i \notin 1..Len(s)
    <3>1. i - Len(s) \in 1..Len(t) /\ i = Len(s) + (i - Len(s))
      BY <1>1, <2>1, <2>3
    <3>2. t[i - Len(s)].e = "error"
      BY <1>1, <2>1, <3>1
    <3> QED
      BY <3>1, <3>2 DEF HasError
  <2> QED
    BY <2>2, <2>3
<1>5. s \o t = <<>> <=> s = <<>> /\ t = <<>>
  BY <1>1
<1> QED
  BY <1>1, <1>2, <1>3, <1>4, <1>5

\* The events the bridge writes.
LEMMA EventKinds ==
    /\ \A k \in {"role", "error", "stop", "DONE"} :
          /\ <<[e |-> k]>> \in Seq(Event)
          /\ <<[e |-> k]>> # <<>>
          /\ HasError(<<[e |-> k]>>) <=> k = "error"
    /\ \A k \in {"content", "message"}, c \in Text :
          /\ <<[e |-> k, c |-> c]>> \in Seq(Event)
          /\ <<[e |-> k, c |-> c]>> # <<>>
          /\ ~HasError(<<[e |-> k, c |-> c]>>)
    /\ <<>> \in Seq(Event) /\ ~HasError(<<>>)
    /\ <<[e |-> "stop"], [e |-> "DONE"]>> \in Seq(Event)
    /\ ~HasError(<<[e |-> "stop"], [e |-> "DONE"]>>)
<1>1. ASSUME NEW k \in {"role", "error", "stop", "DONE"}
      PROVE  /\ [e |-> k] \in Event /\ [e |-> k].e = k
  BY DEF Event
<1>2. ASSUME NEW k \in {"content", "message"}, NEW c \in Text
      PROVE  /\ [e |-> k, c |-> c] \in Event /\ [e |-> k, c |-> c].e = k
  BY DEF Event
<1>3. ASSUME NEW x \in Event
      PROVE  /\ <<x>> \in Seq(Event) /\ <<x>> # <<>>
             /\ HasError(<<x>>) <=> x.e = "error"
  BY DEF HasError
<1>4. ASSUME NEW x \in Event, NEW y \in Event, x.e # "error", y.e # "error"
      PROVE  <<x, y>> \in Seq(Event) /\ ~HasError(<<x, y>>)
  BY <1>4 DEF HasError
<1>5. <<>> \in Seq(Event) /\ ~HasError(<<>>)
  BY DEF HasError
<1>6. <<[e |-> "stop"], [e |-> "DONE"]>> \in Seq(Event) /\ ~HasError(<<[e |-> "stop"], [e |-> "DONE"]>>)
  BY <1>1, <1>4
<1>7. ASSUME NEW k \in {"content", "message"}, NEW c \in Text
      PROVE  /\ <<[e |-> k, c |-> c]>> \in Seq(Event)
             /\ <<[e |-> k, c |-> c]>> # <<>>
             /\ ~HasError(<<[e |-> k, c |-> c]>>)
  BY <1>2, <1>3
<1>8. ASSUME NEW k \in {"role", "error", "stop", "DONE"}
      PROVE  /\ <<[e |-> k]>> \in Seq(Event)
             /\ <<[e |-> k]>> # <<>>
             /\ HasError(<<[e |-> k]>>) <=> k = "error"
  BY <1>1, <1>3
<1> QED
  BY <1>5, <1>6, <1>7, <1>8

\* emit adds no error, and leaves the log empty only if nothing is written.
LEMMA EmittedEvents ==
    ASSUME NEW events \in Seq(Event), NEW pieces \in Text
    PROVE  /\ Emitted(events, pieces) \in Seq(Event)
           /\ HasError(Emitted(events, pieces)) <=> HasError(events)
           /\ Emitted(events, pieces) = <<>> <=> events = <<>> /\ pieces = <<>>
<1> DEFINE role == IF events = <<>> THEN <<[e |-> "role"]>> ELSE <<>>
           content == <<[e |-> "content", c |-> pieces]>>
<1>1. role \in Seq(Event) /\ ~HasError(role)
  BY EventKinds
<1>2. content \in Seq(Event) /\ ~HasError(content) /\ content # <<>>
  BY EventKinds
<1> HIDE DEF role, content
<1>3. /\ events \o role \in Seq(Event)
      /\ HasError(events \o role) <=> HasError(events)
  BY <1>1, MoreEvents
<1>4. /\ events \o role \o content \in Seq(Event)
      /\ HasError(events \o role \o content) <=> HasError(events)
      /\ events \o role \o content # <<>>
  BY <1>2, <1>3, MoreEvents
<1>5. Emitted(events, pieces) = IF pieces = <<>> THEN events ELSE events \o role \o content
  BY DEF Emitted, role, content
<1> QED
  BY <1>4, <1>5

\* What a chunk brings is nothing exactly when nothing is written for it.
LEMMA ChunkPieces ==
    ASSUME NEW n \in 1..MaxFrames, NEW parts \in SUBSET {"thinking", "text"}, open \in BOOLEAN
    PROVE  /\ next(n, parts) \in Text /\ Decoded(n, parts) \in Seq(Piece)
           /\ next(n, parts) # <<>> => Decoded(n, parts) # <<>>
           /\ close \in Text
<1>1. /\ <<n, "thinking">> \in Piece /\ <<n, "text">> \in Piece
      /\ OpenTag \in Tags /\ CloseTag \in Tags
  BY DEF Piece, Tags
<1> DEFINE S == Piece \cup Tags
           a == IF open THEN <<>> ELSE <<OpenTag>>
           b == <<<<n, "thinking">>>>
           c == IF open \/ "thinking" \in parts THEN <<CloseTag>> ELSE <<>>
           d == <<<<n, "text">>>>
<1>2. a \in Seq(S) /\ b \in Seq(S) /\ c \in Seq(S) /\ d \in Seq(S) /\ b \in Seq(Piece) /\ d \in Seq(Piece)
  BY <1>1
<1>3. Len(b) = 1 /\ Len(d) = 1
  OBVIOUS
<1>4. next(n, parts) = (IF "thinking" \in parts THEN a \o b ELSE <<>>) \o (IF "text" \in parts THEN c \o d ELSE <<>>)
  BY DEF next
<1>5. Decoded(n, parts) = (IF "thinking" \in parts THEN b ELSE <<>>) \o (IF "text" \in parts THEN d ELSE <<>>)
  BY DEF Decoded
<1>6. close \in Text
  <2>1. <<CloseTag>> \in Text /\ <<>> \in Text
    BY <1>1 DEF Text
  <2> QED
    BY <2>1 DEF close
<1> HIDE DEF a, b, c, d, S
<1>7. next(n, parts) \in Seq(S)
  BY <1>2, <1>4
<1>8. Decoded(n, parts) \in Seq(Piece)
  BY <1>2, <1>5
<1>9. ASSUME next(n, parts) # <<>> PROVE Decoded(n, parts) # <<>>
  <2>1. CASE "thinking" \in parts
    <3> DEFINE rest == IF "text" \in parts THEN d ELSE <<>>
    <3>0. rest \in Seq(Piece) /\ Decoded(n, parts) = b \o rest
      BY <1>2, <1>5, <2>1
    <3> HIDE DEF rest
    <3>1. Len(b \o rest) = Len(b) + Len(rest) /\ Len(rest) \in Nat
      BY <1>2, <3>0
    <3>2. Len(<<>>) = 0
      OBVIOUS
    <3> QED
      BY <1>3, <3>0, <3>1, <3>2
  <2>2. CASE "thinking" \notin parts /\ "text" \in parts
    <3>1. Len(Decoded(n, parts)) >= 1
      BY <1>2, <1>3, <1>5, <2>2
    <3>2. Len(<<>>) = 0
      OBVIOUS
    <3> QED
      BY <3>1, <3>2
  <2>3. CASE "thinking" \notin parts /\ "text" \notin parts
    <3>1. next(n, parts) = <<>>
      BY <1>4, <2>3
    <3> QED
      BY <1>9, <3>1
  <2> QED
    BY <2>1, <2>2, <2>3
<1> QED
  BY <1>6, <1>7, <1>8, <1>9 DEF Text, S

\* In FailureIsVisible, too, an error is an event of the log.
LEMMA ErrorEvents ==
    ASSUME NEW s \in Seq(Event)
    PROVE  "error" \in Range([i \in DOMAIN s |-> s[i].e]) <=> HasError(s)
<1>1. DOMAIN s = 1..Len(s)
  OBVIOUS
<1> QED
  BY <1>1 DEF Range, HasError

\* No Connect code is answered with success.
LEMMA ErrorStatuses ==
    ASSUME NEW code
    PROVE  errorStatus(code) \notin {0, 200}
BY DEF errorStatus

\* The tag that is missing, if one is.
LEMMA ClosingTag ==
    ASSUME open \in BOOLEAN
    PROVE  close \in Text
<1>1. <<CloseTag>> \in Text /\ <<>> \in Text
  BY DEF Text, Tags
<1> QED
  BY <1>1 DEF close

\* The next frame.
LEMMA FrontFrame ==
    ASSUME wire \in Seq(Frame), wire # <<>>
    PROVE  /\ Head(wire) \in Frame /\ Tail(wire) \in Seq(Frame)
           /\ Head(wire).kind = "chunk" =>
                 Head(wire).n \in 1..MaxFrames /\ Head(wire).parts \in SUBSET {"thinking", "text"}
<1>1. Head(wire) \in Frame /\ Tail(wire) \in Seq(Frame)
  OBVIOUS
<1>2. \A f \in Frame : f.kind = "chunk" =>
          f.n \in 1..MaxFrames /\ f.parts \in SUBSET {"thinking", "text"}
  BY DEF Frame
<1> QED
  BY <1>1, <1>2

\* Fail gives the request up where it can be seen.
LEMMA FailShows ==
    ASSUME StreamTyped, Streaming, NEW code, Fail(code), UNCHANGED stream, verdict' = "failed"
    PROVE  /\ out' \in Seq(Event) /\ pc' = "ended" /\ open' \in BOOLEAN
           /\ UNCHANGED <<buffer, got>>
           /\ status' # 0 /\ FailureIsVisible'
<1>1. pc' = "ended" /\ open' \in BOOLEAN /\ UNCHANGED <<buffer, got>>
  BY DEF Fail
<1>2. close \in Text
  BY ClosingTag DEF StreamTyped
<1>3. CASE stream /\ out # <<>>
  <2> DEFINE failed == out \o <<[e |-> "error"]>>
             last == <<[e |-> "stop"], [e |-> "DONE"]>>
  <2>1. failed \in Seq(Event) /\ HasError(failed)
    <3> DEFINE error == <<[e |-> "error"]>>
    <3>1. error \in Seq(Event) /\ HasError(error)
      BY EventKinds
    <3>2. failed = out \o error
      OBVIOUS
    <3> HIDE DEF failed, error
    <3> QED
      BY <3>1, <3>2, MoreEvents DEF StreamTyped
  <2>2. last \in Seq(Event)
    BY EventKinds
  <2>3. out' = Emitted(failed, close) \o last /\ UNCHANGED status
    BY <1>3 DEF Fail
  <2> HIDE DEF failed, last
  <2>4. Emitted(failed, close) \in Seq(Event) /\ HasError(Emitted(failed, close))
    BY <1>2, <2>1, EmittedEvents
  <2>5. out' \in Seq(Event) /\ HasError(out')
    BY <2>2, <2>3, <2>4, MoreEvents
  <2>6. stream' /\ got' # <<>> /\ status' = 200
    BY <1>1, <1>3, <2>3 DEF Streaming
  <2>7. FailureIsVisible'
    <3>1. "error" \in Range(Events)'
      BY <2>5, ErrorEvents DEF Events
    <3> QED
      BY <2>6, <3>1 DEF FailureIsVisible
  <2> QED
    BY <1>1, <2>5, <2>6, <2>7
<1>4. CASE ~(stream /\ out # <<>>)
  <2>1. status' = errorStatus(code) /\ out' = <<[e |-> "error"]>>
    BY <1>4 DEF Fail
  <2>2. status' \notin {0, 200} /\ out' \in Seq(Event)
    BY <2>1, ErrorStatuses, EventKinds
  <2>3. FailureIsVisible'
    BY <2>2 DEF FailureIsVisible
  <2> QED
    BY <1>1, <2>2, <2>3
<1> QED
  BY <1>3, <1>4

\* Finish answers with what there is.
LEMMA FinishShows ==
    ASSUME StreamTyped, Streaming, Finish, UNCHANGED stream, verdict' = "clean"
    PROVE  /\ out' \in Seq(Event) /\ pc' = "ended" /\ open' \in BOOLEAN
           /\ UNCHANGED <<buffer, got>>
           /\ status' # 0 /\ FailureIsVisible'
<1>1. pc' = "ended" /\ open' \in BOOLEAN /\ UNCHANGED <<buffer, got>> /\ status' = 200
  BY DEF Finish
<1>2. close \in Text /\ buffer \o close \in Text
  BY ClosingTag DEF StreamTyped, Text
<1> DEFINE last == <<[e |-> "stop"], [e |-> "DONE"]>>
<1>3. last \in Seq(Event) /\ ~HasError(last)
  BY EventKinds
<1>4. out' = IF stream THEN Emitted(out, close) \o last ELSE <<[e |-> "message", c |-> buffer \o close]>>
  BY DEF Finish
<1> HIDE DEF last
<1>5. Emitted(out, close) \in Seq(Event) /\ ~HasError(Emitted(out, close))
  BY <1>2, EmittedEvents DEF StreamTyped, Streaming
<1>6. Emitted(out, close) \o last \in Seq(Event) /\ ~HasError(Emitted(out, close) \o last)
  BY <1>3, <1>5, MoreEvents
<1>7. /\ <<[e |-> "message", c |-> buffer \o close]>> \in Seq(Event)
      /\ ~HasError(<<[e |-> "message", c |-> buffer \o close]>>)
  BY <1>2, EventKinds
<1>8. out' \in Seq(Event) /\ ~HasError(out')
  BY <1>4, <1>6, <1>7
<1>9. FailureIsVisible'
  <2>1. "error" \notin Range(Events)'
    BY <1>8, ErrorEvents DEF Events
  <2> QED
    BY <1>1, <2>1 DEF FailureIsVisible
<1> QED
  BY <1>1, <1>8, <1>9

\* Take: one frame less, and what the vendor said with it.
LEMMA TakeFrame ==
    ASSUME StreamTyped, NEW kinds, Reads(kinds), Take
    PROVE  /\ pc = "read" /\ Head(wire) \in Frame /\ Head(wire).kind \in kinds
           /\ wire' \in Seq(Frame) /\ UNCHANGED <<stream, frames>>
           /\ verdict' = Said(Head(wire))
           /\ Head(wire).kind = "chunk" =>
                 Head(wire).n \in 1..MaxFrames /\ Head(wire).parts \in SUBSET {"thinking", "text"}
BY FrontFrame DEF StreamTyped, Reads, Take

\* A chunk is passed on.
LEMMA ReadChunkKeeps == StreamInv /\ ReadChunk => StreamInv'
<1> SUFFICES ASSUME StreamInv, ReadChunk PROVE StreamInv'
  OBVIOUS
<1> USE DEF StreamInv
<1> DEFINE f == Head(wire)
           pieces == next(f.n, f.parts)
           decoded == Decoded(f.n, f.parts)
<1>1. /\ pc = "read" /\ f.kind = "chunk" /\ wire' \in Seq(Frame)
      /\ UNCHANGED <<stream, frames>> /\ verdict' = Said(f)
      /\ f.n \in 1..MaxFrames /\ f.parts \in SUBSET {"thinking", "text"}
  BY TakeFrame DEF ReadChunk
<1>2. verdict' = verdict
  BY <1>1 DEF Said
<1>3. /\ got' = got \o decoded /\ open' \in BOOLEAN /\ UNCHANGED pc
      /\ \/ /\ stream /\ out' = Emitted(out, pieces) /\ UNCHANGED buffer
            /\ status' = IF pieces = <<>> THEN status ELSE 200
         \/ ~stream /\ buffer' = buffer \o pieces /\ UNCHANGED <<out, status>>
  BY DEF ReadChunk, StreamTyped
<1>4. pieces \in Text /\ decoded \in Seq(Piece) /\ (pieces # <<>> => decoded # <<>>)
  BY <1>1, ChunkPieces DEF StreamTyped
<1> HIDE DEF f, pieces, decoded
<1>5. got' \in Seq(Piece) /\ (got # <<>> \/ decoded # <<>> => got' # <<>>)
  BY <1>3, <1>4 DEF StreamTyped
<1>6. Streaming
  BY <1>1
<1>7. CASE stream
  <2>1. /\ out' \in Seq(Event) /\ ~HasError(out') /\ buffer' \in Text
        /\ out' = <<>> <=> out = <<>> /\ pieces = <<>>
    <3>1. out' = Emitted(out, pieces) /\ buffer' = buffer
      BY <1>3, <1>7
    <3>2. out \in Seq(Event) /\ ~HasError(out) /\ buffer \in Text
      BY <1>6 DEF StreamTyped, Streaming
    <3> QED
      BY <1>4, <3>1, <3>2, EmittedEvents
  <2>2. StreamTyped'
    BY <1>1, <1>3, <1>5, <2>1 DEF StreamTyped
  <2>3. out' # <<>> => stream' /\ got' # <<>> /\ status' = 200
    BY <1>1, <1>3, <1>4, <1>5, <1>6, <1>7, <2>1 DEF Streaming
  <2>4. Streaming'
    BY <1>2, <1>6, <2>1, <2>3 DEF Streaming
  <2> QED
    BY <1>1, <1>3, <2>2, <2>4 DEF FailureIsVisible
<1>8. CASE ~stream
  <2>1. buffer' \in Text /\ out' = out /\ out = <<>>
    <3>1. buffer' = buffer \o pieces /\ out' = out
      BY <1>3, <1>8
    <3>2. out = <<>> /\ buffer \in Text
      BY <1>6, <1>8 DEF StreamTyped, Streaming
    <3> QED
      BY <1>4, <3>1, <3>2 DEF Text
  <2>2. StreamTyped'
    BY <1>1, <1>3, <1>5, <2>1 DEF StreamTyped
  <2>3. Streaming'
    BY <1>2, <1>6, <2>1 DEF Streaming
  <2> QED
    BY <1>1, <1>3, <2>2, <2>3 DEF FailureIsVisible
<1> QED
  BY <1>7, <1>8

\* Both ends of a request, with the rest of the step.
LEMMA FailKeeps ==
    ASSUME StreamInv, pc # "ended", NEW code, Fail(code), verdict' = "failed",
           UNCHANGED <<stream, frames>>, wire' \in Seq(Frame)
    PROVE  StreamInv'
<1>1. StreamTyped /\ Streaming
  BY DEF StreamInv
<1>2. /\ out' \in Seq(Event) /\ pc' = "ended" /\ open' \in BOOLEAN
      /\ UNCHANGED <<buffer, got>> /\ status' # 0 /\ FailureIsVisible'
  BY <1>1, FailShows
<1>3. StreamTyped'
  BY <1>1, <1>2 DEF StreamTyped
<1> QED
  BY <1>2, <1>3 DEF StreamInv

\* The same for a stream that ended well.
LEMMA FinishKeeps ==
    ASSUME StreamInv, pc # "ended", Finish, verdict' = "clean",
           UNCHANGED <<stream, frames>>, wire' \in Seq(Frame)
    PROVE  StreamInv'
<1>1. StreamTyped /\ Streaming
  BY DEF StreamInv
<1>2. /\ out' \in Seq(Event) /\ pc' = "ended" /\ open' \in BOOLEAN
      /\ UNCHANGED <<buffer, got>> /\ status' # 0 /\ FailureIsVisible'
  BY <1>1, FinishShows
<1>3. StreamTyped'
  BY <1>1, <1>2 DEF StreamTyped
<1> QED
  BY <1>2, <1>3 DEF StreamInv

\* Each kind of frame is read.
LEMMA ReaderKeeps == StreamInv /\ Reader => StreamInv'
<1> SUFFICES ASSUME StreamInv, Reader PROVE StreamInv'
  OBVIOUS
<1>0. StreamTyped
  BY DEF StreamInv
<1>1. CASE ReadChunk
  BY <1>1, ReadChunkKeeps
<1>2. CASE SkipFrame
  <2>1. /\ pc = "read" /\ Head(wire).kind = "undecodable" /\ wire' \in Seq(Frame)
        /\ UNCHANGED <<stream, frames, pc, open, buffer, status, out, got>>
        /\ verdict' = Said(Head(wire))
    BY <1>0, <1>2, TakeFrame DEF SkipFrame
  <2>2. verdict' = verdict
    BY <2>1 DEF Said
  <2>3. StreamTyped' /\ Streaming'
    BY <1>0, <2>1, <2>2 DEF StreamInv, StreamTyped, Streaming, HasError
  <2> QED
    BY <2>1, <2>3 DEF StreamInv, FailureIsVisible
<1>3. CASE ReadEnd
  <2>1. /\ pc = "read" /\ Head(wire).kind = "end" /\ wire' \in Seq(Frame)
        /\ UNCHANGED <<stream, frames>> /\ verdict' = Said(Head(wire))
    BY <1>0, <1>3, TakeFrame DEF ReadEnd
  <2>2. CASE Head(wire).error
    BY <1>3, <2>1, <2>2, FailKeeps DEF ReadEnd, Said
  <2>3. CASE ~Head(wire).error
    BY <1>3, <2>1, <2>3, FinishKeeps DEF ReadEnd, Said
  <2> QED
    BY <2>2, <2>3
<1>4. CASE ReadEOF
  <2>1. /\ pc = "read" /\ Head(wire).kind = "eof" /\ wire' \in Seq(Frame)
        /\ UNCHANGED <<stream, frames>> /\ verdict' = Said(Head(wire))
    BY <1>0, <1>4, TakeFrame DEF ReadEOF
  <2> QED
    BY <1>4, <2>1, FinishKeeps DEF ReadEOF, Said
<1>5. CASE ReadBroken
  <2>1. /\ pc = "read" /\ Head(wire).kind \in {"short", "badgzip", "toobig"}
        /\ wire' \in Seq(Frame)
        /\ UNCHANGED <<stream, frames>> /\ verdict' = Said(Head(wire))
    BY <1>0, <1>5, TakeFrame DEF ReadBroken
  <2> QED
    BY <1>5, <2>1, FailKeeps DEF ReadBroken, Said
<1> QED
  BY <1>1, <1>2, <1>3, <1>4, <1>5 DEF Reader

\* The vendor's frames are frames.
LEMMA VendorFrames ==
    /\ frames \in 0..MaxFrames /\ frames < MaxFrames
          => \A parts \in SUBSET {"thinking", "text"} : Chunk(frames + 1, parts) \in Frame
    /\ \A k \in {"undecodable", "badgzip", "toobig", "eof", "short"} : Other(k) \in Frame
    /\ \A c \in Code : End(TRUE, c) \in Frame
    /\ End(FALSE, "") \in Frame
<1>1. ASSUME frames \in 0..MaxFrames, frames < MaxFrames,
             NEW parts \in SUBSET {"thinking", "text"}
      PROVE  Chunk(frames + 1, parts) \in Frame
  <2>1. frames + 1 \in 1..MaxFrames
    BY <1>1, StreamAssumption
  <2> QED
    BY <2>1 DEF Chunk, Frame
<1>2. ASSUME NEW k \in {"undecodable", "badgzip", "toobig", "eof", "short"}
      PROVE  Other(k) \in Frame
  BY DEF Other, Frame
<1>3. ASSUME NEW c \in Code PROVE End(TRUE, c) \in Frame
  BY DEF End, Frame
<1>4. End(FALSE, "") \in Frame
  BY DEF End, Frame
<1> QED
  BY <1>1, <1>2, <1>3, <1>4

\* The vendor adds a frame.
LEMMA VendorKeeps == StreamInv /\ (VendorSends \/ VendorEnds) => StreamInv'
<1> SUFFICES ASSUME StreamInv, VendorSends \/ VendorEnds PROVE StreamInv'
  OBVIOUS
<1>0. StreamTyped
  BY DEF StreamInv
<1>1. PICK f \in Frame : wire' = Append(wire, f)
  <2>1. CASE VendorSends
    BY <1>0, <2>1, VendorFrames DEF VendorSends, StreamTyped
  <2>2. CASE VendorEnds
    BY <1>0, <2>2, VendorFrames DEF VendorEnds, StreamTyped
  <2> QED
    BY <2>1, <2>2
<1>2. wire' \in Seq(Frame)
  BY <1>0, <1>1 DEF StreamTyped
<1>3. /\ pc = "read" /\ UNCHANGED <<pc, stream, open, buffer, status, out, got, verdict>>
      /\ frames' \in 0..MaxFrames
  <2>1. CASE VendorSends
    BY <1>0, <2>1, StreamAssumption DEF VendorSends, StreamTyped
  <2>2. CASE VendorEnds
    BY <1>0, <2>2 DEF VendorEnds, StreamTyped
  <2> QED
    BY <2>1, <2>2
<1>4. StreamTyped' /\ Streaming'
  BY <1>0, <1>2, <1>3 DEF StreamInv, StreamTyped, Streaming, HasError
<1> QED
  BY <1>3, <1>4 DEF StreamInv, FailureIsVisible

\* The inductive invariant; with it, a request that has ended has a status.
THEOREM StreamInvariant == StreamSpec => []StreamInv
<1>1. StreamInit => StreamInv
  <2> SUFFICES ASSUME StreamInit PROVE StreamInv
    OBVIOUS
  <2>1. <<>> \in Text /\ <<>> \in Seq(Event) /\ <<>> \in Seq(Frame) /\ <<>> \in Seq(Piece)
    BY DEF Text
  <2>2. StreamTyped
    <3>1. 0 \in 0..MaxFrames
      BY StreamAssumption
    <3> QED
      BY <2>1, <3>1 DEF StreamInit, StreamTyped
  <2>3. Streaming
    BY EventKinds DEF StreamInit, Streaming
  <2> QED
    BY <2>2, <2>3 DEF StreamInit, StreamInv, FailureIsVisible
<1>2. StreamInv /\ [StreamNext]_streamVars => StreamInv'
  <2> SUFFICES ASSUME StreamInv, [StreamNext]_streamVars PROVE StreamInv'
    OBVIOUS
  <2>0. StreamTyped
    BY DEF StreamInv
  <2>1. CASE Accept
    <3>1. StreamTyped' /\ Streaming'
      BY <2>0, <2>1 DEF Accept, StreamInv, StreamTyped, Streaming, HasError
    <3> QED
      BY <2>1, <3>1 DEF Accept, StreamInv, FailureIsVisible
  <2>2. CASE Reject
    <3>1. /\ pc = "new" /\ pc' = "ended" /\ out' = <<[e |-> "error"]>> /\ status' # 0
          /\ UNCHANGED <<stream, wire, frames, open, buffer, got, verdict>>
      BY <2>2 DEF Reject, Refuse
    <3>2. StreamTyped'
      BY <2>0, <3>1, EventKinds DEF StreamTyped
    <3>3. verdict' = "none"
      BY <3>1 DEF StreamInv, Streaming
    <3> QED
      BY <3>1, <3>2, <3>3 DEF StreamInv, FailureIsVisible
  <2>3. CASE VendorSends \/ VendorEnds
    BY <2>3, VendorKeeps
  <2>4. CASE Reader
    BY <2>4, ReaderKeeps
  <2>5. CASE Deadline
    <3>1. /\ pc = "read" /\ Fail("") /\ verdict' = "failed" /\ UNCHANGED <<stream, wire, frames>>
      BY <2>5 DEF Deadline
    <3>2. wire' \in Seq(Frame)
      BY <2>0, <3>1 DEF StreamTyped
    <3> QED
      BY <3>1, <3>2, FailKeeps
  <2>6. CASE UNCHANGED streamVars
    <3>1. StreamTyped' /\ (pc # "ended" => Streaming)'
      BY <2>0, <2>6 DEF streamVars, StreamInv, StreamTyped, Streaming, HasError
    <3> QED
      BY <2>6, <3>1 DEF streamVars, StreamInv, FailureIsVisible, Events
  <2> QED
    BY <2>1, <2>2, <2>3, <2>4, <2>5, <2>6 DEF StreamNext
<1> QED
  BY <1>1, <1>2, PTL DEF StreamSpec

\* Whatever the vendor sends, refuses, cuts off or leaves unsaid, after any
\* number of frames and with any Connect code, a request that failed is told
\* from one that succeeded by its status or by an error among its events
\* (streamResponse, collectResponse, parseEndStream, errorStatus).
THEOREM FailuresAreVisible == StreamSpec => []FailureIsVisible
<1>1. StreamInv => FailureIsVisible
  BY DEF StreamInv
<1> QED
  BY <1>1, StreamInvariant, PTL

----------------------------------------------------------------------------
(* The text of an answer. *)

\* The contents of a list of events.
WrittenOf(events) == FlattenSeq([i \in DOMAIN events |-> ContentOf(events[i])])

LEMMA WrittenMore ==
    ASSUME NEW s \in Seq(Event), NEW t \in Seq(Event)
    PROVE  WrittenOf(s) \in Text /\ WrittenOf(s \o t) = WrittenOf(s) \o WrittenOf(t)
<1> DEFINE C(u) == [i \in DOMAIN u |-> ContentOf(u[i])]
<1>1. ASSUME NEW x \in Event PROVE ContentOf(x) \in Text
  <2>1. <<>> \in Text
    BY DEF Text
  <2> QED
    BY <2>1 DEF ContentOf, Event
<1>2. ASSUME NEW u \in Seq(Event) PROVE C(u) \in Seq(Text)
  <2>1. \A i \in 1..Len(u) : ContentOf(u[i]) \in Text
    BY <1>1
  <2> QED
    BY <2>1, SMTT(60)
<1>3. C(s \o t) = C(s) \o C(t)
  BY SMTT(60)
<1>4. C(s) \in Seq(Text) /\ C(t) \in Seq(Text)
  BY <1>2
<1> HIDE DEF C
<1>5. FlattenSeq(C(s) \o C(t)) = FlattenSeq(C(s)) \o FlattenSeq(C(t)) /\ FlattenSeq(C(s)) \in Text
  BY <1>4, FlattenConcat, FlattenType DEF Text
<1> QED
  BY <1>3, <1>5 DEF C, WrittenOf

LEMMA WrittenOne ==
    ASSUME NEW x \in Event
    PROVE  WrittenOf(<<x>>) = ContentOf(x)
<1>1. ContentOf(x) \in Text
  <2>1. <<>> \in Text
    BY DEF Text
  <2> QED
    BY <2>1 DEF ContentOf, Event
<1>2. [i \in DOMAIN <<x>> |-> ContentOf(<<x>>[i])] = <<ContentOf(x)>>
  OBVIOUS
<1> QED
  BY <1>1, <1>2, FlattenOne DEF WrittenOf, Text

LEMMA WrittenNothing ==
    /\ WrittenOf(<<>>) = <<>>
    /\ \A k \in {"role", "error", "stop", "DONE"} : WrittenOf(<<[e |-> k]>>) = <<>>
    /\ WrittenOf(<<[e |-> "stop"], [e |-> "DONE"]>>) = <<>>
    /\ \A k \in {"content", "message"}, c \in Text : WrittenOf(<<[e |-> k, c |-> c]>>) = c
<1>1. WrittenOf(<<>>) = <<>>
  <2>1. [i \in DOMAIN <<>> |-> ContentOf(<<>>[i])] = <<>>
    OBVIOUS
  <2> QED
    BY <2>1, FlattenEmpty DEF WrittenOf
<1>2. ASSUME NEW k \in {"role", "error", "stop", "DONE"}
      PROVE  [e |-> k] \in Event /\ WrittenOf(<<[e |-> k]>>) = <<>>
  <2>1. [e |-> k] \in Event /\ ContentOf([e |-> k]) = <<>>
    BY DEF Event, ContentOf
  <2> QED
    BY <2>1, WrittenOne
<1>3. WrittenOf(<<[e |-> "stop"], [e |-> "DONE"]>>) = <<>>
  <2> DEFINE a == <<[e |-> "stop"]>>
             b == <<[e |-> "DONE"]>>
  <2>1. a \in Seq(Event) /\ b \in Seq(Event) /\ WrittenOf(a) = <<>> /\ WrittenOf(b) = <<>>
    BY <1>2
  <2>2. <<[e |-> "stop"], [e |-> "DONE"]>> = a \o b
    OBVIOUS
  <2> HIDE DEF a, b
  <2>3. WrittenOf(a \o b) = WrittenOf(a) \o WrittenOf(b)
    BY <2>1, WrittenMore
  <2>4. <<>> \o <<>> = <<>>
    OBVIOUS
  <2> QED
    BY <2>1, <2>2, <2>3, <2>4
<1>4. ASSUME NEW k \in {"content", "message"}, NEW c \in Text
      PROVE  WrittenOf(<<[e |-> k, c |-> c]>>) = c
  <2>1. [e |-> k, c |-> c] \in Event /\ ContentOf([e |-> k, c |-> c]) = c
    BY DEF Event, ContentOf
  <2> QED
    BY <2>1, WrittenOne
<1> QED
  BY <1>1, <1>2, <1>3, <1>4

\* emit writes its pieces and nothing else.
LEMMA EmittedText ==
    ASSUME NEW events \in Seq(Event), NEW pieces \in Text
    PROVE  WrittenOf(Emitted(events, pieces)) = WrittenOf(events) \o pieces
<1> DEFINE role == IF events = <<>> THEN <<[e |-> "role"]>> ELSE <<>>
           content == <<[e |-> "content", c |-> pieces]>>
<1>0. WrittenOf(events) \in Text
  BY WrittenMore
<1>1. role \in Seq(Event) /\ WrittenOf(role) = <<>>
  BY EventKinds, WrittenNothing
<1>2. content \in Seq(Event) /\ WrittenOf(content) = pieces
  BY EventKinds, WrittenNothing
<1> HIDE DEF role, content
<1>3. events \o role \in Seq(Event) /\ WrittenOf(events \o role) = WrittenOf(events) \o <<>>
  <2>1. WrittenOf(events \o role) = WrittenOf(events) \o WrittenOf(role)
    BY <1>1, WrittenMore
  <2> QED
    BY <1>1, <2>1
<1>4. WrittenOf(events \o role \o content) = (WrittenOf(events) \o <<>>) \o pieces
  BY <1>2, <1>3, WrittenMore
<1>5. WrittenOf(events) \o <<>> = WrittenOf(events)
  BY <1>0 DEF Text
<1>6. Emitted(events, pieces) = IF pieces = <<>> THEN events ELSE events \o role \o content
  BY DEF Emitted, role, content
<1> QED
  BY <1>4, <1>5, <1>6

\* Leaving out the tags, piece by piece.
LEMMA UntaggedAppend ==
    ASSUME NEW w \in Text, NEW x \in Piece \cup Tags
    PROVE  /\ Untagged(w) \in Seq(Piece)
           /\ Untagged(Append(w, x)) = Untagged(w) \o (IF x \in Tags THEN <<>> ELSE <<x>>)
<1> DEFINE Kept(y) == IF y \in Tags THEN <<>> ELSE <<y>>
           K(u) == [i \in DOMAIN u |-> Kept(u[i])]
<1>1. ASSUME NEW y \in Piece \cup Tags PROVE Kept(y) \in Seq(Piece)
  OBVIOUS
<1>2. K(w) \in Seq(Seq(Piece))
  <2>1. \A i \in 1..Len(w) : Kept(w[i]) \in Seq(Piece)
    BY <1>1 DEF Text
  <2> HIDE DEF Kept
  <2> QED
    BY <2>1 DEF Text
<1>3. Kept(x) \in Seq(Piece)
  BY <1>1
<1> HIDE DEF Kept
<1>4. K(Append(w, x)) = Append(K(w), Kept(x))
  BY DEF Text
<1> HIDE DEF K
<1>5. /\ FlattenSeq(K(w)) \in Seq(Piece)
      /\ FlattenSeq(Append(K(w), Kept(x))) = FlattenSeq(K(w)) \o Kept(x)
  BY <1>2, <1>3, FlattenType, FlattenAppend
<1> QED
  BY <1>4, <1>5 DEF K, Kept, Untagged

\* A piece more leaves the inside of what was there as it was.
LEMMA InsideAppend ==
    ASSUME NEW w \in Text, NEW x \in Piece \cup Tags
    PROVE  /\ \A k \in 0..Len(w) : Inside(Append(w, x), k) <=> Inside(w, k)
           /\ Inside(Append(w, x), Len(w) + 1) <=>
                 x = OpenTag \/ (x # CloseTag /\ Inside(w, Len(w)))
<1> DEFINE v == Append(w, x)
<1>1. Len(w) \in Nat /\ v[Len(w) + 1] = x /\ \A i \in 1..Len(w) : v[i] = w[i]
  BY DEF Text
<1> HIDE DEF v
<1>2. ASSUME NEW k \in 0..Len(w) PROVE Inside(v, k) <=> Inside(w, k)
  BY <1>1 DEF Inside
<1>3. OpenTag # CloseTag
  BY DEF OpenTag, CloseTag
<1>4. ASSUME Inside(v, Len(w) + 1), x # OpenTag PROVE x # CloseTag /\ Inside(w, Len(w))
  <2>1. PICK j \in 1..Len(w) + 1 : v[j] = OpenTag /\ \A i \in j..Len(w) + 1 : v[i] # CloseTag
    BY <1>4 DEF Inside
  <2>2. j # Len(w) + 1 /\ j \in 1..Len(w)
    BY <1>1, <1>4, <2>1
  <2>3. x # CloseTag
    BY <1>1, <2>1, <2>2
  <2>4. w[j] = OpenTag /\ \A i \in j..Len(w) : w[i] # CloseTag
    BY <1>1, <2>1, <2>2
  <2> QED
    BY <2>2, <2>3, <2>4 DEF Inside
<1>5. ASSUME x = OpenTag PROVE Inside(v, Len(w) + 1)
  <2>1. /\ Len(w) + 1 \in 1..Len(w) + 1 /\ v[Len(w) + 1] = OpenTag
        /\ \A i \in Len(w) + 1..Len(w) + 1 : v[i] # CloseTag
    BY <1>1, <1>3, <1>5
  <2> QED
    BY <2>1 DEF Inside
<1>6. ASSUME x # CloseTag, Inside(w, Len(w)) PROVE Inside(v, Len(w) + 1)
  <2>1. PICK j \in 1..Len(w) : w[j] = OpenTag /\ \A i \in j..Len(w) : w[i] # CloseTag
    BY <1>6 DEF Inside
  <2>2. /\ j \in 1..Len(w) + 1 /\ v[j] = OpenTag
        /\ \A i \in j..Len(w) + 1 : v[i] # CloseTag
    BY <1>1, <1>6, <2>1
  <2> QED
    BY <2>2 DEF Inside
<1> QED
  BY <1>2, <1>4, <1>5, <1>6 DEF v

\* Text w tells what was decoded, tagged, and is in a block or not.
Faithful(w, inside, decoded) ==
    /\ w \in Text /\ Tagged(w) /\ (Inside(w, Len(w)) <=> inside) /\ Untagged(w) = decoded

\* The conditions under which one more piece keeps a text faithful.
LEMMA FaithfulAppend ==
    ASSUME NEW w, NEW inside, NEW decoded, Faithful(w, inside, decoded),
           NEW x \in Piece \cup Tags, NEW after,
           x = OpenTag => ~inside,
           x = CloseTag => inside,
           x \notin Tags => (x[2] = "thinking" <=> inside),
           after <=> x = OpenTag \/ (x # CloseTag /\ inside)
    PROVE  Faithful(Append(w, x), after, decoded \o (IF x \in Tags THEN <<>> ELSE <<x>>))
<1> DEFINE v == Append(w, x)
<1>1. w \in Text /\ Tagged(w) /\ (Inside(w, Len(w)) <=> inside) /\ Untagged(w) = decoded
  BY DEF Faithful
<1>2. /\ v \in Text /\ Len(v) = Len(w) + 1 /\ Len(w) \in Nat
      /\ v[Len(w) + 1] = x /\ \A i \in 1..Len(w) : v[i] = w[i]
  BY <1>1 DEF Text
<1>3. /\ \A k \in 0..Len(w) : Inside(v, k) <=> Inside(w, k)
      /\ Inside(v, Len(v)) <=> after
  BY <1>1, <1>2, InsideAppend
<1>4. Untagged(v) = decoded \o (IF x \in Tags THEN <<>> ELSE <<x>>)
  BY <1>1, UntaggedAppend
<1> HIDE DEF v
<1>5. ASSUME NEW k \in 1..Len(v)
      PROVE  /\ v[k] = OpenTag => ~Inside(v, k - 1)
             /\ v[k] = CloseTag => Inside(v, k - 1)
             /\ v[k] \notin Tags => (v[k][2] = "thinking" <=> Inside(v, k))
  <2>1. CASE k \in 1..Len(w)
    <3>1. k - 1 \in 0..Len(w) /\ k \in 0..Len(w)
      BY <1>2, <2>1
    <3>2. v[k] = w[k] /\ (Inside(v, k) <=> Inside(w, k)) /\ (Inside(v, k - 1) <=> Inside(w, k - 1))
      BY <1>2, <1>3, <2>1, <3>1
    <3> QED
      BY <1>1, <2>1, <3>2 DEF Tagged
  <2>2. CASE k = Len(w) + 1
    <3>1. v[k] = x /\ k - 1 = Len(w) /\ k = Len(v)
      BY <1>2, <2>2
    <3>2. Inside(v, k - 1) <=> inside
      BY <1>1, <1>2, <1>3, <3>1
    <3>3. x \notin Tags => x # OpenTag /\ x # CloseTag
      BY DEF Tags
    <3> QED
      BY <1>3, <3>1, <3>2, <3>3
  <2> QED
    BY <1>2, <2>1, <2>2
<1>6. Tagged(v)
  BY <1>5 DEF Tagged
<1> QED
  BY <1>2, <1>3, <1>4, <1>6 DEF Faithful, v

LEMMA FaithfulTypes ==
    ASSUME NEW w, NEW inside, NEW decoded, Faithful(w, inside, decoded)
    PROVE  w \in Seq(Piece \cup Tags) /\ decoded \in Seq(Piece) /\ decoded \o <<>> = decoded
<1>1. OpenTag \in Piece \cup Tags
  BY DEF Tags
<1>2. w \in Text /\ Untagged(w) = decoded
  BY DEF Faithful
<1>3. decoded \in Seq(Piece)
  BY <1>1, <1>2, UntaggedAppend
<1> QED
  BY <1>2, <1>3 DEF Text

\* The tagger on its way into a block and out of it.
LEMMA OpenTagged ==
    ASSUME NEW w, NEW decoded, Faithful(w, FALSE, decoded)
    PROVE  Faithful(w \o <<OpenTag>>, TRUE, decoded)
<1>1. OpenTag \in Tags /\ OpenTag # CloseTag
  BY DEF Tags, OpenTag, CloseTag
<1>2. Faithful(Append(w, OpenTag), TRUE, decoded \o <<>>)
  BY <1>1, FaithfulAppend
<1>3. w \in Seq(Piece \cup Tags) /\ decoded \o <<>> = decoded
  BY FaithfulTypes
<1>4. Append(w, OpenTag) = w \o <<OpenTag>>
  BY <1>3
<1> QED
  BY <1>2, <1>3, <1>4

LEMMA CloseTagged ==
    ASSUME NEW w, NEW decoded, Faithful(w, TRUE, decoded)
    PROVE  Faithful(w \o <<CloseTag>>, FALSE, decoded)
<1>1. CloseTag \in Tags /\ OpenTag # CloseTag
  BY DEF Tags, OpenTag, CloseTag
<1>2. Faithful(Append(w, CloseTag), FALSE, decoded \o <<>>)
  BY <1>1, FaithfulAppend
<1>3. w \in Seq(Piece \cup Tags) /\ decoded \o <<>> = decoded
  BY FaithfulTypes
<1>4. Append(w, CloseTag) = w \o <<CloseTag>>
  BY <1>3
<1> QED
  BY <1>2, <1>3, <1>4

\* A piece of the kind that belongs where the text is.
LEMMA PieceAdded ==
    ASSUME NEW w, NEW inside \in BOOLEAN, NEW decoded, Faithful(w, inside, decoded),
           NEW n \in 1..MaxFrames, NEW kind \in {"thinking", "text"},
           kind = "thinking" <=> inside
    PROVE  Faithful(w \o <<<<n, kind>>>>, inside, decoded \o <<<<n, kind>>>>)
<1> DEFINE x == <<n, kind>>
<1>1. x \in Piece /\ x[1] # 0 /\ x[2] = kind
  BY StreamAssumption DEF Piece
<1>2. OpenTag[1] = 0 /\ CloseTag[1] = 0
  BY DEF OpenTag, CloseTag
<1> HIDE DEF x
<1>3. x # OpenTag /\ x # CloseTag /\ x \notin Tags /\ x \in Piece \cup Tags
  BY <1>1, <1>2 DEF Tags
<1>4. Faithful(Append(w, x), inside, decoded \o <<x>>)
  BY <1>1, <1>3, FaithfulAppend
<1>5. w \in Seq(Piece \cup Tags)
  BY FaithfulTypes
<1>6. Append(w, x) = w \o <<x>>
  BY <1>3, <1>5
<1> QED
  BY <1>4, <1>6 DEF x

\* thinkingTagger.next adds what a chunk has brought, with its tags.
LEMMA NextFaithful ==
    open \in BOOLEAN =>
    \A w, decoded : \A n \in 1..MaxFrames : \A parts \in SUBSET {"thinking", "text"} :
        Faithful(w, open, decoded) =>
            Faithful(w \o next(n, parts),
                     IF "text" \in parts THEN FALSE ELSE open \/ "thinking" \in parts,
                     decoded \o Decoded(n, parts))
<1> HAVE open \in BOOLEAN
<1> TAKE w, decoded
<1> TAKE n \in 1..MaxFrames
<1> TAKE parts \in SUBSET {"thinking", "text"}
<1> HAVE Faithful(w, open, decoded)
<1> DEFINE S == Piece \cup Tags
           opening == IF open THEN <<>> ELSE <<OpenTag>>
           p == <<<<n, "thinking">>>>
           a == IF "thinking" \in parts THEN opening \o p ELSE <<>>
           pd == IF "thinking" \in parts THEN p ELSE <<>>
           inside == open \/ "thinking" \in parts
           closing == IF inside THEN <<CloseTag>> ELSE <<>>
           q == <<<<n, "text">>>>
           b == IF "text" \in parts THEN closing \o q ELSE <<>>
           qd == IF "text" \in parts THEN q ELSE <<>>
<1>1. OpenTag \in S /\ CloseTag \in S /\ <<n, "thinking">> \in Piece /\ <<n, "text">> \in Piece
  BY DEF Piece, Tags
<1>2. opening \in Seq(S) /\ p \in Seq(S) /\ closing \in Seq(S) /\ q \in Seq(S)
  BY <1>1
<1>3. p \in Seq(Piece) /\ q \in Seq(Piece) /\ pd \in Seq(Piece) /\ qd \in Seq(Piece)
  BY <1>1
<1>4. a \in Seq(S) /\ b \in Seq(S)
  BY <1>2
<1>5. w \in Seq(S) /\ decoded \in Seq(Piece)
  BY FaithfulTypes
<1>6. next(n, parts) = a \o b /\ Decoded(n, parts) = pd \o qd
  BY DEF next, Decoded
<1>7. Faithful(w \o a, inside, decoded \o pd)
  <2>1. CASE "thinking" \in parts
    <3>1. Faithful(w \o opening, TRUE, decoded)
      <4>1. CASE open
        <5>1. w \o opening = w
          BY <1>5, <4>1
        <5> QED
          BY <4>1, <5>1
      <4>2. CASE ~open
        <5>1. Faithful(w, FALSE, decoded)
          BY <4>2
        <5>2. opening = <<OpenTag>>
          BY <4>2
        <5> QED
          BY <5>1, <5>2, OpenTagged
      <4> QED
        BY <4>1, <4>2
    <3> HIDE DEF opening
    <3>2. Faithful((w \o opening) \o p, TRUE, decoded \o p)
      BY <3>1, PieceAdded
    <3> HIDE DEF p
    <3>3. (w \o opening) \o p = w \o a /\ pd = p
      BY <1>2, <1>5, <2>1, SMTT(60)
    <3> QED
      BY <2>1, <3>2, <3>3
  <2>2. CASE "thinking" \notin parts
    <3>1. w \o a = w /\ decoded \o pd = decoded
      BY <1>5, <2>2
    <3> QED
      BY <2>2, <3>1
  <2> QED
    BY <2>1, <2>2
<1> HIDE DEF a, pd
<1>8. Faithful((w \o a) \o b, IF "text" \in parts THEN FALSE ELSE inside, (decoded \o pd) \o qd)
  <2> DEFINE v == w \o a
             d == decoded \o pd
  <2>0. v \in Seq(S) /\ d \in Seq(Piece) /\ Faithful(v, inside, d) /\ inside \in BOOLEAN
    BY <1>3, <1>4, <1>5, <1>7
  <2> HIDE DEF v, d
  <2>1. CASE "text" \in parts
    <3>1. Faithful(v \o closing, FALSE, d)
      <4>1. CASE inside
        <5>1. Faithful(v, TRUE, d) /\ closing = <<CloseTag>>
          BY <2>0, <4>1
        <5> QED
          BY <5>1, CloseTagged
      <4>2. CASE ~inside
        <5>1. Faithful(v, FALSE, d) /\ closing = <<>>
          BY <2>0, <4>2
        <5>2. v \o <<>> = v
          BY <2>0
        <5> QED
          BY <5>1, <5>2
      <4> QED
        BY <4>1, <4>2
    <3> HIDE DEF closing
    <3>2. Faithful((v \o closing) \o q, FALSE, d \o q)
      BY <3>1, PieceAdded
    <3> HIDE DEF q
    <3>3. (v \o closing) \o q = v \o b /\ qd = q
      BY <1>2, <2>0, <2>1, SMTT(60)
    <3> QED
      BY <2>1, <3>2, <3>3 DEF v, d
  <2>2. CASE "text" \notin parts
    <3>1. v \o b = v /\ d \o qd = d
      BY <2>0, <2>2
    <3> QED
      BY <2>0, <2>2, <3>1 DEF v, d
  <2> QED
    BY <2>1, <2>2
<1> HIDE DEF b, qd
<1> HIDE DEF S
<1>9. (w \o a) \o b = w \o (a \o b)
  BY <1>4, <1>5, SMTT(60)
<1>10. (decoded \o pd) \o qd = decoded \o (pd \o qd)
  BY <1>3, <1>5
<1> QED
  BY <1>6, <1>8, <1>9, <1>10

\* thinkingTagger.close ends a block that is open.
LEMMA CloseFaithful ==
    open \in BOOLEAN =>
    \A w, decoded : Faithful(w, open, decoded) => Faithful(w \o close, FALSE, decoded)
<1> HAVE open \in BOOLEAN
<1> TAKE w, decoded
<1> HAVE Faithful(w, open, decoded)
<1>1. CASE open
  <2>1. Faithful(w, TRUE, decoded) /\ close = <<CloseTag>>
    BY <1>1 DEF close
  <2> QED
    BY <2>1, CloseTagged
<1>2. CASE ~open
  <2>1. Faithful(w, FALSE, decoded) /\ close = <<>> /\ w \in Seq(Piece \cup Tags)
    BY <1>2, FaithfulTypes DEF close
  <2>2. w \o close = w
    BY <2>1
  <2> QED
    BY <2>1, <2>2
<1> QED
  BY <1>1, <1>2

----------------------------------------------------------------------------
(* TextIsFaithful.  While a request runs, the text is in the events it has *)
(* streamed or in the buffer it collects, and it is in a block exactly when *)
(* the tagger says so; a frame waits for every one sent, and the one that  *)
(* ends the stream comes on top of them.                                   *)

SoFar == IF stream THEN WrittenOf(out) ELSE buffer

Status == {0, 200, 400, 401, 403, 429, 500, 502, 503}

WireInv ==
    /\ Len(wire) <= frames + 1
    /\ ~Ended => Len(wire) <= frames
    /\ status \in Status /\ verdict \in {"none", "clean", "failed"}

TextInv ==
    /\ pc = "new" => got = <<>> /\ buffer = <<>> /\ out = <<>> /\ ~open
    /\ pc # "ended" => Faithful(SoFar, open, got) /\ (out = <<>> => status = 0)
    /\ pc = "ended" => NothingLost /\ ThinkingIsTagged

\* Reading a frame and every other step keep the count of frames.
LEMMA WireTake ==
    ASSUME StreamInv, WireInv, NEW kinds, Reads(kinds), Take
    PROVE  /\ Len(wire') <= frames' + 1 /\ (~Ended' => Len(wire') <= frames')
           /\ verdict' \in {"none", "clean", "failed"}
<1>1. wire \in Seq(Frame) /\ frames \in Nat /\ wire # <<>>
  BY DEF StreamInv, StreamTyped, Reads
<1>2. wire' = Tail(wire) /\ frames' = frames
  BY DEF Take
<1>3. Len(wire') = Len(wire) - 1 /\ Len(wire) \in Nat
  BY <1>1, <1>2
<1>4. verdict' \in {"none", "clean", "failed"}
  BY DEF Take, Said, WireInv
<1> QED
  BY <1>1, <1>2, <1>3, <1>4 DEF WireInv

LEMMA WireStep == StreamInv /\ WireInv /\ [StreamNext]_streamVars => WireInv'
<1> SUFFICES ASSUME StreamInv, WireInv, [StreamNext]_streamVars PROVE WireInv'
  OBVIOUS
<1>0. wire \in Seq(Frame) /\ frames \in Nat /\ Len(wire) \in Nat
  BY DEF StreamInv, StreamTyped
<1>a. \A code : errorStatus(code) \in Status
  BY DEF errorStatus, Status
<1>b. ASSUME NEW code, Fail(code) PROVE status' \in Status
  BY <1>a, <1>b DEF Fail, WireInv
<1>c. ASSUME Finish PROVE status' \in Status
  BY <1>c DEF Finish, Status
<1>1. CASE Accept
  BY <1>1 DEF Accept, WireInv, Ended
<1>2. CASE Reject
  <2>1. status' \in Status /\ UNCHANGED <<wire, frames, verdict>>
    BY <1>2 DEF Reject, Refuse, Status
  <2> QED
    BY <2>1 DEF WireInv, Ended
<1>3. CASE VendorSends
  <2>1. PICK f : wire' = Append(wire, f)
    BY <1>3 DEF VendorSends
  <2>2. Len(wire') = Len(wire) + 1 /\ Len(wire) <= frames /\ frames' = frames + 1
    BY <1>0, <1>3, <2>1 DEF VendorSends, WireInv
  <2> QED
    BY <1>0, <1>3, <2>2 DEF VendorSends, WireInv
<1>4. CASE VendorEnds
  <2> DEFINE Final == {End(TRUE, c) : c \in Code} \cup {End(FALSE, ""), Other("eof"), Other("short")}
  <2>1. \A f \in Final : f \in Frame /\ f.kind \in {"end", "eof", "short"}
    <3>1. \A c \in Code : End(TRUE, c).kind = "end"
      BY DEF End
    <3>2. End(FALSE, "").kind = "end" /\ Other("eof").kind = "eof" /\ Other("short").kind = "short"
      BY DEF End, Other
    <3> QED
      BY <3>1, <3>2, VendorFrames
  <2>2. \E f \in Final : wire' = Append(wire, f)
    BY <1>4 DEF VendorEnds
  <2> HIDE DEF Final
  <2>3. PICK f \in Frame : wire' = Append(wire, f) /\ f.kind \in {"end", "eof", "short"}
    BY <2>1, <2>2
  <2>4. Len(wire) <= frames /\ frames' = frames
    BY <1>4 DEF VendorEnds, WireInv
  <2>5. /\ Len(wire') = Len(wire) + 1
        /\ Len(wire) + 1 \in DOMAIN wire' /\ wire'[Len(wire) + 1] = f
    BY <1>0, <2>3
  <2>6. Ended'
    BY <2>3, <2>5 DEF Ended
  <2>7. UNCHANGED <<status, verdict>>
    BY <1>4 DEF VendorEnds
  <2>8. Len(wire') <= frames' + 1
    BY <1>0, <2>5, <2>4
  <2> QED
    BY <2>6, <2>7, <2>8 DEF WireInv
<1>5. CASE ReadChunk
  <2>1. Reads({"chunk"}) /\ Take /\ status' \in Status
    BY <1>5 DEF ReadChunk, WireInv, Status
  <2> QED
    BY <2>1, WireTake DEF WireInv
<1>6. CASE SkipFrame
  BY <1>6, WireTake DEF SkipFrame, WireInv
<1>7. CASE ReadEnd
  BY <1>7, <1>b, <1>c, WireTake DEF ReadEnd, WireInv
<1>8. CASE ReadEOF
  BY <1>8, <1>c, WireTake DEF ReadEOF, WireInv
<1>9. CASE ReadBroken
  BY <1>9, <1>b, WireTake DEF ReadBroken, WireInv
<1>10. CASE Deadline
  BY <1>10, <1>b DEF Deadline, WireInv, Ended
<1>11. CASE UNCHANGED streamVars
  BY <1>11 DEF streamVars, WireInv, Ended
<1> QED
  BY <1>1, <1>2, <1>3, <1>4, <1>5, <1>6, <1>7, <1>8, <1>9, <1>10, <1>11 DEF StreamNext, Reader

\* A request that runs keeps its text where the client will read it.
LEMMA RunningText ==
    ASSUME StreamInv, TextInv, pc # "ended"
    PROVE  Forwarded = SoFar /\ Faithful(SoFar, open, got)
<1>1. Faithful(SoFar, open, got)
  BY DEF TextInv
<1>2. ~stream => status # 200
  BY DEF StreamInv, Streaming, TextInv
<1> QED
  BY <1>1, <1>2 DEF Forwarded, SoFar, Written, WrittenOf

\* What an answer has to be when it is complete.
LEMMA EndedText ==
    ASSUME pc' = "ended", NEW inside, Faithful(Forwarded', inside, got'), status' = 200 => ~inside
    PROVE  TextInv'
BY DEF TextInv, NothingLost, ThinkingIsTagged, Faithful

\* A request that fails loses nothing of what it had decoded.
LEMMA FailText ==
    ASSUME StreamInv, TextInv, pc # "ended", NEW code, Fail(code), UNCHANGED stream
    PROVE  TextInv'
<1>1. Faithful(SoFar, open, got) /\ pc' = "ended" /\ got' = got /\ buffer' = buffer
  BY RunningText DEF Fail
<1>2. out \in Seq(Event) /\ close \in Text /\ open \in BOOLEAN /\ stream \in BOOLEAN
  BY ClosingTag DEF StreamInv, StreamTyped
<1>3. CASE stream /\ out # <<>>
  <2> DEFINE error == <<[e |-> "error"]>>
             last == <<[e |-> "stop"], [e |-> "DONE"]>>
             failed == out \o error
             w == WrittenOf(out)
  <2>1. error \in Seq(Event) /\ last \in Seq(Event) /\ WrittenOf(error) = <<>> /\ WrittenOf(last) = <<>>
    BY EventKinds, WrittenNothing
  <2>2. out' = Emitted(failed, close) \o last /\ stream'
    BY <1>3 DEF Fail
  <2> HIDE DEF error, last
  <2>3. failed \in Seq(Event) /\ WrittenOf(failed) = w \o <<>> /\ w \in Text
    <3>1. WrittenOf(out \o error) = WrittenOf(out) \o WrittenOf(error) /\ WrittenOf(out) \in Text
      BY <1>2, <2>1, WrittenMore
    <3>2. out \o error \in Seq(Event)
      BY <1>2, <2>1
    <3> QED
      BY <2>1, <3>1, <3>2
  <2> HIDE DEF failed, w
  <2>4. Emitted(failed, close) \in Seq(Event) /\ WrittenOf(Emitted(failed, close)) = WrittenOf(failed) \o close
    BY <1>2, <2>3, EmittedText, EmittedEvents
  <2>5. WrittenOf(out') = WrittenOf(Emitted(failed, close)) \o <<>>
    BY <2>1, <2>2, <2>4, WrittenMore
  <2>6. WrittenOf(out') = w \o close
    BY <1>2, <2>3, <2>4, <2>5 DEF Text
  <2>7. Faithful(w \o close, FALSE, got)
    <3>1. Faithful(w, open, got)
      BY <1>1, <1>3 DEF SoFar, w
    <3> QED
      BY <1>2, <3>1, CloseFaithful
  <2>8. Forwarded' = WrittenOf(out')
    BY <2>2 DEF Forwarded, Written, WrittenOf
  <2> QED
    BY <1>1, <2>6, <2>7, <2>8, EndedText
<1>4. CASE ~(stream /\ out # <<>>)
  <2>1. status' \notin {0, 200} /\ out' = <<[e |-> "error"]>>
    BY <1>4, ErrorStatuses DEF Fail
  <2>2. Forwarded' = SoFar
    <3>1. CASE stream
      <4>1. SoFar = <<>>
        BY <1>4, <3>1, WrittenNothing DEF SoFar
      <4>2. WrittenOf(out') = <<>>
        BY <2>1, WrittenNothing
      <4> QED
        BY <3>1, <4>1, <4>2 DEF Forwarded, Written, WrittenOf
    <3>2. CASE ~stream
      BY <1>1, <2>1, <3>2 DEF Forwarded, SoFar
    <3> QED
      BY <3>1, <3>2
  <2> QED
    BY <1>1, <2>1, <2>2, EndedText
<1> QED
  BY <1>3, <1>4

\* A request that ends well closes the block it is in.
LEMMA FinishText ==
    ASSUME StreamInv, TextInv, pc # "ended", Finish, UNCHANGED stream
    PROVE  TextInv'
<1>1. /\ Faithful(SoFar, open, got) /\ pc' = "ended" /\ got' = got
      /\ status' = 200 /\ buffer' = buffer
  BY RunningText DEF Finish
<1>2. out \in Seq(Event) /\ close \in Text /\ open \in BOOLEAN /\ buffer \in Text
  BY ClosingTag DEF StreamInv, StreamTyped
<1>3. Faithful(SoFar \o close, FALSE, got)
  <2>1. Faithful(SoFar, open, got) /\ open \in BOOLEAN
    BY <1>1, <1>2
  <2> QED
    BY <2>1, CloseFaithful
<1>4. Forwarded' = WrittenOf(out')
  BY <1>1 DEF Forwarded, Written, WrittenOf
<1>5. WrittenOf(out') = SoFar \o close
  <2>1. CASE stream
    <3> DEFINE last == <<[e |-> "stop"], [e |-> "DONE"]>>
               w == WrittenOf(out)
    <3>1. last \in Seq(Event) /\ WrittenOf(last) = <<>>
      BY EventKinds, WrittenNothing
    <3>2. out' = Emitted(out, close) \o last
      BY <2>1 DEF Finish
    <3> HIDE DEF last
    <3>3. w \in Text
      BY <1>2, WrittenMore
    <3> HIDE DEF w
    <3>4. Emitted(out, close) \in Seq(Event) /\ WrittenOf(Emitted(out, close)) = w \o close
      BY <1>2, EmittedText, EmittedEvents DEF w
    <3>5. WrittenOf(out') = (w \o close) \o <<>>
      BY <3>1, <3>2, <3>4, WrittenMore
    <3>6. (w \o close) \o <<>> = w \o close
      BY <1>2, <3>3 DEF Text
    <3> QED
      BY <2>1, <3>5, <3>6 DEF SoFar, w
  <2>2. CASE ~stream
    <3>1. out' = <<[e |-> "message", c |-> buffer \o close]>>
      BY <2>2 DEF Finish
    <3>2. buffer \o close \in Text
      BY <1>2 DEF Text
    <3> QED
      BY <2>2, <3>1, <3>2, WrittenNothing DEF SoFar
  <2> QED
    BY <2>1, <2>2
<1> QED
  BY <1>1, <1>3, <1>4, <1>5, EndedText

\* A chunk is added to the text.
LEMMA ReadChunkText ==
    ASSUME StreamInv, TextInv, ReadChunk
    PROVE  TextInv'
<1> DEFINE f == Head(wire)
           pieces == next(f.n, f.parts)
           decoded == Decoded(f.n, f.parts)
           inside == IF "text" \in f.parts THEN FALSE ELSE open \/ "thinking" \in f.parts
<1>1. /\ pc = "read" /\ pc' = "read" /\ UNCHANGED stream
      /\ got' = got \o decoded /\ open' = inside
      /\ f.n \in 1..MaxFrames /\ f.parts \in SUBSET {"thinking", "text"}
  BY TakeFrame DEF ReadChunk, StreamInv
<1>2. /\ out \in Seq(Event) /\ buffer \in Text /\ open \in BOOLEAN /\ stream \in BOOLEAN
  BY DEF StreamInv, StreamTyped
<1>3. Faithful(SoFar, open, got) /\ (out = <<>> => status = 0)
  BY <1>1, RunningText DEF TextInv
<1>4. pieces \in Text
  BY <1>1, <1>2, ChunkPieces
<1>5. Faithful(SoFar \o pieces, inside, got \o decoded)
  <2>1. Faithful(SoFar, open, got) /\ open \in BOOLEAN
    BY <1>2, <1>3
  <2>2. f.n \in 1..MaxFrames /\ f.parts \in SUBSET {"thinking", "text"}
    BY <1>1
  <2> HIDE DEF f
  <2> QED
    BY <2>1, <2>2, NextFaithful
<1>6. SoFar' = SoFar \o pieces /\ (out' = <<>> => status' = 0)
  <2>1. CASE stream
    <3>1. out' = Emitted(out, pieces) /\ status' = (IF pieces = <<>> THEN status ELSE 200)
      BY <2>1 DEF ReadChunk
    <3>2. SoFar' = WrittenOf(out') /\ SoFar = WrittenOf(out)
      BY <1>1, <2>1 DEF SoFar, WrittenOf
    <3> HIDE DEF pieces
    <3>3. SoFar' = SoFar \o pieces
      BY <1>2, <1>4, <3>1, <3>2, EmittedText
    <3>4. out' = <<>> => pieces = <<>> /\ out = <<>>
      <4> SUFFICES ASSUME pieces # <<>> \/ out # <<>> PROVE out' # <<>>
        OBVIOUS
      <4>1. CASE pieces = <<>>
        BY <3>1, <4>1 DEF Emitted
      <4>2. CASE pieces # <<>>
        <5> DEFINE role == IF out = <<>> THEN <<[e |-> "role"]>> ELSE <<>>
                   content == <<[e |-> "content", c |-> pieces]>>
        <5>1. role \in Seq(Event) /\ content \in Seq(Event) /\ Len(content) = 1
          BY <1>4, EventKinds
        <5>2. out' = out \o role \o content
          BY <3>1, <4>2 DEF Emitted
        <5> HIDE DEF role, content
        <5> QED
          BY <1>2, <5>1, <5>2
      <4> QED
        BY <4>1, <4>2
    <3> QED
      BY <1>3, <3>1, <3>3, <3>4
  <2>2. CASE ~stream
    BY <1>1, <1>3, <2>2 DEF ReadChunk, SoFar
  <2> QED
    BY <2>1, <2>2
<1> QED
  BY <1>1, <1>5, <1>6 DEF TextInv

\* Steps that leave the text alone.
LEMMA SameText ==
    ASSUME TextInv, UNCHANGED <<stream, open, buffer, status, out, got>>,
           pc' = "new" => pc = "new",
           pc' = "ended" <=> pc = "ended"
    PROVE  TextInv'
<1>1. SoFar' = SoFar /\ Forwarded' = Forwarded
  BY DEF SoFar, WrittenOf, Forwarded, Written
<1>2. pc' = "ended" => (NothingLost /\ ThinkingIsTagged)'
  BY <1>1 DEF TextInv, NothingLost, ThinkingIsTagged
<1> QED
  BY <1>1, <1>2 DEF TextInv

LEMMA TextStep == StreamInv /\ TextInv /\ [StreamNext]_streamVars => TextInv'
<1> SUFFICES ASSUME StreamInv, TextInv, [StreamNext]_streamVars PROVE TextInv'
  OBVIOUS
<1>1. CASE Accept
  BY <1>1, SameText DEF Accept
<1>2. CASE Reject
  <2>1. /\ pc = "new" /\ pc' = "ended" /\ out' = <<[e |-> "error"]>> /\ status' # 200
        /\ UNCHANGED <<stream, buffer, open, got>>
    BY <1>2 DEF Reject, Refuse
  <2>2. Faithful(SoFar, open, got) /\ buffer = <<>> /\ out = <<>> /\ stream \in BOOLEAN
    BY <2>1, RunningText DEF TextInv, StreamInv, StreamTyped
  <2>3. SoFar = <<>> /\ WrittenOf(out') = <<>>
    BY <2>1, <2>2, WrittenNothing DEF SoFar
  <2>4. Forwarded' = <<>>
    BY <2>1, <2>2, <2>3 DEF Forwarded, Written, WrittenOf
  <2> QED
    BY <2>1, <2>2, <2>3, <2>4, EndedText
<1>3. CASE VendorSends \/ VendorEnds
  BY <1>3, SameText DEF VendorSends, VendorEnds
<1>4. CASE ReadChunk
  BY <1>4, ReadChunkText
<1>5. CASE SkipFrame
  BY <1>5, SameText DEF SkipFrame, Take
<1>6. CASE ReadEnd
  <2>1. pc # "ended" /\ UNCHANGED stream
    BY <1>6 DEF ReadEnd, Reads, Take
  <2>2. (\E code : Fail(code)) \/ Finish
    BY <1>6 DEF ReadEnd
  <2> QED
    BY <2>1, <2>2, FailText, FinishText
<1>7. CASE ReadEOF
  BY <1>7, FinishText DEF ReadEOF, Reads, Take
<1>8. CASE ReadBroken
  BY <1>8, FailText DEF ReadBroken, Reads, Take
<1>9. CASE Deadline
  BY <1>9, FailText DEF Deadline
<1>10. CASE UNCHANGED streamVars
  BY <1>10, SameText DEF streamVars
<1> QED
  BY <1>1, <1>2, <1>3, <1>4, <1>5, <1>6, <1>7, <1>8, <1>9, <1>10 DEF StreamNext, Reader

\* Whatever the vendor sends and wherever it stops, the client reads every
\* piece of text that was decoded, once, in order and with the thinking in its
\* tags, for any number of frames (thinkingTagger, streamResponse,
\* collectResponse).
THEOREM TextStaysFaithful == StreamSpec => []TextIsFaithful
<1>1. StreamInit => WireInv /\ TextInv
  <2> SUFFICES ASSUME StreamInit PROVE WireInv /\ TextInv
    OBVIOUS
  <2>1. WireInv
    BY DEF StreamInit, WireInv, Status
  <2>2. Untagged(<<>>) = <<>>
    <3>1. [i \in DOMAIN <<>> |-> IF <<>>[i] \in Tags THEN <<>> ELSE <<<<>>[i]>>] = <<>>
      OBVIOUS
    <3> QED
      BY <3>1, FlattenEmpty DEF Untagged
  <2>3. Faithful(<<>>, FALSE, <<>>)
    <3>1. <<>> \in Text /\ Len(<<>>) = 0
      BY DEF Text
    <3>2. Tagged(<<>>) /\ ~Inside(<<>>, 0)
      BY <3>1 DEF Tagged, Inside
    <3> QED
      BY <2>2, <3>1, <3>2 DEF Faithful
  <2>4. SoFar = <<>> /\ open = FALSE /\ got = <<>> /\ pc = "new"
    BY WrittenNothing DEF StreamInit, SoFar
  <2> QED
    BY <2>1, <2>3, <2>4 DEF StreamInit, TextInv
<1>2. StreamInv /\ WireInv /\ TextInv => TextIsFaithful
  <2> SUFFICES ASSUME StreamInv, WireInv, TextInv PROVE TextIsFaithful
    OBVIOUS
  <2>1. StreamTypes
    BY DEF StreamInv, StreamTyped, WireInv, StreamTypes, Text, Status
  <2>2. NothingLost /\ ThinkingIsTagged
    <3>1. CASE pc = "ended"
      BY <3>1 DEF TextInv
    <3>2. CASE pc # "ended"
      BY <3>2, RunningText DEF NothingLost, ThinkingIsTagged, Faithful
    <3> QED
      BY <3>1, <3>2
  <2> QED
    BY <2>1, <2>2 DEF TextIsFaithful
<1> QED
  BY <1>1, <1>2, StreamInvariant, WireStep, TextStep, PTL DEF StreamSpec

----------------------------------------------------------------------------
(* Elements of a sequence at chosen positions. *)

LEMMA SmallRanges ==
    /\ Range(<<>>) = {}
    /\ \A y : Range(<<y>>) = {y}
    /\ \A X : \A s \in Seq(X) : s = <<>> <=> Range(s) = {}
<1>1. \A y : Range(<<y>>) = {y}
  <2> SUFFICES ASSUME NEW y PROVE Range(<<y>>) = {y}
    OBVIOUS
  <2>1. DOMAIN <<y>> = {1} /\ <<y>>[1] = y
    OBVIOUS
  <2> QED
    BY <2>1 DEF Range
<1>2. Range(<<>>) = {}
  BY DEF Range
<1>3. ASSUME NEW X, NEW s \in Seq(X), s # <<>> PROVE Range(s) # {}
  <2>1. 1 \in DOMAIN s
    BY <1>3
  <2> QED
    BY <2>1 DEF Range
<1> QED
  BY <1>1, <1>2, <1>3

LEMMA InSequence ==
    ASSUME NEW X, NEW s \in Seq(X)
    PROVE  /\ \A i \in DOMAIN s : s[i] \in X /\ s[i] \in Range(s)
           /\ \A x \in Range(s) : x \in X /\ \E i \in DOMAIN s : s[i] = x
<1>1. \A i \in DOMAIN s : s[i] \in X
  OBVIOUS
<1> QED
  BY <1>1 DEF Range

LEMMA AtType ==
    ASSUME NEW X, NEW s \in Seq(X), NEW I
    PROVE  /\ [i \in DOMAIN s |-> IF i \in I THEN <<s[i]>> ELSE <<>>] \in Seq(Seq(X))
           /\ At(s, I) \in Seq(X)
<1> DEFINE K(i) == IF i \in I THEN <<s[i]>> ELSE <<>>
           t == [i \in DOMAIN s |-> K(i)]
<1>1. \A i \in 1..Len(s) : K(i) \in Seq(X)
  OBVIOUS
<1> HIDE DEF K
<1>2. t \in Seq(Seq(X))
  BY <1>1
<1> HIDE DEF t
<1>3. FlattenSeq(t) \in Seq(X)
  BY <1>2, FlattenType
<1> QED
  BY <1>2, <1>3 DEF At, t, K

LEMMA AtRange ==
    ASSUME NEW X, NEW s \in Seq(X), NEW I
    PROVE  /\ \A x : x \in Range(At(s, I)) <=> \E i \in DOMAIN s : i \in I /\ x = s[i]
           /\ At(s, I) = <<>> <=> \A i \in DOMAIN s : i \notin I
<1> DEFINE t == [i \in DOMAIN s |-> IF i \in I THEN <<s[i]>> ELSE <<>>]
<1>1. t \in Seq(Seq(X)) /\ At(s, I) \in Seq(X) /\ Len(t) = Len(s)
  BY AtType, SMTT(60)
<1>2. \A i \in 1..Len(s) : t[i] = IF i \in I THEN <<s[i]>> ELSE <<>>
  OBVIOUS
<1>3. At(s, I) = FlattenSeq(t)
  BY DEF At
<1> HIDE DEF t
<1>4. ASSUME NEW x PROVE x \in Range(At(s, I)) <=> \E i \in 1..Len(s) : i \in I /\ x = s[i]
  <2>1. x \in Range(At(s, I)) <=> \E i \in 1..Len(t) : x \in Range(t[i])
    BY <1>1, <1>3, FlattenRange
  <2>2. ASSUME NEW i \in 1..Len(s) PROVE x \in Range(t[i]) <=> i \in I /\ x = s[i]
    BY <1>2, SmallRanges, ZenonT(60)
  <2> QED
    BY <1>1, <2>1, <2>2
<1>5. \A x : x \in Range(At(s, I)) <=> \E i \in DOMAIN s : i \in I /\ x = s[i]
  BY <1>4
<1>6. At(s, I) = <<>> <=> Range(At(s, I)) = {}
  BY <1>1, SmallRanges
<1> QED
  BY <1>5, <1>6

----------------------------------------------------------------------------
(* Names. *)

\* The parts of a name and the levels.
Part == STRING \cup Range(effortSuffixes)

LEMMA Levels ==
    /\ \A l \in 1..3 : effortSuffixes[l] \in Range(effortSuffixes) /\ effortSuffixes[l] \in Part
    /\ \A id \in Name : id \in Seq(Part) /\ Len(id) >= 1
<1>1. DOMAIN effortSuffixes = 1..3
  BY DEF effortSuffixes
<1>2. \A id \in Name : id \in Seq(STRING) /\ Len(id) >= 1
  BY DEF Name
<1>3. STRING \in SUBSET Part
  BY DEF Part
<1> DEFINE T == STRING
<1>4. \A id \in Seq(T) : T \in SUBSET Part => id \in Seq(Part)
  <2> HIDE DEF T
  <2> QED
    OBVIOUS
<1> QED
  BY <1>1, <1>2, <1>3, <1>4 DEF Range, Part

LEMMA AppendParts ==
    ASSUME NEW X, NEW s \in Seq(X), NEW x \in X
    PROVE  /\ Len(Append(s, x)) = Len(s) + 1 /\ Append(s, x)[Len(Append(s, x))] = x
           /\ SubSeq(Append(s, x), 1, Len(Append(s, x)) - 1) = s
<1> DEFINE n == Len(s)
           t == Append(s, x)
<1>1. n \in Nat /\ t \in Seq(X) /\ Len(t) = n + 1 /\ t[n + 1] = x
  OBVIOUS
<1>2. \A i \in 1..n : t[i] = s[i]
  OBVIOUS
<1> HIDE DEF t
<1>3. Len(SubSeq(t, 1, n)) = n /\ \A i \in 1..n : SubSeq(t, 1, n)[i] = t[i]
  BY <1>1
<1>4. SubSeq(t, 1, n) \in Seq(X)
  BY <1>1
<1>5. SubSeq(t, 1, n) = s
  BY <1>2, <1>3, <1>4, SeqEqual
<1> QED
  BY <1>1, <1>5 DEF t

LEMMA ConsParts ==
    ASSUME NEW X, NEW x \in X, NEW s \in Seq(X), NEW one, one = <<x>>
    PROVE  /\ one \o s \in Seq(X) /\ Len(one \o s) = Len(s) + 1 /\ (one \o s)[1] = x
           /\ \A i \in 1..Len(s) : (one \o s)[i + 1] = s[i]
<1>1. one \in Seq(X) /\ Len(one) = 1 /\ one[1] = x
  OBVIOUS
<1>2. /\ one \o s \in Seq(X) /\ Len(one \o s) = 1 + Len(s)
      /\ \A i \in 1..1 + Len(s) : (one \o s)[i] = IF i <= 1 THEN one[i] ELSE s[i - 1]
  BY <1>1, ConcatProperties
<1>3. Len(s) \in Nat
  OBVIOUS
<1>4. ASSUME NEW i \in 1..Len(s) PROVE (one \o s)[i + 1] = s[i]
  <2>1. i + 1 \in 1..1 + Len(s) /\ ~(i + 1 <= 1) /\ (i + 1) - 1 = i
    BY <1>3
  <2> QED
    BY <1>2, <2>1
<1>5. (one \o s)[1] = one[1]
  BY <1>2, <1>3
<1> QED
  BY <1>1, <1>2, <1>3, <1>4, <1>5

\* A level that is appended to a name is taken off again.
LEMMA ParseAppended ==
    ASSUME NEW id \in Name, NEW l \in 1..3
    PROVE  parseEffortModel(Append(id, effortSuffixes[l])) =
              [base |-> id, effort |-> effortSuffixes[l], ok |-> TRUE]
<1> DEFINE e == effortSuffixes[l]
           m == Append(id, e)
<1>1. e \in Range(effortSuffixes) /\ e \in Part
  BY Levels
<1> HIDE DEF e
<1>2. id \in Seq(Part) /\ Len(id) >= 1
  BY Levels
<1>3. Len(m) = Len(id) + 1 /\ m[Len(m)] = e /\ SubSeq(m, 1, Len(m) - 1) = id
  BY <1>1, <1>2, AppendParts
<1>4. Len(m) >= 2 /\ Last(m) = e /\ Front(m) = id
  BY <1>2, <1>3 DEF Last, Front
<1> HIDE DEF m
<1> QED
  BY <1>1, <1>4 DEF parseEffortModel, m, e

LEMMA ExpandedList ==
    ASSUME NEW id \in Name
    PROVE  LET list == ExpandEffortModels(<<[id |-> id]>>)
           IN  /\ DOMAIN list = 1..4 /\ list[1].id = id
               /\ \A l \in 1..3 : list[l + 1].id = Append(id, effortSuffixes[l])
<1> DEFINE data == <<[id |-> id]>>
           more == [l \in 1..3 |-> [data[1] EXCEPT !.id = Append(@, effortSuffixes[l])]]
           one == <<data[1]>> \o more
           X == [id : Seq(Part)]
<1>1. data[1] = [id |-> id] /\ id \in Seq(Part) /\ data[1] \in X
  BY Levels
<1>2. \A l \in 1..3 : Append(id, effortSuffixes[l]) \in Seq(Part)
  BY <1>1, Levels
<1>3. \A l \in 1..3 : [data[1] EXCEPT !.id = Append(@, effortSuffixes[l])] = [id |-> Append(id, effortSuffixes[l])]
  BY <1>1
<1>4. more \in Seq(X) /\ Len(more) = 3 /\ \A l \in 1..3 : more[l].id = Append(id, effortSuffixes[l])
  <2>1. \A l \in 1..3 : more[l] \in X /\ more[l].id = Append(id, effortSuffixes[l])
    BY <1>2, <1>3
  <2> QED
    BY <2>1
<1> HIDE DEF X
<1>5. ExpandEffortModels(data) = FlattenSeq(<<one>>)
  <2> DEFINE F(d) == <<d>> \o [l \in 1..3 |-> [d EXCEPT !.id = Append(@, effortSuffixes[l])]]
  <2>1. ExpandEffortModels(data) = FlattenSeq([i \in DOMAIN data |-> F(data[i])]) /\ one = F(data[1])
    BY DEF ExpandEffortModels
  <2> HIDE DEF F, one
  <2>2. [i \in DOMAIN data |-> F(data[i])] = <<F(data[1])>>
    OBVIOUS
  <2> QED
    BY <2>1, <2>2
<1> HIDE DEF more
<1>6. one \in Seq(X) /\ Len(one) = 4 /\ one[1] = data[1] /\ \A l \in 1..3 : one[l + 1] = more[l]
  <2> DEFINE d == data[1]
             o == <<d>>
  <2>1. d \in X /\ o = <<d>> /\ one = o \o more
    BY <1>1
  <2> HIDE DEF d, o, one
  <2>2. /\ o \o more \in Seq(X) /\ Len(o \o more) = Len(more) + 1 /\ (o \o more)[1] = d
        /\ \A i \in 1..Len(more) : (o \o more)[i + 1] = more[i]
    <3>1. more \in Seq(X)
      BY <1>4
    <3>2. d \in X /\ o = <<d>>
      BY <2>1
    <3> QED
      BY <3>1, <3>2, ConsParts
  <2>3. one \in Seq(X) /\ Len(one) = 4 /\ one[1] = d
    BY <1>4, <2>1, <2>2
  <2>4. \A l \in 1..3 : one[l + 1] = more[l]
    BY <1>4, <2>1, <2>2
  <2> QED
    BY <2>3, <2>4 DEF d
<1> HIDE DEF one
<1>7. ExpandEffortModels(data) = one
  BY <1>5, <1>6, FlattenOne
<1> QED
  BY <1>1, <1>4, <1>6, <1>7, SMTT(60)

\* A path with fewer than three slashes at its end is the route it names.
LEMMA RewritePath ==
    ASSUME NEW path \in [route : {"/v1/chat/completions", "/v1/messages", "/v1beta/messages", "/v1/models"},
                         slashes : Nat]
    PROVE  isRewritePath([path EXCEPT !.slashes = IF @ = 0 THEN 0 ELSE @ - 1]) <=>
              path.slashes <= 2 /\ path.route # "/v1/models"
<1> DEFINE t == [path EXCEPT !.slashes = IF @ = 0 THEN 0 ELSE @ - 1]
<1>1. t.route = path.route /\ t.slashes = IF path.slashes = 0 THEN 0 ELSE path.slashes - 1
  OBVIOUS
<1>2. t.slashes <= 1 <=> path.slashes <= 2
  BY <1>1
<1> QED
  BY <1>1, <1>2 DEF isRewritePath

LEMMA EffortsRoundTrip ==
    ASSUME input \in ModelInput
    PROVE  EffortRoundTrips
<1> DEFINE list == ExpandEffortModels(<<[id |-> input.id]>>)
           Req(m) == [method |-> input.method, path |-> input.path, body |-> input.body, model |-> m]
           Ask(m) == EffortPresetMiddleware(Req(m))
           rewritten == /\ input.method = "POST" /\ input.body = "model" /\ input.path.slashes <= 2
                        /\ input.path.route # "/v1/models"
<1>1. /\ input.id \in Name
      /\ input.path \in [route : {"/v1/chat/completions", "/v1/messages", "/v1beta/messages", "/v1/models"},
                         slashes : Nat]
  BY DEF ModelInput
<1>2. ASSUME NEW m PROVE Ask(m) = IF rewritten /\ parseEffortModel(m).ok
                                  THEN effortModel(parseEffortModel(m).base, parseEffortModel(m).effort)
                                  ELSE effortModel(m, "")
  BY <1>1, RewritePath DEF EffortPresetMiddleware
<1> HIDE DEF Ask
<1>3. ~rewritten => \A i \in DOMAIN list : Ask(list[i].id) = effortModel(list[i].id, "")
  BY <1>2
<1>4. rewritten => \A l \in 1..3 : Ask(list[l + 1].id) = effortModel(input.id, effortSuffixes[l])
  <2> SUFFICES ASSUME rewritten, NEW l \in 1..3
               PROVE  Ask(list[l + 1].id) = effortModel(input.id, effortSuffixes[l])
    OBVIOUS
  <2>1. list[l + 1].id = Append(input.id, effortSuffixes[l])
    BY <1>1, ExpandedList
  <2>2. parseEffortModel(Append(input.id, effortSuffixes[l])) =
           [base |-> input.id, effort |-> effortSuffixes[l], ok |-> TRUE]
    BY <1>1, ParseAppended
  <2> DEFINE m == Append(input.id, effortSuffixes[l])
             q == parseEffortModel(m)
  <2>3. q.ok /\ q.base = input.id /\ q.effort = effortSuffixes[l]
    BY <2>2
  <2> HIDE DEF rewritten, list, m, q
  <2>4. Ask(m) = effortModel(q.base, q.effort)
    BY <1>2, <2>3 DEF q
  <2> QED
    BY <2>1, <2>3, <2>4 DEF m
<1>5. ~EndsWithLevel(input.id) => Ask(input.id) = effortModel(input.id, "")
  <2>1. Len(input.id) \in Nat
    BY <1>1 DEF Name
  <2>2. ~EndsWithLevel(input.id) => ~parseEffortModel(input.id).ok
    BY <2>1 DEF EndsWithLevel, parseEffortModel
  <2> QED
    BY <1>2, <2>2
<1> QED
  BY <1>3, <1>4, <1>5 DEF EffortRoundTrips, Ask

LEMMA StrategiesRoundTrip ==
    ASSUME input \in StrategyInput
    PROVE  StrategyRoundTrips
<1> DEFINE s == input.strategy
<1>1. DOMAIN Strategies = 1..6
  BY DEF Strategies
<1>2. \A i, j \in 1..6 : Strategies[i] = Strategies[j] => i = j
  BY DEF Strategies
<1>3. \A i, j \in 1..6 : PeriodNames[i] = PeriodNames[j] => i = j
  BY DEF PeriodNames
<1>4. s \in Range(Strategies) <=> \E i \in 1..6 : Strategies[i] = s
  BY <1>1 DEF Range
<1>5. CASE s \notin Range(Strategies)
  BY <1>5 DEF StrategyRoundTrips, quotaPeriod
<1>6. CASE s \in Range(Strategies)
  <2>1. PICK i \in 1..6 : Strategies[i] = s
    BY <1>4, <1>6
  <2>2. (CHOOSE j \in 1..6 : Strategies[j] = s) = i
    BY <1>2, <2>1
  <2>3. quotaPeriod(s) = PeriodNames[i]
    BY <1>6, <2>2 DEF quotaPeriod
  <2>4. CASE i \in 1..5
    <3>1. (CHOOSE j \in 1..5 : PeriodNames[j] = PeriodNames[i]) = i
      BY <1>3, <2>4
    <3>2. quotaResetStrategy(PeriodNames[i]) = Strategies[i]
      BY <2>4, <3>1 DEF quotaResetStrategy
    <3> QED
      BY <1>6, <2>1, <2>3, <3>2 DEF StrategyRoundTrips
  <2>5. CASE i = 6
    <3>1. ~\E j \in 1..5 : PeriodNames[j] = PeriodNames[6]
      BY <1>3
    <3>2. quotaResetStrategy(PeriodNames[6]) = "FOREVER" /\ Strategies[6] = "FOREVER"
      BY <3>1 DEF quotaResetStrategy, Strategies
    <3> QED
      BY <1>6, <2>1, <2>3, <2>5, <3>2 DEF StrategyRoundTrips
  <2> QED
    BY <2>4, <2>5
<1> QED
  BY <1>5, <1>6

\* Which kind an input is of decides what is computed from it.
LEMMA Kinds ==
    /\ \A in \in ModelInput : in.kind = "model"
    /\ \A in \in StrategyInput : in.kind = "strategy"
    /\ \A in \in NamesInput : in.kind = "names"
    /\ \A in \in TypeInput : in.kind = "type"
    /\ \A in \in ListInput : in.kind = "list"
    /\ \A in \in QuotaInput : in.kind = "quota"
    /\ \A in \in PagesInput : in.kind = "pages"
    /\ \A in \in HealthInput : in.kind = "health"
    /\ \A in \in LogInput : in.kind = "log"
<1>1. \A in \in QuotaInput : in.kind = "quota"
  BY DEF QuotaInput, QuotaOf
<1>2. \A in \in ModelInput : in.kind = "model"
  BY DEF ModelInput
<1>3. \A in \in StrategyInput : in.kind = "strategy"
  BY DEF StrategyInput
<1>4. \A in \in NamesInput : in.kind = "names"
  BY DEF NamesInput
<1>5. \A in \in TypeInput : in.kind = "type"
  BY DEF TypeInput
<1>6. \A in \in ListInput : in.kind = "list"
  BY DEF ListInput
<1>7. \A in \in PagesInput : in.kind = "pages"
  BY DEF PagesInput
<1>8. \A in \in HealthInput : in.kind = "health"
  BY DEF HealthInput
<1>9. \A in \in LogInput : in.kind = "log"
  BY DEF LogInput
<1> QED
  BY <1>1, <1>2, <1>3, <1>4, <1>5, <1>6, <1>7, <1>8, <1>9

\* Whatever its name, a model that is asked for with a level of the list is the
\* one that was listed, with that level; and the strategy of a key survives the
\* table, whatever string it is (effort_presets.go, quotaPeriod).
THEOREM NamesAlwaysRoundTrip == input \in AnyInput => NamesRoundTrip
<1> SUFFICES ASSUME input \in AnyInput PROVE NamesRoundTrip
  OBVIOUS
<1>1. EffortRoundTrips
  <2>1. CASE input \in ModelInput
    BY <2>1, EffortsRoundTrip
  <2>2. CASE input \notin ModelInput
    <3>1. input.kind # "model"
      BY <2>2, Kinds DEF AnyInput
    <3> QED
      BY <3>1 DEF EffortRoundTrips
  <2> QED
    BY <2>1, <2>2
<1>2. StrategyRoundTrips
  <2>1. CASE input \in StrategyInput
    BY <2>1, StrategiesRoundTrip
  <2>2. CASE input \notin StrategyInput
    <3>1. input.kind # "strategy"
      BY <2>2, Kinds DEF AnyInput
    <3> QED
      BY <3>1 DEF StrategyRoundTrips
  <2> QED
    BY <2>1, <2>2
<1> QED
  BY <1>1, <1>2 DEF NamesRoundTrip

----------------------------------------------------------------------------
(* Quotas. *)

LEMMA WrappedSame ==
    ASSUME NEW m \in Nat, NEW x \in Int, -m - 1 <= x, x <= m
    PROVE  Wrapped(x, m) = x
<1> DEFINE a == x + m + 1
           b == 2 * m + 2
<1>1. a \in Nat /\ b \in Nat /\ a < b /\ a - m - 1 = x
  OBVIOUS
<1> HIDE DEF a, b
<1>2. a % b = a
  BY <1>1
<1>3. Wrapped(x, m) = (a % b) - m - 1
  BY DEF Wrapped, a, b
<1> QED
  BY <1>1, <1>2, <1>3

LEMMA WrappedType ==
    ASSUME NEW m \in Nat, NEW x \in Int
    PROVE  Wrapped(x, m) \in Int
<1> DEFINE a == x + m + 1
           b == 2 * m + 2
<1>1. a \in Int /\ b \in Nat /\ b > 0
  OBVIOUS
<1> HIDE DEF a, b
<1>2. a % b \in Int
  BY <1>1
<1>3. Wrapped(x, m) = (a % b) - m - 1
  BY DEF Wrapped, a, b
<1> QED
  BY <1>2, <1>3

LEMMA ClampRange == \A x \in Int : Clamp(x) \in 0..100
BY DEF Clamp

\* Windows with numbers of any size, and those that can be compared.
SomeWindow == [UsedPercent : Int, WindowMinutes : Int]
GoodWindow == [UsedPercent : 0..100, WindowMinutes : 0..MaxInt32]

LEMMA WindowIs ==
    ASSUME NEW p, NEW m
    PROVE  /\ Window(p, m).UsedPercent = p /\ Window(p, m).WindowMinutes = m
           /\ p \in Int /\ m \in Int => Window(p, m) \in SomeWindow /\ Window(p, m) # None
           /\ p \in 0..100 /\ m \in 0..MaxInt32 => Window(p, m) \in GoodWindow /\ Window(p, m) # None
<1>1. p \in Int /\ m \in Int => Window(p, m) \in SomeWindow /\ Window(p, m) # None
  BY VendorAssumption DEF Window, SomeWindow
<1>2. p \in 0..100 => p \in Int
  OBVIOUS
<1>3. m \in 0..MaxInt32 => m \in Int
  OBVIOUS
<1>4. p \in 0..100 /\ m \in 0..MaxInt32 => Window(p, m) \in GoodWindow
  BY DEF Window, GoodWindow
<1>5. Window(p, m).UsedPercent = p /\ Window(p, m).WindowMinutes = m
  BY DEF Window
<1> QED
  BY <1>1, <1>2, <1>3, <1>4, <1>5

\* An error without windows; or windows, of W, of which the first is there.
Fails(q) == q.Error # "" /\ q.Quotas = <<>> /\ q.Panics = FALSE
Gives(q, W) == /\ q.Error = "" /\ q.Panics = FALSE /\ q.Quotas # <<>> /\ q.Quotas[1] # None
               /\ \A i \in DOMAIN q.Quotas : q.Quotas[i] # None => q.Quotas[i] \in W

LEMMA ErrorFails == \A e : e # "" => Fails(Error(e))
BY DEF Fails, Error

LEMMA QuotaGives ==
    ASSUME NEW W, NEW ws, ws # <<>>, ws[1] # None, \A i \in DOMAIN ws : ws[i] # None => ws[i] \in W
    PROVE  Gives(Quota(ws), W)
<1> DEFINE q == Quota(ws)
<1>1. q.Error = "" /\ q.Quotas = ws /\ q.Panics = FALSE
  BY DEF Quota
<1> HIDE DEF q
<1>2. Gives(q, W)
  <2>1. q.Error = "" /\ q.Panics = FALSE
    BY <1>1
  <2>2. q.Quotas # <<>> /\ q.Quotas[1] # None
    BY <1>1
  <2>3. \A i \in DOMAIN q.Quotas : q.Quotas[i] # None => q.Quotas[i] \in W
    BY <1>1, Zenon
  <2> QED
    BY <2>1, <2>2, <2>3, Zenon DEF Gives
<1> QED
  BY <1>2 DEF q

LEMMA PrimaryGives ==
    ASSUME NEW W, NEW p \in W \cup {None}, NEW s \in W \cup {None}
    PROVE  Fails(Primary(p, s)) \/ Gives(Primary(p, s), W)
<1>1. CASE p # None
  <2> DEFINE two == <<p, s>>
  <2>1. Primary(p, s) = Quota(two)
    BY <1>1 DEF Primary
  <2>2. DOMAIN two = 1..2 /\ two[1] = p /\ two[2] = s /\ two # <<>>
    OBVIOUS
  <2> HIDE DEF two
  <2>3. \A i \in 1..2 : i = 1 \/ i = 2
    OBVIOUS
  <2>4. \A i \in DOMAIN two : two[i] # None => two[i] \in W
    BY <2>2, <2>3
  <2> QED
    BY <1>1, <2>1, <2>2, <2>4, QuotaGives
<1>2. CASE p = None /\ s # None
  <2> DEFINE two == <<s, None>>
  <2>1. Primary(p, s) = Quota(two)
    BY <1>2 DEF Primary
  <2>2. DOMAIN two = 1..2 /\ two[1] = s /\ two[2] = None /\ two # <<>>
    OBVIOUS
  <2> HIDE DEF two
  <2>3. \A i \in 1..2 : i = 1 \/ i = 2
    OBVIOUS
  <2>4. \A i \in DOMAIN two : two[i] # None => two[i] \in W
    BY <2>2, <2>3
  <2> QED
    BY <1>2, <2>1, <2>2, <2>4, QuotaGives
<1>3. CASE p = None /\ s = None
  <2>1. Primary(p, s) = Error("quota unavailable")
    BY <1>3 DEF Primary
  <2> QED
    BY <2>1, ErrorFails
<1> QED
  BY <1>1, <1>2, <1>3

LEMMA XAIMinutes ==
    ASSUME NEW from \in MaybeInt, NEW to \in MaybeInt, NEW fallback \in 0..MaxInt32
    PROVE  xaiQuotaWindowMinutes(from, to, fallback) \in 0..MaxInt32
<1>1. CASE from = None \/ to = None
  BY <1>1 DEF xaiQuotaWindowMinutes
<1>2. CASE from # None /\ to # None
  <2> DEFINE minutes == IF to - from > MaxDuration THEN MaxDuration ELSE to - from
  <2>1. xaiQuotaWindowMinutes(from, to, fallback) = IF minutes \in 1..MaxInt32 THEN minutes ELSE fallback
    BY <1>2 DEF xaiQuotaWindowMinutes
  <2> HIDE DEF minutes
  <2>2. minutes \in 1..MaxInt32 => minutes \in 0..MaxInt32
    OBVIOUS
  <2> QED
    BY <2>1, <2>2
<1> QED
  BY <1>1, <1>2

XAIConfig == [percent : MaybeInt, limit : MaybeInt, used : MaybeInt, from : MaybeInt, to : MaybeInt]

LEMMA XAIWindows ==
    ASSUME NEW config \in XAIConfig
    PROVE  /\ xaiWeeklyQuotaWindow(config) \in GoodWindow \cup {None}
           /\ xaiMonthlyQuotaWindow(config) \in GoodWindow \cup {None}
<1>1. /\ config.percent \in MaybeInt /\ config.limit \in MaybeInt /\ config.used \in MaybeInt
      /\ config.from \in MaybeInt /\ config.to \in MaybeInt
  BY DEF XAIConfig
<1>2. 7 * 24 * 60 \in 0..MaxInt32 /\ 30 * 24 * 60 \in 0..MaxInt32
  BY VendorAssumption
<1>3. xaiQuotaWindowMinutes(config.from, config.to, 7 * 24 * 60) \in 0..MaxInt32
  BY <1>1, <1>2, XAIMinutes
<1>4. xaiQuotaWindowMinutes(config.from, config.to, 30 * 24 * 60) \in 0..MaxInt32
  BY <1>1, <1>2, XAIMinutes
<1>5. xaiWeeklyQuotaWindow(config) \in GoodWindow \cup {None}
  <2>1. CASE config.percent = None
    BY <2>1 DEF xaiWeeklyQuotaWindow
  <2>2. CASE config.percent # None
    <3>1. Clamp(config.percent) \in 0..100
      BY <1>1, <2>2, ClampRange DEF MaybeInt
    <3> QED
      BY <1>3, <2>2, <3>1, WindowIs DEF xaiWeeklyQuotaWindow
  <2> QED
    BY <2>1, <2>2
<1>6. xaiMonthlyQuotaWindow(config) \in GoodWindow \cup {None}
  <2> DEFINE none == config.limit = None \/ config.used = None
  <2>1. CASE none
    BY <2>1 DEF xaiMonthlyQuotaWindow
  <2>2. CASE ~none /\ (config.limit <= 0 \/ config.used < 0)
    BY <2>2 DEF xaiMonthlyQuotaWindow
  <2>3. CASE ~none /\ ~(config.limit <= 0 \/ config.used < 0)
    <3> DEFINE limit == config.limit
               used == config.used
    <3>1. limit \in Int /\ used \in Int /\ limit > 0
      BY <1>1, <2>3 DEF MaybeInt
    <3> HIDE DEF limit, used
    <3>2. (used * 100) \div limit \in Int
      BY <3>1
    <3>3. Clamp((used * 100) \div limit) \in 0..100
      BY <3>2, ClampRange
    <3>4. xaiMonthlyQuotaWindow(config) = Window(Clamp((used * 100) \div limit),
              xaiQuotaWindowMinutes(config.from, config.to, 30 * 24 * 60))
      BY <2>3 DEF xaiMonthlyQuotaWindow, limit, used
    <3> QED
      BY <1>4, <3>3, <3>4, WindowIs
  <2> QED
    BY <2>1, <2>2, <2>3
<1> QED
  BY <1>5, <1>6

LEMMA XAIGives ==
    ASSUME NEW in \in QuotaOf("xai")
    PROVE  Fails(LoadXAI(in)) \/ Gives(LoadXAI(in), GoodWindow)
<1> DEFINE b == in.http.body
<1>1. b = Garbage \/ b = None \/ b \in XAIConfig
  BY DEF QuotaOf, Body, XAIConfig
<1> DEFINE refused == \/ ~in.token \/ in.http.client = "proxy" \/ loadXAIQuotaJSON(in.user) # ""
                      \/ ~in.user.valid \/ loadXAIQuotaJSON(in.http) # "" \/ b = None
<1>2. CASE refused
  BY <1>2, ErrorFails DEF LoadXAI
<1>3. CASE ~refused
  <2>1. b # Garbage
    BY <1>3 DEF loadXAIQuotaJSON
  <2>2. b \in XAIConfig
    BY <1>1, <1>3, <2>1
  <2>3. LoadXAI(in) = Primary(xaiWeeklyQuotaWindow(b), xaiMonthlyQuotaWindow(b))
    BY <1>3 DEF LoadXAI
  <2> QED
    BY <2>2, <2>3, XAIWindows, PrimaryGives
<1> QED
  BY <1>2, <1>3

AnthropicWindow == {None} \cup [utilization : MaybeInt]

LEMMA AnthropicWindows ==
    ASSUME NEW w \in AnthropicWindow, w # None, NEW m \in 0..MaxInt32
    PROVE  anthropicQuotaWindow(w, m) \in GoodWindow \cup {None}
<1>1. w.utilization \in MaybeInt
  BY DEF AnthropicWindow
<1>2. CASE w.utilization = None
  BY <1>2 DEF anthropicQuotaWindow
<1>3. CASE w.utilization # None
  <2>1. Clamp(w.utilization) \in 0..100
    BY <1>1, <1>3, ClampRange DEF MaybeInt
  <2> QED
    BY <1>3, <2>1, WindowIs DEF anthropicQuotaWindow
<1> QED
  BY <1>2, <1>3

LEMMA AnthropicGives ==
    ASSUME NEW in \in QuotaOf("anthropic")
    PROVE  LET b == in.http.body
               lacks == /\ in.token /\ in.http.client = "ok"
                        /\ Succeeded(in.http.status) /\ b # Garbage /\ (b.five = None \/ b.seven = None)
               q == LoadAnthropic(in)
           IN  \/ lacks /\ q = Panic
               \/ ~lacks /\ (Fails(q) \/ Gives(q, GoodWindow))
<1> DEFINE b == in.http.body
           lacks == /\ in.token /\ in.http.client = "ok"
                    /\ Succeeded(in.http.status) /\ b # Garbage /\ (b.five = None \/ b.seven = None)
<1>1. b = Garbage \/ b \in [five : AnthropicWindow, seven : AnthropicWindow]
  BY DEF QuotaOf, Body, AnthropicWindow
<1> DEFINE refused == \/ ~in.token \/ in.http.client \in {"proxy", "send"} \/ ~Succeeded(in.http.status)
                      \/ in.http.client = "read" \/ b = Garbage
           none == b.five = None \/ b.seven = None
<1>2. CASE refused
  <2>1. Fails(LoadAnthropic(in))
    BY <1>2, ErrorFails DEF LoadAnthropic
  <2>2. ~lacks
    BY <1>2
  <2> QED
    BY <2>1, <2>2
<1>4. CASE ~refused /\ none
  <2>1. in.http.client \in Verdict
    BY DEF QuotaOf
  <2>2. in.http.client = "ok"
    BY <1>4, <2>1 DEF Verdict
  <2>3. lacks
    BY <1>4, <2>2
  <2>4. LoadAnthropic(in) = Panic
    BY <1>4 DEF LoadAnthropic
  <2> QED
    BY <2>3, <2>4
<1>3. CASE ~refused /\ ~none
  <2>1. b.five \in AnthropicWindow /\ b.seven \in AnthropicWindow /\ b.five # None /\ b.seven # None
    BY <1>1, <1>3
  <2>2. 5 * 60 \in 0..MaxInt32 /\ 7 * 24 * 60 \in 0..MaxInt32
    BY VendorAssumption
  <2> DEFINE five == anthropicQuotaWindow(b.five, 5 * 60)
             seven == anthropicQuotaWindow(b.seven, 7 * 24 * 60)
  <2>3. LoadAnthropic(in) = Primary(five, seven)
    BY <1>3 DEF LoadAnthropic
  <2>4. five \in GoodWindow \cup {None} /\ seven \in GoodWindow \cup {None}
    BY <2>1, <2>2, AnthropicWindows
  <2> HIDE DEF five, seven
  <2>5. Fails(LoadAnthropic(in)) \/ Gives(LoadAnthropic(in), GoodWindow)
    BY <2>3, <2>4, PrimaryGives
  <2>6. ~lacks
    BY <1>3
  <2> QED
    BY <2>5, <2>6
<1> QED
  BY <1>2, <1>3, <1>4

LEMMA AntigravityGives ==
    ASSUME NEW in \in QuotaOf("antigravity")
    PROVE  Fails(LoadAntigravity(in)) \/ Gives(LoadAntigravity(in), GoodWindow)
<1> DEFINE b == in.http.body
<1>1. b = Garbage \/ b \in [buckets : Seq(Int)]
  BY DEF QuotaOf, Body
<1> DEFINE refused == \/ ~in.token \/ in.http.client # "ok" \/ ~Succeeded(in.http.status)
                      \/ b = Garbage \/ b.buckets = <<>>
<1>2. CASE refused
  BY <1>2, ErrorFails DEF LoadAntigravity
<1>3. CASE ~refused
  <2> DEFINE s == b.buckets
             q == [i \in DOMAIN s |-> antigravityQuotaWindow(s[i])]
  <2>1. s \in Seq(Int) /\ s # <<>>
    BY <1>1, <1>3
  <2>2. LoadAntigravity(in) = Quota(q)
    BY <1>3 DEF LoadAntigravity
  <2> HIDE DEF s
  <2>3. \A x \in Int : antigravityQuotaWindow(x) \in GoodWindow /\ antigravityQuotaWindow(x) # None
    <3> SUFFICES ASSUME NEW x \in Int
                 PROVE  antigravityQuotaWindow(x) \in GoodWindow /\ antigravityQuotaWindow(x) # None
      OBVIOUS
    <3>1. Clamp(x) \in 0..100
      BY ClampRange
    <3>2. 100 - Clamp(x) \in 0..100 /\ 0 \in 0..MaxInt32
      BY <3>1, VendorAssumption
    <3> QED
      BY <3>2, WindowIs DEF antigravityQuotaWindow
  <2>4. DOMAIN q = 1..Len(s) /\ 1 \in 1..Len(s) /\ \A i \in 1..Len(s) : s[i] \in Int
    BY <2>1
  <2>5. \A i \in DOMAIN q : q[i] \in GoodWindow /\ q[i] # None
    BY <2>1, <2>3, <2>4
  <2>6. q # <<>>
    BY <2>4
  <2> HIDE DEF q
  <2> QED
    BY <2>2, <2>4, <2>5, <2>6, QuotaGives
<1> QED
  BY <1>2, <1>3

LEMMA FirstOfIs ==
    ASSUME NEW X, NEW ws \in Seq(X)
    PROVE  /\ FirstOf(ws) = None \/ FirstOf(ws) \in Range(ws)
           /\ FirstOf(ws) = None => \A w \in Range(ws) : w = None
<1> DEFINE I == {i \in DOMAIN ws : ws[i] # None}
           k == At(ws, I)
<1>1. NonNil(ws) = k
  BY DEF NonNil
<1>2. k \in Seq(X) /\ \A x : x \in Range(k) <=> \E i \in DOMAIN ws : i \in I /\ x = ws[i]
  BY AtType, AtRange
<1>5. \A i \in DOMAIN ws : i \in I <=> ws[i] # None
  OBVIOUS
<1> HIDE DEF k, I
<1>3. CASE k = <<>>
  <2>1. FirstOf(ws) = None /\ Range(k) = {}
    BY <1>1, <1>3, SmallRanges DEF FirstOf
  <2>2. \A w \in Range(ws) : w = None
    BY <1>2, <1>5, <2>1 DEF Range
  <2> QED
    BY <2>1, <2>2
<1>4. CASE k # <<>>
  <2>1. Head(k) = k[1] /\ 1 \in DOMAIN k
    BY <1>2, <1>4
  <2>2. k[1] \in Range(k)
    BY <2>1 DEF Range
  <2>3. k[1] \in Range(ws) /\ k[1] # None
    BY <1>2, <1>5, <2>2 DEF Range
  <2> QED
    BY <1>1, <1>4, <2>1, <2>3 DEF FirstOf
<1> QED
  BY <1>3, <1>4

LEMMA CodexWindows ==
    ASSUME NEW ws \in Seq(CodexWindow)
    PROVE  LET w == quotaWindowToProto(FirstOf(ws))
           IN  /\ w = None \/ w \in SomeWindow
               /\ CodexPasses(ws, w)
               /\ (\A v \in Range(ws) : v # None => v.minutes >= 0) /\ w # None =>
                     w.WindowMinutes \in 0..MaxInt32
<1> DEFINE v == FirstOf(ws)
           w == quotaWindowToProto(v)
<1>1. CASE v = None
  <2>1. \A u \in Range(ws) : u = None
    BY <1>1, FirstOfIs
  <2> QED
    BY <1>1, <2>1 DEF quotaWindowToProto, CodexPasses
<1>2. CASE v # None
  <2>1. v \in Range(ws)
    BY <1>2, FirstOfIs
  <2>2. v \in CodexWindow
    <3>1. \A i \in DOMAIN ws : ws[i] \in CodexWindow
      OBVIOUS
    <3> QED
      BY <2>1, <3>1 DEF Range
  <2> HIDE DEF v
  <2>3. v.percent \in Int /\ v.minutes \in Int32 /\ v.seconds \in Int32
    BY <1>2, <2>2 DEF CodexWindow
  <2> DEFINE p == v.percent
             m == v.minutes
             s == v.seconds
             n == IF m = 0 /\ s > 0 THEN s \div 60 ELSE m
  <2>4. p \in Int /\ m \in Int /\ s \in Int /\ m <= MaxInt32 /\ s <= MaxInt32 /\ MaxInt32 \in Nat
    BY <2>3, VendorAssumption DEF Int32
  <2>5. w = Window(p, n)
    BY <1>2 DEF quotaWindowToProto
  <2> HIDE DEF p, m, s
  <2>6. n \in Int
    BY <2>4
  <2>7. m >= 0 => n \in 0..MaxInt32
    BY <2>4
  <2> HIDE DEF n, w
  <2>8. w \in SomeWindow /\ w.WindowMinutes = n /\ w.UsedPercent = p /\ w # None
    BY <2>4, <2>5, <2>6, WindowIs
  <2>10. CodexPasses(ws, w)
    BY <1>2, <2>1, <2>8 DEF CodexPasses, p
  <2>9. (\A u \in Range(ws) : u # None => u.minutes >= 0) => m >= 0
    BY <1>2, <2>1 DEF m
  <2> QED
    BY <2>7, <2>8, <2>9, <2>10 DEF w, v
<1> QED
  BY <1>1, <1>2

LEMMA CodexUsable ==
    ASSUME input \in QuotaOf("codex")
    PROVE  LET q == LoadCodex(input)
           IN  \/ Fails(q)
               \/ /\ q.Error = "" /\ q.Panics = FALSE /\ Len(q.Quotas) = 2
                  /\ CodexPasses(input.http.body.primary, q.Quotas[1])
                  /\ CodexPasses(input.http.body.secondary, q.Quotas[2])
                  /\ \A i \in DOMAIN q.Quotas : q.Quotas[i] # None /\
                        LengthsFit => q.Quotas[i].WindowMinutes \in 0..MaxInt32
<1> DEFINE b == input.http.body
           q == LoadCodex(input)
<1>1. input.vendor = "codex" /\ (b = Garbage \/ b \in [primary : Seq(CodexWindow), secondary : Seq(CodexWindow)])
  BY DEF QuotaOf, Body
<1> DEFINE refused == \/ ~input.token \/ input.http.client \in {"proxy", "send"} \/ input.http.status # 200
                      \/ input.http.client = "read" \/ b = Garbage
<1>2. CASE refused
  BY <1>2, ErrorFails DEF LoadCodex
<1>3. CASE ~refused
  <2> DEFINE p == b.primary
             s == b.secondary
             wp == quotaWindowToProto(FirstOf(p))
             ws == quotaWindowToProto(FirstOf(s))
             two == <<wp, ws>>
  <2>1. p \in Seq(CodexWindow) /\ s \in Seq(CodexWindow)
    BY <1>1, <1>3
  <2>2. q = Quota(two)
    BY <1>3 DEF LoadCodex
  <2>3. LengthsFit => /\ \A w \in Range(p) : w # None => w.minutes >= 0
                      /\ \A w \in Range(s) : w # None => w.minutes >= 0
    BY <1>1, <1>3 DEF LengthsFit
  <2> HIDE DEF p, s, q
  <2>4. LengthsFit => /\ wp # None => wp.WindowMinutes \in 0..MaxInt32
                      /\ ws # None => ws.WindowMinutes \in 0..MaxInt32
    BY <2>1, <2>3, CodexWindows
  <2>10. CodexPasses(p, wp) /\ CodexPasses(s, ws)
    BY <2>1, CodexWindows
  <2> HIDE DEF wp, ws
  <2>5. q.Error = "" /\ q.Quotas = two /\ q.Panics = FALSE
    BY <2>2 DEF Quota
  <2>6. DOMAIN two = 1..2 /\ Len(two) = 2 /\ two[1] = wp /\ two[2] = ws
    OBVIOUS
  <2> HIDE DEF two
  <2>7. \A i \in 1..2 : i = 1 \/ i = 2
    OBVIOUS
  <2>8. \A i \in DOMAIN two : two[i] # None /\ LengthsFit => two[i].WindowMinutes \in 0..MaxInt32
    BY <2>4, <2>6, <2>7
  <2>9. \A i \in DOMAIN q.Quotas : q.Quotas[i] # None /\ LengthsFit => q.Quotas[i].WindowMinutes \in 0..MaxInt32
    BY <2>5, <2>8
  <2>11. Len(q.Quotas) = 2 /\ CodexPasses(p, q.Quotas[1]) /\ CodexPasses(s, q.Quotas[2])
    BY <2>5, <2>6, <2>10
  <2> QED
    BY <2>5, <2>9, <2>11 DEF q, p, s
<1> QED
  BY <1>2, <1>3

\* The length of a Kimi window, if it fits 64 bits in minutes of a week.
LEMMA FactorIs == \A u : Factor(u) \in {0, 1, 60, 24 * 60, 7 * 24 * 60}
BY DEF Factor

LEMMA KimiMinutes ==
    ASSUME NEW w, w.duration \in Int
    PROVE  /\ kimiWindowMinutes(w) \in Int
           /\ w.duration <= MaxInt64 \div (7 * 24 * 60) =>
                 /\ kimiWindowMinutes(w) \in 0..MaxInt32
                 /\ kimiWindowMinutes(w) \in {0, w.duration * Factor(w.unit)}
<1> DEFINE d == w.duration
           f == Factor(w.unit)
           p == d * f
           m == Wrapped(p, MaxInt64)
<1>1. f \in {0, 1, 60, 1440, 10080}
  BY FactorIs
<1>2. d \in Int /\ p \in Int /\ MaxInt64 \in Nat /\ MaxInt32 \in Nat /\ MaxInt32 <= MaxInt64
  <2>1. d \in Int /\ f \in Int
    BY <1>1
  <2> HIDE DEF d, f
  <2> QED
    BY <2>1, VendorAssumption
<1>3. CASE d <= 0
  BY <1>2, <1>3 DEF kimiWindowMinutes
<1>4. CASE d > 0
  <2>1. m \in Int
    BY <1>2, WrappedType
  <2>2. kimiWindowMinutes(w) = IF m > MaxInt32 THEN 0 ELSE Wrapped(m, MaxInt32)
    BY <1>2, <1>4 DEF kimiWindowMinutes
  <2> HIDE DEF m
  <2>3. kimiWindowMinutes(w) \in Int
    BY <1>2, <2>1, <2>2, WrappedType
  <2>4. ASSUME d <= MaxInt64 \div (7 * 24 * 60)
        PROVE  kimiWindowMinutes(w) \in 0..MaxInt32 /\ kimiWindowMinutes(w) \in {0, p}
    <3> DEFINE M == MaxInt64
    <3>1. M \in Nat /\ d <= M \div 10080
      BY <1>2, <2>4
    <3> HIDE DEF d, f, M
    <3>2. d * 10080 <= M
      BY <1>2, <3>1
    <3>3. 0 <= p /\ p <= M
      <4>1. f = 0 => p = 0
        BY <1>2
      <4>2. f = 1 => p = d
        BY <1>2
      <4>3. f = 60 => p = d * 60
        BY <1>2
      <4>4. f = 1440 => p = d * 1440
        BY <1>2
      <4>5. f = 10080 => p = d * 10080
        BY <1>2
      <4> HIDE DEF p
      <4> QED
        BY <1>1, <1>2, <1>4, <3>1, <3>2, <4>1, <4>2, <4>3, <4>4, <4>5
    <3> HIDE DEF p
    <3>4. -M - 1 <= p /\ p <= M
      BY <1>2, <3>1, <3>3
    <3>5. m = p
      BY <1>2, <3>1, <3>4, WrappedSame DEF m, M
    <3>6. CASE p > MaxInt32
      BY <1>2, <2>2, <3>5, <3>6
    <3>7. CASE p <= MaxInt32
      <4>1. -MaxInt32 - 1 <= p
        BY <1>2, <3>3
      <4>2. Wrapped(p, MaxInt32) = p
        BY <1>2, <3>7, <4>1, WrappedSame
      <4>3. kimiWindowMinutes(w) = p
        BY <1>2, <2>2, <3>5, <3>7, <4>2
      <4> QED
        BY <1>2, <3>3, <3>7, <4>3
    <3> QED
      BY <1>2, <3>6, <3>7
  <2> QED
    BY <2>3, <2>4
<1> QED
  BY <1>2, <1>3, <1>4

LEMMA KimiWindow ==
    ASSUME NEW detail \in KimiDetail, NEW w, kimiWindowMinutes(w) \in Int
    PROVE  LET x == kimiQuotaWindowToProto(detail, w)
           IN  x = None \/ (x \in SomeWindow /\ x.WindowMinutes = kimiWindowMinutes(w))
<1> DEFINE nothing == detail = None \/ (detail.used = None /\ detail.limit = None)
<1>1. CASE nothing
  BY <1>1 DEF kimiQuotaWindowToProto
<1>2. CASE ~nothing
  <2>1. detail.used \in MaybeInt /\ detail.limit \in MaybeInt
    BY <1>2 DEF KimiDetail
  <2> DEFINE used == IF detail.used = None THEN 0 ELSE detail.used
             limit == IF detail.limit = None THEN 0 ELSE detail.limit
             percent == IF limit > 0 THEN (used * 100) \div limit ELSE 0
  <2>2. used \in Int /\ limit \in Int
    BY <2>1 DEF MaybeInt
  <2>3. kimiQuotaWindowToProto(detail, w) = Window(percent, kimiWindowMinutes(w))
    BY <1>2 DEF kimiQuotaWindowToProto
  <2> HIDE DEF used, limit
  <2>4. limit > 0 => (used * 100) \div limit \in Int
    BY <2>2
  <2>5. percent \in Int
    BY <2>4
  <2> HIDE DEF percent
  <2> QED
    BY <2>3, <2>5, WindowIs
<1> QED
  BY <1>1, <1>2

KimiLimit == [detail : KimiDetail, window : [duration : (-MaxInt64 - 1)..MaxInt64, unit : STRING]]

LEMMA KimiAll ==
    ASSUME NEW body \in [limits : Seq(KimiLimit), usage : KimiDetail]
    PROVE  /\ KimiWindows(body) \in Seq(SomeWindow \cup {None})
           /\ \A x \in Range(KimiWindows(body)) :
                 /\ x # None /\ x \in SomeWindow
                 /\ \/ \E l \in Range(body.limits) : x.WindowMinutes = kimiWindowMinutes(l.window)
                    \/ x.WindowMinutes = 7 * 24 * 60
<1> DEFINE W == SomeWindow \cup {None}
           s == body.limits
           To(i) == kimiQuotaWindowToProto(s[i].detail, s[i].window)
           t == [i \in DOMAIN s |-> To(i)]
           week == [duration |-> 1, unit |-> "WEEK"]
           u == kimiQuotaWindowToProto(body.usage, week)
           I == {i \in DOMAIN t : t[i] # None}
           J == {i \in DOMAIN <<u>> : <<u>>[i] # None}
<1>1. s \in Seq(KimiLimit) /\ body.usage \in KimiDetail
  OBVIOUS
<1>2. KimiWindows(body) = IF At(t, I) # <<>> THEN At(t, I) ELSE At(<<u>>, J)
  BY DEF KimiWindows, NonNil
<1> HIDE DEF s, I, J
<1>3. ASSUME NEW i \in 1..Len(s)
      PROVE  /\ s[i] \in Range(s) /\ To(i) \in W
             /\ To(i) # None => To(i) \in SomeWindow /\ To(i).WindowMinutes = kimiWindowMinutes(s[i].window)
  <2>1. s[i] \in KimiLimit /\ i \in DOMAIN s
    BY <1>1
  <2>2. s[i].detail \in KimiDetail /\ s[i].window.duration \in Int
    BY <2>1, VendorAssumption DEF KimiLimit
  <2>3. kimiWindowMinutes(s[i].window) \in Int
    BY <2>2, KimiMinutes
  <2> DEFINE x == s[i]
             p == To(i)
  <2>4. p = None \/ (p \in SomeWindow /\ p.WindowMinutes = kimiWindowMinutes(x.window))
    BY <2>2, <2>3, KimiWindow
  <2>5. x \in Range(s)
    BY <2>1 DEF Range
  <2> HIDE DEF p
  <2> QED
    BY <2>4, <2>5 DEF p
<1>4. u = None \/ (u \in SomeWindow /\ u.WindowMinutes = 7 * 24 * 60)
  <2>1. week.duration = 1 /\ Factor(week.unit) = 10080
    BY DEF Factor
  <2> DEFINE k == kimiWindowMinutes(week)
  <2>2. k = 10080
    <3>1. k = IF Wrapped(10080, MaxInt64) > MaxInt32 THEN 0 ELSE Wrapped(Wrapped(10080, MaxInt64), MaxInt32)
      <4> DEFINE d == week.duration
                 f == Factor(week.unit)
      <4>1. d = 1 /\ f = 10080 /\ ~(d <= 0)
        BY <2>1
      <4>2. d * f = 10080
        BY <4>1
      <4>3. k = IF d <= 0 THEN 0
                ELSE IF Wrapped(d * f, MaxInt64) > MaxInt32 THEN 0 ELSE Wrapped(Wrapped(d * f, MaxInt64), MaxInt32)
        BY DEF kimiWindowMinutes
      <4> HIDE DEF d, f, k
      <4> QED
        BY <4>1, <4>2, <4>3
    <3>2. Wrapped(10080, MaxInt64) = 10080 /\ Wrapped(10080, MaxInt32) = 10080
      BY WrappedSame, VendorAssumption
    <3>3. ~(10080 > MaxInt32)
      BY VendorAssumption
    <3> HIDE DEF k
    <3> QED
      BY <3>1, <3>2, <3>3
  <2> HIDE DEF week
  <2>3. u = None \/ (u \in SomeWindow /\ u.WindowMinutes = k)
    BY <1>1, <2>2, KimiWindow
  <2> QED
    BY <2>2, <2>3
<1>5. t \in Seq(W)
  <2>1. \A i \in 1..Len(s) : To(i) \in W
    BY <1>3
  <2> HIDE DEF To, W
  <2> QED
    BY <1>1, <2>1
<1>6. <<u>> \in Seq(W)
  <2>1. u \in W
    BY <1>4
  <2> HIDE DEF u, W
  <2> QED
    BY <2>1
<1> HIDE DEF To, W, u
<1>7. At(t, I) \in Seq(W) /\ \A x : x \in Range(At(t, I)) <=> \E i \in DOMAIN t : i \in I /\ x = t[i]
  BY <1>5, AtType, AtRange, ZenonT(60)
<1>8. At(<<u>>, J) \in Seq(W) /\ \A x : x \in Range(At(<<u>>, J)) <=> \E i \in DOMAIN <<u>> : i \in J /\ x = <<u>>[i]
  BY <1>6, AtType, AtRange
<1>9. ASSUME NEW x \in Range(At(t, I))
      PROVE  x # None /\ x \in SomeWindow /\ \E l \in Range(s) : x.WindowMinutes = kimiWindowMinutes(l.window)
  <2>1. PICK i \in DOMAIN t : i \in I /\ x = t[i]
    BY <1>7
  <2>2. i \in 1..Len(s) /\ x = To(i) /\ x # None
    BY <1>1, <2>1 DEF I
  <2> QED
    BY <1>3, <2>2
<1>10. ASSUME NEW x \in Range(At(<<u>>, J))
       PROVE  x # None /\ x \in SomeWindow /\ x.WindowMinutes = 7 * 24 * 60
  <2>1. x = u /\ x # None
    BY <1>8 DEF J
  <2> QED
    BY <1>4, <2>1
<1> HIDE DEF t
<1> QED
  BY <1>2, <1>7, <1>8, <1>9, <1>10 DEF s, W

LEMMA KimiUsable ==
    ASSUME input \in QuotaOf("kimi")
    PROVE  LET q == LoadKimi(input)
           IN  \/ Fails(q)
               \/ /\ q.Error = "" /\ q.Panics = FALSE /\ q.Quotas # <<>> /\ q.Quotas[1] # None
                  /\ LengthsFit => \A i \in DOMAIN q.Quotas :
                        /\ q.Quotas[i].WindowMinutes \in 0..MaxInt32
                        /\ q.Quotas[i].WindowMinutes \in {0, 7 * 24 * 60} \cup
                              {l.window.duration * Factor(l.window.unit) : l \in Range(input.http.body.limits)}
<1> DEFINE b == input.http.body
           q == LoadKimi(input)
           k == KimiWindows(b)
<1>1. input.vendor = "kimi" /\ (b = Garbage \/ b \in [limits : Seq(KimiLimit), usage : KimiDetail])
  BY DEF QuotaOf, Body, KimiLimit
<1> DEFINE refused == \/ ~input.token \/ input.http.client # "ok" \/ ~Succeeded(input.http.status)
                      \/ b = Garbage \/ k = <<>>
<1>2. CASE refused
  BY <1>2, ErrorFails DEF LoadKimi, kimiQuotaError
<1>3. CASE ~refused
  <2> DEFINE s == b.limits
             made == {l.window.duration * Factor(l.window.unit) : l \in Range(s)}
  <2>1. b \in [limits : Seq(KimiLimit), usage : KimiDetail] /\ s \in Seq(KimiLimit) /\ b # Garbage
    BY <1>1, <1>3
  <2>2. q = Quota(k)
    BY <1>3 DEF LoadKimi
  <2>3. LengthsFit => \A l \in Range(s) : l.window.duration <= MaxInt64 \div (7 * 24 * 60)
    BY <1>1, <2>1 DEF LengthsFit
  <2> HIDE DEF q
  <2>4. /\ k \in Seq(SomeWindow \cup {None})
        /\ \A x \in Range(k) :
              /\ x # None /\ x \in SomeWindow
              /\ \/ \E l \in Range(s) : x.WindowMinutes = kimiWindowMinutes(l.window)
                 \/ x.WindowMinutes = 7 * 24 * 60
    BY <2>1, KimiAll
  <2>5. \A l \in Range(s) : l.window.duration \in Int
    <3>1. ASSUME NEW i \in DOMAIN s PROVE s[i].window.duration \in Int
      <4>1. s[i] \in KimiLimit
        BY <2>1
      <4> QED
        BY <4>1, VendorAssumption DEF KimiLimit
    <3> QED
      BY <3>1 DEF Range
  <2> HIDE DEF k, s
  <2>6. k # <<>>
    BY <1>3
  <2>7. 1 \in DOMAIN k /\ \A i \in DOMAIN k : k[i] \in Range(k)
    BY <2>4, <2>6 DEF Range
  <2>8. ASSUME LengthsFit, NEW x \in Range(k)
        PROVE  x.WindowMinutes \in 0..MaxInt32 /\ x.WindowMinutes \in {0, 7 * 24 * 60} \cup made
    <3>1. CASE x.WindowMinutes = 7 * 24 * 60
      BY <3>1, VendorAssumption
    <3>2. ASSUME NEW l \in Range(s), x.WindowMinutes = kimiWindowMinutes(l.window)
          PROVE  x.WindowMinutes \in 0..MaxInt32 /\ x.WindowMinutes \in {0, 7 * 24 * 60} \cup made
      <4>1. l.window.duration \in Int /\ l.window.duration <= MaxInt64 \div (7 * 24 * 60)
        BY <2>3, <2>5, <2>8
      <4>2. /\ kimiWindowMinutes(l.window) \in 0..MaxInt32
            /\ kimiWindowMinutes(l.window) \in {0, l.window.duration * Factor(l.window.unit)}
        BY <4>1, KimiMinutes
      <4>3. l.window.duration * Factor(l.window.unit) \in made
        OBVIOUS
      <4> HIDE DEF made
      <4> QED
        BY <3>2, <4>2, <4>3
    <3> QED
      BY <2>4, <2>8, <3>1, <3>2
  <2>9. q.Error = "" /\ q.Quotas = k /\ q.Panics = FALSE
    BY <2>2 DEF Quota
  <2>10. k[1] # None
    BY <2>4, <2>7
  <2>11. LengthsFit => \A i \in DOMAIN k :
            k[i].WindowMinutes \in 0..MaxInt32 /\ k[i].WindowMinutes \in {0, 7 * 24 * 60} \cup made
    BY <2>7, <2>8
  <2> HIDE DEF made
  <2>12. /\ q.Quotas # <<>> /\ q.Quotas[1] # None
         /\ LengthsFit => \A i \in DOMAIN q.Quotas :
               /\ q.Quotas[i].WindowMinutes \in 0..MaxInt32
               /\ q.Quotas[i].WindowMinutes \in {0, 7 * 24 * 60} \cup made
    BY <2>6, <2>9, <2>10, <2>11
  <2> QED
    BY <2>9, <2>12 DEF q, made, s
<1> QED
  BY <1>2, <1>3

\* What holds of the windows of a vendor whose percentages are clamped.
LEMMA GivesInRange ==
    ASSUME NEW q, Fails(q) \/ Gives(q, GoodWindow)
    PROVE  /\ q.Panics = FALSE
           /\ q.Error # "" => q.Quotas = <<>>
           /\ q.Error = "" => q.Quotas # <<>> /\ q.Quotas[1] # None
           /\ \A i \in DOMAIN q.Quotas : q.Quotas[i] # None =>
                 q.Quotas[i].UsedPercent \in 0..100 /\ q.Quotas[i].WindowMinutes \in 0..MaxInt32
<1>1. \A w \in GoodWindow : w.UsedPercent \in 0..100 /\ w.WindowMinutes \in 0..MaxInt32
  BY DEF GoodWindow
<1>2. DOMAIN <<>> = {}
  OBVIOUS
<1>3. CASE Fails(q)
  BY <1>2, <1>3 DEF Fails
<1>4. CASE Gives(q, GoodWindow)
  BY <1>1, <1>4 DEF Gives
<1> QED
  BY <1>3, <1>4

LEMMA VendorQuotasUsable ==
    ASSUME input \in QuotaInput
    PROVE  QuotaHasWindow /\ WindowsInRange
<1>1. CASE input \in QuotaOf("xai")
  <2>1. input.vendor = "xai"
    BY <1>1 DEF QuotaOf
  <2>2. Loaded = LoadXAI(input)
    BY <2>1 DEF Loaded, LoadQuota
  <2>3. Fails(Loaded) \/ Gives(Loaded, GoodWindow)
    BY <1>1, <2>2, XAIGives
  <2> QED
    BY <2>1, <2>3, GivesInRange DEF QuotaHasWindow, WindowsInRange, LacksWindow
<1>2. CASE input \in QuotaOf("anthropic")
  <2>1. input.vendor = "anthropic"
    BY <1>2 DEF QuotaOf
  <2>2. Loaded = LoadAnthropic(input)
    BY <2>1 DEF Loaded, LoadQuota
  <2>3. \/ LacksWindow /\ Loaded = Panic
        \/ ~LacksWindow /\ (Fails(Loaded) \/ Gives(Loaded, GoodWindow))
    BY <1>2, <2>1, <2>2, AnthropicGives DEF LacksWindow
  <2>4. CASE LacksWindow /\ Loaded = Panic
    <3>1. Loaded.Panics = TRUE /\ Loaded.Quotas = <<>>
      <4>1. Panic.Panics = TRUE /\ Panic.Quotas = <<>>
        BY DEF Panic
      <4> QED
        BY <2>4, <4>1
    <3>2. DOMAIN Loaded.Quotas = {}
      BY <3>1
    <3> QED
      BY <2>4, <3>1, <3>2 DEF QuotaHasWindow, WindowsInRange
  <2>5. CASE ~LacksWindow /\ (Fails(Loaded) \/ Gives(Loaded, GoodWindow))
    BY <2>1, <2>5, GivesInRange DEF QuotaHasWindow, WindowsInRange
  <2> QED
    BY <2>3, <2>4, <2>5
<1>3. CASE input \in QuotaOf("antigravity")
  <2>1. input.vendor = "antigravity"
    BY <1>3 DEF QuotaOf
  <2>2. Loaded = LoadAntigravity(input)
    BY <2>1 DEF Loaded, LoadQuota
  <2>3. Fails(Loaded) \/ Gives(Loaded, GoodWindow)
    BY <1>3, <2>2, AntigravityGives
  <2> QED
    BY <2>1, <2>3, GivesInRange DEF QuotaHasWindow, WindowsInRange, LacksWindow
<1>4. CASE input \in QuotaOf("codex")
  <2>1. input.vendor = "codex"
    BY <1>4 DEF QuotaOf
  <2>2. Loaded = LoadCodex(input)
    BY <2>1 DEF Loaded, LoadQuota
  <2>3. \/ Fails(Loaded)
        \/ /\ Loaded.Error = "" /\ Loaded.Panics = FALSE /\ Len(Loaded.Quotas) = 2
           /\ CodexPasses(input.http.body.primary, Loaded.Quotas[1])
           /\ CodexPasses(input.http.body.secondary, Loaded.Quotas[2])
           /\ \A i \in DOMAIN Loaded.Quotas : Loaded.Quotas[i] # None /\ LengthsFit =>
                 Loaded.Quotas[i].WindowMinutes \in 0..MaxInt32
    BY <1>4, <2>2, CodexUsable
  <2>4. DOMAIN <<>> = {}
    OBVIOUS
  <2> QED
    BY <2>1, <2>3, <2>4 DEF QuotaHasWindow, WindowsInRange, LacksWindow, Fails
<1>5. CASE input \in QuotaOf("kimi")
  <2>1. input.vendor = "kimi"
    BY <1>5 DEF QuotaOf
  <2>2. Loaded = LoadKimi(input)
    BY <2>1 DEF Loaded, LoadQuota
  <2> DEFINE lengths == {0, 7 * 24 * 60} \cup
                  {l.window.duration * Factor(l.window.unit) : l \in Range(input.http.body.limits)}
  <2>3. \/ Fails(Loaded)
        \/ /\ Loaded.Error = "" /\ Loaded.Panics = FALSE /\ Loaded.Quotas # <<>> /\ Loaded.Quotas[1] # None
           /\ LengthsFit => \A i \in DOMAIN Loaded.Quotas :
                 /\ Loaded.Quotas[i].WindowMinutes \in 0..MaxInt32
                 /\ Loaded.Quotas[i].WindowMinutes \in lengths
    BY <1>5, <2>2, KimiUsable
  <2>4. DOMAIN <<>> = {}
    OBVIOUS
  <2>5. QuotaHasWindow
    BY <2>1, <2>3 DEF QuotaHasWindow, LacksWindow, Fails
  <2>6. WindowsInRange <=> \A i \in DOMAIN Loaded.Quotas : Loaded.Quotas[i] # None /\ LengthsFit =>
            Loaded.Quotas[i].WindowMinutes \in 0..MaxInt32 /\ Loaded.Quotas[i].WindowMinutes \in lengths
    <3>1. input.kind = "quota"
      BY <1>5 DEF QuotaOf
    <3> QED
      BY <2>1, <3>1 DEF WindowsInRange
  <2> HIDE DEF lengths
  <2> QED
    BY <2>3, <2>4, <2>5, <2>6 DEF Fails
<1> QED
  BY <1>1, <1>2, <1>3, <1>4, <1>5 DEF QuotaInput

\* LoadQuota panics exactly on an answer of Anthropic's that lacks a window, and
\* else gives an error or windows as QuotaHasWindow and WindowsInRange say, nil
\* windows of Codex and percentages of Codex and Kimi excepted; for every answer
\* and every width of the integers that holds a month of minutes (LoadQuota of
\* the vendors).
THEOREM QuotaAlwaysUsable == input \in AnyInput => QuotaIsUsable
<1>1. CASE input \in QuotaInput
  BY <1>1, VendorQuotasUsable DEF QuotaIsUsable
<1>2. CASE input \in AnyInput /\ input \notin QuotaInput
  <2>1. input.kind # "quota"
    BY <1>2, Kinds DEF AnyInput
  <2> QED
    BY <2>1 DEF QuotaIsUsable, QuotaHasWindow, WindowsInRange
<1> QED
  BY <1>1, <1>2

----------------------------------------------------------------------------
(* Restrictions. *)

LEMMA NormalForm ==
    ASSUME NEW v \in AnyRestriction
    PROVE  LET n == normalizeRestriction(v)
           IN  /\ n \in AnyRestriction /\ n.kind = v.kind /\ n.models = v.models /\ n.toks = v.toks
               /\ ~n.capitals /\ (~v.capitals => n = v)
<1> DEFINE n == normalizeRestriction(v)
<1>1. n = [v EXCEPT !.capitals = FALSE]
  BY DEF normalizeRestriction
<1>2. n \in AnyRestriction /\ n.kind = v.kind /\ n.models = v.models /\ n.toks = v.toks /\ n.capitals = FALSE
  BY <1>1 DEF AnyRestriction
<1>3. v.capitals = FALSE => n = v
  BY <1>1 DEF AnyRestriction
<1>4. v.capitals \in BOOLEAN
  BY DEF AnyRestriction
<1> QED
  BY <1>2, <1>3, <1>4

\* Of a list, what is kept has a spelling of everything that is not blank.
LEMMA UnseenCovers ==
    ASSUME NEW s \in Seq(AnyRestriction)
    PROVE  /\ At(s, Unseen(s)) \in Seq(AnyRestriction)
           /\ \A x \in Range(At(s, Unseen(s))) : x \in Range(s) /\ x.toks # <<>>
           /\ \A v \in Range(s) : v.toks # <<>> =>
                 \E x \in Range(At(s, Unseen(s))) : normalizeRestriction(x) = normalizeRestriction(v)
<1> DEFINE k == At(s, Unseen(s))
<1>1. k \in Seq(AnyRestriction) /\ \A x : x \in Range(k) <=> \E i \in DOMAIN s : i \in Unseen(s) /\ x = s[i]
  BY AtType, AtRange
<1> HIDE DEF k
<1>2. ASSUME NEW x \in Range(k) PROVE x \in Range(s) /\ x.toks # <<>>
  <2>1. PICK i \in DOMAIN s : i \in Unseen(s) /\ x = s[i]
    BY <1>1
  <2> QED
    BY <2>1 DEF Unseen, Range
<1>3. ASSUME NEW v \in Range(s), v.toks # <<>>
      PROVE  \E x \in Range(k) : normalizeRestriction(x) = normalizeRestriction(v)
  <2> DEFINE n == normalizeRestriction(v)
             S == {j \in DOMAIN s : normalizeRestriction(s[j]) = n}
  <2>1. PICK i \in DOMAIN s : s[i] = v
    BY DEF Range
  <2>2. S \in SUBSET Nat /\ S # {}
    BY <2>1
  <2>3. PICK j \in S : \A l \in S : j <= l
    BY <2>2, LeastOf
  <2>4. j \in DOMAIN s /\ normalizeRestriction(s[j]) = n /\ s[j] \in AnyRestriction /\ v \in AnyRestriction
    BY <2>1, <2>3
  <2>5. s[j].toks = v.toks
    BY <2>4, NormalForm
  <2>6. ASSUME NEW l \in 1..(j - 1) PROVE normalizeRestriction(s[l]) # n
    <3>1. l \in DOMAIN s /\ ~(j <= l)
      BY <2>4
    <3> QED
      BY <2>3, <3>1
  <2>7. j \in Unseen(s)
    <3> HIDE DEF n
    <3> QED
      BY <1>3, <2>4, <2>5, <2>6 DEF Unseen
  <2> QED
    BY <1>1, <2>4, <2>7
<1> QED
  BY <1>1, <1>2, <1>3 DEF k

\* What a restriction says of a model.
Restricts(v, value) ==
    /\ v.toks # <<>>
    /\ \/ v.kind = "bad"
       \/ /\ v.models => value.models
          /\ IF v.kind = "star" THEN IsPrefix(v.toks, value.toks) ELSE v.toks = value.toks

LEMMA RestrictsNormal ==
    ASSUME NEW v \in AnyRestriction, NEW x \in AnyRestriction, NEW value,
           normalizeRestriction(x) = normalizeRestriction(v)
    PROVE  Restricts(x, value) <=> Restricts(v, value)
<1>1. x.toks = v.toks /\ x.kind = v.kind /\ x.models = v.models
  BY NormalForm
<1> QED
  BY <1>1 DEF Restricts

LEMMA VariantMatches ==
    ASSUME NEW r \in AnyRestriction, NEW value \in AnyRestriction, r.toks # <<>>
    PROVE  LET v == normalizeRestriction(value)
               variants == {v} \cup (IF v.models THEN {[v EXCEPT !.models = FALSE]} ELSE {})
           IN  (\E w \in variants : r.kind = "bad" \/ Match(r, w)) <=> Restricts(r, value)
<1> DEFINE v == normalizeRestriction(value)
           u == [v EXCEPT !.models = FALSE]
           variants == {v} \cup (IF v.models THEN {u} ELSE {})
           P == IF r.kind = "star" THEN IsPrefix(r.toks, value.toks) ELSE r.toks = value.toks
<1>1. v.toks = value.toks /\ v.models = value.models /\ v \in AnyRestriction
  BY NormalForm
<1>2. u.toks = value.toks /\ u.models = FALSE
  BY <1>1 DEF AnyRestriction
<1> HIDE DEF v, u
<1>3. Match(r, v) <=> P /\ r.models = value.models
  BY <1>1 DEF Match
<1>4. Match(r, u) <=> P /\ r.models = FALSE
  BY <1>2 DEF Match
<1>5. Restricts(r, value) <=> r.kind = "bad" \/ ((r.models => value.models) /\ P)
  BY DEF Restricts
<1> HIDE DEF P
<1>6. r.models \in BOOLEAN /\ value.models \in BOOLEAN
  BY DEF AnyRestriction
<1>7. (\E w \in variants : r.kind = "bad" \/ Match(r, w)) <=>
         r.kind = "bad" \/ Match(r, v) \/ (value.models /\ Match(r, u))
  BY <1>1
<1> HIDE DEF variants
<1>8. CASE r.models = TRUE
  <2>1. r.models = value.models <=> value.models
    BY <1>6, <1>8
  <2> QED
    BY <1>3, <1>4, <1>5, <1>7, <1>8, <2>1 DEF variants, v, u
<1>9. CASE r.models = FALSE
  <2>1. r.models = value.models \/ value.models
    BY <1>6, <1>9
  <2> QED
    BY <1>3, <1>4, <1>5, <1>7, <1>9, <2>1 DEF variants, v, u
<1> QED
  BY <1>6, <1>8, <1>9

LEMMA ListMatches ==
    ASSUME NEW vs \in Seq(AnyRestriction), NEW value \in AnyRestriction
    PROVE  restrictedMatch(normalizeRestrictions(vs), value) <=>
              value.toks # <<>> /\ \E v \in Range(vs) : Restricts(v, value)
<1> DEFINE k == At(vs, Unseen(vs))
           n == [i \in DOMAIN k |-> normalizeRestriction(k[i])]
           v == normalizeRestriction(value)
           variants == {v} \cup (IF v.models THEN {[v EXCEPT !.models = FALSE]} ELSE {})
           Hit(r) == \E w \in variants : r.kind = "bad" \/ Match(r, w)
<1>1. normalizeRestrictions(vs) = n
  BY DEF normalizeRestrictions
<1>2. restrictedMatch(n, value) <=> value.toks # <<>> /\ \E i \in DOMAIN n : Hit(n[i])
  <2> HIDE DEF n
  <2> QED
    BY DEF restrictedMatch
<1>3. /\ k \in Seq(AnyRestriction)
      /\ \A x \in Range(k) : x \in Range(vs) /\ x.toks # <<>>
      /\ \A x \in Range(vs) : x.toks # <<>> =>
            \E y \in Range(k) : normalizeRestriction(y) = normalizeRestriction(x)
  BY UnseenCovers
<1>4. \A x \in Range(vs) : x \in AnyRestriction
  BY DEF Range
<1> HIDE DEF k
<1>5. ASSUME NEW r \in AnyRestriction, r.toks # <<>>
      PROVE  Hit(normalizeRestriction(r)) <=> Restricts(r, value)
  <2> DEFINE m == normalizeRestriction(r)
  <2>1. m \in AnyRestriction /\ m.toks # <<>> /\ m.toks = r.toks /\ m.kind = r.kind /\ m.models = r.models
    BY <1>5, NormalForm
  <2>2. Restricts(m, value) <=> Restricts(r, value)
    BY <2>1 DEF Restricts
  <2> HIDE DEF m
  <2>3. Hit(m) <=> Restricts(m, value)
    BY <2>1, VariantMatches
  <2> QED
    BY <2>2, <2>3 DEF m
<1> HIDE DEF Hit
<1>6. DOMAIN n = DOMAIN k /\ \A i \in DOMAIN k : n[i] = normalizeRestriction(k[i])
  OBVIOUS
<1> HIDE DEF n
<1>7. ASSUME NEW i \in DOMAIN n, Hit(n[i]) PROVE \E x \in Range(vs) : Restricts(x, value)
  <2>1. k[i] \in Range(k)
    BY <1>6 DEF Range
  <2>2. k[i] \in Range(vs) /\ k[i].toks # <<>> /\ k[i] \in AnyRestriction
    BY <1>3, <1>4, <2>1
  <2> QED
    BY <1>5, <1>6, <1>7, <2>2
<1>8. ASSUME NEW x \in Range(vs), Restricts(x, value) PROVE \E i \in DOMAIN n : Hit(n[i])
  <2>1. x.toks # <<>> /\ x \in AnyRestriction
    BY <1>4, <1>8 DEF Restricts
  <2>2. PICK y \in Range(k) : normalizeRestriction(y) = normalizeRestriction(x)
    BY <1>3, <2>1
  <2>3. y \in AnyRestriction /\ y.toks # <<>>
    BY <1>3, <1>4
  <2>4. Restricts(y, value)
    BY <1>8, <2>1, <2>2, <2>3, RestrictsNormal
  <2>5. Hit(normalizeRestriction(y))
    BY <1>5, <2>3, <2>4
  <2>6. PICK i \in DOMAIN k : k[i] = y
    BY DEF Range
  <2> QED
    BY <1>6, <2>5, <2>6
<1> QED
  BY <1>1, <1>2, <1>7, <1>8

LEMMA StorageKeeps ==
    ASSUME input \in NamesInput
    PROVE  RestrictionsSurviveStorage
<1> DEFINE vs == input.values
           value == input.value
           k == normalizedUniqueStrings(vs)
<1>1. vs \in Seq(AnyRestriction) /\ value \in AnyRestriction
  BY DEF NamesInput
<1> HIDE DEF vs, value
<1>2. /\ k \in Seq(AnyRestriction)
      /\ \A x \in Range(k) : x \in Range(vs) /\ x.toks # <<>>
      /\ \A x \in Range(vs) : x.toks # <<>> =>
            \E y \in Range(k) : normalizeRestriction(y) = normalizeRestriction(x)
  BY <1>1, UnseenCovers DEF normalizedUniqueStrings
<1>3. \A x \in Range(vs) : x \in AnyRestriction
  BY <1>1 DEF Range
<1> HIDE DEF k
<1>4. PickModel(k, value) <=> ~(value.toks # <<>> /\ \E v \in Range(k) : Restricts(v, value))
  BY <1>1, <1>2, ListMatches DEF PickModel
<1>5. (\E v \in Range(k) : Restricts(v, value)) <=> (\E v \in Range(vs) : Restricts(v, value))
  <2>1. ASSUME NEW x \in Range(vs), Restricts(x, value) PROVE \E v \in Range(k) : Restricts(v, value)
    <3>1. x.toks # <<>> /\ x \in AnyRestriction
      BY <1>3, <2>1 DEF Restricts
    <3>2. PICK y \in Range(k) : normalizeRestriction(y) = normalizeRestriction(x)
      BY <1>2, <3>1
    <3>3. y \in AnyRestriction
      BY <1>2, <1>3
    <3> QED
      BY <2>1, <3>1, <3>2, <3>3, RestrictsNormal
  <2> QED
    BY <1>2, <2>1
<1>6. (\E v \in Range(vs) : Restricts(v, value)) <=> \E i \in DOMAIN vs : Restricts(vs[i], value)
  BY DEF Range
<1>7. PickModel(k, value) <=> value.toks = <<>> \/ ~\E i \in DOMAIN vs : Restricts(vs[i], value)
  BY <1>4, <1>5, <1>6
<1> QED
  BY <1>7 DEF RestrictionsSurviveStorage, Restricts, vs, value, k

LEMMA TypesCaught ==
    ASSUME input \in TypeInput
    PROVE  TypeRestrictionCatches
<1> DEFINE R == [id : Int, type : LoginType \cup {"CURSOR"}, disabled : BOOLEAN,
                 credentials : BOOLEAN, useProxy : BOOLEAN, proxy : STRING]
           rows == input.rows
           I == {i \in DOMAIN rows : rows[i].type # "CURSOR" /\ ~rows[i].disabled /\ rows[i].credentials}
           usable == At(rows, I)
           To(r) == [id |-> r.id, provider |-> GetOAuthDefinition(r.type).CredentialProvider,
                     proxy |-> IF r.useProxy THEN r.proxy ELSE ""]
           list == [i \in DOMAIN usable |-> To(usable[i])]
<1>1. rows \in Seq(R)
  BY DEF TypeInput
<1>2. CredentialList(rows) = list
  BY DEF CredentialList
<1> HIDE DEF rows, R
<1>3. usable \in Seq(R) /\ \A x : x \in Range(usable) <=> \E i \in DOMAIN rows : i \in I /\ x = rows[i]
  BY <1>1, AtType, AtRange
<1> HIDE DEF usable
<1>4. ASSUME NEW a \in Range(list)
      PROVE  \E r \in Range(rows) :
                LET d == GetOAuthDefinition(r.type)
                IN  /\ a.id = r.id /\ ~r.disabled /\ r.credentials /\ (a.proxy # "" => r.useProxy)
                    /\ a.provider = d.Provider \/ providerTypeRestricted(d.Provider, a.provider)
  <2>1. PICK i \in DOMAIN usable : a = To(usable[i])
    BY DEF Range
  <2> DEFINE r == usable[i]
  <2>2. r \in Range(usable)
    BY DEF Range
  <2>3. r \in Range(rows) /\ r.type # "CURSOR" /\ ~r.disabled /\ r.credentials /\ r \in R
    <3>1. PICK j \in DOMAIN rows : j \in I /\ r = rows[j]
      BY <1>3, <2>2
    <3>2. rows[j] \in R /\ rows[j] \in Range(rows)
      BY <1>1, InSequence
    <3>4. rows[j].type # "CURSOR" /\ ~rows[j].disabled /\ rows[j].credentials
      BY <3>1
    <3>5. r = rows[j]
      BY <3>1
    <3> HIDE DEF r, I
    <3> QED
      BY <3>2, <3>4, <3>5, Zenon
  <2> HIDE DEF r
  <2>4. r.type \in LoginType
    BY <2>3 DEF R
  <2> DEFINE d == GetOAuthDefinition(r.type)
  <2>5. d.CredentialProvider = d.Provider \/ providerTypeRestricted(d.Provider, d.CredentialProvider)
    <3>1. CASE r.type = "OPENAI"
      <4>1. d.Provider = "openai" /\ d.CredentialProvider = "codex"
        BY <3>1 DEF GetOAuthDefinition, CodexDefinition, Definition
      <4> QED
        BY <4>1 DEF providerTypeRestricted
    <3>2. CASE r.type = "ANTHROPIC"
      <4>1. d.Provider = "anthropic" /\ d.CredentialProvider = "claude"
        BY <3>2 DEF GetOAuthDefinition, AnthropicDefinition, Definition
      <4> QED
        BY <4>1 DEF providerTypeRestricted
    <3>3. CASE r.type \in {"ANTIGRAVITY", "KIMI", "GROK"}
      BY <3>3 DEF GetOAuthDefinition, AntigravityDefinition, KimiDefinition, XAIDefinition, Definition
    <3> QED
      BY <2>4, <3>1, <3>2, <3>3 DEF LoginType
  <2>6. a.id = r.id /\ a.provider = d.CredentialProvider /\ (a.proxy # "" => r.useProxy)
    BY <2>1 DEF r
  <2> QED
    BY <2>3, <2>5, <2>6
<1> QED
  BY <1>2, <1>4 DEF TypeRestrictionCatches, rows

LEMMA ExcludedRange ==
    ASSUME NEW X, NEW data \in Seq(X), NEW Y, NEW rows \in Seq(Y), NEW key, NEW m
    PROVE  m \in Range(ExcludeRestrictedModels(data, key, rows)) <=>
              \E i \in DOMAIN data, j \in DOMAIN rows : Keeps(key, data[i], rows[j]) /\ m = data[i]
<1> DEFINE One(i, j) == IF Keeps(key, data[i], rows[j]) THEN <<data[i]>> ELSE <<>>
           Inner(i) == [j \in DOMAIN rows |-> One(i, j)]
           Part1(i) == FlattenSeq(Inner(i))
           outer == [i \in DOMAIN data |-> Part1(i)]
<1>1. ExcludeRestrictedModels(data, key, rows) = FlattenSeq(outer)
  BY DEF ExcludeRestrictedModels
<1>2. ASSUME NEW i \in 1..Len(data)
      PROVE  Part1(i) \in Seq(X) /\ (m \in Range(Part1(i)) <=>
                \E j \in DOMAIN rows : Keeps(key, data[i], rows[j]) /\ m = data[i])
  <2>1. \A j \in 1..Len(rows) : One(i, j) \in Seq(X)
    OBVIOUS
  <2>2. \A j \in 1..Len(rows) : m \in Range(One(i, j)) <=> Keeps(key, data[i], rows[j]) /\ m = data[i]
    BY SmallRanges
  <2> HIDE DEF One
  <2> DEFINE t == Inner(i)
  <2>3. t \in Seq(Seq(X)) /\ Len(t) = Len(rows) /\ \A j \in 1..Len(rows) : t[j] = One(i, j)
    <3> DEFINE n == Len(rows)
               Z == Seq(X)
    <3>1. t = [j \in 1..n |-> One(i, j)] /\ n \in Nat /\ \A j \in 1..n : One(i, j) \in Z
      BY <2>1
    <3> HIDE DEF t, n, Z, Inner
    <3>2. t \in Seq(Z) /\ Len(t) = n /\ \A j \in 1..n : t[j] = One(i, j)
      BY <3>1
    <3> QED
      BY <3>2 DEF n, Z
  <2> HIDE DEF Inner, t
  <2>4. FlattenSeq(t) \in Seq(X) /\ (m \in Range(FlattenSeq(t)) <=> \E j \in 1..Len(t) : m \in Range(t[j]))
    BY <2>3, FlattenType, FlattenRange
  <2>5. DOMAIN rows = 1..Len(rows)
    OBVIOUS
  <2> QED
    BY <2>2, <2>3, <2>4, <2>5 DEF t
<1> HIDE DEF Part1
<1>3. outer \in Seq(Seq(X)) /\ Len(outer) = Len(data) /\ \A i \in 1..Len(data) : outer[i] = Part1(i)
  <2>1. \A i \in 1..Len(data) : Part1(i) \in Seq(X)
    BY <1>2
  <2>2. Len(data) \in Nat /\ DOMAIN data = 1..Len(data)
    OBVIOUS
  <2> DEFINE n == Len(data)
             Z == Seq(X)
  <2>3. outer = [i \in 1..n |-> Part1(i)] /\ n \in Nat
    BY <2>2
  <2>4. \A i \in 1..n : Part1(i) \in Z
    BY <2>1
  <2> HIDE DEF outer, n, Z, One, Inner
  <2>5. outer \in Seq(Z) /\ Len(outer) = n /\ \A i \in 1..n : outer[i] = Part1(i)
    BY <2>3, <2>4
  <2> QED
    BY <2>5 DEF n, Z
<1> HIDE DEF outer
<1>4. m \in Range(FlattenSeq(outer)) <=> \E i \in 1..Len(outer) : m \in Range(outer[i])
  BY <1>3, FlattenRange
<1>5. DOMAIN data = 1..Len(data)
  OBVIOUS
<1> QED
  BY <1>1, <1>2, <1>3, <1>4, <1>5

ListedModel == [id : Seq(Part), owner : STRING]

Variant(m, l) == [m EXCEPT !.id = Append(@, effortSuffixes[l])]

\* The expanded list still has what it had, and a variant for each level.
LEMMA ExpandKeeps ==
    ASSUME NEW data \in Seq(ListedModel)
    PROVE  /\ ExpandEffortModels(data) \in Seq(ListedModel)
           /\ \A m \in Range(data) : m \in Range(ExpandEffortModels(data))
           /\ \A m \in Range(data), l \in 1..3 : Variant(m, l) \in Range(ExpandEffortModels(data))
<1> DEFINE With(d, l) == [d EXCEPT !.id = Append(@, effortSuffixes[l])]
           More(d) == [l \in 1..3 |-> With(d, l)]
           All(d) == <<d>> \o More(d)
           t == [i \in DOMAIN data |-> All(data[i])]
<1>1. ExpandEffortModels(data) = FlattenSeq(t)
  BY DEF ExpandEffortModels
<1>2. ASSUME NEW d \in ListedModel
      PROVE  /\ All(d) \in Seq(ListedModel) /\ d \in Range(All(d))
             /\ \A l \in 1..3 : Variant(d, l) \in Range(All(d))
  <2>1. ASSUME NEW l \in 1..3 PROVE With(d, l) \in ListedModel
    <3>1. Append(d.id, effortSuffixes[l]) \in Seq(Part)
      <4>1. d.id \in Seq(Part) /\ effortSuffixes[l] \in Part
        BY Levels DEF ListedModel
      <4> QED
        BY <4>1
    <3> QED
      BY <3>1 DEF ListedModel
  <2>9. \A l \in 1..3 : With(d, l) = Variant(d, l)
    BY DEF Variant
  <2> HIDE DEF With
  <2> DEFINE L == ListedModel
             r == More(d)
             o == <<d>>
  <2>2. r \in Seq(L) /\ Len(r) = 3 /\ \A l \in 1..3 : r[l] = With(d, l)
    <3>1. \A l \in 1..3 : With(d, l) \in L
      BY <2>1
    <3>2. r = [l \in 1..3 |-> With(d, l)]
      OBVIOUS
    <3> HIDE DEF L, r
    <3>3. r \in Seq(L) /\ Len(r) = 3
      BY <3>1, <3>2
    <3>4. \A l \in 1..3 : r[l] = With(d, l)
      BY <3>2
    <3> QED
      BY <3>3, <3>4
  <2>3. d \in L /\ o = <<d>>
    OBVIOUS
  <2> HIDE DEF L, r, o
  <2>4. /\ o \o r \in Seq(L) /\ Len(o \o r) = Len(r) + 1 /\ (o \o r)[1] = d
        /\ \A l \in 1..Len(r) : (o \o r)[l + 1] = r[l]
    <3>1. r \in Seq(L)
      BY <2>2
    <3>2. o \o r \in Seq(L) /\ Len(o \o r) = Len(r) + 1 /\ (o \o r)[1] = d
      BY <2>3, <3>1, ConsParts
    <3>3. ASSUME NEW l \in 1..Len(r) PROVE (o \o r)[l + 1] = r[l]
      BY <2>3, <3>1, ConsParts
    <3> QED
      BY <3>2, <3>3
  <2> DEFINE a == o \o r
  <2>5. a \in Seq(L) /\ Len(a) = 4 /\ a[1] = d /\ \A l \in 1..3 : a[l + 1] = With(d, l)
    BY <2>2, <2>4
  <2>6. All(d) = a
    BY DEF o, r
  <2> HIDE DEF a, All
  <2>7. 1 \in DOMAIN a
    BY <2>5
  <2>8. d \in Range(a)
    BY <2>5, <2>7 DEF Range
  <2>10. ASSUME NEW l \in 1..3 PROVE Variant(d, l) \in Range(a)
    <3>1. l + 1 \in DOMAIN a /\ a[l + 1] = Variant(d, l)
      BY <2>5, <2>9
    <3> QED
      BY <3>1 DEF Range
  <2> QED
    BY <2>5, <2>6, <2>8, <2>10 DEF L
<1> HIDE DEF All
<1> DEFINE L == ListedModel
<1>3. t \in Seq(Seq(L)) /\ Len(t) = Len(data) /\ \A i \in 1..Len(data) : t[i] = All(data[i])
  <2>1. \A i \in 1..Len(data) : All(data[i]) \in Seq(L)
    BY <1>2
  <2> HIDE DEF L
  <2> QED
    BY <2>1
<1> HIDE DEF t
<1>4. FlattenSeq(t) \in Seq(L)
  BY <1>3, FlattenType
<1>5. ASSUME NEW m \in Range(data)
      PROVE  m \in Range(FlattenSeq(t)) /\ \A l \in 1..3 : Variant(m, l) \in Range(FlattenSeq(t))
  <2>1. PICK i \in 1..Len(data) : data[i] = m
    BY DEF Range
  <2>2. m \in L
    BY <2>1
  <2>3. i \in 1..Len(t) /\ m \in Range(t[i]) /\ \A l \in 1..3 : Variant(m, l) \in Range(t[i])
    BY <1>2, <1>3, <2>1, <2>2
  <2> HIDE DEF L
  <2> QED
    BY <1>3, <2>3, FlattenRange
<1> QED
  BY <1>1, <1>4, <1>5

\* What a restricted key is answered: nothing, or what it keeps of the list.
LEMMA AnswerIs ==
    ASSUME input \in ListInput, AuthorizeRequest(input.auth), input.auth.who # "admin",
           input.key.models # <<>> \/ RestrictsProviders(input.key)
    PROVE  \E D \in Seq(ListedModel) :
              /\ \/ Listed = {}
                 \/ \A m : m \in Listed <=> \E i \in DOMAIN D, j \in DOMAIN input.rows :
                                               Keeps(input.key, D[i], input.rows[j]) /\ m = D[i]
              /\ input.body = "list" /\ ~input.rowsFail /\
                 (\A j \in DOMAIN input.rows : input.rows[j].type # "CUSTOM") =>
                    /\ \A m \in Range(input.data) : m \in Range(D)
                    /\ input.presets /\ input.status = 200 =>
                          \A m \in Range(input.data), l \in 1..3 : Variant(m, l) \in Range(D)
                    /\ \A m : m \in Listed <=> \E i \in DOMAIN D, j \in DOMAIN input.rows :
                                                  Keeps(input.key, D[i], input.rows[j]) /\ m = D[i]
<1> DEFINE resp == Answer(input.status, IF input.body = "list" THEN input.data ELSE <<>>)
           sent == IF input.presets THEN ModifyEffortModelsResponse(resp, input) ELSE resp
           D == sent.models
           rows == input.rows
           bad == \/ input.body # "list" \/ D = <<>> \/ input.rowsFail
                  \/ \E j \in DOMAIN rows : rows[j].type = "CUSTOM"
           Y == [id : Int, type : AnyType]
           Shown(m) == \E i \in DOMAIN D, j \in DOMAIN rows :
                          Keeps(input.key, D[i], rows[j]) /\ m = D[i]
<1>1. input.data \in Seq(ListedModel) /\ rows \in Seq(Y)
  <2>1. input.data \in Seq([id : Name, owner : STRING]) /\ rows \in Seq(Y)
    BY DEF ListInput
  <2>2. \A x \in [id : Name, owner : STRING] : x \in ListedModel
    BY Levels DEF ListedModel
  <2> DEFINE S == [id : Name, owner : STRING]
             T == ListedModel
             d == input.data
  <2>3. S \in SUBSET T /\ d \in Seq(S)
    BY <2>1, <2>2
  <2> HIDE DEF S, T, d
  <2>4. d \in Seq(T)
    BY <2>3
  <2> QED
    BY <2>1, <2>4 DEF T, d
<1>2. /\ resp.status = input.status
      /\ resp.models = IF input.body = "list" THEN input.data ELSE <<>>
  BY DEF Answer
<1>3. /\ D \in Seq(ListedModel)
      /\ input.body = "list" => \A m \in Range(input.data) : m \in Range(D)
      /\ input.body = "list" /\ input.presets /\ input.status = 200 =>
            \A m \in Range(input.data), l \in 1..3 : Variant(m, l) \in Range(D)
      /\ sent.status = input.status
  <2> HIDE DEF rows
  <2>1. resp.models \in Seq(ListedModel)
    <3> DEFINE T == ListedModel
               r == resp.models
               d == input.data
    <3>1. d \in Seq(T) /\ (r = d \/ r = <<>>)
      BY <1>1, <1>2
    <3> HIDE DEF T, r, d
    <3>2. <<>> \in Seq(T)
      OBVIOUS
    <3>3. r \in Seq(T)
      BY <3>1, <3>2, Zenon
    <3> QED
      BY <3>3 DEF T, r
  <2>2. CASE input.presets /\ resp.status = 200 /\ input.body = "list"
    <3>1. sent = [resp EXCEPT !.models = ExpandEffortModels(@)]
      BY <2>2 DEF ModifyEffortModelsResponse
    <3>2. sent.models = ExpandEffortModels(resp.models) /\ sent.status = resp.status
      BY <3>1 DEF Answer
    <3> DEFINE r == resp.models
               e == sent.models
    <3>3. r = input.data /\ r \in Seq(ListedModel) /\ e = ExpandEffortModels(r)
      BY <1>2, <2>1, <2>2, <3>2
    <3>4. /\ ExpandEffortModels(r) \in Seq(ListedModel)
          /\ \A m \in Range(r) : m \in Range(ExpandEffortModels(r))
          /\ \A m \in Range(r), l \in 1..3 : Variant(m, l) \in Range(ExpandEffortModels(r))
      BY <3>3, ExpandKeeps
    <3>5. sent.status = input.status
      BY <1>2, <3>2
    <3> HIDE DEF r, e
    <3>6. /\ e \in Seq(ListedModel)
          /\ \A m \in Range(input.data) : m \in Range(e)
          /\ \A m \in Range(input.data), l \in 1..3 : Variant(m, l) \in Range(e)
      BY <3>3, <3>4
    <3> QED
      BY <3>5, <3>6 DEF e
  <2>3. CASE ~(input.presets /\ resp.status = 200 /\ input.body = "list")
    <3>1. sent = resp
      BY <2>3 DEF ModifyEffortModelsResponse
    <3>2. input.body = "list" => D = input.data
      BY <1>2, <3>1
    <3>3. D \in Seq(ListedModel) /\ sent.status = input.status
      BY <1>2, <2>1, <3>1
    <3>4. ~(input.presets /\ input.status = 200 /\ input.body = "list")
      BY <1>2, <2>3
    <3> HIDE DEF D, sent
    <3> QED
      BY <3>2, <3>3, <3>4
  <2> QED
    BY <2>2, <2>3
<1>4. CASE input.presets /\ input.body = "unreadable" /\ input.status = 200
  <2>1. ModifyResponse(input) = Answer(502, <<>>)
    BY <1>4 DEF ModifyResponse
  <2>2. Listed = {} /\ input.body # "list"
    BY <1>4, <2>1, SmallRanges DEF Listed, Answer
  <2> HIDE DEF D
  <2> QED
    BY <1>3, <2>2
<1>5. CASE ~(input.presets /\ input.body = "unreadable" /\ input.status = 200)
  <2>1. ModifyResponse(input) = AccessProviderMiddleware(sent, input)
    <3> HIDE DEF rows
    <3> QED
      BY <1>5 DEF ModifyResponse
  <2> HIDE DEF D, rows
  <2>2. AccessProviderMiddleware(sent, input) =
           IF bad THEN [sent EXCEPT !.models = <<>>]
           ELSE [sent EXCEPT !.models = ExcludeRestrictedModels(@, input.key, rows)]
    BY DEF AccessProviderMiddleware, D, rows
  <2>3. sent = [status |-> sent.status, models |-> D]
    <3>1. resp = [status |-> resp.status, models |-> resp.models]
      BY DEF Answer
    <3> HIDE DEF resp
    <3> QED
      BY <3>1 DEF ModifyEffortModelsResponse, D
  <2> HIDE DEF sent
  <2>4. CASE bad
    <3>1. ModifyResponse(input).models = <<>>
      BY <2>1, <2>2, <2>3, <2>4
    <3>2. Listed = {}
      BY <3>1, SmallRanges DEF Listed
    <3>3. D = <<>> => \A m : ~Shown(m)
      OBVIOUS
    <3>4. /\ Listed = {}
          /\ input.body = "list" /\ ~input.rowsFail /\ (\A j \in DOMAIN rows : rows[j].type # "CUSTOM") =>
                \A m : m \in Listed <=> Shown(m)
      BY <2>4, <3>2, <3>3
    <3> HIDE DEF Shown
    <3> QED
      BY <1>3, <3>4 DEF Shown, rows
  <2>5. CASE ~bad
    <3>1. ModifyResponse(input).models = ExcludeRestrictedModels(D, input.key, rows)
      BY <2>1, <2>2, <2>3, <2>5
    <3>2. \A m : m \in Listed <=> Shown(m)
      BY <1>1, <1>3, <3>1, ExcludedRange DEF Listed
    <3> HIDE DEF Shown
    <3> QED
      BY <1>3, <2>5, <3>2 DEF Shown, rows
  <2> QED
    BY <2>4, <2>5
<1> QED
  BY <1>4, <1>5

LEMMA KeepsMeans ==
    ASSUME NEW key, NEW item, NEW r, Keeps(key, item, r)
    PROVE  /\ \/ key.models # <<>> /\ Literal(item.id) \notin Range(key.models)
              \/ RestrictsProviders(key) /\ r.id \notin key.providers
           /\ item.owner = GetOAuthDefinition(r.type).Provider
BY DEF Keeps

LEMMA ListHides ==
    ASSUME input \in ListInput
    PROVE  RestrictedNeverListed
<1>1. CASE ~AuthorizeRequest(input.auth)
  <2>1. ModifyResponse(input) = Answer(401, <<>>)
    BY <1>1 DEF ModifyResponse
  <2>2. Listed = {}
    BY <2>1, SmallRanges DEF Listed, Answer
  <2> QED
    BY <2>2 DEF RestrictedNeverListed
<1>2. CASE AuthorizeRequest(input.auth)
  <2> DEFINE key == input.key
             restricts == key.models # <<>> \/ RestrictsProviders(key)
  <2>1. ~(input.auth.who = "nobody" \/ input.auth.scheme = "Basic")
    BY <1>2 DEF AuthorizeRequest
  <2>2. CASE ~(input.auth.who = "key" /\ restricts)
    BY <2>1, <2>2 DEF RestrictedNeverListed
  <2>3. CASE input.auth.who = "key" /\ restricts
    <3>1. ASSUME NEW m \in Listed
          PROVE  \E j \in DOMAIN input.rows : Keeps(key, m, input.rows[j])
      BY <1>2, <2>3, AnswerIs
    <3>2. ASSUME NEW m \in Listed
          PROVE  \/ key.models # <<>> /\ Literal(m.id) \notin Range(key.models)
                 \/ RestrictsProviders(key) /\ \E r \in RowsOf(m) : r.id \notin key.providers
      <4>1. PICK j \in DOMAIN input.rows : Keeps(key, m, input.rows[j])
        BY <3>1
      <4> DEFINE r == input.rows[j]
      <4>2. /\ \/ key.models # <<>> /\ Literal(m.id) \notin Range(key.models)
               \/ RestrictsProviders(key) /\ r.id \notin key.providers
            /\ m.owner = GetOAuthDefinition(r.type).Provider
        BY <4>1, KeepsMeans
      <4>3. r \in Range(input.rows)
        BY DEF Range
      <4> HIDE DEF r
      <4>4. r \in RowsOf(m)
        BY <4>2, <4>3 DEF RowsOf
      <4> QED
        BY <4>2, <4>4
    <3> QED
      BY <2>1, <3>2 DEF RestrictedNeverListed
  <2> QED
    BY <2>2, <2>3
<1> QED
  BY <1>1, <1>2

LEMMA LiteralIs ==
    ASSUME NEW id \in Name
    PROVE  LET v == Literal(id)
           IN  v \in AnyRestriction /\ v.kind = "literal" /\ v.models = FALSE /\ v.capitals = FALSE /\ v.toks = id
BY DEF Literal, AnyRestriction, Name

\* What restricts a listed name: its own spelling does; and nothing else does,
\* if the key has only literal names without capitals.
LEMMA LiteralMatches ==
    ASSUME NEW vs \in Seq(AnyRestriction), NEW id \in Name
    PROVE  /\ Literal(id) \in Range(vs) => ~PickModel(vs, Literal(id))
           /\ Literal(id) \notin Range(vs) /\
              (\A i \in DOMAIN vs : vs[i].kind = "literal" /\ ~vs[i].capitals) => PickModel(vs, Literal(id))
<1> DEFINE v == Literal(id)
<1>1. /\ v \in AnyRestriction /\ v.kind = "literal" /\ v.models = FALSE /\ v.capitals = FALSE
      /\ v.toks = id /\ v.toks # <<>>
  BY LiteralIs DEF Name
<1> HIDE DEF v
<1>2. PickModel(vs, v) <=> ~\E x \in Range(vs) : Restricts(x, v)
  BY <1>1, ListMatches DEF PickModel
<1>3. Restricts(v, v)
  BY <1>1 DEF Restricts
<1>4. ASSUME v \notin Range(vs), \A i \in DOMAIN vs : vs[i].kind = "literal" /\ ~vs[i].capitals,
             NEW x \in Range(vs), Restricts(x, v)
      PROVE  FALSE
  <2>1. x \in AnyRestriction /\ x.kind = "literal" /\ ~x.capitals
    BY <1>4 DEF Range
  <2>2. x.models \in BOOLEAN /\ x.capitals \in BOOLEAN
    BY <2>1 DEF AnyRestriction
  <2>3. x.toks = v.toks
    BY <1>4, <2>1 DEF Restricts
  <2>4. ~x.models
    BY <1>1, <1>4, <2>1 DEF Restricts
  <2>5. x.models = FALSE /\ x.capitals = FALSE
    BY <2>1, <2>2, <2>4
  <2>6. x = v
    <3>1. x = [kind |-> x.kind, models |-> x.models, capitals |-> x.capitals, toks |-> x.toks]
      BY <2>1 DEF AnyRestriction
    <3>2. v = [kind |-> v.kind, models |-> v.models, capitals |-> v.capitals, toks |-> v.toks]
      BY <1>1 DEF AnyRestriction
    <3> QED
      BY <1>1, <2>1, <2>3, <2>5, <3>1, <3>2
  <2> QED
    BY <1>4, <2>6
<1> QED
  BY <1>2, <1>3, <1>4 DEF v

\* A key without restrictions is answered what the proxy answered, expanded.
LEMMA AllIsListed ==
    ASSUME input \in ListInput, ListIsServed, input.key.models = <<>>, ~RestrictsProviders(input.key),
           NEW m \in Range(input.data)
    PROVE  m \in Listed
<1> DEFINE resp == Answer(input.status, input.data)
           sent == IF input.presets THEN ModifyEffortModelsResponse(resp, input) ELSE resp
<1>1. AuthorizeRequest(input.auth) /\ input.body = "list"
  BY DEF ListIsServed, AuthorizeRequest
<1>2. ModifyResponse(input) = AccessProviderMiddleware(sent, input)
  BY <1>1 DEF ModifyResponse
<1>3. AccessProviderMiddleware(sent, input) = sent
  BY DEF AccessProviderMiddleware
<1>4. input.data \in Seq(ListedModel)
  <2>1. input.data \in Seq([id : Name, owner : STRING])
    BY DEF ListInput
  <2>2. \A x \in [id : Name, owner : STRING] : x \in ListedModel
    BY Levels DEF ListedModel
  <2> DEFINE S == [id : Name, owner : STRING]
             T == ListedModel
             d == input.data
  <2>3. S \in SUBSET T /\ d \in Seq(S)
    BY <2>1, <2>2
  <2> HIDE DEF S, T, d
  <2>4. d \in Seq(T)
    BY <2>3
  <2> QED
    BY <2>4 DEF T, d
<1>5. resp.models = input.data /\ resp.status = input.status
  BY DEF Answer
<1>6. m \in Range(sent.models)
  <2>1. CASE input.presets /\ resp.status = 200
    <3>1. sent = [resp EXCEPT !.models = ExpandEffortModels(@)]
      BY <1>1, <2>1 DEF ModifyEffortModelsResponse
    <3>2. sent.models = ExpandEffortModels(resp.models)
      BY <3>1 DEF Answer
    <3> QED
      BY <1>4, <1>5, <3>2, ExpandKeeps
  <2>2. CASE ~(input.presets /\ resp.status = 200)
    <3>1. sent = resp
      BY <2>2 DEF ModifyEffortModelsResponse
    <3> QED
      BY <1>5, <3>1
  <2> QED
    BY <2>1, <2>2
<1> QED
  BY <1>2, <1>3, <1>6 DEF Listed

LEMMA ListAgrees ==
    ASSUME input \in ListInput
    PROVE  ListAndSelectorAgree
<1> DEFINE key == input.key
           rows == input.rows
           May(m) == PickModel(key.models, Literal(m.id))
           Open(m) == \E r \in RowsOf(m) : r.id \notin key.providers
           plain == \A i \in DOMAIN key.models : key.models[i].kind = "literal" /\ ~key.models[i].capitals
<1> SUFFICES ASSUME ListIsServed, NEW m \in Range(input.data)
             PROVE  /\ May(m) /\ Open(m) => m \in Listed
                    /\ m \in Listed /\ ~RestrictsProviders(key) /\ plain => May(m)
  BY DEF ListAndSelectorAgree
<1>1. AuthorizeRequest(input.auth) /\ input.auth.who = "key" /\ input.body = "list" /\ ~input.rowsFail
  BY DEF ListIsServed, AuthorizeRequest
<1>2. \A j \in DOMAIN rows : rows[j].type # "CUSTOM"
  BY DEF ListIsServed
<1>5. key.models \in Seq(AnyRestriction) /\ m.id \in Name
  <2>1. key.models \in Seq(AnyRestriction) /\ input.data \in Seq([id : Name, owner : STRING])
    BY DEF ListInput
  <2>2. m \in [id : Name, owner : STRING]
    <3> DEFINE S == [id : Name, owner : STRING]
               l == input.data
    <3>1. l \in Seq(S) /\ m \in Range(l)
      BY <2>1
    <3> HIDE DEF S, l
    <3>2. m \in S
      BY <3>1, InSequence
    <3> QED
      BY <3>2 DEF S
  <2> QED
    BY <2>1, <2>2
<1>6. CASE key.models = <<>> /\ ~RestrictsProviders(key)
  <2>1. Range(key.models) = {}
    BY <1>6, SmallRanges
  <2>2. May(m)
    <3> DEFINE ks == key.models
               id == m.id
    <3>1. ks \in Seq(AnyRestriction) /\ id \in Name /\ ks = <<>> /\ Range(ks) = {}
      BY <1>5, <1>6, <2>1
    <3> HIDE DEF ks, id
    <3>2. \A i \in DOMAIN ks : FALSE
      BY <3>1
    <3>3. PickModel(ks, Literal(id))
      BY <3>1, <3>2, LiteralMatches
    <3> QED
      BY <3>3 DEF ks, id
  <2> QED
    BY <1>6, <2>2, AllIsListed
<1>7. CASE key.models # <<>> \/ RestrictsProviders(key)
  <2>2. PICK D \in Seq(ListedModel) :
           /\ m \in Range(D)
           /\ \A n : n \in Listed <=> \E i \in DOMAIN D, j \in DOMAIN rows :
                                         Keeps(key, D[i], rows[j]) /\ n = D[i]
    BY <1>1, <1>2, <1>7, AnswerIs
  <2>3. PICK d \in DOMAIN D : D[d] = m
    BY <2>2 DEF Range
  <2>4. m \in Listed <=> \E j \in DOMAIN rows : Keeps(key, m, rows[j])
    BY <2>2, <2>3
  <2>5. ASSUME May(m), Open(m) PROVE m \in Listed
    <3>1. Literal(m.id) \notin Range(key.models)
      BY <1>5, <2>5, LiteralMatches
    <3>2. PICK r \in RowsOf(m) : r.id \notin key.providers
      BY <2>5
    <3>3. PICK j \in DOMAIN rows : r = rows[j]
      BY <3>2 DEF RowsOf, Range
    <3>4. r.type # "CUSTOM" /\ GetOAuthDefinition(r.type).Provider = m.owner
      BY <1>2, <3>2, <3>3 DEF RowsOf
    <3> HIDE DEF key, rows
    <3>5. Keeps(key, m, r)
      BY <1>7, <3>1, <3>2, <3>4 DEF Keeps
    <3> QED
      BY <2>4, <3>3, <3>5
  <2>6. ASSUME m \in Listed, ~RestrictsProviders(key), plain PROVE May(m)
    <3>1. Literal(m.id) \notin Range(key.models)
      BY <2>4, <2>6, KeepsMeans
    <3> QED
      BY <1>5, <2>6, <3>1, LiteralMatches
  <2> QED
    BY <2>5, <2>6
<1> QED
  BY <1>6, <1>7

LEMMA VariantsListed ==
    ASSUME input \in ListInput
    PROVE  VariantsListedByName
<1> DEFINE key == input.key
           rows == input.rows
<1> SUFFICES ASSUME ListIsServed, input.presets, input.status = 200, key.models # <<>>,
                    NEW m \in Range(input.data), NEW l \in 1..3,
                    RowsOf(m) # {}, Literal(Variant(m, l).id) \notin Range(key.models)
             PROVE  Variant(m, l) \in Listed
  BY DEF VariantsListedByName, Variant
<1>1. AuthorizeRequest(input.auth) /\ input.auth.who = "key" /\ input.body = "list" /\ ~input.rowsFail
  BY DEF ListIsServed, AuthorizeRequest
<1>2. \A j \in DOMAIN rows : rows[j].type # "CUSTOM"
  BY DEF ListIsServed
<1> DEFINE v == Variant(m, l)
<1>3. v.owner = m.owner
  <2>1. input.data \in Seq([id : Name, owner : STRING])
    BY DEF ListInput
  <2>2. m \in [id : Name, owner : STRING]
    <3> DEFINE S == [id : Name, owner : STRING]
               d == input.data
    <3>1. d \in Seq(S) /\ m \in Range(d)
      BY <2>1
    <3> HIDE DEF S, d
    <3>2. m \in S
      BY <3>1, InSequence
    <3> QED
      BY <3>2 DEF S
  <2> QED
    BY <2>2 DEF Variant
<1> HIDE DEF v
<1>4. PICK D \in Seq(ListedModel) :
         /\ v \in Range(D)
         /\ \A n : n \in Listed <=> \E i \in DOMAIN D, j \in DOMAIN rows :
                                       Keeps(key, D[i], rows[j]) /\ n = D[i]
  BY <1>1, <1>2, AnswerIs DEF v
<1>5. PICK d \in DOMAIN D : D[d] = v
  BY <1>4 DEF Range
<1>6. PICK r \in RowsOf(m) : TRUE
  OBVIOUS
<1>7. PICK j \in DOMAIN rows : r = rows[j]
  BY <1>6 DEF RowsOf, Range
<1>8. r.type # "CUSTOM" /\ GetOAuthDefinition(r.type).Provider = v.owner
  BY <1>2, <1>3, <1>6, <1>7 DEF RowsOf
<1>9. Keeps(key, v, r)
  BY <1>8 DEF Keeps, v
<1>10. v \in Listed
  BY <1>4, <1>5, <1>7, <1>9
<1> QED
  BY <1>10 DEF v

\* A restriction survives its storage, no error lifts it, every key is listed what
\* it may use, and what it is listed beyond that is what RestrictedNeverListed,
\* ListAndSelectorAgree and VariantsListedByName leave open: one of two lists,
\* patterns, other spellings, names of types and variants; for lists of any length,
\* any names and any rows (access_policy.go, access_provider.go, effort_presets.go).
THEOREM RestrictionsAlwaysApply == input \in AnyInput => RestrictionsApply
<1> SUFFICES ASSUME input \in AnyInput PROVE RestrictionsApply
  OBVIOUS
<1>1. RestrictionsSurviveStorage
  <2>1. input \notin NamesInput => input.kind # "names"
    BY Kinds DEF AnyInput
  <2> QED
    BY <2>1, StorageKeeps DEF RestrictionsSurviveStorage
<1>2. TypeRestrictionCatches
  <2>1. input \notin TypeInput => input.kind # "type"
    BY Kinds DEF AnyInput
  <2> QED
    BY <2>1, TypesCaught DEF TypeRestrictionCatches
<1>3. RestrictedNeverListed
  <2>1. input \notin ListInput => input.kind # "list"
    BY Kinds DEF AnyInput
  <2> QED
    BY <2>1, ListHides DEF RestrictedNeverListed
<1>4. ListAndSelectorAgree
  <2>1. input \notin ListInput => input.kind # "list"
    BY Kinds DEF AnyInput
  <2> QED
    BY <2>1, ListAgrees DEF ListAndSelectorAgree, ListIsServed
<1>5. VariantsListedByName
  <2>1. input \notin ListInput => input.kind # "list"
    BY Kinds DEF AnyInput
  <2> QED
    BY <2>1, VariantsListed DEF VariantsListedByName, ListIsServed
<1> QED
  BY <1>1, <1>2, <1>3, <1>4, <1>5 DEF RestrictionsApply

----------------------------------------------------------------------------
(* The panel: callers and health. *)

LEMMA PanelTells ==
    ASSUME input \in HealthInput
    PROVE  PanelTellsAll
<1> DEFINE caller == AuthInterceptor(input.isAdmin, input.header)
           rows == input.rows
           admin == input.header.secret \in Admins
           R == [id : Int, disabled : BOOLEAN, secret : STRING]
           hidden == IF admin THEN {} ELSE input.restricted
<1>1. rows \in Seq(R) /\ input.kind = "health"
  BY DEF HealthInput
<1>2. ASSUME caller.status = 200
      PROVE  /\ input.header.secret # "unknown" /\ input.header.scheme # "Basic"
             /\ input.isAdmin => admin
             /\ caller.who.admin = admin
  BY <1>2 DEF AuthInterceptor, Admins
<1>3. ASSUME NEW who, who.admin = admin
      PROVE  Range(GetProvidersList(rows, who, input.restricted)) =
                {rows[i].id : i \in DOMAIN rows} \ hidden
  <2> DEFINE I == {i \in DOMAIN rows : who.admin \/ rows[i].id \notin input.restricted}
             shown == At(rows, I)
             list == [i \in DOMAIN shown |-> shown[i].id]
  <2>1. GetProvidersList(rows, who, input.restricted) = list
    BY DEF GetProvidersList
  <2> HIDE DEF rows, R
  <2>2. \A x : x \in Range(shown) <=> \E i \in DOMAIN rows : i \in I /\ x = rows[i]
    BY <1>1, AtRange
  <2>3. \A i \in DOMAIN rows : i \in I <=> rows[i].id \notin hidden
    BY <1>3
  <2> HIDE DEF shown, I, hidden
  <2>4. Range(list) = {x.id : x \in Range(shown)}
    BY DEF Range
  <2> HIDE DEF list
  <2>5. \A y : y \in Range(list) <=> \E i \in DOMAIN rows : rows[i].id = y /\ y \notin hidden
    BY <2>2, <2>3, <2>4
  <2> QED
    BY <2>1, <2>5
<1>4. ASSUME HealthCheck(input).status = "ok"
      PROVE  /\ input.query /\ input.alive /\ input.unhealthy = {}
             /\ input.again => \A i \in DOMAIN rows : rows[i].secret = "oauth:pending" => rows[i].disabled
  <2> DEFINE pending == {rows[i].id : i \in {j \in DOMAIN rows :
                            ~rows[j].disabled /\ rows[j].secret = "oauth:pending"}}
             one == IF input.query THEN {} ELSE {<<"database", 0>>}
             two == {<<"proxy", x>> : x \in input.unhealthy}
             three == IF ~input.alive THEN {<<"cliproxyapi", 0>>}
                      ELSE IF input.again THEN {<<"provider", p>> : p \in pending} ELSE {}
             issues == one \cup two \cup three
  <2>1. HealthCheck(input).status = IF issues = {} THEN "ok" ELSE "unhealthy"
    BY DEF HealthCheck
  <2>2. one = {} /\ two = {} /\ three = {}
    <3> HIDE DEF one, two, three
    <3> QED
      BY <1>4, <2>1
  <2>3. input.query
    BY <2>2
  <2>4. input.unhealthy = {}
    BY <2>2
  <2>5. input.alive
    BY <2>2
  <2>6. input.again => pending = {}
    <3> HIDE DEF pending
    <3> QED
      BY <2>2, <2>5
  <2>7. \A i \in DOMAIN rows : ~rows[i].disabled /\ rows[i].secret = "oauth:pending" => rows[i].id \in pending
    OBVIOUS
  <2> HIDE DEF pending
  <2> QED
    BY <2>3, <2>4, <2>5, <2>6, <2>7
<1>5. caller.status = 200 =>
         /\ input.header.secret # "unknown" /\ input.header.scheme # "Basic"
         /\ input.isAdmin => caller.who.admin
         /\ Range(GetProvidersList(rows, caller.who, input.restricted)) =
               {rows[i].id : i \in DOMAIN rows} \ hidden
  <2> HIDE DEF caller, rows, hidden, admin
  <2> QED
    BY <1>2, <1>3
<1> QED
  BY <1>4, <1>5 DEF PanelTellsAll

----------------------------------------------------------------------------
(* The panel: usage in pages. *)

\* Entries of one owner, no two of the same time.
Timed(S) == /\ IsFiniteSet(S) /\ \A e \in S : e.time \in Int
            /\ \A e, f \in S : e.time = f.time => e = f
Later(S, e) == {f \in S : f.time > e.time}

LEMMA RankIs ==
    ASSUME NEW S, Timed(S), NEW e \in S
    PROVE  Cardinality(Later(S, e)) \in 0..Cardinality(S) - 1
<1> DEFINE L == Later(S, e)
<1>1. L \in SUBSET S /\ e \notin L
  BY DEF Later, Timed
<1> HIDE DEF L
<1>2. IsFiniteSet(S) /\ IsFiniteSet(L) /\ Cardinality(L) <= Cardinality(S)
      /\ (Cardinality(S) = Cardinality(L) => S = L)
  BY <1>1, FS_Subset DEF Timed
<1>3. Cardinality(S) \in Nat /\ Cardinality(L) \in Nat
  BY <1>2, FS_CardinalityType
<1>4. S # L
  BY <1>1
<1> QED
  BY <1>2, <1>3, <1>4 DEF L

LEMMA RankOrder ==
    ASSUME NEW S, Timed(S), NEW e \in S, NEW f \in S
    PROVE  /\ Cardinality(Later(S, e)) < Cardinality(Later(S, f)) => e.time > f.time
           /\ Cardinality(Later(S, e)) = Cardinality(Later(S, f)) => e = f
<1>1. ASSUME NEW x \in S, NEW y \in S, x.time > y.time
      PROVE  Cardinality(Later(S, x)) < Cardinality(Later(S, y))
  <2> DEFINE X == Later(S, x)
             Y == Later(S, y)
  <2>1. X \in SUBSET Y /\ x \in Y /\ x \notin X /\ Y \in SUBSET S
    BY <1>1 DEF Later, Timed
  <2> HIDE DEF X, Y
  <2>2. IsFiniteSet(Y)
    BY <2>1, FS_Subset DEF Timed
  <2>3. IsFiniteSet(X) /\ Cardinality(X) <= Cardinality(Y) /\ (Cardinality(Y) = Cardinality(X) => Y = X)
    BY <2>1, <2>2, FS_Subset
  <2>4. Cardinality(X) \in Nat /\ Cardinality(Y) \in Nat /\ X # Y
    BY <2>1, <2>2, <2>3, FS_CardinalityType
  <2> QED
    BY <2>3, <2>4 DEF X, Y
<1>2. e.time \in Int /\ f.time \in Int /\ (e.time = f.time => e = f)
  BY DEF Timed
<1>3. Cardinality(Later(S, e)) \in Int /\ Cardinality(Later(S, f)) \in Int
  <2>1. Cardinality(S) \in Nat
    BY FS_CardinalityType DEF Timed
  <2> QED
    BY <2>1, RankIs
<1>4. CASE e.time > f.time
  BY <1>1, <1>3, <1>4
<1>5. CASE f.time > e.time
  BY <1>1, <1>3, <1>5
<1>6. CASE e.time = f.time
  BY <1>2, <1>3, <1>6
<1> QED
  BY <1>2, <1>4, <1>5, <1>6

\* Every rank is taken.
LEMMA RankTaken ==
    ASSUME NEW S, Timed(S), NEW k \in 1..Cardinality(S)
    PROVE  \E e \in S : Cardinality(Later(S, e)) = k - 1
<1> DEFINE N == Cardinality(S)
           T == 0..N - 1
           r == [e \in S |-> Cardinality(Later(S, e))]
<1>1. N \in Nat
  BY FS_CardinalityType DEF Timed
<1> HIDE DEF N
<1>2. IsFiniteSet(T) /\ Cardinality(T) = N
  BY <1>1, FS_Interval
<1>3. r \in [S -> T] /\ \A e, f \in S : r[e] = r[f] => e = f
  <2>1. \A e \in S : Cardinality(Later(S, e)) \in T
    BY RankIs DEF N
  <2>2. \A e, f \in S : Cardinality(Later(S, e)) = Cardinality(Later(S, f)) => e = f
    BY RankOrder
  <2> HIDE DEF T
  <2> QED
    BY <2>1, <2>2
<1> HIDE DEF T, r
<1>4. r \in Injection(S, T)
  BY <1>3 DEF Injection, IsInjective
<1>5. r \in Surjection(S, T)
  BY <1>2, <1>4, FS_Injection DEF N
<1>6. k - 1 \in T
  BY <1>1 DEF T, N
<1>7. \E e \in S : r[e] = k - 1
  BY <1>5, <1>6 DEF Surjection
<1> QED
  BY <1>7 DEF r

LEMMA NewestIs ==
    ASSUME NEW S, Timed(S)
    PROVE  /\ \A k \in 1..Cardinality(S) : Newest(S, k) \in S /\ Cardinality(Later(S, Newest(S, k))) = k - 1
           /\ \A i, j \in 1..Cardinality(S) : i < j => Newest(S, i).time > Newest(S, j).time
           /\ \A e \in S : \E k \in 1..Cardinality(S) : Newest(S, k) = e
<1> DEFINE N == Cardinality(S)
<1>0. N \in Nat
  BY FS_CardinalityType DEF Timed
<1>1. ASSUME NEW k \in 1..N PROVE Newest(S, k) \in S /\ Cardinality(Later(S, Newest(S, k))) = k - 1
  <2>1. Newest(S, k) = CHOOSE e \in S : Cardinality(Later(S, e)) = k - 1
    BY DEF Newest, Later
  <2>2. \E e \in S : Cardinality(Later(S, e)) = k - 1
    BY RankTaken
  <2> QED
    BY <2>1, <2>2
<1> HIDE DEF N
<1>2. ASSUME NEW i \in 1..N, NEW j \in 1..N, i < j PROVE Newest(S, i).time > Newest(S, j).time
  <2> DEFINE e == Newest(S, i)
             f == Newest(S, j)
  <2>1. e \in S /\ f \in S /\ Cardinality(Later(S, e)) = i - 1 /\ Cardinality(Later(S, f)) = j - 1
    BY <1>1
  <2> HIDE DEF e, f
  <2>2. Cardinality(Later(S, e)) < Cardinality(Later(S, f))
    BY <1>0, <1>2, <2>1
  <2> QED
    BY <2>1, <2>2, RankOrder DEF e, f
<1>3. ASSUME NEW e \in S PROVE \E k \in 1..N : Newest(S, k) = e
  <2> DEFINE k == Cardinality(Later(S, e)) + 1
  <2>1. k \in 1..N /\ k - 1 = Cardinality(Later(S, e))
    <3>1. Cardinality(Later(S, e)) \in 0..N - 1
      BY RankIs DEF N
    <3> QED
      BY <1>0, <3>1
  <2> HIDE DEF k
  <2>2. Newest(S, k) \in S /\ Cardinality(Later(S, Newest(S, k))) = Cardinality(Later(S, e))
    BY <1>1, <2>1
  <2>3. Newest(S, k) = e
    BY <2>2, RankOrder
  <2> QED
    BY <2>1, <2>3
<1> QED
  BY <1>1, <1>2, <1>3 DEF N

\* What of S is on its first n pages of that size.
Sorted(S, n) == [i \in 1..n |-> Newest(S, i)]

LEMMA ClampPositive == \A limit \in Nat : clampLimit(limit) \in Nat /\ clampLimit(limit) >= 1
BY LimitAssumption DEF clampLimit

Shorter(a, b) == IF a < b THEN a ELSE b
PageOf(S, size, k) == [i \in 1..Shorter(Cardinality(S) - k * size, size) |-> Newest(S, k * size + i)]

LEMMA SortedType ==
    ASSUME NEW S, Timed(S), NEW n \in 0..Cardinality(S)
    PROVE  /\ Sorted(S, n) \in Seq(S) /\ Len(Sorted(S, n)) = n
           /\ \A i \in 1..n : Sorted(S, n)[i] = Newest(S, i)
<1>1. Cardinality(S) \in Nat
  BY FS_CardinalityType DEF Timed
<1>2. \A i \in 1..n : Newest(S, i) \in S
  BY <1>1, NewestIs
<1> QED
  BY <1>1, <1>2 DEF Sorted

LEMMA PageType ==
    ASSUME NEW S, Timed(S), NEW size \in Nat, size >= 1, NEW k \in Nat
    PROVE  LET n == Shorter(Cardinality(S) - k * size, size)
               p == PageOf(S, size, k)
           IN  /\ p \in Seq(S) /\ Len(p) = IF n < 0 THEN 0 ELSE n
               /\ \A i \in 1..n : p[i] = Newest(S, k * size + i)
<1> DEFINE N == Cardinality(S)
           o == k * size
           n == Shorter(N - o, size)
<1>1. N \in Nat
  BY FS_CardinalityType DEF Timed
<1>2. o \in Nat
  OBVIOUS
<1>3. \A i \in 1..N : Newest(S, i) \in S
  BY NewestIs
<1> DEFINE p == [i \in 1..n |-> Newest(S, o + i)]
<1>4. PageOf(S, size, k) = p
  BY DEF PageOf
<1> HIDE DEF N, o
<1>5. n \in Int /\ \A i \in 1..n : o + i \in 1..N
  BY <1>1, <1>2 DEF Shorter
<1> HIDE DEF n
<1>6. CASE n >= 0
  <2>1. \A i \in 1..n : Newest(S, o + i) \in S
    BY <1>3, <1>5
  <2>2. p \in Seq(S) /\ Len(p) = n /\ \A i \in 1..n : p[i] = Newest(S, o + i)
    BY <1>5, <1>6, <2>1
  <2> HIDE DEF p
  <2> QED
    BY <1>4, <1>5, <1>6, <2>2 DEF n, N, o
<1>7. CASE n < 0
  <2>1. 1..n = {}
    BY <1>5, <1>7
  <2>2. p = <<>>
    BY <2>1
  <2> HIDE DEF p
  <2>3. p \in Seq(S) /\ Len(p) = 0
    BY <2>2
  <2> QED
    BY <1>4, <1>7, <2>1, <2>3 DEF n, N, o
<1> QED
  BY <1>5, <1>6, <1>7

\* The first n pages, one after the other, are the newest entries.
LEMMA PagesSorted ==
    ASSUME NEW S, Timed(S), NEW size \in Nat, size >= 1
    PROVE  \A n \in Nat : /\ [k \in 1..n |-> PageOf(S, size, k - 1)] \in Seq(Seq(S))
                          /\ FlattenSeq([k \in 1..n |-> PageOf(S, size, k - 1)]) =
                                Sorted(S, Shorter(n * size, Cardinality(S)))
<1> DEFINE N == Cardinality(S)
           Pages(n) == [k \in 1..n |-> PageOf(S, size, k - 1)]
           Upto(n) == Shorter(n * size, N)
           T == {n \in Nat : Pages(n) \in Seq(Seq(S)) /\ FlattenSeq(Pages(n)) = Sorted(S, Upto(n))}
<1>1. N \in Nat
  BY FS_CardinalityType DEF Timed
<1>2. \A n \in Nat : Pages(n) \in Seq(Seq(S)) /\ Len(Pages(n)) = n
  <2>1. \A k \in Nat : PageOf(S, size, k) \in Seq(S)
    BY PageType
  <2> QED
    BY <2>1
<1>3. \A n \in Nat : n * size \in Nat /\ Upto(n) \in 0..N
  <2>1. \A n \in Nat : n * size \in Nat
    OBVIOUS
  <2>2. \A m \in Nat : Shorter(m, N) \in 0..N
    BY <1>1 DEF Shorter
  <2> QED
    BY <2>1, <2>2
<1>4. 0 \in T
  <2>1. Pages(0) = <<>> /\ 0 * size = 0 /\ Upto(0) = 0
    BY <1>1 DEF Shorter
  <2>2. Sorted(S, 0) = <<>>
    BY DEF Sorted
  <2> QED
    BY <1>2, <2>1, <2>2, FlattenEmpty
<1>5. ASSUME NEW n \in Nat, n \in T PROVE n + 1 \in T
  <2> DEFINE a == Pages(n)
             b == Pages(n + 1)
             p == PageOf(S, size, n)
             o == n * size
             u == Upto(n)
             v == Upto(n + 1)
             m == Shorter(N - o, size)
  <2>1. a \in Seq(Seq(S)) /\ b \in Seq(Seq(S)) /\ Len(a) = n /\ Len(b) = n + 1
    BY <1>2
  <2>2. (\A k \in 1..n : b[k] = a[k]) /\ b[n + 1] = p
    OBVIOUS
  <2>3. FlattenSeq(a) = Sorted(S, u)
    BY <1>5
  <2>4. p \in Seq(S) /\ Len(p) = (IF m < 0 THEN 0 ELSE m) /\ \A i \in 1..m : p[i] = Newest(S, o + i)
    BY PageType
  <2>5. (n + 1) * size = o + size /\ o \in Nat
    OBVIOUS
  <2>6. u \in 0..N /\ v \in 0..N
    <3>1. n + 1 \in Nat
      OBVIOUS
    <3> HIDE DEF Upto
    <3> QED
      BY <1>3, <3>1
  <2>7. u = Shorter(o, N) /\ v = Shorter(o + size, N)
    BY <2>5
  <2> HIDE DEF a, b, p, o, u, v, m, N, Pages, Upto, T
  <2>8. FlattenSeq(b) = FlattenSeq(a) \o p
    <3>1. Len(b) = Len(a) + 1 /\ \A i \in 1..Len(a) : b[i] = a[i]
      BY <2>1, <2>2
    <3>2. b[Len(b)] = p
      BY <2>1, <2>2
    <3> QED
      BY <2>1, <3>1, <3>2, FlattenLonger
  <2>9. /\ Sorted(S, u) \in Seq(S) /\ Len(Sorted(S, u)) = u
        /\ \A i \in 1..u : Sorted(S, u)[i] = Newest(S, i)
        /\ Sorted(S, v) \in Seq(S) /\ Len(Sorted(S, v)) = v
        /\ \A i \in 1..v : Sorted(S, v)[i] = Newest(S, i)
    BY <2>6, SortedType DEF N
  <2> DEFINE x == Sorted(S, u)
             y == Sorted(S, v)
  <2>10. Len(p) \in Nat /\ u + Len(p) = v /\ (Len(p) > 0 => u = o /\ Len(p) = m)
    <3>1. m = Shorter(N - o, size)
      BY DEF m
    <3> QED
      BY <1>1, <2>4, <2>5, <2>7, <3>1 DEF Shorter
  <2> HIDE DEF x, y
  <2>11. /\ x \in Seq(S) /\ Len(x) = u /\ \A i \in 1..u : x[i] = Newest(S, i)
         /\ y \in Seq(S) /\ Len(y) = v /\ \A i \in 1..v : y[i] = Newest(S, i)
    BY <2>9 DEF x, y
  <2>12. /\ x \o p \in Seq(S) /\ Len(x \o p) = Len(x) + Len(p)
         /\ \A i \in 1..Len(x) + Len(p) : (x \o p)[i] = IF i <= Len(x) THEN x[i] ELSE p[i - Len(x)]
    BY <2>4, <2>11, ConcatProperties
  <2>13. ASSUME NEW i \in 1..v PROVE (x \o p)[i] = y[i]
    <3>1. i \in 1..Len(x) + Len(p) /\ y[i] = Newest(S, i) /\ u \in Nat /\ v \in Nat
      BY <1>1, <2>6, <2>10, <2>11
    <3>2. CASE i <= u
      BY <2>11, <2>12, <3>1, <3>2
    <3>3. CASE ~(i <= u)
      <4>1. i - u \in 1..Len(p) /\ u = o /\ Len(p) = m
        BY <2>10, <3>1, <3>3
      <4>2. p[i - u] = Newest(S, o + (i - u))
        BY <2>4, <4>1
      <4>3. o + (i - u) = i
        BY <2>5, <4>1
      <4> QED
        BY <2>11, <2>12, <3>1, <3>3, <4>2, <4>3
    <3> QED
      BY <3>2, <3>3
  <2>14. x \o p = y
    <3>1. Len(x \o p) = Len(y) /\ Len(y) = v
      BY <2>10, <2>11, <2>12
    <3>2. \A i \in 1..Len(x \o p) : (x \o p)[i] = y[i]
      BY <2>13, <3>1
    <3> QED
      BY <2>11, <2>12, <3>1, <3>2, SeqEqual
  <2>15. FlattenSeq(b) = y
    BY <2>3, <2>8, <2>14 DEF x
  <2> QED
    BY <2>1, <2>15 DEF T, b, y, v
<1> HIDE DEF T
<1>6. \A n \in Nat : n \in T
  BY <1>4, <1>5, Induct
<1> QED
  BY <1>6 DEF T

LEMMA OwnIs ==
    ASSUME input \in PagesInput
    PROVE  LET who == input.who
               own == {e \in input.entries : who.admin \/ e.key = who.key}
               owner == IF who.admin THEN "all" ELSE who.key
           IN  /\ own = {e \in input.entries : owner = "all" \/ e.key = owner}
               /\ Timed(own) /\ own \in SUBSET input.entries
               /\ \A e \in input.entries : e.key # "all"
               /\ \A k : Timed({e \in input.entries : e.key = k})
<1> DEFINE who == input.who
           own == {e \in input.entries : who.admin \/ e.key = who.key}
<1>1. who.key # "all" /\ who.admin \in BOOLEAN /\ input.entries \in Entries
  BY DEF PagesInput
<1>2. /\ IsFiniteSet(input.entries) /\ input.entries \in SUBSET Entry
      /\ \A e, f \in input.entries : e.time = f.time => e = f
  BY <1>1 DEF Entries
<1>3. \A e \in input.entries : e.key # "all" /\ e.time \in Int
  BY <1>2 DEF Entry
<1>4. ASSUME NEW S \in SUBSET input.entries PROVE Timed(S)
  <2>1. IsFiniteSet(S)
    BY <1>2, FS_Subset
  <2> QED
    BY <1>2, <1>3, <2>1 DEF Timed
<1>5. own = {e \in input.entries : (IF who.admin THEN "all" ELSE who.key) = "all"
                                     \/ e.key = IF who.admin THEN "all" ELSE who.key}
  BY <1>1
<1> QED
  BY <1>3, <1>4, <1>5

LEMMA PagesCover ==
    ASSUME input \in PagesInput
    PROVE  PagesCoverOwn
<1> DEFINE who == input.who
           size == clampLimit(input.limit)
           own == {e \in input.entries : who.admin \/ e.key = who.key}
           N == Cardinality(own)
           Page(k) == GetUsageLogs(input.entries, who, input.limit, k * size)
           all == FlattenSeq([k \in 1..N + 1 |-> Page(k - 1)])
           owner == IF who.admin THEN "all" ELSE who.key
<1>1. /\ own = {e \in input.entries : owner = "all" \/ e.key = owner}
      /\ Timed(own) /\ own \in SUBSET input.entries
      /\ \A e \in input.entries : e.key # "all"
      /\ \A k : Timed({e \in input.entries : e.key = k})
  BY OwnIs
<1>2. size \in Nat /\ size >= 1 /\ input.limit \in Nat
  BY ClampPositive DEF PagesInput
<1>3. ASSUME NEW k PROVE Page(k) = PageOf(own, size, k)
  <2>1. Page(k) = queryUsageEntries(input.entries, owner, input.limit, k * size)
    BY DEF GetUsageLogs
  <2> HIDE DEF own, owner, Page
  <2>2. queryUsageEntries(input.entries, owner, input.limit, k * size) =
           LET rest == Cardinality(own) - k * size
           IN  [i \in 1..(IF rest < size THEN rest ELSE size) |-> Newest(own, k * size + i)]
    BY <1>1 DEF queryUsageEntries
  <2> QED
    BY <2>1, <2>2 DEF PageOf, Shorter
<1>4. N \in Nat
  BY <1>1, FS_CardinalityType DEF Timed
<1> HIDE DEF size, own
<1>5. all = Sorted(own, N)
  <2>1. [k \in 1..N + 1 |-> Page(k - 1)] = [k \in 1..N + 1 |-> PageOf(own, size, k - 1)]
    BY <1>3
  <2>2. FlattenSeq([k \in 1..N + 1 |-> PageOf(own, size, k - 1)]) = Sorted(own, Shorter((N + 1) * size, N))
    BY <1>1, <1>2, <1>4, PagesSorted
  <2>3. Shorter((N + 1) * size, N) = N
    <3>1. \A a \in Nat : a * size >= a
      <4> SUFFICES ASSUME NEW a \in Nat PROVE a * size >= a
        OBVIOUS
      <4> DEFINE c == size - 1
      <4>1. c \in Nat /\ size = c + 1
        BY <1>2
      <4> HIDE DEF c
      <4>2. a * size = a * c + a
        BY <4>1
      <4>3. a * c >= 0 /\ a * c \in Int
        BY <4>1
      <4> QED
        BY <4>2, <4>3
    <3> DEFINE z == (N + 1) * size
    <3>2. z \in Int /\ z >= N + 1
      BY <1>2, <1>4, <3>1
    <3> HIDE DEF z, N
    <3>3. Shorter(z, N) = N
      BY <1>4, <3>2 DEF Shorter
    <3> QED
      BY <3>3 DEF z
  <2> HIDE DEF Page, N
  <2> QED
    BY <2>1, <2>2, <2>3
<1> HIDE DEF all, N
<1>6. all \in Seq(own) /\ Len(all) = N /\ DOMAIN all = 1..N /\ \A i \in 1..N : all[i] = Newest(own, i)
  <2>1. N \in 0..Cardinality(own)
    BY <1>4 DEF N
  <2>2. all \in Seq(own) /\ Len(all) = N /\ \A i \in 1..N : all[i] = Newest(own, i)
    BY <1>1, <1>5, <2>1, SortedType
  <2> QED
    BY <2>2
<1>7. Range(all) = own
  <2>1. \A e \in own : \E k \in 1..N : Newest(own, k) = e
    BY <1>1, NewestIs DEF N
  <2>2. \A x \in Range(all) : x \in own
    BY <1>6, InSequence
  <2> QED
    BY <1>6, <2>1, <2>2 DEF Range
<1>8. \A i, j \in DOMAIN all : i < j => all[i].time > all[j].time
  <2>1. \A i, j \in 1..N : i < j => Newest(own, i).time > Newest(own, j).time
    BY <1>1, NewestIs DEF N
  <2> QED
    BY <1>6, <2>1
<1>9. ASSUME NEW k \in Nat, Page(k + 1) # <<>> PROVE Len(Page(k)) = size
  <2> DEFINE o == k * size
  <2>1. (k + 1) * size = o + size /\ o \in Nat
    BY <1>2
  <2>2. Len(PageOf(own, size, k + 1)) = (IF Shorter(N - (o + size), size) < 0 THEN 0 ELSE Shorter(N - (o + size), size))
        /\ PageOf(own, size, k + 1) \in Seq(own)
    <3> DEFINE j == k + 1
               n == Shorter(N - j * size, size)
    <3>1. j \in Nat
      OBVIOUS
    <3> HIDE DEF j
    <3>2. PageOf(own, size, j) \in Seq(own) /\ Len(PageOf(own, size, j)) = IF n < 0 THEN 0 ELSE n
      BY <1>1, <1>2, <3>1, PageType DEF N
    <3>3. j = k + 1 /\ j * size = o + size
      BY <2>1 DEF j
    <3> HIDE DEF o
    <3> QED
      BY <3>2, <3>3
  <2>3. Len(PageOf(own, size, k)) = IF Shorter(N - o, size) < 0 THEN 0 ELSE Shorter(N - o, size)
    BY <1>1, <1>2, PageType DEF N
  <2>4. Len(PageOf(own, size, k + 1)) # 0
    BY <1>3, <1>9, <2>2
  <2> HIDE DEF o
  <2>5. Shorter(N - (o + size), size) > 0
    BY <1>2, <1>4, <2>1, <2>2, <2>4 DEF Shorter
  <2>6. N - o > size
    BY <1>2, <1>4, <2>1, <2>5 DEF Shorter
  <2>7. Shorter(N - o, size) = size
    BY <1>2, <1>4, <2>1, <2>6 DEF Shorter
  <2> QED
    BY <1>2, <1>3, <2>3, <2>7
<1>10. ASSUME NEW e \in input.entries, e.key # who.key
       PROVE  GetProviderLogsByKeyID(input.entries, who, e.key) # <<>> <=> who.admin
  <2>1. CASE ~who.admin
    BY <1>10, <2>1 DEF GetProviderLogsByKeyID
  <2>2. CASE who.admin
    <3> DEFINE S == {f \in input.entries : f.key = e.key}
               M == Cardinality(S)
               d == clampLimit(0)
    <3>1. e.key # "all" /\ Timed(S) /\ e \in S
      BY <1>1
    <3>2. S = {f \in input.entries : e.key = "all" \/ f.key = e.key}
      BY <3>1
    <3> HIDE DEF S
    <3>3. M \in Nat /\ M # 0
      BY <3>1, FS_CardinalityType, FS_EmptySet DEF Timed
    <3>4. d \in Nat /\ d >= 1
      BY ClampPositive
    <3> DEFINE q == GetProviderLogsByKeyID(input.entries, who, e.key)
               n == IF M - 0 < d THEN M - 0 ELSE d
    <3>5. q = [i \in 1..n |-> Newest(S, 0 + i)]
      BY <2>2, <3>2 DEF GetProviderLogsByKeyID, queryUsageEntries
    <3> HIDE DEF q, M, d
    <3>6. n \in Nat /\ n >= 1
      BY <3>3, <3>4
    <3> HIDE DEF n
    <3>7. 1 \in DOMAIN q
      BY <3>5, <3>6
    <3>8. q # <<>>
      BY <3>7
    <3> QED
      BY <2>2, <3>8 DEF q
  <2> QED
    BY <2>1, <2>2
<1>11. ASSUME ~who.admin, own # {}
       PROVE  SumUsageEntries(input.entries, who.key) = SumOf([i \in DOMAIN all |-> all[i].tokens])
  <2>1. own = {e \in input.entries : e.key = who.key}
    BY <1>11 DEF own
  <2> DEFINE s == [k \in 1..Cardinality(own) |-> Newest(own, k).tokens]
             t == [i \in DOMAIN all |-> all[i].tokens]
  <2>2. SumUsageEntries(input.entries, who.key) = SumOf(s)
    BY <1>11, <2>1 DEF SumUsageEntries
  <2>3. s = t
    BY <1>6 DEF N
  <2> HIDE DEF s, t
  <2>4. SumOf(s) = SumOf(t)
    BY <2>3
  <2> QED
    BY <2>2, <2>4 DEF t
<1>12. \A k \in 0..N + 1 : Page(k + 1) # <<>> => Len(Page(k)) = size
  BY <1>4, <1>9
<1> HIDE DEF Page
<1> QED
  BY <1>6, <1>7, <1>8, <1>10, <1>11, <1>12 DEF PagesCoverOwn, size, own, N, all, Page

----------------------------------------------------------------------------
(* The panel: error logs. *)

\* A nonempty bounded set of naturals has a greatest element.
LEMMA MostOf ==
    ASSUME NEW n \in Nat, NEW S \in SUBSET (0..n), S # {}
    PROVE  \E x \in S : \A y \in S : x >= y
<1> DEFINE T == {n - x : x \in S}
<1>1. T \in SUBSET Nat /\ T # {}
  <2>1. \A x \in S : x \in 0..n
    OBVIOUS
  <2>2. \A x \in S : n - x \in Nat
    BY <2>1
  <2> QED
    BY <2>2
<1>2. PICK t \in T : \A u \in T : t <= u
  BY <1>1, LeastOf
<1>3. PICK x \in S : t = n - x
  BY <1>2
<1>4. ASSUME NEW y \in S PROVE x >= y
  <2>1. n - x <= n - y /\ x \in 0..n /\ y \in 0..n
    BY <1>2, <1>3
  <2> QED
    BY <2>1
<1> QED
  BY <1>4

\* Both ends of a set of positions.
LEMMA Ends ==
    ASSUME NEW n \in Nat, NEW S \in SUBSET (1..n), S # {}
    PROVE  LET a == CHOOSE i \in S : \A j \in S : i <= j
               z == CHOOSE i \in S : \A j \in S : i >= j
           IN  a \in S /\ z \in S /\ (\A j \in S : a <= j) /\ (\A j \in S : j <= z)
<1>1. \E i \in S : \A j \in S : i <= j
  BY LeastOf
<1>2. \E i \in S : \A j \in S : i >= j
  <2>1. 1..n \in SUBSET (0..n)
    OBVIOUS
  <2>2. S \in SUBSET (0..n)
    BY <2>1
  <2> QED
    BY <2>2, MostOf
<1>3. \A i, j \in S : i >= j <=> j <= i
  OBVIOUS
<1> QED
  BY <1>1, <1>2, <1>3

LEMMA SubSeqIs ==
    ASSUME NEW X, NEW s \in Seq(X), NEW a \in 1..Len(s) + 1, NEW z \in Nat, z <= Len(s), a <= z + 1
    PROVE  /\ SubSeq(s, a, z) \in Seq(X) /\ Len(SubSeq(s, a, z)) = z - a + 1
           /\ \A i \in 1..z - a + 1 : SubSeq(s, a, z)[i] = s[a + i - 1] /\ a + i - 1 \in a..z
<1>1. Len(s) \in Nat
  OBVIOUS
<1>2. \A i \in a..z : s[i] \in X
  BY <1>1
<1>3. SubSeq(s, a, z) \in Seq(X)
  BY <1>1, <1>2
<1>4. Len(SubSeq(s, a, z)) = z - a + 1
  BY <1>1
<1>5. \A i \in 1..z - a + 1 : SubSeq(s, a, z)[i] = s[a + i - 1]
  BY <1>1
<1>6. \A i \in 1..z - a + 1 : a + i - 1 \in a..z
  BY <1>1
<1> QED
  BY <1>3, <1>4, <1>5, <1>6

Joined(s, t, u) ==
    /\ Len(u) = Len(s) + Len(t) /\ Begins(s, u)
    /\ \A i \in 1..Len(t) : u[Len(s) + i] = t[i]

LEMMA Extended ==
    ASSUME NEW X, NEW s \in Seq(X), NEW t \in Seq(X)
    PROVE  s \o t \in Seq(X) /\ Joined(s, t, s \o t)
<1> DEFINE u == s \o t
<1>1. Len(s) \in Nat /\ Len(t) \in Nat
  OBVIOUS
<1>2. /\ u \in Seq(X) /\ Len(u) = Len(s) + Len(t)
      /\ \A i \in 1..Len(s) + Len(t) : u[i] = IF i <= Len(s) THEN s[i] ELSE t[i - Len(s)]
  BY ConcatProperties
<1> HIDE DEF u
<1>3. ASSUME NEW i \in 1..Len(s) PROVE u[i] = s[i]
  <2>1. i \in 1..Len(s) + Len(t) /\ i <= Len(s)
    BY <1>1
  <2> QED
    BY <1>2, <2>1
<1>4. ASSUME NEW i \in 1..Len(t) PROVE u[Len(s) + i] = t[i]
  <2>1. Len(s) + i \in 1..Len(s) + Len(t) /\ ~(Len(s) + i <= Len(s)) /\ (Len(s) + i) - Len(s) = i
    BY <1>1
  <2> QED
    BY <1>2, <2>1
<1>5. Begins(s, u)
  BY <1>1, <1>2, <1>3 DEF Begins
<1>6. Joined(s, t, u)
  BY <1>2, <1>4, <1>5 DEF Joined
<1> QED
  BY <1>2, <1>6 DEF u

LEMMA BeginsAt ==
    ASSUME NEW X, NEW a \in Seq(X), NEW b \in Seq(X), NEW c \in Seq(X), Begins(a, b), Begins(b, c)
    PROVE  Begins(a, c)
<1>1. Len(a) \in Nat /\ Len(b) \in Nat /\ Len(c) \in Nat
  OBVIOUS
<1> QED
  BY <1>1 DEF Begins

LEMMA ToSeq ==
    ASSUME NEW Y, NEW s \in Seq(Y), NEW X, Range(s) \in SUBSET X
    PROVE  s \in Seq(X)
<1>1. \A i \in 1..Len(s) : s[i] \in X
  BY DEF Range
<1>2. s = [i \in 1..Len(s) |-> s[i]] /\ Len(s) \in Nat
  OBVIOUS
<1>3. \A n \in Nat : (\A i \in 1..n : s[i] \in X) => [i \in 1..n |-> s[i]] \in Seq(X)
  OBVIOUS
<1> QED
  BY <1>1, <1>2, <1>3

\* Where the parts of a log are.
Assembled(X, c, A, H, B, D, C, S, E, R) ==
    LET n1 == Len(A)
        n2 == n1 + Len(H)
        n3 == n2 + Len(B)
        n4 == n3 + Len(D)
        n5 == n4 + Len(C)
        n6 == n5 + Len(S)
        n7 == n6 + Len(E)
    IN  /\ c \in Seq(X) /\ Len(c) = n7 + Len(R)
        /\ \A i \in 1..Len(A) : c[i] = A[i]
        /\ \A i \in 1..Len(H) : c[n1 + i] = H[i]
        /\ \A i \in 1..Len(B) : c[n2 + i] = B[i]
        /\ \A i \in 1..Len(D) : c[n3 + i] = D[i]
        /\ \A i \in 1..Len(C) : c[n4 + i] = C[i]
        /\ \A i \in 1..Len(S) : c[n5 + i] = S[i]
        /\ \A i \in 1..Len(E) : c[n6 + i] = E[i]
        /\ \A i \in 1..Len(R) : c[n7 + i] = R[i]

LEMMA PartsOf ==
    ASSUME NEW X, NEW A \in Seq(X), NEW H \in Seq(X), NEW B \in Seq(X), NEW D \in Seq(X),
           NEW C \in Seq(X), NEW S \in Seq(X), NEW E \in Seq(X), NEW R \in Seq(X)
    PROVE  Assembled(X, A \o H \o B \o D \o C \o S \o E \o R, A, H, B, D, C, S, E, R)
<1> DEFINE c2 == A \o H
           c3 == c2 \o B
           c4 == c3 \o D
           c5 == c4 \o C
           c6 == c5 \o S
           c7 == c6 \o E
           c8 == c7 \o R
           n1 == Len(A)
           n2 == n1 + Len(H)
           n3 == n2 + Len(B)
           n4 == n3 + Len(D)
           n5 == n4 + Len(C)
           n6 == n5 + Len(S)
           n7 == n6 + Len(E)
<1>1. c2 = A \o H /\ c3 = c2 \o B /\ c4 = c3 \o D /\ c5 = c4 \o C /\ c6 = c5 \o S /\ c7 = c6 \o E /\ c8 = c7 \o R
  OBVIOUS
<1> HIDE DEF c2, c3, c4, c5, c6, c7, c8
<1>2. /\ c2 \in Seq(X) /\ Len(c2) = Len(A) + Len(H) /\ Begins(A, c2)
      /\ \A i \in 1..Len(H) : c2[Len(A) + i] = H[i]
  <2>1. c2 \in Seq(X) /\ Joined(A, H, c2)
    BY <1>1, Extended
  <2> QED
    BY <2>1 DEF Joined
<1>3. /\ c3 \in Seq(X) /\ Len(c3) = Len(c2) + Len(B) /\ Begins(c2, c3)
      /\ \A i \in 1..Len(B) : c3[Len(c2) + i] = B[i]
  <2>1. c3 \in Seq(X) /\ Joined(c2, B, c3)
    BY <1>1, <1>2, Extended
  <2> QED
    BY <2>1 DEF Joined
<1>4. /\ c4 \in Seq(X) /\ Len(c4) = Len(c3) + Len(D) /\ Begins(c3, c4)
      /\ \A i \in 1..Len(D) : c4[Len(c3) + i] = D[i]
  <2>1. c4 \in Seq(X) /\ Joined(c3, D, c4)
    BY <1>1, <1>3, Extended
  <2> QED
    BY <2>1 DEF Joined
<1>5. /\ c5 \in Seq(X) /\ Len(c5) = Len(c4) + Len(C) /\ Begins(c4, c5)
      /\ \A i \in 1..Len(C) : c5[Len(c4) + i] = C[i]
  <2>1. c5 \in Seq(X) /\ Joined(c4, C, c5)
    BY <1>1, <1>4, Extended
  <2> QED
    BY <2>1 DEF Joined
<1>6. /\ c6 \in Seq(X) /\ Len(c6) = Len(c5) + Len(S) /\ Begins(c5, c6)
      /\ \A i \in 1..Len(S) : c6[Len(c5) + i] = S[i]
  <2>1. c6 \in Seq(X) /\ Joined(c5, S, c6)
    BY <1>1, <1>5, Extended
  <2> QED
    BY <2>1 DEF Joined
<1>7. /\ c7 \in Seq(X) /\ Len(c7) = Len(c6) + Len(E) /\ Begins(c6, c7)
      /\ \A i \in 1..Len(E) : c7[Len(c6) + i] = E[i]
  <2>1. c7 \in Seq(X) /\ Joined(c6, E, c7)
    BY <1>1, <1>6, Extended
  <2> QED
    BY <2>1 DEF Joined
<1>8. /\ c8 \in Seq(X) /\ Len(c8) = Len(c7) + Len(R) /\ Begins(c7, c8)
      /\ \A i \in 1..Len(R) : c8[Len(c7) + i] = R[i]
  <2>1. c8 \in Seq(X) /\ Joined(c7, R, c8)
    BY <1>1, <1>7, Extended
  <2> QED
    BY <2>1 DEF Joined
<1>9. Len(A) \in Nat /\ Len(H) \in Nat /\ Len(B) \in Nat /\ Len(D) \in Nat
      /\ Len(C) \in Nat /\ Len(S) \in Nat /\ Len(E) \in Nat /\ Len(R) \in Nat
  OBVIOUS
<1>10. /\ Len(c2) = n2 /\ Len(c3) = n3 /\ Len(c4) = n4 /\ Len(c5) = n5 /\ Len(c6) = n6
       /\ Len(c7) = n7 /\ Len(c8) = n7 + Len(R)
  BY <1>2, <1>3, <1>4, <1>5, <1>6, <1>7, <1>8
<1>11. n1 \in Nat /\ n2 \in Nat /\ n3 \in Nat /\ n4 \in Nat /\ n5 \in Nat /\ n6 \in Nat /\ n7 \in Nat
  BY <1>9
<1>12. Begins(c7, c8) /\ Begins(c6, c8)
  BY <1>6, <1>7, <1>8, BeginsAt
<1>13. Begins(c5, c8) /\ Begins(c4, c8)
  <2>1. Begins(c5, c8)
    BY <1>5, <1>6, <1>8, <1>12, BeginsAt
  <2> QED
    BY <1>4, <1>5, <1>8, <2>1, BeginsAt
<1>14. Begins(c3, c8) /\ Begins(c2, c8)
  <2>1. Begins(c3, c8)
    BY <1>3, <1>4, <1>8, <1>13, BeginsAt
  <2> QED
    BY <1>2, <1>3, <1>8, <2>1, BeginsAt
<1>15. Begins(A, c8)
  BY <1>2, <1>8, <1>14, BeginsAt
<1>16. \A i \in 1..n1 : c8[i] = A[i]
  BY <1>15 DEF Begins
<1> HIDE DEF n1, n2, n3, n4, n5, n6, n7
<1>17. ASSUME NEW i \in 1..Len(H) PROVE c8[n1 + i] = H[i]
  <2>1. n1 + i \in 1..Len(c2) /\ c2[n1 + i] = H[i]
    BY <1>9, <1>10, <1>11, <1>2, SMTT(60) DEF n2, n1
  <2> QED
    BY <1>14, <2>1 DEF Begins
<1>18. ASSUME NEW i \in 1..Len(B) PROVE c8[n2 + i] = B[i]
  <2>1. n2 + i \in 1..Len(c3) /\ c3[n2 + i] = B[i]
    BY <1>9, <1>10, <1>11, <1>3 DEF n3
  <2> QED
    BY <1>14, <2>1 DEF Begins
<1>19. ASSUME NEW i \in 1..Len(D) PROVE c8[n3 + i] = D[i]
  <2>1. n3 + i \in 1..Len(c4) /\ c4[n3 + i] = D[i]
    BY <1>9, <1>10, <1>11, <1>4 DEF n4
  <2> QED
    BY <1>13, <2>1 DEF Begins
<1>20. ASSUME NEW i \in 1..Len(C) PROVE c8[n4 + i] = C[i]
  <2>1. n4 + i \in 1..Len(c5) /\ c5[n4 + i] = C[i]
    BY <1>9, <1>10, <1>11, <1>5 DEF n5
  <2> QED
    BY <1>13, <2>1 DEF Begins
<1>21. ASSUME NEW i \in 1..Len(S) PROVE c8[n5 + i] = S[i]
  <2>1. n5 + i \in 1..Len(c6) /\ c6[n5 + i] = S[i]
    BY <1>9, <1>10, <1>11, <1>6 DEF n6
  <2> QED
    BY <1>12, <2>1 DEF Begins
<1>22. ASSUME NEW i \in 1..Len(E) PROVE c8[n6 + i] = E[i]
  <2>1. n6 + i \in 1..Len(c7) /\ c7[n6 + i] = E[i]
    BY <1>9, <1>10, <1>11, <1>7 DEF n7
  <2> QED
    BY <1>12, <2>1 DEF Begins
<1>23. ASSUME NEW i \in 1..Len(R) PROVE c8[n7 + i] = R[i]
  BY <1>8, <1>10
<1>24. c8 = A \o H \o B \o D \o C \o S \o E \o R
  BY DEF c2, c3, c4, c5, c6, c7, c8
<1> QED
  BY <1>8, <1>10, <1>16, <1>17, <1>18, <1>19, <1>20, <1>21, <1>22, <1>23, <1>24
     DEF Assembled, n1, n2, n3, n4, n5, n6, n7

LEMMA AtSnoc ==
    ASSUME NEW X, NEW s \in Seq(X), NEW t \in Seq(X), NEW I, Begins(s, t),
           NEW e, Len(t) = Len(s) + 1, e = t[Len(t)]
    PROVE  At(t, I) = At(s, I) \o (IF Len(t) \in I THEN <<e>> ELSE <<>>)
<1> DEFINE a == [i \in DOMAIN s |-> IF i \in I THEN <<s[i]>> ELSE <<>>]
           b == [i \in DOMAIN t |-> IF i \in I THEN <<t[i]>> ELSE <<>>]
<1>1. a \in Seq(Seq(X)) /\ b \in Seq(Seq(X))
  BY AtType
<1>2. Len(s) \in Nat /\ Len(a) = Len(s) /\ Len(b) = Len(t) /\ \A i \in 1..Len(s) : t[i] = s[i]
  BY DEF Begins
<1>3. \A i \in 1..Len(s) : a[i] = IF i \in I THEN <<s[i]>> ELSE <<>>
  OBVIOUS
<1>4. \A i \in 1..Len(t) : b[i] = IF i \in I THEN <<t[i]>> ELSE <<>>
  OBVIOUS
<1>5. At(s, I) = FlattenSeq(a) /\ At(t, I) = FlattenSeq(b)
  BY DEF At
<1> HIDE DEF a, b
<1>6. \A i \in 1..Len(a) : b[i] = a[i]
  <2> SUFFICES ASSUME NEW i \in 1..Len(s) PROVE b[i] = a[i]
    BY <1>2
  <2>1. i \in 1..Len(t)
    BY <1>2
  <2> QED
    BY <1>2, <1>3, <1>4, <2>1
<1>7. FlattenSeq(b) = FlattenSeq(a) \o b[Len(b)]
  BY <1>1, <1>2, <1>6, FlattenLonger
<1>8. b[Len(b)] = IF Len(t) \in I THEN <<e>> ELSE <<>>
  <2>1. Len(t) \in 1..Len(t)
    BY <1>2
  <2> QED
    BY <1>2, <1>4, <2>1
<1> QED
  BY <1>5, <1>7, <1>8

LEMMA AtAll ==
    ASSUME NEW X, NEW I, NEW s \in Seq(X), \A i \in 1..Len(s) : i \in I
    PROVE  At(s, I) = s
<1> DEFINE T == {n \in Nat : \A u \in Seq(X) : Len(u) = n /\ (\A i \in 1..n : i \in I) => At(u, I) = u}
<1>1. 0 \in T
  <2> SUFFICES ASSUME NEW u \in Seq(X), Len(u) = 0 PROVE At(u, I) = u
    OBVIOUS
  <2>1. \A i \in DOMAIN u : i \notin I
    OBVIOUS
  <2>2. At(u, I) = <<>>
    BY <2>1, AtRange
  <2> QED
    BY <2>2
<1>2. ASSUME NEW n \in Nat, n \in T PROVE n + 1 \in T
  <2> SUFFICES ASSUME NEW u \in Seq(X), Len(u) = n + 1, \A i \in 1..n + 1 : i \in I
               PROVE  At(u, I) = u
    OBVIOUS
  <2> DEFINE v == SubSeq(u, 1, n)
             e == u[n + 1]
  <2>1. v \in Seq(X) /\ e \in X /\ Len(v) = n /\ (\A i \in 1..n : u[i] = v[i])
    OBVIOUS
  <2>2. u = v \o <<e>>
    OBVIOUS
  <2> HIDE DEF v
  <2>3. At(v, I) = v
    BY <1>2, <2>1
  <2>4. At(u, I) = At(v, I) \o (IF Len(u) \in I THEN <<e>> ELSE <<>>)
    <3>1. Len(u) = Len(v) + 1 /\ Begins(v, u) /\ e = u[Len(u)]
      BY <2>1 DEF Begins
    <3> HIDE DEF e
    <3> QED
      BY <2>1, <3>1, AtSnoc, SMTT(60)
  <2>5. Len(u) \in I
    OBVIOUS
  <2> QED
    BY <2>2, <2>3, <2>4, <2>5
<1> HIDE DEF T
<1>3. Len(s) \in Nat
  OBVIOUS
<1>4. Len(s) \in T
  BY <1>1, <1>2, <1>3, Induct
<1> QED
  BY <1>4 DEF T

IsMark(line, n) == line.kind = "mark" /\ line.name = n

\* sec is the section of c that begins after the mark at i.
SectionAfter(c, n, i, sec) ==
    /\ i \in 1..Len(c) /\ IsMark(c[i], n) /\ \A j \in 1..Len(c) : IsMark(c[j], n) => j <= i
    /\ i + Len(sec) <= Len(c)
    /\ \A p \in 1..Len(sec) : sec[p] = c[i + p] /\ c[i + p].kind # "mark"
    /\ i + Len(sec) < Len(c) => c[i + Len(sec) + 1].kind = "mark"

LEMMA SectionIs ==
    ASSUME NEW X, NEW c \in Seq(X), NEW n
    PROVE  /\ splitSections(c, n) \in Seq(X)
           /\ \/ splitSections(c, n) = <<>> /\ \A j \in 1..Len(c) : ~IsMark(c[j], n)
              \/ \E i \in 1..Len(c) : SectionAfter(c, n, i, splitSections(c, n))
<1> DEFINE Named == {i \in DOMAIN c : c[i].kind = "mark" /\ c[i].name = n}
           i == CHOOSE k \in Named : \A j \in Named : k >= j
           s == SubSeq(c, i + 1, Len(c))
           Marks == {k \in DOMAIN s : s[k].kind = "mark"}
           m == CHOOSE k \in Marks : \A j \in Marks : k <= j
           sec == splitSections(c, n)
<1>1. sec = IF Named = {} THEN <<>> ELSE IF Marks = {} THEN s ELSE SubSeq(s, 1, m - 1)
  BY DEF splitSections
<1>2. Len(c) \in Nat /\ DOMAIN c = 1..Len(c)
  OBVIOUS
<1>3. \A j \in 1..Len(c) : j \in Named <=> IsMark(c[j], n)
  BY <1>2 DEF IsMark
<1>4. Named \in SUBSET (1..Len(c))
  BY <1>2
<1> HIDE DEF sec, Named
<1>5. CASE Named = {}
  <2>1. sec = <<>> /\ sec \in Seq(X)
    BY <1>1, <1>5
  <2> QED
    BY <1>3, <1>5, <2>1 DEF sec
<1>6. CASE Named # {}
  <2>1. i \in Named /\ \A j \in Named : j <= i
    BY <1>2, <1>4, <1>6, Ends
  <2> HIDE DEF i
  <2>2. i \in 1..Len(c) /\ IsMark(c[i], n) /\ \A j \in 1..Len(c) : IsMark(c[j], n) => j <= i
    BY <1>3, <1>4, <2>1
  <2> DEFINE l == Len(c) - i
  <2>3. s \in Seq(X) /\ Len(s) = l /\ \A p \in 1..l : s[p] = c[i + p]
    <3> DEFINE a == i + 1
               z == Len(c)
    <3>1. a \in 1..Len(c) + 1 /\ z \in Nat /\ z <= Len(c) /\ a <= z + 1 /\ z - a + 1 = l
      BY <1>2, <2>2
    <3>2. \A p \in 1..l : a + p - 1 = i + p
      BY <1>2, <2>2
    <3>3. s = SubSeq(c, a, z)
      OBVIOUS
    <3> HIDE DEF a, z, l, s
    <3>4. s \in Seq(X) /\ Len(s) = z - a + 1 /\ \A p \in 1..z - a + 1 : s[p] = c[a + p - 1]
      BY <3>1, <3>3, SubSeqIs
    <3> QED
      BY <3>1, <3>2, <3>4
  <2>4. l \in Nat
    BY <1>2, <2>2
  <2> HIDE DEF s
  <2>5. CASE Marks = {}
    <3>1. sec = s
      BY <1>1, <1>6, <2>5
    <3>2. \A p \in 1..l : s[p].kind # "mark"
      BY <2>3, <2>5
    <3>3. i + l = Len(c)
      BY <1>2, <2>2
    <3> HIDE DEF Marks, l
    <3>4. SectionAfter(c, n, i, s)
      <4>1. i + Len(s) <= Len(c) /\ ~(i + Len(s) < Len(c))
        BY <1>2, <2>3, <3>3
      <4>2. \A p \in 1..Len(s) : s[p] = c[i + p] /\ c[i + p].kind # "mark"
        BY <2>3, <3>2
      <4> QED
        BY <2>2, <4>1, <4>2 DEF SectionAfter
    <3> QED
      BY <2>2, <2>3, <3>1, <3>4 DEF sec
  <2>6. CASE Marks # {}
    <3>1. DOMAIN s = 1..l /\ Marks \in SUBSET (1..l)
      BY <2>3
    <3>2. m \in Marks /\ \A j \in Marks : m <= j
      BY <2>4, <2>6, <3>1, Ends
    <3> HIDE DEF m
    <3>3. m \in 1..l /\ s[m].kind = "mark" /\ \A p \in 1..l : s[p].kind = "mark" => m <= p
      BY <3>1, <3>2
    <3> HIDE DEF Marks
    <3> DEFINE t == SubSeq(s, 1, m - 1)
               z == m - 1
    <3>4. t \in Seq(X) /\ Len(t) = z /\ \A p \in 1..z : t[p] = s[p]
      <4>1. 1 \in 1..Len(s) + 1 /\ z \in Nat /\ z <= Len(s) /\ 1 <= z + 1 /\ z - 1 + 1 = z
        BY <2>3, <2>4, <3>3
      <4>2. \A p \in 1..z : 1 + p - 1 = p
        BY <4>1
      <4> HIDE DEF z, l
      <4>3. t = SubSeq(s, 1, z)
        BY DEF z
      <4> HIDE DEF t
      <4>4. t \in Seq(X) /\ Len(t) = z - 1 + 1 /\ \A p \in 1..z - 1 + 1 : t[p] = s[1 + p - 1]
        BY <2>3, <4>1, <4>3, SubSeqIs
      <4> QED
        BY <4>1, <4>2, <4>4
    <3>5. sec = t
      BY <1>1, <1>6, <2>6
    <3> HIDE DEF t
    <3>6. i + z <= Len(c) /\ i + z + 1 = i + m /\ z \in Nat
      BY <1>2, <2>2, <3>3
    <3>7. ASSUME NEW p \in 1..z PROVE t[p] = c[i + p] /\ c[i + p].kind # "mark"
      <4>1. p \in 1..l /\ ~(m <= p)
        BY <2>4, <3>3
      <4> QED
        BY <2>3, <3>3, <3>4, <4>1
    <3>8. c[i + z + 1].kind = "mark"
      BY <2>3, <3>3, <3>6
    <3> HIDE DEF z, l
    <3>9. SectionAfter(c, n, i, t)
      BY <2>2, <3>4, <3>6, <3>7, <3>8 DEF SectionAfter
    <3> QED
      BY <2>2, <3>4, <3>5, <3>9 DEF sec
  <2> QED
    BY <2>5, <2>6
<1> QED
  BY <1>5, <1>6

Blank == [kind |-> "blank"]
UrlLine(log) == [kind |-> "pair", name |-> "url", capitals |-> FALSE, value |-> log.url]
StatusLine(log) == [kind |-> "pair", name |-> "status", capitals |-> FALSE, value |-> log.status]

\* c has the lines of a log, in the order in which they are written.
LaidOut(c, log) ==
    LET h == Len(log.headers)
        b == Len(log.body)
        s == Len(log.sent)
        r == Len(log.response)
    IN  /\ h \in Nat /\ b \in Nat /\ s \in Nat /\ r \in Nat
        /\ Len(c) = 10 + h + b + s + r
        /\ c[1] = Mark("REQUEST INFO") /\ c[2] = UrlLine(log) /\ c[3] = Blank /\ c[4] = Mark("HEADERS")
        /\ \A i \in 1..h : c[4 + i] = log.headers[i]
        /\ c[5 + h] = Blank /\ c[6 + h] = Mark("REQUEST BODY")
        /\ \A i \in 1..b : c[6 + h + i] = log.body[i]
        /\ c[7 + h + b] = Blank /\ c[8 + h + b] = Mark("RESPONSE") /\ c[9 + h + b] = StatusLine(log)
        /\ \A i \in 1..s : c[9 + h + b + i] = log.sent[i]
        /\ c[10 + h + b + s] = Blank
        /\ \A i \in 1..r : c[10 + h + b + s + i] = log.response[i]

\* Lines that are written out.
LEMMA Tuples ==
    ASSUME NEW X, NEW a \in X, NEW b \in X, NEW c \in X, NEW d \in X
    PROVE  /\ <<a>> \in Seq(X) /\ Len(<<a>>) = 1 /\ <<a>>[1] = a
           /\ <<a, b>> \in Seq(X) /\ Len(<<a, b>>) = 2 /\ <<a, b>>[1] = a /\ <<a, b>>[2] = b
           /\ /\ <<a, b, c>> \in Seq(X) /\ Len(<<a, b, c>>) = 3
              /\ <<a, b, c>>[1] = a /\ <<a, b, c>>[2] = b /\ <<a, b, c>>[3] = c
           /\ /\ <<a, b, c, d>> \in Seq(X) /\ Len(<<a, b, c, d>>) = 4
              /\ <<a, b, c, d>>[1] = a /\ <<a, b, c, d>>[2] = b
              /\ <<a, b, c, d>>[3] = c /\ <<a, b, c, d>>[4] = d
OBVIOUS

LEMMA Layout ==
    ASSUME NEW log, NEW Y, log.headers \in Seq(Y), log.body \in Seq(Y), log.sent \in Seq(Y),
           log.response \in Seq(Y)
    PROVE  LaidOut(WrittenLog(log), log) /\ \E X : WrittenLog(log) \in Seq(X) /\ Y \in SUBSET X
<1> DEFINE A == <<Mark("REQUEST INFO"), UrlLine(log), Blank, Mark("HEADERS")>>
           B == <<Blank, Mark("REQUEST BODY")>>
           C == <<Blank, Mark("RESPONSE"), StatusLine(log)>>
           E == <<Blank>>
           H == log.headers
           D == log.body
           S == log.sent
           R == log.response
           X == Y \cup {Mark("REQUEST INFO"), UrlLine(log), Blank, Mark("HEADERS"),
                        Mark("REQUEST BODY"), Mark("RESPONSE"), StatusLine(log)}
           c == WrittenLog(log)
<1>1. c = A \o H \o B \o D \o C \o S \o E \o R
  BY DEF WrittenLog, Blank, UrlLine, StatusLine
<1>2. H \in Seq(X) /\ D \in Seq(X) /\ S \in Seq(X) /\ R \in Seq(X)
  <2>1. Y \in SUBSET X
    OBVIOUS
  <2> HIDE DEF X
  <2>2. \A u \in Seq(Y) : u \in Seq(X)
    BY <2>1
  <2> QED
    BY <2>2
<1>3. /\ Mark("REQUEST INFO") \in X /\ UrlLine(log) \in X /\ Blank \in X /\ Mark("HEADERS") \in X
      /\ Mark("REQUEST BODY") \in X /\ Mark("RESPONSE") \in X /\ StatusLine(log) \in X
  OBVIOUS
<1>4. Y \in SUBSET X
  OBVIOUS
<1> DEFINE m1 == Mark("REQUEST INFO")
           m2 == Mark("HEADERS")
           m3 == Mark("REQUEST BODY")
           m4 == Mark("RESPONSE")
           ul == UrlLine(log)
           sl == StatusLine(log)
           bl == Blank
<1>31. m1 \in X /\ m2 \in X /\ m3 \in X /\ m4 \in X /\ ul \in X /\ sl \in X /\ bl \in X
  BY <1>3
<1>32. A = <<m1, ul, bl, m2>> /\ B = <<bl, m3>> /\ C = <<bl, m4, sl>> /\ E = <<bl>>
  OBVIOUS
<1> HIDE DEF X, H, D, S, R, c, m1, m2, m3, m4, ul, sl, bl, A, B, C, E
<1>5. A \in Seq(X) /\ Len(A) = 4 /\ A[1] = m1 /\ A[2] = ul /\ A[3] = bl /\ A[4] = m2
  BY <1>31, <1>32, Tuples
<1>6. B \in Seq(X) /\ Len(B) = 2 /\ B[1] = bl /\ B[2] = m3
  BY <1>31, <1>32, Tuples
<1>7. C \in Seq(X) /\ Len(C) = 3 /\ C[1] = bl /\ C[2] = m4 /\ C[3] = sl
  BY <1>31, <1>32, Tuples
<1>8. E \in Seq(X) /\ Len(E) = 1 /\ E[1] = bl
  BY <1>31, <1>32, Tuples
<1> DEFINE h == Len(H)
           b == Len(D)
           s == Len(S)
           r == Len(R)
           n1 == Len(A)
           n2 == n1 + h
           n3 == n2 + Len(B)
           n4 == n3 + b
           n5 == n4 + Len(C)
           n6 == n5 + s
           n7 == n6 + Len(E)
<1>9. /\ c \in Seq(X) /\ Len(c) = n7 + r
      /\ \A i \in 1..Len(A) : c[i] = A[i]
      /\ \A i \in 1..h : c[n1 + i] = H[i]
      /\ \A i \in 1..Len(B) : c[n2 + i] = B[i]
      /\ \A i \in 1..b : c[n3 + i] = D[i]
      /\ \A i \in 1..Len(C) : c[n4 + i] = C[i]
      /\ \A i \in 1..s : c[n5 + i] = S[i]
      /\ \A i \in 1..Len(E) : c[n6 + i] = E[i]
      /\ \A i \in 1..r : c[n7 + i] = R[i]
  <2>1. A \in Seq(X) /\ B \in Seq(X) /\ C \in Seq(X) /\ E \in Seq(X)
    BY <1>5, <1>6, <1>7, <1>8
  <2> HIDE DEF h, b, s, r, n1, n2, n3, n4, n5, n6, n7
  <2>2. Assembled(X, c, A, H, B, D, C, S, E, R)
    BY <1>1, <1>2, <2>1, PartsOf
  <2> QED
    BY <2>2, Zenon DEF Assembled, h, b, s, r, n1, n2, n3, n4, n5, n6, n7
<1>10. h \in Nat /\ b \in Nat /\ s \in Nat /\ r \in Nat
  BY <1>2
<1> HIDE DEF h, b, s, r
<1>11. /\ n1 = 4 /\ n2 = 4 + h /\ n3 = 6 + h /\ n4 = 6 + h + b /\ n5 = 9 + h + b
       /\ n6 = 9 + h + b + s /\ n7 = 10 + h + b + s
  <2>1. Len(A) = 4 /\ Len(B) = 2 /\ Len(C) = 3 /\ Len(E) = 1
    BY <1>5, <1>6, <1>7, <1>8
  <2>2. n1 = 4 /\ n2 = 4 + h /\ n3 = 4 + h + 2 /\ n4 = 4 + h + 2 + b
        /\ n5 = 4 + h + 2 + b + 3 /\ n6 = 4 + h + 2 + b + 3 + s /\ n7 = 4 + h + 2 + b + 3 + s + 1
    BY <2>1, Zenon
  <2> HIDE DEF n1, n2, n3, n4, n5, n6, n7
  <2> QED
    BY <1>10, <2>2
<1> HIDE DEF n1, n2, n3, n4, n5, n6, n7
<1>12. c[1] = Mark("REQUEST INFO") /\ c[2] = UrlLine(log) /\ c[3] = Blank /\ c[4] = Mark("HEADERS")
  <2>1. 1 \in 1..4 /\ 2 \in 1..4 /\ 3 \in 1..4 /\ 4 \in 1..4
    OBVIOUS
  <2> QED
    BY <1>5, <1>9, <2>1 DEF m1, m2, ul, bl
<1>13. c[5 + h] = Blank /\ c[6 + h] = Mark("REQUEST BODY")
  <2>1. 1 \in 1..2 /\ 2 \in 1..2 /\ (4 + h) + 1 = 5 + h /\ (4 + h) + 2 = 6 + h
    BY <1>10
  <2> QED
    BY <1>6, <1>9, <1>11, <2>1, ZenonT(60) DEF m3, bl
<1>14. c[7 + h + b] = Blank /\ c[8 + h + b] = Mark("RESPONSE") /\ c[9 + h + b] = StatusLine(log)
  <2>1. /\ 1 \in 1..3 /\ 2 \in 1..3 /\ 3 \in 1..3
        /\ (6 + h + b) + 1 = 7 + h + b /\ (6 + h + b) + 2 = 8 + h + b /\ (6 + h + b) + 3 = 9 + h + b
    BY <1>10
  <2>2. \A i \in 1..3 : c[6 + h + b + i] = C[i]
    BY <1>7, <1>9, <1>11
  <2>3. c[6 + h + b + 1] = C[1] /\ c[6 + h + b + 2] = C[2] /\ c[6 + h + b + 3] = C[3]
    BY <2>1, <2>2
  <2> QED
    BY <1>7, <2>1, <2>3 DEF m4, bl, sl
<1>15. c[10 + h + b + s] = Blank
  <2>1. 1 \in 1..1 /\ (9 + h + b + s) + 1 = 10 + h + b + s
    BY <1>10
  <2> QED
    BY <1>8, <1>9, <1>11, <2>1 DEF bl
<1>16. /\ \A i \in 1..h : c[4 + i] = H[i]
       /\ \A i \in 1..b : c[6 + h + i] = D[i]
       /\ \A i \in 1..s : c[9 + h + b + i] = S[i]
       /\ \A i \in 1..r : c[10 + h + b + s + i] = R[i]
       /\ Len(c) = 10 + h + b + s + r
  BY <1>9, <1>11
<1>17. LaidOut(c, log)
  BY <1>10, <1>12, <1>13, <1>14, <1>15, <1>16 DEF LaidOut, h, b, s, r, H, D, S, R
<1> QED
  BY <1>4, <1>9, <1>17 DEF c

\* What the lines of the parts are.
LEMMA LogLines ==
    ASSUME input \in LogInput
    PROVE  LET log == input.log
               Y == Line
           IN  /\ log.headers \in Seq(Y) /\ log.body \in Seq(Y) /\ log.sent \in Seq(Y) /\ log.response \in Seq(Y)
               /\ \A i \in 1..Len(log.headers) :
                     /\ log.headers[i].kind \in {"pair", "text"}
                     /\ Tells(log.headers[i]) => log.headers[i].name \in sensitiveHeaders
               /\ \A i \in 1..Len(log.body) : ~Tells(log.body[i])
               /\ \A i \in 1..Len(log.sent) : log.sent[i].kind = "pair"
               /\ \A i \in 1..Len(log.response) : ~Tells(log.response[i])
<1> DEFINE log == input.log
           P == {l \in PairLine \cup TextLine : Tells(l) => l.name \in sensitiveHeaders}
           Q == {l \in Line : ~Tells(l)}
           Y == Line
           H == log.headers
           D == log.body
           S == log.sent
           R == log.response
<1>1. H \in Seq(P) /\ D \in Seq(Q) /\ S \in Seq(PairLine) /\ R \in Seq(Q)
  BY DEF LogInput
<1>2. P \in SUBSET Y /\ Q \in SUBSET Y /\ PairLine \in SUBSET Y
  BY DEF Line
<1>3. \A l \in P : l.kind \in {"pair", "text"} /\ (Tells(l) => l.name \in sensitiveHeaders)
  <2>1. \A l \in PairLine : l.kind = "pair"
    BY DEF PairLine
  <2>2. \A l \in TextLine : l.kind = "text"
    BY DEF TextLine
  <2> QED
    BY <2>1, <2>2
<1>4. \A l \in PairLine : l.kind = "pair"
  BY DEF PairLine
<1>5. \A l \in Q : ~Tells(l)
  OBVIOUS
<1> HIDE DEF log, P, Q, Y, H, D, S, R
<1>6. /\ \A u \in Seq(P) : u \in Seq(Y) /\ \A i \in 1..Len(u) : u[i] \in P
      /\ \A u \in Seq(Q) : u \in Seq(Y) /\ \A i \in 1..Len(u) : u[i] \in Q
      /\ \A u \in Seq(PairLine) : u \in Seq(Y) /\ \A i \in 1..Len(u) : u[i] \in PairLine
  BY <1>2
<1>7. H \in Seq(Y) /\ D \in Seq(Y) /\ S \in Seq(Y) /\ R \in Seq(Y)
  BY <1>1, <1>6
<1>8. \A i \in 1..Len(H) : H[i].kind \in {"pair", "text"} /\ (Tells(H[i]) => H[i].name \in sensitiveHeaders)
  BY <1>1, <1>3, <1>6
<1>9. \A i \in 1..Len(D) : ~Tells(D[i])
  BY <1>1, <1>5, <1>6
<1>10. \A i \in 1..Len(S) : S[i].kind = "pair"
  BY <1>1, <1>4, <1>6
<1>11. \A i \in 1..Len(R) : ~Tells(R[i])
  BY <1>1, <1>5, <1>6
<1> QED
  BY <1>7, <1>8, <1>9, <1>10, <1>11 DEF H, D, S, R, Y, log

\* l is a record with the fields of a pair.
IsPair(l) == l = [kind |-> "pair", name |-> l.name, capitals |-> l.capitals, value |-> l.value]

\* What is known of the lines of a log that is written.
LogOf(log) ==
    /\ \A i \in 1..Len(log.headers) :
          /\ log.headers[i].kind \in {"pair", "text"}
          /\ Tells(log.headers[i]) => log.headers[i].name \in sensitiveHeaders
    /\ \A i \in 1..Len(log.body) : ~Tells(log.body[i])
    /\ \A i \in 1..Len(log.sent) : log.sent[i].kind = "pair"
    /\ \A i \in 1..Len(log.response) : ~Tells(log.response[i])

LEMMA PairLines ==
    ASSUME NEW l \in Line, l.kind = "pair"
    PROVE  IsPair(l)
<1>1. l \in PairLine
  BY DEF Line, TextLine
<1> QED
  BY <1>1 DEF PairLine, IsPair

LEMMA KindsOfLines ==
    /\ \A n : Mark(n).kind = "mark" /\ Mark(n).name = n
    /\ Blank.kind = "blank"
    /\ \A log : UrlLine(log).kind = "pair" /\ StatusLine(log).kind = "pair"
    /\ \A log : IsPair(UrlLine(log)) /\ IsPair(StatusLine(log))
BY DEF Mark, Blank, UrlLine, StatusLine, IsPair

\* The parts of a log: the line at q is a line of one of them.
PartAt(c, log, q, h, b, s, r) ==
    \/ c[q].kind = "mark" /\ q \in {1, 4, 6 + h, 8 + h + b}
    \/ c[q].kind = "blank"
    \/ q = 2 /\ c[q] = UrlLine(log)
    \/ q = 9 + h + b /\ c[q] = StatusLine(log)
    \/ \E i \in 1..h : q = 4 + i /\ c[q] = log.headers[i]
    \/ \E i \in 1..b : q = 6 + h + i /\ c[q] = log.body[i]
    \/ \E i \in 1..s : q = 9 + h + b + i /\ c[q] = log.sent[i]
    \/ \E i \in 1..r : q = 10 + h + b + s + i /\ c[q] = log.response[i]

LEMMA Regions ==
    ASSUME NEW c, NEW log, LaidOut(c, log), NEW q \in 1..Len(c)
    PROVE  PartAt(c, log, q, Len(log.headers), Len(log.body), Len(log.sent), Len(log.response))
<1> DEFINE h == Len(log.headers)
           b == Len(log.body)
           s == Len(log.sent)
           r == Len(log.response)
<1>1. h \in Nat /\ b \in Nat /\ s \in Nat /\ r \in Nat /\ Len(c) = 10 + h + b + s + r
  BY DEF LaidOut
<1>2. /\ c[1].kind = "mark" /\ c[4].kind = "mark" /\ c[6 + h].kind = "mark" /\ c[8 + h + b].kind = "mark"
      /\ c[3].kind = "blank" /\ c[5 + h].kind = "blank" /\ c[7 + h + b].kind = "blank"
      /\ c[10 + h + b + s].kind = "blank"
      /\ c[2] = UrlLine(log) /\ c[9 + h + b] = StatusLine(log)
  BY KindsOfLines, ZenonT(60) DEF LaidOut
<1>3. /\ \A i \in 1..h : c[4 + i] = log.headers[i]
      /\ \A i \in 1..b : c[6 + h + i] = log.body[i]
      /\ \A i \in 1..s : c[9 + h + b + i] = log.sent[i]
      /\ \A i \in 1..r : c[10 + h + b + s + i] = log.response[i]
  BY DEF LaidOut
<1> HIDE DEF h, b, s, r
<1>4. \/ q \in {1, 4, 6 + h, 8 + h + b}
      \/ q \in {3, 5 + h, 7 + h + b, 10 + h + b + s}
      \/ q = 2
      \/ q = 9 + h + b
      \/ q - 4 \in 1..h
      \/ q - 6 - h \in 1..b
      \/ q - 9 - h - b \in 1..s
      \/ q - 10 - h - b - s \in 1..r
  BY <1>1
<1> SUFFICES PartAt(c, log, q, h, b, s, r)
  BY DEF h, b, s, r
<1>5. CASE q - 4 \in 1..h
  <2>1. q = 4 + (q - 4)
    BY <1>1
  <2> QED
    BY <1>3, <1>5, <2>1 DEF PartAt
<1>6. CASE q - 6 - h \in 1..b
  <2>1. q = 6 + h + (q - 6 - h)
    BY <1>1
  <2> QED
    BY <1>3, <1>6, <2>1 DEF PartAt
<1>7. CASE q - 9 - h - b \in 1..s
  <2>1. q = 9 + h + b + (q - 9 - h - b)
    BY <1>1
  <2> QED
    BY <1>3, <1>7, <2>1 DEF PartAt
<1>8. CASE q - 10 - h - b - s \in 1..r
  <2>1. q = 10 + h + b + s + (q - 10 - h - b - s)
    BY <1>1
  <2> QED
    BY <1>3, <1>8, <2>1 DEF PartAt
<1>9. CASE q \in {1, 4, 6 + h, 8 + h + b}
  BY <1>2, <1>9 DEF PartAt
<1>10. CASE q \in {3, 5 + h, 7 + h + b, 10 + h + b + s}
  BY <1>2, <1>10 DEF PartAt
<1> QED
  BY <1>2, <1>4, <1>5, <1>6, <1>7, <1>8, <1>9, <1>10 DEF PartAt

\* The lines that may give a secret away: the url, the headers of the request,
\* the status and the headers of the response.
LEMMA TellsWhere ==
    ASSUME NEW c, NEW log, LaidOut(c, log), LogOf(log), NEW q \in 1..Len(c), Tells(c[q])
    PROVE  LET h == Len(log.headers)
               b == Len(log.body)
           IN  \/ q = 2
               \/ q \in 5..4 + h /\ c[q].name \in sensitiveHeaders
               \/ q \in 9 + h + b..9 + h + b + Len(log.sent)
<1> DEFINE h == Len(log.headers)
           b == Len(log.body)
           s == Len(log.sent)
<1>1. h \in Nat /\ b \in Nat /\ s \in Nat
  BY DEF LaidOut
<1> HIDE DEF h, b, s
<1>2. c[q].kind = "pair"
  BY DEF Tells
<1>3. c[q].kind # "mark" /\ c[q].kind # "blank"
  BY <1>2
<1>4. ASSUME NEW i \in 1..h, q = 4 + i, c[q] = log.headers[i]
      PROVE  q \in 5..4 + h /\ c[q].name \in sensitiveHeaders
  <2>1. c[q].name \in sensitiveHeaders
    BY <1>4 DEF LogOf, h
  <2>2. q \in 5..4 + h
    BY <1>1, <1>4
  <2> QED
    BY <2>1, <2>2
<1>5. ASSUME NEW i \in 1..b, c[q] = log.body[i] PROVE FALSE
  BY <1>5 DEF LogOf, b
<1>6. ASSUME NEW i \in 1..s, q = 9 + h + b + i PROVE q \in 9 + h + b..9 + h + b + s
  BY <1>1, <1>6
<1>7. ASSUME NEW i \in 1..Len(log.response), c[q] = log.response[i] PROVE FALSE
  BY <1>7 DEF LogOf
<1>8. 9 + h + b \in 9 + h + b..9 + h + b + s
  BY <1>1
<1> DEFINE r == Len(log.response)
<1>9. PartAt(c, log, q, h, b, s, r)
  BY Regions DEF h, b, s
<1> HIDE DEF r
<1>10. q = 2 \/ (q \in 5..4 + h /\ c[q].name \in sensitiveHeaders) \/ q \in 9 + h + b..9 + h + b + s
  BY <1>3, <1>4, <1>5, <1>6, <1>7, <1>8, <1>9 DEF PartAt, r
<1> QED
  BY <1>10 DEF h, b, s

\* The mark of a section is the last one before a line of it.
LEMMA MarkBefore ==
    ASSUME NEW X, NEW c \in Seq(X), NEW n, NEW i, NEW sec \in Seq(X), SectionAfter(c, n, i, sec),
           NEW p \in 1..Len(sec), NEW m \in 1..Len(c), c[m].kind = "mark"
    PROVE  i \in 1..Len(c) /\ i + p \in 1..Len(c) /\ (m < i + p => m <= i)
<1>1. Len(c) \in Nat /\ Len(sec) \in Nat
  OBVIOUS
<1>2. i \in 1..Len(c) /\ i + Len(sec) <= Len(c) /\ \A k \in 1..Len(sec) : c[i + k].kind # "mark"
  BY DEF SectionAfter
<1>3. i + p \in 1..Len(c)
  BY <1>1, <1>2
<1>4. ASSUME m < i + p, ~(m <= i) PROVE FALSE
  <2>1. m - i \in 1..Len(sec) /\ i + (m - i) = m
    BY <1>1, <1>2, <1>4
  <2> QED
    BY <1>2, <2>1
<1> QED
  BY <1>2, <1>3, <1>4

\* Where in a section a secret may be.
LEMMA TellsIn ==
    ASSUME NEW X, NEW c \in Seq(X), NEW log, LaidOut(c, log), LogOf(log), NEW n, NEW i,
           NEW sec \in Seq(X), SectionAfter(c, n, i, sec), NEW p \in 1..Len(sec), Tells(sec[p])
    PROVE  \/ n = "REQUEST INFO"
           \/ n = "HEADERS" /\ sec[p].name \in sensitiveHeaders
           \/ n = "RESPONSE" /\ \A k \in 1..p : sec[k].kind = "pair"
<1> DEFINE h == Len(log.headers)
           b == Len(log.body)
           s == Len(log.sent)
           r == Len(log.response)
           q == i + p
<1>1. h \in Nat /\ b \in Nat /\ s \in Nat /\ r \in Nat /\ Len(c) = 10 + h + b + s + r
  BY DEF LaidOut
<1>2. Len(sec) \in Nat
  OBVIOUS
<1>3. /\ \A k \in 1..Len(sec) : sec[k] = c[i + k]
      /\ c[i].kind = "mark" /\ c[i].name = n /\ i \in 1..Len(c)
  BY DEF SectionAfter, IsMark
<1>4. /\ c[1].kind = "mark" /\ c[1].name = "REQUEST INFO" /\ c[4].kind = "mark" /\ c[4].name = "HEADERS"
      /\ c[8 + h + b].kind = "mark" /\ c[8 + h + b].name = "RESPONSE"
  BY KindsOfLines, ZenonT(60) DEF LaidOut
<1> HIDE DEF h, b, s, r, q
<1>5. 1 \in 1..Len(c) /\ 4 \in 1..Len(c) /\ 8 + h + b \in 1..Len(c)
  BY <1>1
<1>6. \A m \in 1..Len(c) : c[m].kind = "mark" => q \in 1..Len(c) /\ (m < q => m <= i)
  BY MarkBefore DEF q
<1>7. q \in 1..Len(c) /\ (4 < q => 4 <= i) /\ (8 + h + b < q => 8 + h + b <= i)
  BY <1>4, <1>5, <1>6
<1>8. Tells(c[q]) /\ sec[p] = c[q]
  BY <1>3 DEF q
<1>9. \/ q = 2
      \/ q \in 5..4 + h /\ c[q].name \in sensitiveHeaders
      \/ q \in 9 + h + b..9 + h + b + s
  BY <1>7, <1>8, TellsWhere DEF h, b, s
<1>10. ASSUME NEW k \in 1..Len(c), c[k].kind = "mark", k \notin {1, 4, 6 + h, 8 + h + b},
              \/ k \in 5..4 + h
              \/ k \in 9 + h + b..9 + h + b + s
       PROVE  FALSE
  <2>1. c[k] # UrlLine(log) /\ c[k] # StatusLine(log) /\ c[k].kind # "blank"
    BY <1>10, KindsOfLines
  <2>2. \A j \in 1..h : c[k] # log.headers[j]
    BY <1>10 DEF LogOf, h
  <2>3. \A j \in 1..s : c[k] # log.sent[j]
    BY <1>10 DEF LogOf, s
  <2>4. \A j \in 1..b : k # 6 + h + j
    BY <1>1, <1>10
  <2>5. \A j \in 1..r : k # 10 + h + b + s + j
    BY <1>1, <1>10
  <2>6. PartAt(c, log, k, h, b, s, r)
    BY Regions DEF h, b, s, r
  <2> QED
    BY <1>10, <2>1, <2>2, <2>3, <2>4, <2>5, <2>6 DEF PartAt
<1>11. CASE q = 2
  <2>1. i = 1
    BY <1>1, <1>2, <1>3, <1>11 DEF q
  <2> QED
    BY <1>3, <1>4, <2>1
<1>12. CASE q \in 5..4 + h /\ c[q].name \in sensitiveHeaders
  <2>1. 4 <= i /\ i < q
    BY <1>1, <1>2, <1>3, <1>7, <1>12 DEF q
  <2>2. i = 4
    <3> SUFFICES ASSUME i # 4 PROVE FALSE
      OBVIOUS
    <3>1. i \in 5..4 + h /\ i \notin {1, 4, 6 + h, 8 + h + b}
      BY <1>1, <1>3, <1>12, <2>1
    <3> QED
      BY <1>3, <1>10, <3>1
  <2> QED
    BY <1>3, <1>4, <1>8, <1>12, <2>2
<1>13. CASE q \in 9 + h + b..9 + h + b + s
  <2>1. 8 + h + b <= i /\ i < q
    BY <1>1, <1>2, <1>3, <1>7, <1>13 DEF q
  <2>2. i = 8 + h + b
    <3> SUFFICES ASSUME i # 8 + h + b PROVE FALSE
      OBVIOUS
    <3>1. i \in 9 + h + b..9 + h + b + s /\ i \notin {1, 4, 6 + h, 8 + h + b}
      BY <1>1, <1>3, <1>13, <2>1
    <3> QED
      BY <1>3, <1>10, <3>1
  <2>3. ASSUME NEW k \in 1..p PROVE sec[k].kind = "pair"
    <3>1. k \in 1..Len(sec) /\ (k = 1 \/ k - 1 \in 1..s)
      BY <1>1, <1>2, <1>13, <2>2 DEF q
    <3>2. CASE k = 1
      <4>1. i + k = 9 + h + b
        BY <1>1, <2>2, <3>2
      <4>2. c[9 + h + b] = StatusLine(log)
        BY DEF LaidOut, h, b
      <4> QED
        BY <1>3, <3>1, <4>1, <4>2, KindsOfLines
    <3>3. CASE k - 1 \in 1..s
      <4>1. i + k = 9 + h + b + (k - 1)
        BY <1>1, <1>2, <2>2
      <4>2. c[9 + h + b + (k - 1)] = log.sent[k - 1]
        BY <3>3 DEF LaidOut, h, b, s
      <4>3. log.sent[k - 1].kind = "pair"
        BY <3>3 DEF LogOf, s
      <4> QED
        BY <1>3, <3>1, <4>1, <4>2, <4>3
    <3> QED
      BY <3>1, <3>2, <3>3
  <2> QED
    BY <1>3, <1>4, <2>2, <2>3
<1> QED
  BY <1>9, <1>11, <1>12, <1>13

LEMMA TrimmedIn ==
    ASSUME NEW X, NEW s \in Seq(X)
    PROVE  /\ Trimmed(s) \in Seq(X)
           /\ \A i \in 1..Len(Trimmed(s)) : \E k \in 1..Len(s) : Trimmed(s)[i] = s[k]
<1> DEFINE full == {i \in DOMAIN s : s[i].kind # "blank"}
           a == CHOOSE i \in full : \A j \in full : i <= j
           z == CHOOSE i \in full : \A j \in full : i >= j
           t == Trimmed(s)
<1>1. t = IF full = {} THEN <<>> ELSE SubSeq(s, a, z)
  BY DEF Trimmed
<1>2. Len(s) \in Nat /\ full \in SUBSET (1..Len(s))
  OBVIOUS
<1> HIDE DEF t, full
<1>3. CASE full = {}
  BY <1>1, <1>3 DEF t
<1>4. CASE full # {}
  <2>1. a \in full /\ z \in full /\ \A j \in full : a <= j
    BY <1>2, <1>4, Ends
  <2> HIDE DEF a, z
  <2>2. a \in 1..Len(s) /\ z \in 1..Len(s) /\ a <= z
    BY <1>2, <2>1
  <2>3. a \in 1..Len(s) + 1 /\ z \in Nat /\ z <= Len(s) /\ a <= z + 1
    BY <1>2, <2>2
  <2>4. /\ t \in Seq(X) /\ Len(t) = z - a + 1
        /\ \A i \in 1..z - a + 1 : t[i] = s[a + i - 1] /\ a + i - 1 \in a..z
    BY <1>1, <1>4, <2>3, SubSeqIs
  <2>5. a..z \in SUBSET (1..Len(s))
    BY <1>2, <2>2
  <2> QED
    BY <2>4, <2>5 DEF t
<1> QED
  BY <1>3, <1>4

LEMMA ExtractIn ==
    ASSUME NEW X, NEW s \in Seq(X)
    PROVE  LET e == extractResponseBody(s)
           IN  /\ e \in Seq(X)
               /\ \A i \in 1..Len(e) : \E k \in 1..Len(s) :
                     e[i] = s[k] /\ \E j \in 1..k : s[j].kind = "blank"
<1> DEFINE blanks == {i \in DOMAIN s : s[i].kind = "blank"}
           m == CHOOSE i \in blanks : \A j \in blanks : i <= j
           t == SubSeq(s, m + 1, Len(s))
           e == extractResponseBody(s)
<1>1. e = IF blanks = {} THEN <<>> ELSE Trimmed(t)
  BY DEF extractResponseBody
<1>2. Len(s) \in Nat /\ blanks \in SUBSET (1..Len(s)) /\ \A i \in blanks : s[i].kind = "blank"
  OBVIOUS
<1> HIDE DEF e, blanks
<1>3. CASE blanks = {}
  BY <1>1, <1>3 DEF e
<1>4. CASE blanks # {}
  <2>1. m \in blanks
    BY <1>2, <1>4, Ends
  <2>2. e = Trimmed(t)
    BY <1>1, <1>4
  <2> HIDE DEF m
  <2>3. m \in 1..Len(s) /\ s[m].kind = "blank"
    BY <1>2, <2>1
  <2> DEFINE w == m + 1
             y == Len(s)
  <2>4. w \in 1..Len(s) + 1 /\ y \in Nat /\ y <= Len(s) /\ w <= y + 1
    BY <1>2, <2>3
  <2>5. t = SubSeq(s, w, y)
    OBVIOUS
  <2> HIDE DEF t
  <2>6. /\ t \in Seq(X) /\ Len(t) = y - w + 1
        /\ \A i \in 1..y - w + 1 : t[i] = s[w + i - 1] /\ w + i - 1 \in w..y
    <3> HIDE DEF w, y
    <3> QED
      BY <2>4, <2>5, SubSeqIs
  <2>7. e \in Seq(X) /\ \A i \in 1..Len(e) : \E k \in 1..Len(t) : e[i] = t[k]
    BY <2>2, <2>6, TrimmedIn
  <2>8. ASSUME NEW i \in 1..Len(t)
        PROVE  \E k \in 1..Len(s) : t[i] = s[k] /\ \E j \in 1..k : s[j].kind = "blank"
    <3>1. t[i] = s[w + i - 1] /\ w + i - 1 \in w..y
      BY <2>6
    <3>2. w + i - 1 \in 1..Len(s) /\ m \in 1..(w + i - 1)
      BY <1>2, <2>3, <3>1
    <3> HIDE DEF w, y
    <3> QED
      BY <2>3, <3>1, <3>2
  <2> QED
    BY <2>7, <2>8 DEF e
<1> QED
  BY <1>3, <1>4

\* A redacted line that tells a secret is one that is not redacted.
LEMMA Redacted ==
    ASSUME NEW l, l.kind = "pair" => IsPair(l), Tells(redactHeader(l))
    PROVE  Tells(l) /\ l.name \notin sensitiveHeaders
<1>1. CASE l.kind = "pair" /\ l.name \in sensitiveHeaders
  <2>1. redactHeader(l) = [l EXCEPT !.value = "[REDACTED]"]
    BY <1>1 DEF redactHeader
  <2>2. l = [kind |-> "pair", name |-> l.name, capitals |-> l.capitals, value |-> l.value]
    BY <1>1 DEF IsPair
  <2>3. [l EXCEPT !.value = "[REDACTED]"].value = "[REDACTED]"
    BY <2>2
  <2> QED
    BY <2>1, <2>3 DEF Tells
<1>2. CASE ~(l.kind = "pair" /\ l.name \in sensitiveHeaders)
  <2>1. redactHeader(l) = l
    BY <1>2 DEF redactHeader
  <2> QED
    BY <1>2, <2>1 DEF Tells
<1> QED
  BY <1>1, <1>2

\* What is written of an input, and what is known of it.
LEMMA WrittenLines ==
    ASSUME input \in LogInput
    PROVE  LET log == input.log
               c == WrittenLog(log)
           IN  /\ LaidOut(c, log) /\ LogOf(log)
               /\ \E X : /\ c \in Seq(X) /\ log.headers \in Seq(X) /\ log.body \in Seq(X)
                         /\ log.response \in Seq(X)
               /\ \A q \in 1..Len(c) : c[q].kind = "pair" => IsPair(c[q])
<1> DEFINE log == input.log
           c == WrittenLog(log)
           Y == Line
<1>1. /\ log.headers \in Seq(Y) /\ log.body \in Seq(Y) /\ log.sent \in Seq(Y) /\ log.response \in Seq(Y)
      /\ LogOf(log)
  BY LogLines DEF LogOf
<1>2. /\ LaidOut(c, log)
      /\ \E X : /\ c \in Seq(X) /\ log.headers \in Seq(X) /\ log.body \in Seq(X)
                /\ log.response \in Seq(X)
  <2> HIDE DEF log, Y
  <2>1. LaidOut(c, log) /\ \E X : c \in Seq(X) /\ Y \in SUBSET X
    BY <1>1, Layout
  <2>2. PICK X : c \in Seq(X) /\ Y \in SUBSET X
    BY <2>1
  <2>3. \A u \in Seq(Y) : u \in Seq(X)
    BY <2>2
  <2> QED
    BY <1>1, <2>1, <2>2, <2>3
<1>3. ASSUME NEW q \in 1..Len(c), c[q].kind = "pair" PROVE IsPair(c[q])
  <2>1. \A l \in Y : l.kind = "pair" => IsPair(l)
    BY PairLines
  <2> DEFINE h == Len(log.headers)
             b == Len(log.body)
             s == Len(log.sent)
             r == Len(log.response)
  <2>2. PartAt(c, log, q, h, b, s, r)
    BY <1>2, Regions
  <2>3. /\ \A i \in 1..h : log.headers[i] \in Y
        /\ \A i \in 1..b : log.body[i] \in Y
        /\ \A i \in 1..s : log.sent[i] \in Y
        /\ \A i \in 1..r : log.response[i] \in Y
    <3> HIDE DEF log, Y
    <3> QED
      BY <1>1
  <2> HIDE DEF log, Y, c, h, b, s, r
  <2> QED
    BY <1>3, <2>1, <2>2, <2>3, KindsOfLines DEF PartAt
<1> QED
  BY <1>1, <1>2, <1>3

\* No line that is shown tells a secret.
LEMMA PartsAreSilent ==
    ASSUME NEW X, NEW c \in Seq(X), NEW log, LaidOut(c, log), LogOf(log),
           \A q \in 1..Len(c) : c[q].kind = "pair" => IsPair(c[q])
    PROVE  LET p == parseErrorLog(c)
           IN  /\ \A l \in Range(p.headers) : ~Tells(l)
               /\ \A l \in Range(p.body) : ~Tells(l)
               /\ \A l \in Range(p.response) : ~Tells(l)
<1> DEFINE lines == splitSections(c, "HEADERS")
           headers == At(lines, {i \in DOMAIN lines : lines[i].kind # "blank"})
           shown == [i \in DOMAIN headers |-> redactHeader(headers[i])]
           part == splitSections(c, "REQUEST BODY")
           body == Trimmed(part)
           answer == splitSections(c, "RESPONSE")
           response == extractResponseBody(answer)
<1>1. parseErrorLog(c).headers = shown /\ parseErrorLog(c).body = body /\ parseErrorLog(c).response = response
  BY DEF parseErrorLog
<1>2. /\ lines \in Seq(X)
      /\ \A k \in 1..Len(lines) : \E i \in 1..Len(c) : SectionAfter(c, "HEADERS", i, lines)
  <2>1. lines \in Seq(X) /\ (lines = <<>> \/ \E i \in 1..Len(c) : SectionAfter(c, "HEADERS", i, lines))
    BY SectionIs
  <2> HIDE DEF lines
  <2>2. \A k \in 1..Len(lines) : lines # <<>>
    OBVIOUS
  <2> QED
    BY <2>1, <2>2
<1>3. /\ part \in Seq(X)
      /\ \A k \in 1..Len(part) : \E i \in 1..Len(c) : SectionAfter(c, "REQUEST BODY", i, part)
  <2>1. part \in Seq(X) /\ (part = <<>> \/ \E i \in 1..Len(c) : SectionAfter(c, "REQUEST BODY", i, part))
    BY SectionIs
  <2> HIDE DEF part
  <2>2. \A k \in 1..Len(part) : part # <<>>
    OBVIOUS
  <2> QED
    BY <2>1, <2>2
<1>4. /\ answer \in Seq(X)
      /\ \A k \in 1..Len(answer) : \E i \in 1..Len(c) : SectionAfter(c, "RESPONSE", i, answer)
  <2>1. answer \in Seq(X) /\ (answer = <<>> \/ \E i \in 1..Len(c) : SectionAfter(c, "RESPONSE", i, answer))
    BY SectionIs
  <2> HIDE DEF answer
  <2>2. \A k \in 1..Len(answer) : answer # <<>>
    OBVIOUS
  <2> QED
    BY <2>1, <2>2
<1> HIDE DEF lines, part, answer
<1>5. ASSUME NEW l \in Range(shown) PROVE ~Tells(l)
  <2> SUFFICES ASSUME Tells(l) PROVE FALSE
    OBVIOUS
  <2>1. PICK j \in DOMAIN headers : l = redactHeader(headers[j])
    BY DEF Range
  <2>2. headers \in Seq(X) /\ Range(headers) \in SUBSET Range(lines)
    <3> HIDE DEF headers
    <3>1. Range(headers) = {lines[k] : k \in DOMAIN lines \cap {i \in DOMAIN lines : lines[i].kind # "blank"}}
      BY <1>2, AtRange DEF headers
    <3>2. headers \in Seq(X)
      BY <1>2, AtType DEF headers
    <3> QED
      BY <3>1, <3>2 DEF Range
  <2> HIDE DEF headers
  <2>3. PICK k \in 1..Len(lines) : headers[j] = lines[k]
    <3>1. headers[j] \in Range(lines)
      BY <2>2 DEF Range
    <3>2. DOMAIN lines = 1..Len(lines)
      BY <1>2
    <3> QED
      BY <3>1, <3>2 DEF Range
  <2>4. PICK i \in 1..Len(c) : SectionAfter(c, "HEADERS", i, lines)
    BY <1>2
  <2>5. lines[k] = c[i + k] /\ i + k \in 1..Len(c)
    <3>1. lines[k] = c[i + k] /\ i + Len(lines) <= Len(c)
      BY <2>4 DEF SectionAfter
    <3>2. Len(lines) \in Nat /\ Len(c) \in Nat
      BY <1>2
    <3> QED
      BY <3>1, <3>2
  <2>6. Tells(lines[k]) /\ lines[k].name \notin sensitiveHeaders
    BY <2>1, <2>3, <2>5, Redacted
  <2>7. lines[k].name \in sensitiveHeaders
    <3> DEFINE n == "HEADERS"
    <3>1. SectionAfter(c, n, i, lines) /\ n # "REQUEST INFO" /\ n # "RESPONSE"
      BY <2>4
    <3> HIDE DEF n
    <3> QED
      BY <1>2, <2>6, <3>1, TellsIn
  <2> QED
    BY <2>6, <2>7
<1>6. ASSUME NEW l \in Range(body) PROVE ~Tells(l)
  <2> SUFFICES ASSUME Tells(l) PROVE FALSE
    OBVIOUS
  <2>1. body \in Seq(X) /\ \A i \in 1..Len(body) : \E k \in 1..Len(part) : body[i] = part[k]
    BY <1>3, TrimmedIn
  <2> HIDE DEF body
  <2>2. PICK k \in 1..Len(part) : l = part[k]
    BY <2>1 DEF Range
  <2>3. PICK i \in 1..Len(c) : SectionAfter(c, "REQUEST BODY", i, part)
    BY <1>3
  <2> QED
    <3> DEFINE n == "REQUEST BODY"
    <3>1. SectionAfter(c, n, i, part) /\ n # "REQUEST INFO" /\ n # "RESPONSE" /\ n # "HEADERS"
      BY <2>3
    <3> HIDE DEF n
    <3> QED
      BY <1>3, <2>2, <3>1, TellsIn
<1>7. ASSUME NEW l \in Range(response) PROVE ~Tells(l)
  <2> SUFFICES ASSUME Tells(l) PROVE FALSE
    OBVIOUS
  <2>1. /\ response \in Seq(X)
        /\ \A i \in 1..Len(response) : \E k \in 1..Len(answer) :
              response[i] = answer[k] /\ \E j \in 1..k : answer[j].kind = "blank"
    BY <1>4, ExtractIn
  <2> HIDE DEF response
  <2>2. PICK k \in 1..Len(answer) : l = answer[k] /\ \E j \in 1..k : answer[j].kind = "blank"
    BY <2>1 DEF Range
  <2>3. PICK i \in 1..Len(c) : SectionAfter(c, "RESPONSE", i, answer)
    BY <1>4
  <2>4. \A j \in 1..k : answer[j].kind = "pair"
    BY <1>4, <2>2, <2>3, TellsIn
  <2> QED
    BY <2>2, <2>4
<1> QED
  BY <1>1, <1>5, <1>6, <1>7

LEMMA SecretsHidden ==
    ASSUME input \in LogInput
    PROVE  SecretsStayHidden
<1> DEFINE log == input.log
           c == WrittenLog(log)
           p == parseErrorLog(c)
           files == [i \in 1..input.files |-> c]
           answer == GetErrors(files, [admin |-> input.admin])
<1>1. PICK X : c \in Seq(X)
  BY WrittenLines
<1>2. /\ LaidOut(c, log) /\ LogOf(log)
      /\ \A q \in 1..Len(c) : c[q].kind = "pair" => IsPair(c[q])
  BY WrittenLines
<1>3. /\ \A l \in Range(p.headers) : ~Tells(l)
      /\ \A l \in Range(p.body) : ~Tells(l)
      /\ \A l \in Range(p.response) : ~Tells(l)
  <2> HIDE DEF c, log
  <2> QED
    BY <1>1, <1>2, PartsAreSilent
<1>4. input.files \in Nat
  BY DEF LogInput
<1>5. Len(answer) <= maxErrorFiles /\ (answer # <<>> => input.admin)
  <2>1. Len(files) = input.files
    BY <1>4
  <2>2. maxErrorFiles \in Nat
    BY LimitAssumption
  <2> HIDE DEF files
  <2>3. CASE ~input.admin
    <3>1. answer = <<>>
      BY <2>3 DEF GetErrors
    <3> QED
      BY <2>2, <3>1
  <2>4. CASE input.admin
    <3> DEFINE n == IF Len(files) < maxErrorFiles THEN Len(files) ELSE maxErrorFiles
    <3>1. answer = [i \in 1..n |-> parseErrorLog(files[i])]
      BY <2>4 DEF GetErrors
    <3>2. n \in Nat /\ n <= maxErrorFiles
      BY <1>4, <2>1, <2>2
    <3> HIDE DEF n
    <3>3. Len(answer) = n
      BY <3>1, <3>2
    <3> QED
      BY <2>4, <3>2, <3>3
  <2> QED
    BY <2>3, <2>4
<1>6. SecretsStayHidden <=>
        (input.kind = "log" =>
            /\ ~\E l \in Range(p.headers) \cup Range(p.body) \cup Range(p.response) : Tells(l)
            /\ Len(answer) <= maxErrorFiles /\ (answer # <<>> => input.admin))
  BY DEF SecretsStayHidden, Parsed
<1> HIDE DEF p, answer
<1> QED
  BY <1>3, <1>5, <1>6

\* The mark at i is the only one of its name, and e lines follow before the next.
OnlyMark(c, n, i, e) ==
    /\ i \in 1..Len(c) /\ IsMark(c[i], n) /\ \A j \in 1..Len(c) : IsMark(c[j], n) => j = i
    /\ e \in Nat /\ i + e <= Len(c) /\ \A p \in 1..e : c[i + p].kind # "mark"
    /\ i + e < Len(c) => c[i + e + 1].kind = "mark"

SectionOf(X, c, n, i, e) ==
    LET sec == splitSections(c, n)
    IN  sec \in Seq(X) /\ Len(sec) = e /\ \A p \in 1..e : sec[p] = c[i + p]

LEMMA OnlySection ==
    ASSUME NEW X, NEW c \in Seq(X), NEW n, NEW i, NEW e, OnlyMark(c, n, i, e)
    PROVE  SectionOf(X, c, n, i, e)
<1> USE DEF OnlyMark
<1> DEFINE sec == splitSections(c, n)
<1>1. sec \in Seq(X) /\ \E k \in 1..Len(c) : SectionAfter(c, n, k, sec)
  BY SectionIs
<1> HIDE DEF sec
<1>2. SectionAfter(c, n, i, sec)
  <2>1. PICK k \in 1..Len(c) : SectionAfter(c, n, k, sec)
    BY <1>1
  <2>2. k = i
    BY <2>1 DEF SectionAfter
  <2> QED
    BY <2>1, <2>2
<1>3. /\ \A p \in 1..Len(sec) : sec[p] = c[i + p] /\ c[i + p].kind # "mark"
      /\ i + Len(sec) <= Len(c)
      /\ i + Len(sec) < Len(c) => c[i + Len(sec) + 1].kind = "mark"
  BY <1>2 DEF SectionAfter
<1> DEFINE l == Len(sec)
           N == Len(c)
<1>4. l \in Nat /\ N \in Nat
  BY <1>1
<1> HIDE DEF l
<1>5. ASSUME l < e PROVE FALSE
  <2>1. l + 1 \in 1..e /\ i + l + 1 = i + (l + 1) /\ i + l < N
    BY <1>4, <1>5
  <2> QED
    BY <1>3, <2>1 DEF l
<1>6. ASSUME e < l PROVE FALSE
  <2>1. e + 1 \in 1..l /\ i + e + 1 = i + (e + 1) /\ i + e < N
    BY <1>3, <1>4, <1>6 DEF l
  <2> QED
    BY <1>3, <2>1 DEF l
<1>7. l = e
  BY <1>4, <1>5, <1>6
<1> QED
  BY <1>1, <1>3, <1>7 DEF SectionOf, sec, l

\* The value of the only pair of a name.
LEMMA OnlyPair ==
    ASSUME NEW X, NEW lines \in Seq(X), NEW n, NEW k \in 1..Len(lines),
           lines[k].kind = "pair", lines[k].name = n, lines[k].capitals = FALSE,
           \A j \in 1..Len(lines) : lines[j].kind = "pair" /\ lines[j].name = n => j = k
    PROVE  parseKeyValue(lines, n) = lines[k].value
<1> DEFINE pairs == {i \in DOMAIN lines :
                       lines[i].kind = "pair" /\ lines[i].name = n /\ ~lines[i].capitals}
<1>1. parseKeyValue(lines, n) = IF pairs = {} THEN ""
                                ELSE lines[CHOOSE i \in pairs : \A j \in pairs : i >= j].value
  BY DEF parseKeyValue
<1>2. DOMAIN lines = 1..Len(lines)
  OBVIOUS
<1>3. pairs = {k}
  BY <1>2
<1> HIDE DEF pairs
<1>4. k >= k
  OBVIOUS
<1>5. (CHOOSE i \in pairs : \A j \in pairs : i >= j) = k
  BY <1>3, <1>4
<1> QED
  BY <1>1, <1>3, <1>5

\* A blank line at the end is trimmed.
LEMMA TrimmedSnoc ==
    ASSUME NEW X, NEW s \in Seq(X), NEW t \in Seq(X), Begins(s, t), Len(t) = Len(s) + 1,
           t[Len(t)].kind = "blank"
    PROVE  Trimmed(t) = Trimmed(s)
<1> DEFINE F(u) == {i \in DOMAIN u : u[i].kind # "blank"}
           fs == F(s)
           a == CHOOSE i \in fs : \A j \in fs : i <= j
           z == CHOOSE i \in fs : \A j \in fs : i >= j
<1>1. Len(s) \in Nat /\ \A i \in 1..Len(s) : t[i] = s[i]
  BY DEF Begins
<1>2. F(t) = fs
  <2>1. \A i \in 1..Len(t) : i \in 1..Len(s) \/ i = Len(t)
    BY <1>1
  <2>2. \A i \in 1..Len(s) : i \in 1..Len(t)
    BY <1>1
  <2>3. DOMAIN s = 1..Len(s) /\ DOMAIN t = 1..Len(t)
    OBVIOUS
  <2> QED
    BY <1>1, <2>1, <2>2, <2>3
<1>3. Trimmed(s) = IF fs = {} THEN <<>> ELSE SubSeq(s, a, z)
  BY DEF Trimmed
<1>4. Trimmed(t) = IF fs = {} THEN <<>> ELSE SubSeq(t, a, z)
  <2> DEFINE ft == F(t)
  <2>1. Trimmed(t) = IF ft = {} THEN <<>>
                     ELSE SubSeq(t, CHOOSE i \in ft : \A j \in ft : i <= j,
                                    CHOOSE i \in ft : \A j \in ft : i >= j)
    BY DEF Trimmed
  <2> HIDE DEF ft, fs
  <2>2. ft = fs
    BY <1>2 DEF ft
  <2> QED
    BY <2>1, <2>2
<1>5. fs \in SUBSET (1..Len(s))
  OBVIOUS
<1> HIDE DEF F, fs
<1>6. ASSUME fs # {} PROVE SubSeq(t, a, z) = SubSeq(s, a, z)
  <2>1. a \in fs /\ z \in fs /\ \A j \in fs : a <= j
    BY <1>1, <1>5, <1>6, Ends
  <2> HIDE DEF a, z
  <2>2. a \in 1..Len(s) /\ z \in 1..Len(s) /\ a <= z
    BY <1>5, <2>1
  <2>3. a \in 1..Len(s) + 1 /\ z \in Nat /\ z <= Len(s) /\ a <= z + 1
        /\ a \in 1..Len(t) + 1 /\ z <= Len(t)
    BY <1>1, <2>2
  <2> DEFINE u == SubSeq(s, a, z)
             v == SubSeq(t, a, z)
             n == z - a + 1
  <2>4. /\ u \in Seq(X) /\ Len(u) = n
        /\ \A i \in 1..n : u[i] = s[a + i - 1] /\ a + i - 1 \in a..z
    BY <2>3, SubSeqIs
  <2>5. v \in Seq(X) /\ Len(v) = n /\ \A i \in 1..n : v[i] = t[a + i - 1]
    BY <2>3, SubSeqIs
  <2>6. a..z \in SUBSET (1..Len(s))
    BY <1>1, <2>2
  <2> HIDE DEF u, v, n
  <2>7. \A i \in 1..Len(u) : u[i] = v[i]
    BY <1>1, <2>4, <2>5, <2>6
  <2>8. u = v
    BY <2>4, <2>5, <2>7, SeqEqual
  <2> QED
    BY <2>8 DEF u, v
<1>7. CASE fs = {}
  BY <1>3, <1>4, <1>7, Zenon
<1>8. CASE fs # {}
  BY <1>3, <1>4, <1>6, <1>8, Zenon
<1> QED
  BY <1>7, <1>8

\* What follows the first blank line.
LEMMA ExtractAt ==
    ASSUME NEW X, NEW lines \in Seq(X), NEW u \in Seq(X), NEW m \in 1..Len(lines),
           lines[m].kind = "blank", \A j \in 1..Len(lines) : lines[j].kind = "blank" => m <= j,
           Len(lines) = m + Len(u), \A i \in 1..Len(u) : lines[m + i] = u[i]
    PROVE  extractResponseBody(lines) = Trimmed(u)
<1> DEFINE blanks == {i \in DOMAIN lines : lines[i].kind = "blank"}
           k == CHOOSE i \in blanks : \A j \in blanks : i <= j
           t == SubSeq(lines, k + 1, Len(lines))
<1>1. extractResponseBody(lines) = IF blanks = {} THEN <<>> ELSE Trimmed(t)
  BY DEF extractResponseBody
<1>2. Len(lines) \in Nat /\ Len(u) \in Nat /\ blanks \in SUBSET (1..Len(lines)) /\ m \in blanks
      /\ \A j \in blanks : m <= j
  OBVIOUS
<1> HIDE DEF blanks
<1>3. k \in blanks /\ \A j \in blanks : k <= j
  BY <1>2, Ends
<1> HIDE DEF k
<1>4. k = m
  <2>1. k <= m /\ m <= k /\ k \in 1..Len(lines)
    BY <1>2, <1>3
  <2> QED
    BY <2>1
<1> DEFINE w == m + 1
           y == Len(lines)
<1>5. w \in 1..Len(lines) + 1 /\ y \in Nat /\ y <= Len(lines) /\ w <= y + 1 /\ y - w + 1 = Len(u)
  BY <1>2
<1>6. \A i \in 1..Len(u) : w + i - 1 = m + i
  BY <1>2
<1>7. t = SubSeq(lines, w, y)
  BY <1>4
<1> HIDE DEF t
<1>8. t \in Seq(X) /\ Len(t) = y - w + 1 /\ \A i \in 1..y - w + 1 : t[i] = lines[w + i - 1]
  <2> HIDE DEF w, y
  <2> QED
    BY <1>5, <1>7, SubSeqIs
<1> HIDE DEF w, y
<1>9. \A i \in 1..Len(t) : t[i] = u[i]
  BY <1>5, <1>6, <1>8, ZenonT(60)
<1>10. t = u
  BY <1>5, <1>8, <1>9, SeqEqual
<1> QED
  BY <1>1, <1>2, <1>10

\* The marks of a log whose bodies have none.
LEMMA MarksAre ==
    ASSUME NEW c, NEW log, LaidOut(c, log), LogOf(log),
           \A i \in 1..Len(log.body) : log.body[i].kind # "mark",
           \A i \in 1..Len(log.response) : log.response[i].kind # "mark",
           NEW q \in 1..Len(c), c[q].kind = "mark"
    PROVE  q \in {1, 4, 6 + Len(log.headers), 8 + Len(log.headers) + Len(log.body)}
<1> DEFINE h == Len(log.headers)
           b == Len(log.body)
           s == Len(log.sent)
           r == Len(log.response)
<1>1. PartAt(c, log, q, h, b, s, r)
  BY Regions
<1>2. /\ \A i \in 1..h : log.headers[i].kind # "mark"
      /\ \A i \in 1..s : log.sent[i].kind # "mark"
      /\ \A i \in 1..b : log.body[i].kind # "mark"
      /\ \A i \in 1..r : log.response[i].kind # "mark"
  BY DEF LogOf
<1>3. c[q] # UrlLine(log) /\ c[q] # StatusLine(log) /\ c[q].kind # "blank"
  BY KindsOfLines
<1> HIDE DEF h, b, s, r
<1>4. q \in {1, 4, 6 + h, 8 + h + b}
  BY <1>1, <1>2, <1>3 DEF PartAt
<1> QED
  BY <1>4 DEF h, b

\* Two names are two marks.
LEMMA MarkNames ==
    ASSUME NEW a, NEW b, IsMark(Mark(a), b)
    PROVE  a = b
BY DEF IsMark, Mark

\* The four sections of such a log.
LEMMA FourSections ==
    ASSUME NEW X, NEW c \in Seq(X), NEW log, LaidOut(c, log), LogOf(log),
           \A i \in 1..Len(log.body) : log.body[i].kind # "mark",
           \A i \in 1..Len(log.response) : log.response[i].kind # "mark"
    PROVE  LET h == Len(log.headers)
               b == Len(log.body)
           IN  /\ SectionOf(X, c, "REQUEST INFO", 1, 2)
               /\ SectionOf(X, c, "HEADERS", 4, h + 1)
               /\ SectionOf(X, c, "REQUEST BODY", 6 + h, b + 1)
               /\ SectionOf(X, c, "RESPONSE", 8 + h + b, 2 + Len(log.sent) + Len(log.response))
<1> DEFINE h == Len(log.headers)
           b == Len(log.body)
           s == Len(log.sent)
           r == Len(log.response)
           n1 == "REQUEST INFO"
           n2 == "HEADERS"
           n3 == "REQUEST BODY"
           n4 == "RESPONSE"
<1>1. h \in Nat /\ b \in Nat /\ s \in Nat /\ r \in Nat /\ Len(c) = 10 + h + b + s + r
  BY DEF LaidOut
<1>2. c[1] = Mark(n1) /\ c[4] = Mark(n2) /\ c[6 + h] = Mark(n3) /\ c[8 + h + b] = Mark(n4)
  BY DEF LaidOut
<1>3. n1 # n2 /\ n1 # n3 /\ n1 # n4 /\ n2 # n3 /\ n2 # n4 /\ n3 # n4
  OBVIOUS
<1>4. \A q \in 1..Len(c) : c[q].kind = "mark" => q \in {1, 4, 6 + h, 8 + h + b}
  BY MarksAre
<1> HIDE DEF h, b, s, r, n1, n2, n3, n4
<1>5. \A n : IsMark(Mark(n), n) /\ Mark(n).kind = "mark"
  BY DEF IsMark, Mark
<1>6. 1 \in 1..Len(c) /\ 4 \in 1..Len(c) /\ 6 + h \in 1..Len(c) /\ 8 + h + b \in 1..Len(c)
  BY <1>1, SMTT(60)
<1>7. \A q \in 1..Len(c) :
        /\ IsMark(c[q], n1) => q = 1
        /\ IsMark(c[q], n2) => q = 4
        /\ IsMark(c[q], n3) => q = 6 + h
        /\ IsMark(c[q], n4) => q = 8 + h + b
  <2> SUFFICES ASSUME NEW q \in 1..Len(c), NEW n, IsMark(c[q], n)
               PROVE  /\ n = n1 => q = 1
                      /\ n = n2 => q = 4
                      /\ n = n3 => q = 6 + h
                      /\ n = n4 => q = 8 + h + b
    OBVIOUS
  <2>1. q \in {1, 4, 6 + h, 8 + h + b}
    BY <1>4 DEF IsMark
  <2>2. /\ q = 1 => n1 = n
        /\ q = 4 => n2 = n
        /\ q = 6 + h => n3 = n
        /\ q = 8 + h + b => n4 = n
    BY <1>2, MarkNames
  <2> QED
    BY <1>3, <2>1, <2>2
<1>8. ASSUME NEW i \in 1..Len(c), NEW n, IsMark(c[i], n), \A q \in 1..Len(c) : IsMark(c[q], n) => q = i,
             NEW e \in Nat, i + e <= Len(c),
             \A q \in {1, 4, 6 + h, 8 + h + b} : ~(q \in i + 1..i + e),
             i + e < Len(c) => c[i + e + 1].kind = "mark"
      PROVE  SectionOf(X, c, n, i, e)
  <2>1. ASSUME NEW p \in 1..e PROVE c[i + p].kind # "mark"
    <3>1. i + p \in 1..Len(c) /\ i + p \in i + 1..i + e
      BY <1>1, <1>8
    <3> QED
      BY <1>4, <1>8, <3>1
  <2>2. OnlyMark(c, n, i, e)
    BY <1>8, <2>1 DEF OnlyMark
  <2> QED
    BY <2>2, OnlySection
<1>9. SectionOf(X, c, n1, 1, 2)
  <2>1. 2 \in Nat /\ 1 + 2 <= Len(c) /\ 1 + 2 + 1 = 4
        /\ \A q \in {1, 4, 6 + h, 8 + h + b} : ~(q \in 1 + 1..1 + 2)
    BY <1>1
  <2> DEFINE one == 1
             two == 2
  <2>2. /\ two \in Nat /\ one + two <= Len(c) /\ one + two + 1 = 4 /\ one = 1
        /\ \A q \in {1, 4, 6 + h, 8 + h + b} : ~(q \in one + 1..one + two)
    BY <2>1
  <2> HIDE DEF one, two
  <2>3. SectionOf(X, c, n1, one, two)
    <3>1. one \in 1..Len(c) /\ IsMark(c[one], n1) /\ \A q \in 1..Len(c) : IsMark(c[q], n1) => q = one
      BY <1>2, <1>5, <1>6, <1>7, <2>2
    <3>2. c[one + two + 1].kind = "mark"
      BY <1>2, <1>5, <2>2
    <3> QED
      BY <1>8, <2>2, <3>1, <3>2
  <2> QED
    BY <2>3 DEF one, two
<1>10. SectionOf(X, c, n2, 4, h + 1)
  <2> DEFINE i == 4
             e == h + 1
  <2>1. /\ e \in Nat /\ i + e <= Len(c) /\ i + e + 1 = 6 + h /\ i = 4
        /\ \A q \in {1, 4, 6 + h, 8 + h + b} : ~(q \in i + 1..i + e)
    BY <1>1
  <2> HIDE DEF i, e
  <2>2. i \in 1..Len(c) /\ IsMark(c[i], n2) /\ \A q \in 1..Len(c) : IsMark(c[q], n2) => q = i
    BY <1>2, <1>5, <1>6, <1>7, <2>1
  <2>3. c[i + e + 1].kind = "mark"
    BY <1>2, <1>5, <2>1
  <2>4. SectionOf(X, c, n2, i, e)
    BY <1>8, <2>1, <2>2, <2>3
  <2> QED
    BY <2>4 DEF i, e
<1>11. SectionOf(X, c, n3, 6 + h, b + 1)
  <2> DEFINE i == 6 + h
             e == b + 1
  <2>1. /\ e \in Nat /\ i + e <= Len(c) /\ i + e + 1 = 8 + h + b /\ i = 6 + h
        /\ \A q \in {1, 4, 6 + h, 8 + h + b} : ~(q \in i + 1..i + e)
    BY <1>1
  <2> HIDE DEF i, e
  <2>2. i \in 1..Len(c) /\ IsMark(c[i], n3) /\ \A q \in 1..Len(c) : IsMark(c[q], n3) => q = i
    BY <1>2, <1>5, <1>6, <1>7, <2>1
  <2>3. c[i + e + 1].kind = "mark"
    BY <1>2, <1>5, <2>1
  <2>4. SectionOf(X, c, n3, i, e)
    BY <1>8, <2>1, <2>2, <2>3
  <2> QED
    BY <2>4 DEF i, e
<1>12. SectionOf(X, c, n4, 8 + h + b, 2 + s + r)
  <2> DEFINE i == 8 + h + b
             e == 2 + s + r
  <2>1. /\ e \in Nat /\ i + e <= Len(c) /\ ~(i + e < Len(c)) /\ i = 8 + h + b
        /\ \A q \in {1, 4, 6 + h, 8 + h + b} : ~(q \in i + 1..i + e)
    BY <1>1
  <2> HIDE DEF i, e
  <2>2. i \in 1..Len(c) /\ IsMark(c[i], n4) /\ \A q \in 1..Len(c) : IsMark(c[q], n4) => q = i
    BY <1>2, <1>5, <1>6, <1>7, <2>1
  <2>3. SectionOf(X, c, n4, i, e)
    BY <1>8, <2>1, <2>2
  <2> QED
    BY <2>3 DEF i, e
<1> QED
  BY <1>9, <1>10, <1>11, <1>12 DEF h, b, s, r, n1, n2, n3, n4

\* The parts of a log whose bodies have no marks, as they are read.
LEMMA PartsReadBack ==
    ASSUME NEW X, NEW c \in Seq(X), NEW log, LaidOut(c, log), LogOf(log),
           log.headers \in Seq(X), log.body \in Seq(X), log.response \in Seq(X),
           \A i \in 1..Len(log.body) : log.body[i].kind # "mark",
           \A i \in 1..Len(log.response) : log.response[i].kind # "mark"
    PROVE  LET p == parseErrorLog(c)
           IN  /\ p.url = log.url
               /\ p.headers = [i \in DOMAIN log.headers |-> redactHeader(log.headers[i])]
               /\ p.body = Trimmed(log.body)
               /\ p.response = Trimmed(log.response)
               /\ (\A l \in Range(log.sent) \cup Range(log.response) :
                      l.kind = "pair" => l.name # "status") => p.status = log.status
<1> DEFINE h == Len(log.headers)
           b == Len(log.body)
           s == Len(log.sent)
           r == Len(log.response)
           H == log.headers
           D == log.body
           R == log.response
           s1 == splitSections(c, "REQUEST INFO")
           s2 == splitSections(c, "HEADERS")
           s3 == splitSections(c, "REQUEST BODY")
           s4 == splitSections(c, "RESPONSE")
           headers == At(s2, {i \in DOMAIN s2 : s2[i].kind # "blank"})
<1>1. LET p == parseErrorLog(c)
      IN  /\ p.url = parseKeyValue(s1, "url")
          /\ p.headers = [i \in DOMAIN headers |-> redactHeader(headers[i])]
          /\ p.body = Trimmed(s3)
          /\ p.response = extractResponseBody(s4)
          /\ p.status = parseKeyValue(s4, "status")
  BY DEF parseErrorLog
<1>2. h \in Nat /\ b \in Nat /\ s \in Nat /\ r \in Nat
  BY DEF LaidOut
<1>3. /\ SectionOf(X, c, "REQUEST INFO", 1, 2) /\ SectionOf(X, c, "HEADERS", 4, h + 1)
      /\ SectionOf(X, c, "REQUEST BODY", 6 + h, b + 1)
      /\ SectionOf(X, c, "RESPONSE", 8 + h + b, 2 + s + r)
  BY FourSections
<1>4. /\ s1 \in Seq(X) /\ Len(s1) = 2 /\ \A p \in 1..2 : s1[p] = c[1 + p]
      /\ s2 \in Seq(X) /\ Len(s2) = h + 1 /\ \A p \in 1..h + 1 : s2[p] = c[4 + p]
      /\ s3 \in Seq(X) /\ Len(s3) = b + 1 /\ \A p \in 1..b + 1 : s3[p] = c[6 + h + p]
      /\ s4 \in Seq(X) /\ Len(s4) = 2 + s + r /\ \A p \in 1..2 + s + r : s4[p] = c[8 + h + b + p]
  BY <1>3, Zenon DEF SectionOf
<1>5. /\ c[2] = UrlLine(log) /\ c[3].kind = "blank" /\ c[5 + h].kind = "blank" /\ c[7 + h + b].kind = "blank"
      /\ c[9 + h + b] = StatusLine(log) /\ c[10 + h + b + s].kind = "blank"
      /\ \A i \in 1..h : c[4 + i] = H[i]
      /\ \A i \in 1..b : c[6 + h + i] = D[i]
      /\ \A i \in 1..s : c[9 + h + b + i] = log.sent[i]
      /\ \A i \in 1..r : c[10 + h + b + s + i] = R[i]
  BY KindsOfLines DEF LaidOut
<1>6. /\ \A i \in 1..h : H[i].kind # "blank"
      /\ \A i \in 1..s : log.sent[i].kind = "pair"
  BY DEF LogOf
<1>7. H \in Seq(X) /\ D \in Seq(X) /\ R \in Seq(X) /\ Len(H) = h /\ Len(D) = b /\ Len(R) = r
  OBVIOUS
<1> HIDE DEF h, b, s, r, H, D, R, s1, s2, s3, s4
<1>41. s1 \in Seq(X) /\ s2 \in Seq(X) /\ s3 \in Seq(X) /\ s4 \in Seq(X)
  BY <1>4
<1>42. Len(s2) = h + 1 /\ Len(s3) = b + 1 /\ Len(s4) = 2 + s + r
  BY <1>4
<1>43. Len(s2) = Len(H) + 1 /\ Len(s3) = Len(D) + 1
  BY <1>7, <1>42
<1>8. parseKeyValue(s1, "url") = log.url
  <2>1. s1[1] = UrlLine(log) /\ s1[2].kind = "blank"
    <3>1. 1 \in 1..2 /\ 2 \in 1..2 /\ 1 + 1 = 2 /\ 1 + 2 = 3
      OBVIOUS
    <3> QED
      BY <1>4, <1>5, <3>1
  <2>2. s1[1].kind = "pair" /\ s1[1].name = "url" /\ s1[1].capitals = FALSE /\ s1[1].value = log.url
    BY <2>1 DEF UrlLine
  <2>3. ASSUME NEW j \in 1..Len(s1), s1[j].kind = "pair" PROVE j = 1
    <3>1. j = 1 \/ j = 2
      BY <1>4
    <3> QED
      BY <2>1, <2>3, <3>1
  <2>4. 1 \in 1..Len(s1)
    BY <1>4
  <2> DEFINE n == "url"
             k == 1
  <2>5. /\ k \in 1..Len(s1) /\ s1[k].kind = "pair" /\ s1[k].name = n /\ s1[k].capitals = FALSE
        /\ s1[k].value = log.url
        /\ \A j \in 1..Len(s1) : s1[j].kind = "pair" /\ s1[j].name = n => j = k
    BY <2>2, <2>3, <2>4
  <2> HIDE DEF n, k
  <2>6. parseKeyValue(s1, n) = log.url
    BY <1>41, <2>5, OnlyPair
  <2> QED
    BY <2>6 DEF n
<1>9. headers = H
  <2> DEFINE J == {i \in DOMAIN s2 : s2[i].kind # "blank"}
             e == s2[Len(s2)]
  <2>1. \A i \in 1..h : i \in 1..h + 1 /\ s2[i] = H[i]
    <3>1. \A i \in 1..h : i \in 1..h + 1
      BY <1>2
    <3>2. \A i \in 1..h + 1 : s2[i] = c[4 + i]
      BY <1>4
    <3>3. \A i \in 1..h : c[4 + i] = H[i]
      BY <1>5
    <3> QED
      BY <3>1, <3>2, <3>3
  <2>2. Begins(H, s2)
    <3>1. h <= h + 1
      BY <1>2
    <3> QED
      BY <1>4, <1>7, <2>1, <3>1 DEF Begins
  <2>3. e.kind = "blank"
    <3>1. h + 1 \in 1..h + 1 /\ 4 + (h + 1) = 5 + h
      BY <1>2
    <3> QED
      BY <1>4, <1>5, <3>1
  <2>4. Len(s2) \notin J
    BY <2>3
  <2>5. \A i \in 1..h : i \in J
    <3>1. DOMAIN s2 = 1..h + 1
      BY <1>4
    <3> QED
      BY <1>6, <2>1, <3>1
  <2>6. headers = At(s2, J)
    OBVIOUS
  <2> HIDE DEF J, e, headers
  <2>7. At(s2, J) = At(H, J) \o (IF Len(s2) \in J THEN <<e>> ELSE <<>>)
    <3>1. e = s2[Len(s2)] /\ H \in Seq(X)
      BY <1>7 DEF e
    <3> QED
      BY <1>41, <1>43, <2>2, <3>1, AtSnoc, SMTT(60)
  <2>8. At(H, J) = H
    BY <1>7, <2>5, AtAll
  <2>9. H \o <<>> = H
    BY <1>7
  <2> QED
    BY <2>4, <2>6, <2>7, <2>8, <2>9
<1>10. Trimmed(s3) = Trimmed(D)
  <2>1. \A i \in 1..b : i \in 1..b + 1 /\ s3[i] = D[i]
    <3>1. \A i \in 1..b : i \in 1..b + 1
      BY <1>2
    <3>2. \A i \in 1..b + 1 : s3[i] = c[6 + h + i]
      BY <1>4
    <3>3. \A i \in 1..b : c[6 + h + i] = D[i]
      BY <1>5
    <3> QED
      BY <3>1, <3>2, <3>3
  <2>2. Begins(D, s3)
    <3>1. b <= b + 1
      BY <1>2
    <3> QED
      BY <1>4, <1>7, <2>1, <3>1 DEF Begins
  <2>3. s3[Len(s3)].kind = "blank"
    <3>1. b + 1 \in 1..b + 1 /\ 6 + h + (b + 1) = 7 + h + b
      BY <1>2
    <3> QED
      BY <1>4, <1>5, <3>1
  <2> QED
    BY <1>4, <1>7, <2>2, <2>3, TrimmedSnoc
<1>11. s4[1] = StatusLine(log) /\ 1 \in 1..Len(s4)
  <2>1. 1 \in 1..2 + s + r /\ 8 + h + b + 1 = 9 + h + b
    BY <1>2
  <2> QED
    BY <1>4, <1>5, <2>1
<1>12. ASSUME NEW k \in 1..s PROVE k + 1 \in 1..Len(s4) /\ s4[k + 1] = log.sent[k]
  <2>1. k + 1 \in 1..2 + s + r /\ 8 + h + b + (k + 1) = 9 + h + b + k
    BY <1>2
  <2>2. s4[k + 1] = c[8 + h + b + (k + 1)]
    BY <1>4, <2>1
  <2>3. c[9 + h + b + k] = log.sent[k]
    BY <1>5
  <2> QED
    BY <1>42, <2>1, <2>2, <2>3
<1>13. s + 2 \in 1..Len(s4) /\ s4[s + 2].kind = "blank"
  <2>1. s + 2 \in 1..2 + s + r /\ 8 + h + b + (s + 2) = 10 + h + b + s
    BY <1>2
  <2> QED
    BY <1>4, <1>5, <2>1
<1>14. ASSUME NEW k \in 1..r PROVE s4[(s + 2) + k] = R[k]
  <2>1. (s + 2) + k \in 1..2 + s + r /\ 8 + h + b + ((s + 2) + k) = 10 + h + b + s + k
    BY <1>2
  <2> QED
    BY <1>4, <1>5, <2>1, ZenonT(60)
<1>15. \A j \in 1..Len(s4) : j = 1 \/ j - 1 \in 1..s \/ j = s + 2 \/ j - (s + 2) \in 1..r
  BY <1>2, <1>42
<1>16. \A j \in 1..Len(s4) : (j - 1) + 1 = j /\ (s + 2) + (j - (s + 2)) = j
  BY <1>2
<1>17. extractResponseBody(s4) = Trimmed(R)
  <2> DEFINE m == s + 2
  <2>1. ASSUME NEW j \in 1..Len(s4), s4[j].kind = "blank" PROVE m <= j
    <3>1. j # 1
      BY <1>11, <2>1, KindsOfLines
    <3>2. ~(j - 1 \in 1..s)
      BY <1>6, <1>12, <1>16, <2>1
    <3>3. j = s + 2 \/ j - (s + 2) \in 1..r
      BY <1>15, <3>1, <3>2
    <3> QED
      BY <1>2, <3>3
  <2>2. Len(s4) = m + Len(R)
    BY <1>2, <1>4, <1>7
  <2>3. m \in 1..Len(s4) /\ s4[m].kind = "blank" /\ \A i \in 1..Len(R) : s4[m + i] = R[i]
    BY <1>7, <1>13, <1>14
  <2> HIDE DEF m
  <2> QED
    <3>1. R \in Seq(X)
      BY <1>7
    <3> QED
      BY <1>41, <2>1, <2>2, <2>3, <3>1, ExtractAt
<1>18. ASSUME \A l \in Range(log.sent) \cup Range(log.response) : l.kind = "pair" => l.name # "status"
       PROVE  parseKeyValue(s4, "status") = log.status
  <2> DEFINE n == "status"
             k == 1
  <2>1. k \in 1..Len(s4) /\ s4[k].kind = "pair" /\ s4[k].name = n /\ s4[k].capitals = FALSE
        /\ s4[k].value = log.status
    BY <1>11 DEF StatusLine
  <2>2. ASSUME NEW j \in 1..Len(s4), s4[j].kind = "pair", s4[j].name = n PROVE j = k
    <3>1. j # s + 2
      BY <1>13, <2>2
    <3>2. ASSUME j - 1 \in 1..s PROVE FALSE
      <4>1. s4[j] = log.sent[j - 1]
        BY <1>12, <1>16, <3>2
      <4>2. log.sent[j - 1] \in Range(log.sent)
        BY <3>2, <1>2 DEF Range, s
      <4> QED
        BY <1>18, <2>2, <4>1, <4>2
    <3>3. ASSUME j - (s + 2) \in 1..r PROVE FALSE
      <4>1. s4[j] = R[j - (s + 2)]
        BY <1>14, <1>16, <3>3
      <4>2. R[j - (s + 2)] \in Range(R)
        BY <1>7, <3>3 DEF Range
      <4> QED
        BY <1>18, <2>2, <4>1, <4>2 DEF R
    <3> QED
      BY <1>15, <3>1, <3>2, <3>3
  <2> HIDE DEF n, k
  <2>3. parseKeyValue(s4, n) = log.status
    BY <1>41, <2>1, <2>2, OnlyPair
  <2> QED
    BY <2>3 DEF n
<1>19. [i \in DOMAIN headers |-> redactHeader(headers[i])] = [i \in DOMAIN H |-> redactHeader(H[i])]
  BY <1>9
<1> HIDE DEF headers
<1> QED
  BY <1>1, <1>8, <1>10, <1>17, <1>18, <1>19, Zenon DEF H, D, R

LEMMA LogsReadBack ==
    ASSUME input \in LogInput
    PROVE  LogReadsBack
<1> DEFINE log == input.log
           c == WrittenLog(log)
           Unmarked(ls) == \A i \in DOMAIN ls : ls[i].kind # "mark"
<1>1. /\ LaidOut(c, log) /\ LogOf(log)
      /\ \E X : c \in Seq(X) /\ log.headers \in Seq(X) /\ log.body \in Seq(X) /\ log.response \in Seq(X)
  BY WrittenLines
<1>2. PICK X : c \in Seq(X) /\ log.headers \in Seq(X) /\ log.body \in Seq(X) /\ log.response \in Seq(X)
  BY <1>1
<1>3. LogReadsBack <=>
        (input.kind = "log" =>
           LET p == parseErrorLog(c)
           IN  Unmarked(log.body) /\ Unmarked(log.response) =>
                 /\ p.url = log.url
                 /\ p.headers = [i \in DOMAIN log.headers |-> redactHeader(log.headers[i])]
                 /\ p.body = Trimmed(log.body)
                 /\ p.response = Trimmed(log.response)
                 /\ (\A l \in Range(log.sent) \cup Range(log.response) :
                        l.kind = "pair" => l.name # "status") => p.status = log.status)
  BY DEF LogReadsBack, Parsed
<1> HIDE DEF log, c
<1>4. ASSUME Unmarked(log.body), Unmarked(log.response)
      PROVE  /\ \A i \in 1..Len(log.body) : log.body[i].kind # "mark"
             /\ \A i \in 1..Len(log.response) : log.response[i].kind # "mark"
  BY <1>2, <1>4
<1> HIDE DEF Unmarked
<1> QED
  BY <1>1, <1>2, <1>3, <1>4, PartsReadBack

\* A caller of the panel reads all of its own usage and nothing else, the
\* providers it may use, the state of health, and error logs as they were written
\* but for the secrets, whatever the entries, the rows and the lines of the log
\* are (AuthInterceptor, GetUsageLogs, HealthCheck, GetErrors).
THEOREM PanelAlwaysShowsOwn == input \in AnyInput => PanelShowsOwn
<1> SUFFICES ASSUME input \in AnyInput PROVE PanelShowsOwn
  OBVIOUS
<1>1. PagesCoverOwn
  <2>1. input \notin PagesInput => input.kind # "pages"
    BY Kinds DEF AnyInput
  <2> QED
    BY <2>1, PagesCover DEF PagesCoverOwn
<1>2. PanelTellsAll
  <2>1. input \notin HealthInput => input.kind # "health"
    BY Kinds DEF AnyInput
  <2> QED
    BY <2>1, PanelTells DEF PanelTellsAll
<1>3. SecretsStayHidden
  <2>1. input \notin LogInput => input.kind # "log"
    BY Kinds DEF AnyInput
  <2> QED
    BY <2>1, SecretsHidden DEF SecretsStayHidden
<1>4. LogReadsBack
  <2>1. input \notin LogInput => input.kind # "log"
    BY Kinds DEF AnyInput
  <2> QED
    BY <2>1, LogsReadBack DEF LogReadsBack
<1> QED
  BY <1>1, <1>2, <1>3, <1>4 DEF PanelShowsOwn
=============================================================================
