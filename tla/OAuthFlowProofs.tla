-------------------------- MODULE OAuthFlowProofs --------------------------
(***************************************************************************)
(* Provider authorization: acknowledged providers keep their credentials,  *)
(* the credentials are the newest, and a cursor login is registered once,  *)
(* for any number of providers, panel requests and refreshes.              *)
(***************************************************************************)
EXTENDS OAuthFlow, TLAPS

\* A request, by where it is.
ReqType ==
    [pc : {"idle"}]
    \cup [pc : {"authorize", "status", "cleanup"}, p : Provider]
    \cup [pc : {"submit"}, p : Callback]
    \cup [pc : {"store", "register", "finish"}, p : Cursor]
    \cup [pc : {"read"}, p : Provider, then : {"status", "answer"}]
    \cup [pc : {"read"}, p : Callback, then : {"submit"}]
    \cup [pc : {"write"}, p : Provider, creds : 1..MaxVersion]

\* A Save or Delete of the store; only Delete touches cursor providers.
SaveType ==
    [pc : {"idle"}]
    \cup [pc : {"get"}, p : Provider \ Cursor]
    \cup [pc : {"put"}, p : Provider, creds : 0..MaxVersion,
          secret : {"pending", "database", "token"}]

Types ==
    /\ TypeOK
    /\ req \in [Client -> ReqType] /\ save \in SaveType
    /\ acked \subseteq Provider /\ crossed \subseteq Provider

\* Request c is about provider p.
On(c, p) == req[c].pc # "idle" /\ req[c].p = p
Polling(c, p) == req[c].pc \in {"store", "register", "finish"} /\ req[c].p = p
Finishing(c, p) == req[c].pc = "finish" /\ req[c].p = p

\* Nobody but its creator knows a provider before its session is open.
Untouched(p) ==
    /\ session[p] = "none" /\ p \notin flows /\ p \notin acked
    /\ row[p].creds = 0 /\ saved[p] = 0
    /\ save.pc # "idle" => save.p # p
    /\ p \in Cursor => entries[p] = 0

NewIsUntouched ==
    /\ \A p \in Provider : row[p].secret = "unborn" =>
          Untouched(p) /\ \A c \in Client : ~On(c, p)
    /\ \A c \in Client, p \in Provider : req[c].pc = "authorize" /\ req[c].p = p =>
          Untouched(p) /\ \A d \in Client : On(d, p) => d = c

\* What a Save has read is still what the last one stored, since there is one
\* Save at a time; a Delete of the store is on record.
SaveIsNext ==
    /\ save.pc = "get" => saved[save.p] < MaxVersion
    /\ save.pc = "put" => \/ save.creds = 0 /\ save.p \in dropped
                          \/ /\ save.p \notin Cursor /\ save.secret # "pending"
                             /\ save.creds = saved[save.p] + 1

\* Credentials belong to rows there are.
StoredIsAlive == \A p \in Provider : row[p].creds > 0 => Alive(p)

\* A login that failed is on record.
FailureIsCrossed ==
    /\ \A p \in Provider : session[p] = "error" => p \in crossed
    /\ \A c \in Client : req[c].pc = "cleanup" => req[c].p \in crossed

\* The credentials of p are there, and neither the remover nor a restart holds
\* p as it was before, unless the completion of p crossed them.
Secured(p) ==
    /\ row[p].secret # "unborn"
    /\ p \notin dropped \cup crossed =>
          /\ Alive(p) /\ row[p].secret # "pending" /\ row[p].creds > 0
          /\ p \notin remover
          /\ p \in Cursor => reload[p] # "pending"

\* Acknowledged providers are secured, and so are cursor logins about to be.
AckedIsSecured ==
    /\ \A p \in acked : Secured(p)
    /\ \A c \in Client : req[c].pc \in {"register", "finish"} => Secured(req[c].p)

\* A completion that was not overtaken has read what was stored last.
ReadIsFresh ==
    /\ \A c \in Client : req[c].pc = "write" =>
          req[c].p \in overlap \cup dropped \/ req[c].creds = saved[req[c].p]
    /\ \A p \in Cursor : saved[p] <= 1

\* The entries of a cursor provider stand for polls that are about to finish,
\* or one for the poll that finished and took the flow away.
EntriesFinish ==
    \A p \in Cursor \ again :
        /\ entries[p] > 0 => \/ \E c \in Client : Finishing(c, p)
                             \/ p \notin flows /\ \A c \in Client : ~Polling(c, p)
        /\ entries[p] > 1 => \E c, d \in Client :
                                c # d /\ Finishing(c, p) /\ Finishing(d, p)

OAuthInv ==
    /\ Types /\ NewIsUntouched /\ SaveIsNext /\ StoredIsAlive
    /\ FailureIsCrossed /\ AckedIsSecured
    /\ FreshCredentials /\ ReadIsFresh /\ EntriesFinish

----------------------------------------------------------------------------
(* Shapes and types. *)

\* What the fields of a request are, by where it is.
LEMMA ReqShape ==
    ASSUME req \in [Client -> ReqType], NEW c \in Client
    PROVE  /\ req[c].pc = "idle" <=> req[c] = Idle
           /\ req[c].pc # "idle" => req[c].p \in Provider
           /\ req[c].pc \in {"store", "register", "finish"} => req[c].p \in Cursor
           /\ req[c].pc = "submit" => req[c].p \in Callback
           /\ req[c].pc = "write" => req[c].creds \in 1..MaxVersion
           /\ req[c].pc = "read" => /\ req[c].then \in {"submit", "status", "answer"}
                                    /\ req[c].then = "submit" => req[c].p \in Callback
<1>1. req[c] \in ReqType
  OBVIOUS
<1> QED
  BY <1>1, OAuthAssumption DEF ReqType, Idle

\* ... and of a Save.
LEMMA SaveShape ==
    ASSUME save \in SaveType
    PROVE  /\ save.pc = "idle" <=> save = Idle
           /\ save.pc # "idle" => save.p \in Provider
           /\ save.pc = "get" => save.p \notin Cursor
           /\ save.pc = "put" => /\ save.creds \in 0..MaxVersion
                                 /\ save.secret \in {"pending", "database", "token"}
BY OAuthAssumption DEF SaveType, Idle

\* ... and of a row.
LEMMA RowShape ==
    ASSUME TypeOK, NEW p \in Provider
    PROVE  /\ row[p].secret \in {"unborn", "deleted", "pending", "database", "token"}
           /\ row[p].creds \in 0..MaxVersion
BY DEF TypeOK, Row

\* The larger of two versions.
LEMMA MaxOfTwo ==
    ASSUME NEW a \in Nat, NEW b \in Nat
    PROVE  Max({a, b}) = IF a <= b THEN b ELSE a
<1> DEFINE m == IF a <= b THEN b ELSE a
<1>1. m \in {a, b} /\ \A y \in {a, b} : m >= y
  OBVIOUS
<1>2. \A x \in {a, b} : (\A y \in {a, b} : x >= y) => x = m
  OBVIOUS
<1> QED
  BY <1>1, <1>2 DEF Max

\* The first states have the types.
LEMMA TypesInit == Init => Types
<1> SUFFICES ASSUME Init PROVE Types
  OBVIOUS
<1>1. TypeOK
  BY OAuthAssumption DEF Init, TypeOK, Row
<1>2. req \in [Client -> ReqType] /\ save \in SaveType
  BY DEF Init, ReqType, SaveType, Idle
<1> QED
  BY <1>1, <1>2 DEF Types, Init

\* A statement that completes or deletes p touches no other row, and changes
\* the row of p only if it is alive.
LEMMA RowEffect ==
    ASSUME TypeOK, NEW p \in Provider, NEW creds \in 0..MaxVersion,
           NEW secret \in {"pending", "database", "token", "deleted"},
           row' = IF Alive(p)
                  THEN [row EXCEPT ![p] = [secret |-> secret, creds |-> creds,
                                           old |-> FALSE]]
                  ELSE row
    PROVE  /\ row' \in [Provider -> Row]
           /\ \A q \in Provider : row'[q].old => row'[q].secret = "pending"
           /\ \A q \in Provider \ {p} : row'[q] = row[q]
           /\ Alive(p) => /\ row'[p].secret = secret /\ row'[p].creds = creds
                          /\ ~row'[p].old
           /\ ~Alive(p) => row'[p] = row[p]
<1> DEFINE new == [secret |-> secret, creds |-> creds, old |-> FALSE]
<1>1. new \in Row /\ new.secret = secret /\ new.creds = creds /\ new.old = FALSE
  BY DEF Row
<1> HIDE DEF new
<1>2. row' = IF Alive(p) THEN [row EXCEPT ![p] = new] ELSE row
  BY DEF new
<1>3. row' \in [Provider -> Row]
  BY <1>1, <1>2 DEF TypeOK
<1>4. /\ \A q \in Provider \ {p} : row'[q] = row[q]
      /\ Alive(p) => row'[p] = new
      /\ ~Alive(p) => row'[p] = row[p]
  BY <1>1, <1>2 DEF TypeOK
<1> QED
  BY <1>1, <1>3, <1>4 DEF TypeOK

\* The request of c goes on, all others stay.
LEMMA GotoEffect ==
    ASSUME req \in [Client -> ReqType], NEW c \in Client, NEW r \in ReqType, Goto(c, r)
    PROVE  /\ req' \in [Client -> ReqType]
           /\ req'[c] = r /\ \A d \in Client \ {c} : req'[d] = req[d]
BY DEF Goto

\* The records requests go on with.
LEMMA ReqRecords ==
    /\ Idle \in ReqType
    /\ \A p \in Provider :
          /\ \A pc \in {"authorize", "status", "cleanup"} : [pc |-> pc, p |-> p] \in ReqType
          /\ \A t \in {"status", "answer"} :
                [pc |-> "read", p |-> p, then |-> t] \in ReqType
          /\ \A v \in 1..MaxVersion : [pc |-> "write", p |-> p, creds |-> v] \in ReqType
    /\ \A p \in Callback : /\ [pc |-> "submit", p |-> p] \in ReqType
                           /\ [pc |-> "read", p |-> p, then |-> "submit"] \in ReqType
    /\ \A p \in Cursor : \A pc \in {"store", "register", "finish"} :
          [pc |-> pc, p |-> p] \in ReqType
BY DEF ReqType, Idle

\* The first statement of completeStoredProviderAuthorization leads to the
\* second with what it has read, or past it.
LEMMA FindEffect ==
    ASSUME Types, NEW c \in Client, FindProviderOAuthCredentials(c)
    PROVE  /\ req[c].pc = "read" /\ req[c].p \in Provider
           /\ req' \in [Client -> ReqType] /\ \A d \in Client \ {c} : req'[d] = req[d]
           /\ req'[c].pc \in {"idle", "write", "submit", "status"}
           /\ req'[c].pc # "idle" => req'[c].p = req[c].p
           /\ req'[c].pc = "write" => /\ req'[c].creds = row[req[c].p].creds
                                      /\ Alive(req[c].p)
<1>1. /\ req[c].pc = "read" /\ req[c].p \in Provider
      /\ req[c].then \in {"submit", "status", "answer"}
      /\ req[c].then = "submit" => req[c].p \in Callback
  <2>1. req[c].pc = "read"
    BY DEF FindProviderOAuthCredentials
  <2> QED
    BY <2>1, ReqShape DEF Types
<1>2. CASE /\ Alive(req[c].p) /\ row[req[c].p].creds > 0
           /\ Goto(c, [pc |-> "write", p |-> req[c].p, creds |-> row[req[c].p].creds])
  <2>1. row[req[c].p].creds \in 1..MaxVersion
    <3>1. row[req[c].p].creds \in 0..MaxVersion
      BY <1>1, RowShape DEF Types
    <3>2. row[req[c].p].creds > 0
      BY <1>2
    <3> QED
      BY <3>1, <3>2, OAuthAssumption
  <2>2. [pc |-> "write", p |-> req[c].p, creds |-> row[req[c].p].creds] \in ReqType
    BY <1>1, <2>1, ReqRecords
  <2>3. /\ req' \in [Client -> ReqType] /\ \A d \in Client \ {c} : req'[d] = req[d]
        /\ req'[c] = [pc |-> "write", p |-> req[c].p, creds |-> row[req[c].p].creds]
    BY <1>2, <2>2, GotoEffect DEF Types
  <2> QED
    BY <1>1, <1>2, <2>3
<1>3. CASE Goto(c, IF req[c].then = "answer" THEN Idle
                   ELSE [pc |-> req[c].then, p |-> req[c].p])
  <2>1. CASE req[c].then = "answer"
    BY <1>1, <1>3, <2>1, ReqRecords, GotoEffect DEF Types, Idle
  <2>2. CASE req[c].then \in {"submit", "status"}
    <3>1. [pc |-> req[c].then, p |-> req[c].p] \in ReqType
      BY <1>1, <2>2, ReqRecords
    <3>2. /\ req' \in [Client -> ReqType] /\ \A d \in Client \ {c} : req'[d] = req[d]
          /\ req'[c] = [pc |-> req[c].then, p |-> req[c].p]
      BY <1>3, <2>2, <3>1, GotoEffect DEF Types
    <3> QED
      BY <1>1, <2>2, <3>2
  <2> QED
    BY <1>1, <2>1, <2>2
<1> QED
  BY <1>2, <1>3 DEF FindProviderOAuthCredentials

\* A status request ends, cleans up after a failed login, or reads once more.
LEMMA StatusEffect ==
    ASSUME Types, NEW c \in Client, ProviderAuthorizationStatus(c)
    PROVE  /\ req[c].pc = "status" /\ req[c].p \in Provider
           /\ req' \in [Client -> ReqType] /\ \A d \in Client \ {c} : req'[d] = req[d]
           /\ req'[c].pc \in {"idle", "cleanup", "read"}
           /\ req'[c].pc # "idle" => req'[c].p = req[c].p
           /\ req'[c].pc = "cleanup" => session[req[c].p] = "error"
<1>1. req[c].pc = "status" /\ req[c].p \in Provider
  BY ReqShape DEF Types, ProviderAuthorizationStatus
<1>2. CASE session[req[c].p] = "error"
  <2>1. Goto(c, [pc |-> "cleanup", p |-> req[c].p])
    BY <1>2 DEF ProviderAuthorizationStatus
  <2>2. [pc |-> "cleanup", p |-> req[c].p] \in ReqType
    BY <1>1, ReqRecords
  <2> QED
    BY <1>1, <1>2, <2>1, <2>2, GotoEffect DEF Types
<1>3. CASE session[req[c].p] = "ok"
  <2>1. Goto(c, [pc |-> "read", p |-> req[c].p, then |-> "answer"])
    BY <1>3 DEF ProviderAuthorizationStatus
  <2>2. [pc |-> "read", p |-> req[c].p, then |-> "answer"] \in ReqType
    BY <1>1, ReqRecords
  <2> QED
    BY <1>1, <2>1, <2>2, GotoEffect DEF Types
<1>4. CASE session[req[c].p] \notin {"error", "ok"}
  <2>1. Goto(c, Idle)
    BY <1>4 DEF ProviderAuthorizationStatus
  <2> QED
    BY <1>1, <2>1, ReqRecords, GotoEffect DEF Types, Idle
<1> QED
  BY <1>2, <1>3, <1>4

\* The row of p is created, or ages.
LEMMA PendingEffect ==
    ASSUME TypeOK, NEW p \in Provider,
           \/ row[p].secret = "unborn" /\ row' = [row EXCEPT ![p].secret = "pending"]
           \/ row[p].secret = "pending" /\ row' = [row EXCEPT ![p].old = TRUE]
    PROVE  /\ row' \in [Provider -> Row]
           /\ \A q \in Provider : row'[q].old => row'[q].secret = "pending"
           /\ \A q \in Provider \ {p} : row'[q] = row[q]
           /\ row'[p].secret = "pending" /\ row'[p].creds = row[p].creds
<1> DEFINE new == IF row[p].secret = "unborn" THEN [row[p] EXCEPT !.secret = "pending"]
                  ELSE [row[p] EXCEPT !.old = TRUE]
<1>1. row[p] \in Row
  BY DEF TypeOK
<1>2. new \in Row /\ new.secret = "pending" /\ new.creds = row[p].creds
  BY <1>1 DEF Row
<1>3. row' = [row EXCEPT ![p] = new]
  OBVIOUS
<1> HIDE DEF new
<1>4. /\ row' \in [Provider -> Row] /\ row'[p] = new
      /\ \A q \in Provider \ {p} : row'[q] = row[q]
  BY <1>2, <1>3 DEF TypeOK
<1> QED
  BY <1>2, <1>4 DEF TypeOK

\* The row of p is written back with the secret a restart has read.
LEMMA BackEffect ==
    ASSUME TypeOK, NEW p \in Cursor, RestartWritesBack(p)
    PROVE  /\ p \in Provider
           /\ row' \in [Provider -> Row]
           /\ \A q \in Provider : row'[q].old => row'[q].secret = "pending"
           /\ \A q \in Provider \ {p} : row'[q] = row[q]
           /\ \/ row'[p] = row[p]
              \/ /\ Alive(p) /\ row'[p].creds = row[p].creds
                 /\ row'[p].secret = reload[p]
                 /\ reload[p] \in {"pending", "database", "token"}
           /\ reload' \in [Cursor -> {"none", "pending", "database", "token"}]
           /\ \A q \in Cursor : reload'[q] \in {reload[q], "none"}
<1> DEFINE new == [row[p] EXCEPT !.secret = reload[p], !.old = FALSE]
<1>1. p \in Provider /\ row[p] \in Row /\ reload[p] \in {"pending", "database", "token"}
  BY OAuthAssumption DEF TypeOK, RestartWritesBack
<1>2. new \in Row /\ new.secret = reload[p] /\ new.creds = row[p].creds /\ ~new.old
  BY <1>1 DEF Row
<1>3. \/ row' = row
      \/ Alive(p) /\ row' = [row EXCEPT ![p] = new]
  BY DEF RestartWritesBack
<1> HIDE DEF new
<1>4. /\ row' \in [Provider -> Row]
      /\ \A q \in Provider \ {p} : row'[q] = row[q]
      /\ row'[p] = row[p] \/ (Alive(p) /\ row'[p] = new)
  BY <1>1, <1>2, <1>3 DEF TypeOK
<1>5. /\ reload' \in [Cursor -> {"none", "pending", "database", "token"}]
      /\ \A q \in Cursor : reload'[q] \in {reload[q], "none"}
  BY DEF RestartWritesBack, TypeOK
<1> QED
  BY <1>1, <1>2, <1>4, <1>5 DEF TypeOK

\* A restart reads the secrets of the rows there are.
LEMMA ReloadEffect ==
    ASSUME TypeOK, RestartReads
    PROVE  /\ reload' \in [Cursor -> {"none", "pending", "database", "token"}]
           /\ \A q \in Cursor : reload'[q] \in {row[q].secret, "none"}
BY OAuthAssumption, RowShape DEF RestartReads, Alive

\* DeleteRow.
LEMMA DeleteEffect ==
    ASSUME TypeOK, NEW p \in Provider, DeleteRow(p)
    PROVE  /\ row' \in [Provider -> Row]
           /\ \A q \in Provider : row'[q].old => row'[q].secret = "pending"
           /\ \A q \in Provider \ {p} : row'[q] = row[q]
           /\ Alive(p) => row'[p].secret = "deleted" /\ row'[p].creds = 0
           /\ ~Alive(p) => row'[p] = row[p]
<1>1. 0 \in 0..MaxVersion
  BY OAuthAssumption
<1> QED
  BY <1>1, RowEffect DEF DeleteRow

\* UpdateProviderCredentials.
LEMMA UpdateEffect ==
    ASSUME TypeOK, NEW p \in Provider, NEW creds \in 0..MaxVersion,
           NEW secret \in {"pending", "database", "token"},
           UpdateProviderCredentials(p, secret, creds)
    PROVE  /\ row' \in [Provider -> Row]
           /\ \A q \in Provider : row'[q].old => row'[q].secret = "pending"
           /\ \A q \in Provider \ {p} : row'[q] = row[q]
           /\ Alive(p) => row'[p].secret = secret /\ row'[p].creds = creds
           /\ ~Alive(p) => row'[p] = row[p]
BY RowEffect DEF UpdateProviderCredentials

\* Every step of a request keeps the types.
LEMMA RequestTypes ==
    ASSUME Types, NEW c \in Client, RequestStep(c)
    PROVE  Types'
<1> USE DEF Types
<1>1. ASSUME NEW p \in Provider, CreatePending(c, p) PROVE Types'
  <2>1. req' \in [Client -> ReqType]
    BY <1>1, ReqRecords, GotoEffect DEF CreatePending
  <2>2. /\ row' \in [Provider -> Row]
        /\ \A q \in Provider : row'[q].old => row'[q].secret = "pending"
    BY <1>1, PendingEffect DEF CreatePending
  <2> QED
    BY <1>1, <2>1, <2>2 DEF CreatePending, TypeOK, history
<1>2. ASSUME NEW p \in Provider, PollOnce(c, p) PROVE Types'
  <2>1. p \in Cursor
    BY <1>2 DEF PollOnce, TypeOK
  <2>2. req' \in [Client -> ReqType]
    BY <1>2, <2>1, ReqRecords, GotoEffect DEF PollOnce
  <2> QED
    BY <1>2, <2>2 DEF PollOnce, TypeOK
<1>3. ASSUME NEW p \in Provider,
             GetProviderAuthorizationStatus(c, p) \/ CompleteProviderAuthorization(c, p)
      PROVE  Types'
  <2>1. req' \in [Client -> ReqType]
    BY <1>3, ReqRecords, GotoEffect
       DEF GetProviderAuthorizationStatus, CompleteProviderAuthorization
  <2> QED
    BY <1>3, <2>1 DEF GetProviderAuthorizationStatus, CompleteProviderAuthorization,
                      TypeOK, history
<1>4. CASE Authorize(c)
  <2>1. req' \in [Client -> ReqType] /\ req[c].p \in Provider
    BY <1>4, ReqRecords, ReqShape, GotoEffect DEF Authorize
  <2> QED
    BY <1>4, <2>1 DEF Authorize, TypeOK, history
<1>5. CASE AuthorizeFails(c) \/ CleanupProviderOAuth(c)
  <2>1. req' \in [Client -> ReqType] /\ req[c].p \in Provider
    BY <1>5, ReqRecords, ReqShape, GotoEffect DEF AuthorizeFails, CleanupProviderOAuth
  <2>2. /\ row' \in [Provider -> Row]
        /\ \A q \in Provider : row'[q].old => row'[q].secret = "pending"
    BY <1>5, <2>1, DeleteEffect DEF AuthorizeFails, CleanupProviderOAuth, TypeOK
  <2> QED
    BY <1>5, <2>1, <2>2 DEF AuthorizeFails, CleanupProviderOAuth, TypeOK, history
<1>6. CASE FindProviderOAuthCredentials(c)
  BY <1>6, FindEffect DEF FindProviderOAuthCredentials, TypeOK, history
<1>7. CASE ProviderAuthorizationStatus(c)
  BY <1>7, StatusEffect DEF ProviderAuthorizationStatus, TypeOK, history
<1>8. CASE CompleteStored(c)
  <2>1. /\ req' \in [Client -> ReqType] /\ req[c].p \in Provider
        /\ req[c].creds \in 1..MaxVersion
    BY <1>8, ReqRecords, ReqShape, GotoEffect DEF CompleteStored
  <2>2. /\ row' \in [Provider -> Row]
        /\ \A q \in Provider : row'[q].old => row'[q].secret = "pending"
    <3>1. req[c].creds \in 0..MaxVersion
      BY <2>1, OAuthAssumption
    <3> QED
      BY <1>8, <2>1, <3>1, UpdateEffect DEF CompleteStored, TypeOK
  <2> QED
    BY <1>8, <2>1, <2>2 DEF CompleteStored, Crosses, TypeOK
<1>9. CASE SubmitCallback(c)
  <2>1. /\ req[c].p \in Callback /\ req[c].p \in Provider /\ req[c].p \notin Cursor
    BY <1>9, ReqShape, OAuthAssumption DEF SubmitCallback
  <2>2. req' \in [Client -> ReqType]
    BY <1>9, <2>1, ReqRecords, GotoEffect DEF SubmitCallback
  <2>3. save' \in SaveType
    BY <1>9, <2>1 DEF SubmitCallback, SaveType
  <2> QED
    BY <1>9, <2>2, <2>3 DEF SubmitCallback, TypeOK, history
<1>10. CASE StoreCursorCredentials(c)
  <2>1. req[c].p \in Cursor /\ req[c].p \in Provider /\ 1 \in 0..MaxVersion
    BY <1>10, ReqShape, OAuthAssumption DEF StoreCursorCredentials
  <2>2. req' \in [Client -> ReqType]
    BY <1>10, <2>1, ReqRecords, GotoEffect DEF StoreCursorCredentials
  <2>3. /\ row' \in [Provider -> Row]
        /\ \A q \in Provider : row'[q].old => row'[q].secret = "pending"
    BY <1>10, <2>1, UpdateEffect DEF StoreCursorCredentials, TypeOK
  <2> QED
    BY <1>10, <2>1, <2>2, <2>3 DEF StoreCursorCredentials, Crosses, TypeOK
<1>11. CASE AddCursorProvider(c)
  <2>1. req[c].p \in Cursor
    BY <1>11, ReqShape DEF AddCursorProvider
  <2>2. req' \in [Client -> ReqType]
    BY <1>11, <2>1, ReqRecords, GotoEffect DEF AddCursorProvider
  <2> QED
    BY <1>11, <2>1, <2>2 DEF AddCursorProvider, TypeOK
<1>12. CASE FinishCursor(c)
  <2>1. req[c].p \in Cursor /\ req[c].p \in Provider
    BY <1>12, ReqShape DEF FinishCursor
  <2>2. req' \in [Client -> ReqType]
    BY <1>12, <2>1, ReqRecords, GotoEffect DEF FinishCursor
  <2> QED
    BY <1>12, <2>1, <2>2 DEF FinishCursor, Crosses, TypeOK
<1> QED
  BY <1>1, <1>2, <1>3, <1>4, <1>5, <1>6, <1>7, <1>8, <1>9, <1>10, <1>11, <1>12
     DEF RequestStep

\* Every step keeps the types; what the store writes is typed because of what
\* is known of the Save under way and of the rows with credentials.
LEMMA TypesStep == Types /\ SaveIsNext /\ StoredIsAlive /\ [Next]_vars => Types'
<1> SUFFICES ASSUME Types, SaveIsNext, StoredIsAlive, [Next]_vars PROVE Types'
  OBVIOUS
<1> USE DEF Types
<1>1. ASSUME NEW p \in Provider, StartSave(p) PROVE Types'
  <2>1. save' \in SaveType
    BY <1>1 DEF StartSave, SaveType
  <2> QED
    BY <1>1, <2>1 DEF StartSave, TypeOK, history
<1>2. ASSUME NEW p \in Provider, StoreDeletes(p) PROVE Types'
  <2>1. row[p].secret \in {"pending", "database", "token"} /\ 0 \in 0..MaxVersion
    BY <1>2, RowShape, OAuthAssumption DEF StoreDeletes, StoredIsAlive, Alive
  <2>2. save' \in SaveType
    BY <1>2, <2>1 DEF StoreDeletes, SaveType
  <2> QED
    BY <1>2, <2>2 DEF StoreDeletes, TypeOK
<1>3. ASSUME NEW p \in Provider, SessionEnds(p) PROVE Types'
  BY <1>3 DEF SessionEnds, TypeOK
<1>4. CASE SaveReads
  <2>1. /\ save.p \in Provider /\ saved[save.p] < MaxVersion
        /\ saved[save.p] \in 0..MaxVersion
    BY <1>4, SaveShape DEF SaveReads, SaveIsNext, TypeOK
  <2>2. saved[save.p] + 1 \in 0..MaxVersion
    BY <2>1, OAuthAssumption
  <2>3. ASSUME Alive(save.p)
        PROVE  (IF row[save.p].secret = "pending" THEN "database" ELSE row[save.p].secret)
                  \in {"database", "token"}
    BY <2>1, <2>3, RowShape DEF Alive
  <2>4. save' \in SaveType
    BY <1>4, <2>1, <2>2, <2>3 DEF SaveReads, SaveType, Idle
  <2> QED
    BY <1>4, <2>4 DEF SaveReads, TypeOK, history
<1>5. CASE SaveWrites
  <2>1. /\ save.p \in Provider /\ save.creds \in 0..MaxVersion
        /\ save.secret \in {"pending", "database", "token"}
        /\ saved[save.p] \in 0..MaxVersion
    BY <1>5, SaveShape DEF SaveWrites, TypeOK
  <2>2. /\ row' \in [Provider -> Row]
        /\ \A q \in Provider : row'[q].old => row'[q].secret = "pending"
    BY <1>5, <2>1, UpdateEffect DEF SaveWrites
  <2>3. Max({saved[save.p], save.creds}) \in 0..MaxVersion
    BY <2>1, MaxOfTwo, OAuthAssumption
  <2>4. save' \in SaveType
    BY <1>5 DEF SaveWrites, SaveType, Idle
  <2>5. session' \in [Provider -> {"none", "wait", "error", "ok"}]
    BY <1>5, <2>1 DEF SaveWrites, TypeOK
  <2> QED
    BY <1>5, <2>1, <2>2, <2>3, <2>4, <2>5 DEF SaveWrites, TypeOK
<1>6. CASE SaveFails
  <2>1. save' \in SaveType
    BY <1>6 DEF SaveFails, SaveType, Idle
  <2> QED
    BY <1>6, <2>1 DEF SaveFails, TypeOK, history
<1>7. ASSUME NEW p \in Provider, DeleteProvider(p) \/ Remove(p) PROVE Types'
  <2>1. /\ row' \in [Provider -> Row]
        /\ \A q \in Provider : row'[q].old => row'[q].secret = "pending"
    BY <1>7, DeleteEffect DEF DeleteProvider, Remove
  <2> QED
    BY <1>7, <2>1 DEF DeleteProvider, Remove, TypeOK, history
<1>8. ASSUME NEW p \in Provider, TenMinutesPass(p) PROVE Types'
  <2>1. /\ row' \in [Provider -> Row]
        /\ \A q \in Provider : row'[q].old => row'[q].secret = "pending"
    BY <1>8, PendingEffect DEF TenMinutesPass
  <2> QED
    BY <1>8, <2>1 DEF TenMinutesPass, TypeOK, history
<1>9. CASE RemoverReads \/ RemoveFails
  BY <1>9 DEF RemoverReads, RemoveFails, TypeOK, history
<1>10. CASE UNCHANGED vars
  BY <1>10 DEF vars, TypeOK, history
<1>11. CASE RestartReads
  BY <1>11, ReloadEffect DEF RestartReads, TypeOK, history
<1>12. ASSUME NEW p \in Cursor, RestartWritesBack(p) PROVE Types'
  BY <1>12, BackEffect DEF RestartWritesBack, TypeOK, history
<1> QED
  BY <1>1, <1>2, <1>3, <1>4, <1>5, <1>6, <1>7, <1>8, <1>9, <1>10, <1>11, <1>12, RequestTypes
     DEF Next, Library

----------------------------------------------------------------------------
(* The parts of the invariant, one by one. *)

\* The steps that leave the rows alone.
KeepsRows ==
    \/ \E c \in Client :
          \/ \E p \in Provider : \/ PollOnce(c, p)
                                 \/ GetProviderAuthorizationStatus(c, p)
                                 \/ CompleteProviderAuthorization(c, p)
          \/ Authorize(c) \/ FindProviderOAuthCredentials(c) \/ SubmitCallback(c)
          \/ ProviderAuthorizationStatus(c) \/ AddCursorProvider(c) \/ FinishCursor(c)
    \/ \E p \in Provider : StartSave(p) \/ StoreDeletes(p) \/ SessionEnds(p)
    \/ SaveReads \/ SaveFails \/ RemoverReads \/ RemoveFails \/ RestartReads
    \/ UNCHANGED vars

\* They do.
LEMMA RowsKept == KeepsRows => row' = row
BY DEF KeepsRows, PollOnce, GetProviderAuthorizationStatus,
       CompleteProviderAuthorization, Authorize, FindProviderOAuthCredentials,
       SubmitCallback, ProviderAuthorizationStatus, AddCursorProvider, FinishCursor,
       StartSave, StoreDeletes, SessionEnds, SaveReads, SaveFails, RemoverReads,
       RemoveFails, RestartReads, vars

\* A row is created.
LEMMA CreateEffect ==
    ASSUME Types, NEW c \in Client, NEW p \in Provider, CreatePending(c, p)
    PROVE  /\ row'[p].secret = "pending" /\ row'[p].creds = row[p].creds
           /\ \A q \in Provider \ {p} : row'[q] = row[q]
BY PendingEffect DEF Types, CreatePending

\* A request whose login failed deletes the row, or fails to.
LEMMA CleanupEffect ==
    ASSUME Types, NEW c \in Client, AuthorizeFails(c) \/ CleanupProviderOAuth(c)
    PROVE  \E p \in Provider :
               /\ req[c].p = p
               /\ \A q \in Provider \ {p} : row'[q] = row[q]
               /\ \/ row'[p] = row[p]
                  \/ row'[p].secret = "deleted" /\ row'[p].creds = 0 /\ Alive(p)
<1> USE DEF Types
<1>1. req[c].p \in Provider
  BY ReqShape DEF AuthorizeFails, CleanupProviderOAuth
<1> QED
  BY <1>1, DeleteEffect DEF AuthorizeFails, CleanupProviderOAuth

\* A completion writes what it has read, and may acknowledge, if the row is alive.
LEMMA CompleteEffect ==
    ASSUME Types, NEW c \in Client, CompleteStored(c)
    PROVE  \E p \in Provider :
               /\ req[c].p = p
               /\ \A q \in Provider \ {p} : row'[q] = row[q]
               /\ \/ row' = row /\ UNCHANGED <<acked, crossed>>
                  \/ row' = row /\ ~Alive(p) /\ UNCHANGED acked /\ Crosses(p)
                  \/ /\ Alive(p) /\ acked' \in {acked, acked \cup {p}} /\ Crosses(p)
                     /\ row'[p].secret = "database" /\ row'[p].creds = req[c].creds
<1> USE DEF Types
<1>1. req[c].p \in Provider /\ req[c].creds \in 1..MaxVersion
  BY ReqShape DEF CompleteStored
<1>2. req[c].creds \in 0..MaxVersion
  BY <1>1, OAuthAssumption
<1>3. CASE UNCHANGED <<row, acked, crossed>>
  BY <1>1, <1>3
<1>4. CASE /\ UpdateProviderCredentials(req[c].p, "database", req[c].creds)
           /\ \/ acked' = acked
              \/ Alive(req[c].p) /\ acked' = acked \cup {req[c].p}
           /\ Crosses(req[c].p)
  <2>1. CASE Alive(req[c].p)
    BY <1>1, <1>2, <1>4, <2>1, UpdateEffect
  <2>2. CASE ~Alive(req[c].p)
    BY <1>1, <1>4, <2>2 DEF UpdateProviderCredentials
  <2> QED
    BY <2>1, <2>2
<1> QED
  BY <1>3, <1>4 DEF CompleteStored

\* A cursor login is stored, and may go on to register, if the row is alive.
LEMMA StoreEffect ==
    ASSUME Types, NEW c \in Client, StoreCursorCredentials(c)
    PROVE  \E p \in Provider :
               /\ p \in Cursor /\ req[c].p = p
               /\ \A d \in Client \ {c} : req'[d] = req[d]
               /\ \A q \in Provider \ {p} : row'[q] = row[q]
               /\ \/ row' = row /\ saved' = saved /\ UNCHANGED crossed
                     /\ req'[c].pc = "idle"
                  \/ row' = row /\ saved' = saved /\ ~Alive(p) /\ Crosses(p)
                     /\ req'[c].pc = "idle"
                  \/ /\ Alive(p) /\ saved' = [saved EXCEPT ![p] = 1] /\ Crosses(p)
                     /\ row'[p].secret = "token" /\ row'[p].creds = 1
                     /\ \/ req'[c].pc = "idle"
                        \/ req'[c].pc = "register" /\ req'[c].p = p
<1> USE DEF Types
<1>1. PICK p \in Cursor : p = req[c].p
  BY ReqShape DEF StoreCursorCredentials
<1>2. p \in Provider /\ 1 \in 0..MaxVersion
  BY OAuthAssumption
<1>3. CASE UNCHANGED <<row, saved, crossed>> /\ Goto(c, Idle)
  BY <1>1, <1>2, <1>3, ReqRecords, GotoEffect DEF Idle
<1>4. CASE /\ UpdateProviderCredentials(p, "token", 1)
           /\ saved' = IF Alive(p) THEN [saved EXCEPT ![p] = 1] ELSE saved
           /\ Goto(c, Idle) \/ (Alive(p) /\ Goto(c, [pc |-> "register", p |-> p]))
           /\ Crosses(p)
  <2>1. CASE Alive(p)
    <3>1. /\ req'[c].pc = "idle" \/ (req'[c].pc = "register" /\ req'[c].p = p)
          /\ \A d \in Client \ {c} : req'[d] = req[d]
      <4>1. /\ req'[c] = Idle \/ req'[c] = [pc |-> "register", p |-> p]
            /\ \A d \in Client \ {c} : req'[d] = req[d]
        BY <1>4, ReqRecords, GotoEffect
      <4> QED
        BY <4>1 DEF Idle
    <3> QED
      BY <1>1, <1>2, <1>4, <2>1, <3>1, UpdateEffect
  <2>2. CASE ~Alive(p)
    <3>1. req'[c].pc = "idle" /\ \A d \in Client \ {c} : req'[d] = req[d]
      BY <1>4, <2>2, ReqRecords, GotoEffect DEF Idle
    <3> QED
      BY <1>1, <1>2, <1>4, <2>2, <3>1 DEF UpdateProviderCredentials
  <2> QED
    BY <2>1, <2>2
<1> QED
  BY <1>1, <1>3, <1>4 DEF StoreCursorCredentials

\* A Save writes a version that is newer or none, if the row is alive.
LEMMA SaveEffect ==
    ASSUME Types, SaveWrites
    PROVE  /\ save.p \in Provider
           /\ \A q \in Provider \ {save.p} : row'[q] = row[q]
           /\ \/ row' = row /\ saved' = saved /\ ~Alive(save.p)
              \/ /\ Alive(save.p)
                 /\ row'[save.p].secret = save.secret
                 /\ row'[save.p].creds = save.creds
                 /\ saved' = [saved EXCEPT ![save.p] = Max({@, save.creds})]
<1> USE DEF Types
<1>1. /\ save.p \in Provider /\ save.creds \in 0..MaxVersion
      /\ save.secret \in {"pending", "database", "token"}
  BY SaveShape DEF SaveWrites
<1>2. CASE Alive(save.p)
  BY <1>1, <1>2, UpdateEffect DEF SaveWrites
<1>3. CASE ~Alive(save.p)
  BY <1>1, <1>3 DEF SaveWrites, UpdateProviderCredentials
<1> QED
  BY <1>1, <1>2, <1>3

\* A row is deleted by the panel or by the cron.
LEMMA RemoveEffect ==
    ASSUME Types, NEW p \in Provider, DeleteProvider(p) \/ Remove(p)
    PROVE  /\ \A q \in Provider \ {p} : row'[q] = row[q]
           /\ \/ row'[p] = row[p] /\ ~Alive(p)
              \/ row'[p].secret = "deleted" /\ row'[p].creds = 0 /\ Alive(p)
BY DeleteEffect DEF Types, DeleteProvider, Remove

\* A row ages.
LEMMA AgeEffect ==
    ASSUME Types, NEW p \in Provider, TenMinutesPass(p)
    PROVE  /\ \A q \in Provider \ {p} : row'[q] = row[q]
           /\ row'[p].secret = "pending" /\ row'[p].creds = row[p].creds
BY PendingEffect DEF Types, TenMinutesPass

\* Credentials stay with rows there are.
LEMMA StoredStep ==
    Types /\ StoredIsAlive /\ [Next]_vars => StoredIsAlive'
<1> SUFFICES ASSUME Types, StoredIsAlive, [Next]_vars PROVE StoredIsAlive'
  OBVIOUS
<1> USE DEF StoredIsAlive, Alive
<1>1. CASE KeepsRows
  BY <1>1, RowsKept
<1>2. ASSUME NEW c \in Client, NEW p \in Provider, CreatePending(c, p)
      PROVE  StoredIsAlive'
  BY <1>2, CreateEffect, RowShape DEF CreatePending, Types
<1>3. ASSUME NEW c \in Client, AuthorizeFails(c) \/ CleanupProviderOAuth(c)
      PROVE  StoredIsAlive'
  BY <1>3, CleanupEffect
<1>4. ASSUME NEW c \in Client, CompleteStored(c) PROVE StoredIsAlive'
  BY <1>4, CompleteEffect
<1>5. ASSUME NEW c \in Client, StoreCursorCredentials(c) PROVE StoredIsAlive'
  BY <1>5, StoreEffect
<1>6. CASE SaveWrites
  <2>1. save.secret \in {"pending", "database", "token"}
    BY <1>6, SaveShape DEF SaveWrites, Types
  <2> QED
    BY <1>6, <2>1, SaveEffect
<1>7. ASSUME NEW p \in Provider, DeleteProvider(p) \/ Remove(p)
      PROVE  StoredIsAlive'
  BY <1>7, RemoveEffect
<1>8. ASSUME NEW p \in Provider, TenMinutesPass(p) PROVE StoredIsAlive'
  BY <1>8, AgeEffect, RowShape DEF TenMinutesPass, Types
<1>9. ASSUME NEW p \in Cursor, RestartWritesBack(p) PROVE StoredIsAlive'
  BY <1>9, BackEffect DEF Types
<1> QED
  BY <1>1, <1>2, <1>3, <1>4, <1>5, <1>6, <1>7, <1>8, <1>9
     DEF Next, RequestStep, Library, KeepsRows

\* There is one Save at a time, and nobody else stores a newer version.
LEMMA SaveNextStep ==
    Types /\ SaveIsNext /\ StoredIsAlive /\ [Next]_vars => SaveIsNext'
<1> SUFFICES ASSUME Types, SaveIsNext, StoredIsAlive, [Next]_vars
             PROVE  SaveIsNext'
  OBVIOUS
<1> USE DEF Types, SaveIsNext
<1>1. ASSUME NEW c \in Client, SubmitCallback(c) PROVE SaveIsNext'
  BY <1>1 DEF SubmitCallback, history
<1>2. ASSUME NEW c \in Client, StoreCursorCredentials(c) PROVE SaveIsNext'
  <2>1. /\ UNCHANGED <<save, dropped>>
        /\ save.pc # "idle" => save.p \in Provider
        /\ save.pc = "get" => save.p \notin Cursor
    BY <1>2, SaveShape DEF StoreCursorCredentials
  <2>2. \A p \in Provider \ Cursor : saved'[p] = saved[p]
    BY <1>2, StoreEffect DEF TypeOK
  <2> QED
    BY <2>1, <2>2
<1>3. ASSUME NEW p \in Provider, StartSave(p) PROVE SaveIsNext'
  BY <1>3 DEF StartSave, history
<1>4. CASE SaveReads
  <2>1. save.p \in Provider /\ save.p \notin Cursor
    BY <1>4, SaveShape DEF SaveReads
  <2> QED
    BY <1>4, <2>1 DEF SaveReads, Idle, history
<1>5. CASE SaveWrites \/ SaveFails
  BY <1>5 DEF SaveWrites, SaveFails, Idle
<1>6. ASSUME NEW p \in Provider, StoreDeletes(p) PROVE SaveIsNext'
  BY <1>6 DEF StoreDeletes
<1>7. CASE UNCHANGED <<save, saved>> /\ dropped \subseteq dropped'
  BY <1>7
<1>8. ASSUME NEW p \in Provider, DeleteProvider(p) \/ TenMinutesPass(p) \/ Remove(p)
      PROVE  UNCHANGED <<save, saved>> /\ dropped \subseteq dropped'
  BY <1>8 DEF DeleteProvider, TenMinutesPass, Remove, history
<1>9. CASE RemoverReads \/ RemoveFails \/ RestartReads \/ UNCHANGED vars
  BY <1>7, <1>9 DEF RemoverReads, RemoveFails, RestartReads, vars, history
<1>10. ASSUME NEW p \in Provider, SessionEnds(p)
       PROVE  UNCHANGED <<save, saved>> /\ dropped \subseteq dropped'
  BY <1>10 DEF SessionEnds
<1>11. ASSUME NEW c \in Client, NEW p \in Provider,
              \/ CreatePending(c, p) \/ PollOnce(c, p)
              \/ GetProviderAuthorizationStatus(c, p)
              \/ CompleteProviderAuthorization(c, p)
       PROVE  UNCHANGED <<save, saved>> /\ dropped \subseteq dropped'
  BY <1>11 DEF CreatePending, PollOnce, GetProviderAuthorizationStatus,
               CompleteProviderAuthorization, history
<1>12. ASSUME NEW c \in Client,
              \/ Authorize(c) \/ AuthorizeFails(c) \/ FindProviderOAuthCredentials(c)
              \/ CompleteStored(c) \/ ProviderAuthorizationStatus(c)
              \/ CleanupProviderOAuth(c) \/ AddCursorProvider(c) \/ FinishCursor(c)
       PROVE  UNCHANGED <<save, saved>> /\ dropped \subseteq dropped'
  BY <1>12 DEF Authorize, AuthorizeFails, FindProviderOAuthCredentials, CompleteStored,
               ProviderAuthorizationStatus, CleanupProviderOAuth, AddCursorProvider,
               FinishCursor, history
<1>13. ASSUME NEW p \in Cursor, RestartWritesBack(p)
       PROVE  UNCHANGED <<save, saved>> /\ dropped \subseteq dropped'
  BY <1>13 DEF RestartWritesBack, history
<1> QED
  BY <1>1, <1>2, <1>3, <1>4, <1>5, <1>6, <1>7, <1>8, <1>9, <1>10, <1>11, <1>12, <1>13
     DEF Next, RequestStep, Library

\* A login that fails goes on record, and a clean-up follows a failure.
LEMMA FailureStep == Types /\ FailureIsCrossed /\ [Next]_vars => FailureIsCrossed'
<1> SUFFICES ASSUME Types, FailureIsCrossed, [Next]_vars PROVE FailureIsCrossed'
  OBVIOUS
<1>0. ASSUME NEW c \in Client,
             FindProviderOAuthCredentials(c) \/ StoreCursorCredentials(c)
      PROVE  \A d \in Client : req'[d] = req[d] \/ req'[d].pc # "cleanup"
  BY <1>0, FindEffect, StoreEffect
<1> USE DEF Types, TypeOK, FailureIsCrossed
<1>1. CASE /\ crossed \subseteq crossed'
           /\ \A c \in Client : req'[c] = req[c] \/ req'[c].pc # "cleanup"
           /\ \A p \in Provider : session'[p] # "error" \/ session'[p] = session[p]
  BY <1>1
<1>2. ASSUME NEW c \in Client, ProviderAuthorizationStatus(c) PROVE FailureIsCrossed'
  BY <1>2, StatusEffect DEF ProviderAuthorizationStatus, Idle, history
<1>3. ASSUME NEW c \in Client, NEW p \in Provider, PollOnce(c, p)
      PROVE  FailureIsCrossed'
  <2>1. \A d \in Client : req'[d] = req[d] \/ req'[d].pc # "cleanup"
    BY <1>3 DEF PollOnce, Goto
  <2> QED
    BY <1>3, <2>1 DEF PollOnce
<1>4. ASSUME NEW p \in Provider, SessionEnds(p) PROVE FailureIsCrossed'
  BY <1>4 DEF SessionEnds
<1>5. ASSUME NEW c \in Client, NEW p \in Provider,
             \/ CreatePending(c, p) \/ GetProviderAuthorizationStatus(c, p)
             \/ CompleteProviderAuthorization(c, p)
      PROVE  FailureIsCrossed'
  BY <1>1, <1>5 DEF CreatePending, GetProviderAuthorizationStatus,
                    CompleteProviderAuthorization, Goto, history
<1>6. ASSUME NEW c \in Client,
             \/ Authorize(c) \/ AuthorizeFails(c) \/ CompleteStored(c)
             \/ CleanupProviderOAuth(c) \/ AddCursorProvider(c) \/ FinishCursor(c)
      PROVE  FailureIsCrossed'
  BY <1>1, <1>6 DEF Authorize, AuthorizeFails, CompleteStored, CleanupProviderOAuth,
                    AddCursorProvider, FinishCursor, Crosses, Goto, Idle, history
<1>7. ASSUME NEW c \in Client, FindProviderOAuthCredentials(c) PROVE FailureIsCrossed'
  <2>1. \A d \in Client : req'[d] = req[d] \/ req'[d].pc # "cleanup"
    BY <1>7, <1>0
  <2> QED
    BY <1>1, <1>7, <2>1 DEF FindProviderOAuthCredentials, history
<1>8. ASSUME NEW c \in Client, SubmitCallback(c) PROVE FailureIsCrossed'
  BY <1>1, <1>8 DEF SubmitCallback, Goto, history
<1>9. ASSUME NEW c \in Client, StoreCursorCredentials(c) PROVE FailureIsCrossed'
  <2>1. crossed \subseteq crossed' /\ UNCHANGED session
    BY <1>9 DEF StoreCursorCredentials, Crosses
  <2>2. \A d \in Client : req'[d] = req[d] \/ req'[d].pc # "cleanup"
    BY <1>9, <1>0
  <2> QED
    BY <1>1, <2>1, <2>2
<1>10. CASE SaveWrites
  <2>1. \A p \in Provider : session'[p] # "error" \/ session'[p] = session[p]
    BY <1>10, SaveShape DEF SaveWrites
  <2> QED
    BY <1>1, <1>10, <2>1 DEF SaveWrites
<1>11. CASE SaveReads \/ SaveFails \/ RemoverReads \/ RemoveFails \/ RestartReads \/ UNCHANGED vars
  BY <1>1, <1>11 DEF SaveReads, SaveFails, RemoverReads, RemoveFails, RestartReads, vars, history
<1>12. ASSUME NEW p \in Provider,
              \/ StartSave(p) \/ StoreDeletes(p)
              \/ DeleteProvider(p) \/ TenMinutesPass(p) \/ Remove(p)
       PROVE  FailureIsCrossed'
  BY <1>1, <1>12 DEF StartSave, StoreDeletes, DeleteProvider, TenMinutesPass, Remove,
                     history
<1>13. ASSUME NEW p \in Cursor, RestartWritesBack(p) PROVE FailureIsCrossed'
  BY <1>1, <1>13 DEF RestartWritesBack, history
<1> QED
  BY <1>2, <1>3, <1>4, <1>5, <1>6, <1>7, <1>8, <1>9, <1>10, <1>11, <1>12, <1>13
     DEF Next, RequestStep, Library

\* A request stays with its provider, and a new one takes its provider as the
\* code checked it.
LEMMA MoveEffect ==
    ASSUME Types, NEW c \in Client, RequestStep(c)
    PROVE  /\ \A d \in Client \ {c} : req'[d] = req[d]
           /\ req[c].pc # "idle" /\ req'[c].pc # "idle" => req'[c].p = req[c].p
           /\ req[c].pc # "idle" => req'[c].pc # "authorize"
           /\ req'[c].pc = "write" => FindProviderOAuthCredentials(c)
           /\ req'[c].pc = "register" => StoreCursorCredentials(c)
           /\ req'[c].pc = "finish" => AddCursorProvider(c)
           /\ req[c].pc = "idle" /\ req'[c].pc # "idle" =>
                 \E p \in Provider :
                    /\ req'[c].p = p
                    /\ req'[c].pc \in {"authorize", "store", "read"}
                    /\ req'[c].pc = "authorize" => CreatePending(c, p)
                    /\ req'[c].pc = "store" => p \in flows
                    /\ req'[c].pc = "read" => session[p] # "none"
<1> USE DEF Idle
<1>0. req \in [Client -> ReqType]
  BY DEF Types
<1>1. ASSUME NEW p \in Provider, CreatePending(c, p)
      PROVE  /\ \A d \in Client \ {c} : req'[d] = req[d]
             /\ req[c].pc = "idle" /\ req'[c].pc = "authorize" /\ req'[c].p = p
  BY <1>0, <1>1 DEF CreatePending, Goto
<1>2. ASSUME NEW p \in Provider, PollOnce(c, p)
      PROVE  /\ \A d \in Client \ {c} : req'[d] = req[d]
             /\ req[c].pc = "idle" /\ p \in flows
             /\ req'[c].pc = "idle" \/ (req'[c].pc = "store" /\ req'[c].p = p)
  BY <1>0, <1>2 DEF PollOnce, Goto
<1>3. ASSUME NEW p \in Provider,
             GetProviderAuthorizationStatus(c, p) \/ CompleteProviderAuthorization(c, p)
      PROVE  /\ \A d \in Client \ {c} : req'[d] = req[d]
             /\ req[c].pc = "idle" /\ session[p] # "none"
             /\ req'[c].pc = "read" /\ req'[c].p = p
  BY <1>0, <1>3 DEF GetProviderAuthorizationStatus, CompleteProviderAuthorization, Goto
<1>4. CASE \/ Authorize(c) \/ AuthorizeFails(c) \/ CompleteStored(c)
           \/ CleanupProviderOAuth(c) \/ FinishCursor(c)
  <2>1. req[c].pc # "idle" /\ Goto(c, Idle)
    BY <1>4 DEF Authorize, AuthorizeFails, CompleteStored, CleanupProviderOAuth,
                FinishCursor
  <2> QED
    BY <1>0, <2>1 DEF Goto
<1>5. CASE FindProviderOAuthCredentials(c)
  BY <1>5, FindEffect
<1>6. CASE ProviderAuthorizationStatus(c)
  BY <1>6, StatusEffect
<1>7. CASE SubmitCallback(c)
  BY <1>0, <1>7 DEF SubmitCallback, Goto
<1>8. CASE AddCursorProvider(c)
  BY <1>0, <1>8 DEF AddCursorProvider, Goto
<1>9. CASE StoreCursorCredentials(c)
  <2>1. req[c].pc = "store"
    BY <1>9 DEF StoreCursorCredentials
  <2> QED
    BY <1>9, <2>1, StoreEffect
<1> QED
  BY <1>1, <1>2, <1>3, <1>4, <1>5, <1>6, <1>7, <1>8, <1>9 DEF RequestStep

\* Nobody but the request itself moves it.
LEMMA OthersStay ==
    ASSUME Types, [Next]_vars, NEW d \in Client
    PROVE  RequestStep(d) \/ req'[d] = req[d]
<1>1. ASSUME NEW c \in Client, RequestStep(c)
      PROVE  RequestStep(d) \/ req'[d] = req[d]
  BY <1>1, MoveEffect
<1>2. CASE Library
  BY <1>2 DEF Library, StartSave, StoreDeletes, SessionEnds, SaveReads, SaveWrites,
              SaveFails
<1>3. ASSUME NEW p \in Provider, DeleteProvider(p) \/ TenMinutesPass(p) \/ Remove(p)
      PROVE  req' = req
  BY <1>3 DEF DeleteProvider, TenMinutesPass, Remove
<1>4. CASE RemoverReads \/ RemoveFails \/ RestartReads \/ UNCHANGED vars
  BY <1>4 DEF RemoverReads, RemoveFails, RestartReads, vars
<1>5. ASSUME NEW p \in Cursor, RestartWritesBack(p) PROVE req' = req
  BY <1>5 DEF RestartWritesBack
<1> QED
  BY <1>1, <1>2, <1>3, <1>4, <1>5 DEF Next

\* A provider that is known at most to the request that creates it stays
\* untouched until that request opens its session.
LEMMA UntouchedStep ==
    ASSUME Types, [Next]_vars, NEW q \in Provider, Untouched(q),
           \A c \in Client : On(c, q) => req[c].pc = "authorize" /\ ~Authorize(c)
    PROVE  Untouched(q)'
<1> USE DEF Untouched
<1>0. ASSUME NEW c \in Client, req[c].pc \notin {"idle", "authorize"}
      PROVE  req[c].p # q
  BY <1>0 DEF On
<1>1. ASSUME NEW c \in Client, NEW p \in Provider, CreatePending(c, p)
      PROVE  Untouched(q)'
  <2>1. row'[q].creds = row[q].creds
    BY <1>1, CreateEffect
  <2> QED
    BY <1>1, <2>1 DEF CreatePending, history
<1>2. ASSUME NEW c \in Client, NEW p \in Provider, PollOnce(c, p)
      PROVE  Untouched(q)'
  BY <1>2 DEF PollOnce, Types, TypeOK
<1>3. ASSUME NEW c \in Client, NEW p \in Provider,
             GetProviderAuthorizationStatus(c, p) \/ CompleteProviderAuthorization(c, p)
      PROVE  Untouched(q)'
  BY <1>3 DEF GetProviderAuthorizationStatus, CompleteProviderAuthorization, history
<1>4. ASSUME NEW c \in Client, Authorize(c) PROVE Untouched(q)'
  <2>1. req[c].p # q
    BY <1>4 DEF Authorize, On
  <2> QED
    BY <1>4, <2>1 DEF Authorize, history, Types, TypeOK
<1>5. ASSUME NEW c \in Client, AuthorizeFails(c) \/ CleanupProviderOAuth(c)
      PROVE  Untouched(q)'
  <2>1. row'[q].creds = 0
    BY <1>5, CleanupEffect
  <2> QED
    BY <1>5, <2>1 DEF AuthorizeFails, CleanupProviderOAuth, history
<1>6. ASSUME NEW c \in Client,
             FindProviderOAuthCredentials(c) \/ ProviderAuthorizationStatus(c)
      PROVE  Untouched(q)'
  BY <1>6 DEF FindProviderOAuthCredentials, ProviderAuthorizationStatus, history
<1>7. ASSUME NEW c \in Client, CompleteStored(c) PROVE Untouched(q)'
  <2>1. req[c].p # q
    BY <1>0, <1>7 DEF CompleteStored
  <2>2. row'[q] = row[q] /\ q \notin acked'
    BY <1>7, <2>1, CompleteEffect
  <2> QED
    BY <1>7, <2>2 DEF CompleteStored
<1>8. ASSUME NEW c \in Client, SubmitCallback(c) PROVE Untouched(q)'
  <2>1. req[c].p # q
    BY <1>0, <1>8 DEF SubmitCallback
  <2> QED
    BY <1>8, <2>1 DEF SubmitCallback, history
<1>9. ASSUME NEW c \in Client, StoreCursorCredentials(c) PROVE Untouched(q)'
  <2>1. req[c].p # q
    BY <1>0, <1>9 DEF StoreCursorCredentials
  <2>2. row'[q] = row[q] /\ saved'[q] = saved[q]
    BY <1>9, <2>1, StoreEffect DEF Types, TypeOK
  <2> QED
    BY <1>9, <2>2 DEF StoreCursorCredentials
<1>10. ASSUME NEW c \in Client, AddCursorProvider(c) \/ FinishCursor(c)
       PROVE  Untouched(q)'
  <2>1. req[c].p # q
    BY <1>0, <1>10 DEF AddCursorProvider, FinishCursor
  <2> QED
    BY <1>10, <2>1 DEF AddCursorProvider, FinishCursor, Types, TypeOK
<1>11. ASSUME NEW p \in Provider, StartSave(p) \/ StoreDeletes(p) \/ SessionEnds(p)
       PROVE  Untouched(q)'
  <2>1. p # q
    BY <1>11 DEF StartSave, StoreDeletes, SessionEnds
  <2> QED
    BY <1>11, <2>1 DEF StartSave, StoreDeletes, SessionEnds, history, Types, TypeOK
<1>12. CASE SaveReads \/ SaveFails
  BY <1>12 DEF SaveReads, SaveFails, Idle, history
<1>13. CASE SaveWrites
  <2>1. save.p # q
    BY <1>13 DEF SaveWrites
  <2>2. row'[q] = row[q] /\ saved'[q] = saved[q]
    BY <1>13, <2>1, SaveEffect DEF Types, TypeOK
  <2>3. session'[q] = session[q]
    BY <1>13, <2>1 DEF SaveWrites, Types, TypeOK
  <2> QED
    BY <1>13, <2>2, <2>3 DEF SaveWrites, Idle
<1>14. ASSUME NEW p \in Provider, DeleteProvider(p) \/ Remove(p) PROVE Untouched(q)'
  <2>1. row'[q].creds = 0
    BY <1>14, RemoveEffect
  <2> QED
    BY <1>14, <2>1 DEF DeleteProvider, Remove, history
<1>15. ASSUME NEW p \in Provider, TenMinutesPass(p) PROVE Untouched(q)'
  <2>1. row'[q].creds = 0
    BY <1>15, AgeEffect
  <2> QED
    BY <1>15, <2>1 DEF TenMinutesPass, history
<1>16. CASE RemoverReads \/ RemoveFails \/ RestartReads \/ UNCHANGED vars
  BY <1>16 DEF RemoverReads, RemoveFails, RestartReads, vars, history
<1>17. ASSUME NEW p \in Cursor, RestartWritesBack(p) PROVE Untouched(q)'
  <2>1. row'[q].creds = 0
    BY <1>17, BackEffect DEF Types
  <2> QED
    BY <1>17, <2>1 DEF RestartWritesBack, history
<1> QED
  BY <1>1, <1>2, <1>3, <1>4, <1>5, <1>6, <1>7, <1>8, <1>9, <1>10, <1>11, <1>12,
     <1>13, <1>14, <1>15, <1>16, <1>17 DEF Next, RequestStep, Library

\* No row becomes unborn again.
LEMMA UnbornStep ==
    ASSUME Types, [Next]_vars, NEW q \in Provider,
           row'[q].secret = "unborn"
    PROVE  row[q].secret = "unborn"
<1>1. CASE KeepsRows
  BY <1>1, RowsKept
<1>2. ASSUME NEW c \in Client, NEW p \in Provider, CreatePending(c, p)
      PROVE  row'[q] = row[q]
  BY <1>2, CreateEffect
<1>3. ASSUME NEW c \in Client, AuthorizeFails(c) \/ CleanupProviderOAuth(c)
      PROVE  row'[q] = row[q]
  BY <1>3, CleanupEffect
<1>4. ASSUME NEW c \in Client, CompleteStored(c) PROVE row'[q] = row[q]
  BY <1>4, CompleteEffect
<1>5. ASSUME NEW c \in Client, StoreCursorCredentials(c) PROVE row'[q] = row[q]
  BY <1>5, StoreEffect
<1>6. CASE SaveWrites
  <2>1. save.secret # "unborn"
    BY <1>6, SaveShape DEF SaveWrites, Types
  <2> QED
    BY <1>6, <2>1, SaveEffect
<1>7. ASSUME NEW p \in Provider, DeleteProvider(p) \/ Remove(p) PROVE row'[q] = row[q]
  BY <1>7, RemoveEffect
<1>8. ASSUME NEW p \in Provider, TenMinutesPass(p) PROVE row'[q] = row[q]
  BY <1>8, AgeEffect
<1>9. ASSUME NEW p \in Cursor, RestartWritesBack(p) PROVE row'[q] = row[q]
  BY <1>9, BackEffect DEF Types
<1> QED
  BY <1>1, <1>2, <1>3, <1>4, <1>5, <1>6, <1>7, <1>8, <1>9
     DEF Next, RequestStep, Library, KeepsRows

\* Every step keeps new providers untouched.
LEMMA NewStep ==
    Types /\ NewIsUntouched /\ [Next]_vars => NewIsUntouched'
<1> SUFFICES ASSUME Types, NewIsUntouched, [Next]_vars PROVE NewIsUntouched'
  OBVIOUS
<1>1. ASSUME NEW d \in Client, NEW q \in Provider, On(d, q)', ~On(d, q), Untouched(q)
      PROVE  req'[d].pc = "authorize" /\ CreatePending(d, q)
  <2>1. CASE RequestStep(d)
    BY <1>1, <2>1, MoveEffect DEF On, Untouched
  <2>2. CASE req'[d] = req[d]
    BY <1>1, <2>2 DEF On
  <2> QED
    BY <2>1, <2>2, OthersStay
<1>2. ASSUME NEW q \in Provider, row'[q].secret = "unborn"
      PROVE  Untouched(q)' /\ \A c \in Client : ~On(c, q)'
  <2>1. Untouched(q) /\ \A c \in Client : ~On(c, q)
    BY <1>2, UnbornStep DEF NewIsUntouched
  <2>2. \A c \in Client : ~CreatePending(c, q)
    BY <1>2, CreateEffect
  <2> QED
    BY <1>1, <2>1, <2>2, UntouchedStep
<1>3. ASSUME NEW c \in Client, NEW q \in Provider, req'[c].pc = "authorize",
             req'[c].p = q
      PROVE  Untouched(q)' /\ \A d \in Client : On(d, q)' => d = c
  <2>1. CASE req[c].pc = "authorize" /\ req[c].p = q
    <3>1. /\ Untouched(q) /\ row[q].secret # "unborn"
          /\ \A d \in Client : On(d, q) => d = c
      BY <2>1 DEF NewIsUntouched, On
    <3>2. ~Authorize(c)
      BY <1>3 DEF Authorize, Goto, Idle, Types
    <3>3. Untouched(q)'
      BY <2>1, <3>1, <3>2, UntouchedStep
    <3>4. \A d \in Client : ~CreatePending(d, q)
      BY <3>1 DEF CreatePending
    <3> QED
      BY <1>1, <3>1, <3>3, <3>4
  <2>2. CASE ~(req[c].pc = "authorize" /\ req[c].p = q)
    <3>1. RequestStep(c)
      BY <1>3, <2>2, OthersStay
    <3>2. CreatePending(c, q)
      BY <1>3, <2>2, <3>1, MoveEffect
    <3>3. Untouched(q) /\ \A d \in Client : ~On(d, q)
      BY <3>2 DEF CreatePending, NewIsUntouched
    <3>4. \A d \in Client : d # c => ~On(d, q)'
      BY <3>1, <3>3, MoveEffect DEF On
    <3> QED
      BY <3>3, <3>4, UntouchedStep
  <2> QED
    BY <2>1, <2>2
<1> QED
  BY <1>2, <1>3 DEF NewIsUntouched

\* Secured providers stay secured: whoever deletes one meant to, or its login
\* had failed, or the remover or a restart had read it before it was completed.
LEMMA SecuredStep ==
    ASSUME Types, SaveIsNext, FailureIsCrossed, [Next]_vars,
           NEW p \in Provider, Secured(p),
           \A c \in Client : req[c].pc = "authorize" => req[c].p # p
    PROVE  Secured(p)'
<1> USE DEF Secured, Alive
<1>0. CASE /\ row'[p] = row[p]
           /\ p \in remover' => p \in remover
           /\ p \in Cursor => reload'[p] \in {reload[p], "none"}
           /\ crossed \subseteq crossed' /\ dropped \subseteq dropped'
  BY <1>0
<1>1. ASSUME NEW c \in Client, NEW q \in Provider, CreatePending(c, q)
      PROVE  Secured(p)'
  <2>1. row'[p] = row[p]
    BY <1>1, CreateEffect DEF CreatePending
  <2> QED
    BY <1>0, <1>1, <2>1 DEF CreatePending, history
<1>2. ASSUME NEW c \in Client, AuthorizeFails(c) PROVE Secured(p)'
  <2>1. row'[p] = row[p]
    BY <1>2, CleanupEffect DEF AuthorizeFails
  <2> QED
    BY <1>0, <1>2, <2>1 DEF AuthorizeFails, history
<1>3. ASSUME NEW c \in Client, CleanupProviderOAuth(c) PROVE Secured(p)'
  <2>1. UNCHANGED <<remover, reload, crossed, dropped>> /\ req[c].p \in crossed
    BY <1>3 DEF CleanupProviderOAuth, history, FailureIsCrossed
  <2>2. row'[p] = row[p] \/ (row'[p].secret = "deleted" /\ p \in crossed)
    BY <1>3, <2>1, CleanupEffect
  <2> QED
    BY <2>1, <2>2
<1>4. ASSUME NEW c \in Client, CompleteStored(c) PROVE Secured(p)'
  <2>1. /\ UNCHANGED <<remover, reload, dropped>> /\ crossed \subseteq crossed'
        /\ req[c].creds > 0
    <3>1. req[c].pc = "write"
      BY <1>4 DEF CompleteStored
    <3>2. req[c].creds \in 1..MaxVersion
      BY <3>1, ReqShape DEF Types
    <3>3. UNCHANGED <<remover, reload, dropped>> /\ crossed \subseteq crossed'
      BY <1>4 DEF CompleteStored, Crosses
    <3> QED
      BY <3>2, <3>3, OAuthAssumption
  <2>2. row'[p] = row[p] \/ (row'[p].secret = "database" /\ row'[p].creds > 0)
    BY <1>4, <2>1, CompleteEffect
  <2> QED
    BY <2>1, <2>2
<1>5. ASSUME NEW c \in Client, StoreCursorCredentials(c) PROVE Secured(p)'
  <2>1. UNCHANGED <<remover, reload, dropped>> /\ crossed \subseteq crossed'
    BY <1>5 DEF StoreCursorCredentials, Crosses
  <2>2. row'[p] = row[p] \/ (row'[p].secret = "token" /\ row'[p].creds > 0)
    BY <1>5, StoreEffect
  <2> QED
    BY <2>1, <2>2
<1>6. CASE SaveWrites
  <2>1. /\ UNCHANGED <<remover, reload, dropped, crossed>>
        /\ save.secret \in {"pending", "database", "token"}
        /\ (save.creds > 0 /\ save.secret # "pending") \/ save.p \in dropped
    <3>1. /\ save.pc = "put" /\ save.p \in Provider /\ save.creds \in 0..MaxVersion
          /\ save.secret \in {"pending", "database", "token"}
      BY <1>6, SaveShape DEF SaveWrites, Types
    <3>2. saved[save.p] \in 0..MaxVersion
      BY <3>1 DEF Types, TypeOK
    <3>3. (save.creds > 0 /\ save.secret # "pending") \/ save.p \in dropped
      BY <3>1, <3>2, OAuthAssumption DEF SaveIsNext
    <3> QED
      BY <1>6, <3>1, <3>3 DEF SaveWrites
  <2>2. \/ row'[p] = row[p]
        \/ /\ row'[p].secret \in {"pending", "database", "token"}
           /\ (row'[p].creds > 0 /\ row'[p].secret # "pending") \/ p \in dropped
    BY <1>6, <2>1, SaveEffect
  <2> QED
    BY <2>1, <2>2
<1>7. ASSUME NEW q \in Provider, DeleteProvider(q) PROVE Secured(p)'
  <2>1. UNCHANGED <<remover, reload, crossed>> /\ dropped' = dropped \cup {q}
    BY <1>7 DEF DeleteProvider
  <2>2. row'[p] = row[p] \/ (row'[p].secret = "deleted" /\ p = q)
    BY <1>7, RemoveEffect
  <2> QED
    BY <2>1, <2>2
<1>8. ASSUME NEW q \in Provider, Remove(q) PROVE Secured(p)'
  <2>1. /\ UNCHANGED <<reload, dropped, crossed>> /\ remover' \subseteq remover
        /\ q \in remover
    BY <1>8 DEF Remove, history
  <2>2. row'[p] = row[p] \/ (row'[p].secret = "deleted" /\ p = q)
    BY <1>8, RemoveEffect
  <2> QED
    BY <2>1, <2>2
<1>9. ASSUME NEW q \in Provider, TenMinutesPass(q) PROVE Secured(p)'
  <2>1. UNCHANGED <<remover, reload, crossed, dropped>> /\ row[q].secret = "pending"
    BY <1>9 DEF TenMinutesPass, history
  <2>2. row'[p] = row[p] \/ (row'[p].secret = "pending" /\ p = q)
    BY <1>9, AgeEffect
  <2> QED
    BY <2>1, <2>2
<1>10. CASE RemoverReads
  <2>1. p \in remover' => row[p].secret = "pending"
    BY <1>10 DEF RemoverReads, Abandoned
  <2>2. UNCHANGED <<row, reload, crossed, dropped>>
    BY <1>10 DEF RemoverReads, history
  <2> QED
    BY <2>1, <2>2
<1>11. ASSUME NEW c \in Client, NEW q \in Provider,
              \/ PollOnce(c, q) \/ GetProviderAuthorizationStatus(c, q)
              \/ CompleteProviderAuthorization(c, q)
       PROVE  Secured(p)'
  BY <1>0, <1>11 DEF PollOnce, GetProviderAuthorizationStatus,
                     CompleteProviderAuthorization, history
<1>12. ASSUME NEW c \in Client,
              \/ Authorize(c) \/ FindProviderOAuthCredentials(c) \/ SubmitCallback(c)
              \/ ProviderAuthorizationStatus(c) \/ AddCursorProvider(c)
              \/ FinishCursor(c)
       PROVE  Secured(p)'
  BY <1>0, <1>12 DEF Authorize, FindProviderOAuthCredentials, SubmitCallback,
        ProviderAuthorizationStatus, AddCursorProvider, FinishCursor, Crosses, history
<1>13. ASSUME NEW q \in Provider, StartSave(q) \/ StoreDeletes(q) \/ SessionEnds(q)
       PROVE  Secured(p)'
  BY <1>0, <1>13 DEF StartSave, StoreDeletes, SessionEnds, history
<1>14. CASE SaveReads \/ SaveFails \/ RemoveFails \/ UNCHANGED vars
  BY <1>0, <1>14 DEF SaveReads, SaveFails, RemoveFails, vars, history
<1>15. CASE RestartReads
  <2>1. p \in Cursor => reload'[p] \in {row[p].secret, "none"}
    BY <1>15, ReloadEffect DEF Types
  <2>2. UNCHANGED <<row, remover, crossed, dropped>>
    BY <1>15 DEF RestartReads, history
  <2> QED
    BY <2>1, <2>2
<1>16. ASSUME NEW q \in Cursor, RestartWritesBack(q) PROVE Secured(p)'
  <2>1. /\ UNCHANGED <<remover, crossed, dropped>>
        /\ \A t \in Cursor : reload'[t] \in {reload[t], "none"}
    BY <1>16, BackEffect DEF RestartWritesBack, history, Types
  <2>2. \/ row'[p] = row[p]
        \/ /\ p = q /\ row'[p].creds = row[p].creds /\ row'[p].secret = reload[p]
           /\ reload[p] \in {"pending", "database", "token"}
    BY <1>16, BackEffect DEF Types
  <2> QED
    BY <2>1, <2>2
<1> QED
  BY <1>1, <1>2, <1>3, <1>4, <1>5, <1>6, <1>7, <1>8, <1>9, <1>10, <1>11, <1>12,
     <1>13, <1>14, <1>15, <1>16 DEF Next, RequestStep, Library

\* Only a completion that wrote its credentials, or the end of a cursor login,
\* acknowledges a provider.
LEMMA AckEffect ==
    ASSUME Types, [Next]_vars, NEW p \in acked' \ acked
    PROVE  \E c \in Client :
              \/ CompleteStored(c) /\ req[c].p = p /\ p \in Provider
              \/ req[c].pc = "finish" /\ req[c].p = p
<1>1. ASSUME NEW c \in Client, CompleteStored(c)
      PROVE  req[c].p = p /\ p \in Provider
  BY <1>1, CompleteEffect
<1>2. ASSUME NEW c \in Client, FinishCursor(c)
      PROVE  req[c].pc = "finish" /\ req[c].p = p
  BY <1>2 DEF FinishCursor
<1>3. ASSUME NEW c \in Client, RequestStep(c), ~CompleteStored(c), ~FinishCursor(c)
      PROVE  acked' = acked
  BY <1>3 DEF RequestStep, CreatePending, PollOnce, GetProviderAuthorizationStatus,
       CompleteProviderAuthorization, Authorize, AuthorizeFails,
       FindProviderOAuthCredentials, SubmitCallback, ProviderAuthorizationStatus,
       CleanupProviderOAuth, StoreCursorCredentials, AddCursorProvider, history
<1>4. CASE Library \/ RemoverReads \/ RemoveFails \/ RestartReads \/ UNCHANGED vars
  BY <1>4 DEF Library, StartSave, StoreDeletes, SessionEnds, SaveReads, SaveWrites,
       SaveFails, RemoverReads, RemoveFails, RestartReads, vars, history
<1>5. ASSUME NEW q \in Provider, DeleteProvider(q) \/ TenMinutesPass(q) \/ Remove(q)
      PROVE  acked' = acked
  BY <1>5 DEF DeleteProvider, TenMinutesPass, Remove, history
<1>6. ASSUME NEW q \in Cursor, RestartWritesBack(q) PROVE acked' = acked
  BY <1>6 DEF RestartWritesBack, history
<1> QED
  BY <1>1, <1>2, <1>3, <1>4, <1>5, <1>6 DEF Next

\* Every step keeps acknowledged providers, and cursor logins that are about to
\* be acknowledged, secured.
LEMMA AckedStep ==
    /\ Types /\ NewIsUntouched /\ SaveIsNext /\ FailureIsCrossed /\ AckedIsSecured
    /\ [Next]_vars
    => AckedIsSecured'
<1> SUFFICES ASSUME Types, NewIsUntouched, SaveIsNext, FailureIsCrossed,
                    AckedIsSecured, [Next]_vars
             PROVE  AckedIsSecured'
  OBVIOUS
<1>1. ASSUME NEW p \in acked PROVE Secured(p)'
  <2>1. p \in Provider /\ Secured(p)
    BY DEF Types, AckedIsSecured
  <2>2. \A c \in Client : req[c].pc = "authorize" => req[c].p # p
    BY <2>1 DEF NewIsUntouched, Untouched
  <2> QED
    BY <2>1, <2>2, SecuredStep
<1>2. ASSUME NEW c \in Client, NEW p, req[c].pc \in {"register", "finish"},
             req[c].p = p
      PROVE  Secured(p)'
  <2>1. p \in Provider /\ Secured(p)
    BY <1>2, ReqShape DEF Types, AckedIsSecured
  <2>2. \A d \in Client : req[d].pc = "authorize" => req[d].p # p
    BY <1>2, <2>1 DEF NewIsUntouched, On
  <2> QED
    BY <2>1, <2>2, SecuredStep
<1>3. ASSUME NEW c \in Client, NEW p \in acked', CompleteStored(c), req[c].p = p,
             p \notin acked, p \in Provider
      PROVE  Secured(p)'
  <2>1. req[c].creds > 0
    <3>1. req[c].pc = "write"
      BY <1>3 DEF CompleteStored
    <3>2. req[c].creds \in 1..MaxVersion
      BY <3>1, ReqShape DEF Types
    <3> QED
      BY <3>2, OAuthAssumption
  <2>2. Crosses(p) /\ row'[p].secret = "database" /\ row'[p].creds = req[c].creds
    BY <1>3, CompleteEffect
  <2>3. UNCHANGED <<remover, reload, dropped>>
    BY <1>3 DEF CompleteStored
  <2> QED
    BY <2>1, <2>2, <2>3 DEF Secured, Alive, Crosses
<1>4. ASSUME NEW c \in Client, StoreCursorCredentials(c), req'[c].pc = "register"
      PROVE  \A p : req'[c].p = p => Secured(p)'
  <2>1. PICK p \in Provider :
           /\ Crosses(p) /\ row'[p].secret = "token" /\ row'[p].creds = 1
           /\ req'[c].p = p
    BY <1>4, StoreEffect
  <2>2. UNCHANGED <<remover, reload, dropped>>
    BY <1>4 DEF StoreCursorCredentials
  <2> QED
    BY <2>1, <2>2 DEF Secured, Alive, Crosses
<1>5. ASSUME NEW p \in acked' PROVE Secured(p)'
  BY <1>1, <1>2, <1>3, AckEffect
<1>6. ASSUME NEW c \in Client, NEW p, req'[c].pc \in {"register", "finish"},
             req'[c].p = p
      PROVE  Secured(p)'
  <2>1. CASE req'[c] = req[c]
    BY <1>2, <1>6, <2>1
  <2>2. CASE RequestStep(c) /\ req'[c].pc = "register"
    BY <1>4, <1>6, <2>2, MoveEffect
  <2>3. CASE RequestStep(c) /\ req'[c].pc = "finish"
    <3>1. AddCursorProvider(c)
      BY <2>3, MoveEffect
    <3>2. req[c].pc = "register"
      BY <3>1 DEF AddCursorProvider
    <3>3. req[c].p = p
      BY <1>6, <2>3, <3>2, MoveEffect
    <3> QED
      BY <1>2, <3>2, <3>3
  <2> QED
    BY <1>6, <2>1, <2>2, <2>3, OthersStay
<1> QED
  BY <1>5, <1>6 DEF AckedIsSecured

\* Versions are stored by the store and by the cursor flow only, and what is on
\* record stays there.
LEMMA SavedEffect ==
    ASSUME [Next]_vars
    PROVE  /\ \/ saved' = saved \/ SaveWrites
              \/ \E c \in Client : StoreCursorCredentials(c)
           /\ overlap \subseteq overlap' /\ dropped \subseteq dropped'
<1>1. ASSUME NEW c \in Client, RequestStep(c)
      PROVE  /\ saved' = saved \/ StoreCursorCredentials(c)
             /\ UNCHANGED <<overlap, dropped>>
  BY <1>1 DEF RequestStep, CreatePending, PollOnce, GetProviderAuthorizationStatus,
       CompleteProviderAuthorization, Authorize, AuthorizeFails, CompleteStored,
       FindProviderOAuthCredentials, SubmitCallback, ProviderAuthorizationStatus,
       CleanupProviderOAuth, StoreCursorCredentials, AddCursorProvider, FinishCursor,
       history
<1>2. CASE Library \/ RemoverReads \/ RemoveFails \/ RestartReads \/ UNCHANGED vars
  BY <1>2 DEF Library, StartSave, StoreDeletes, SessionEnds, SaveReads, SaveWrites,
       SaveFails, RemoverReads, RemoveFails, RestartReads, vars, history
<1>3. ASSUME NEW q \in Provider, DeleteProvider(q) \/ TenMinutesPass(q) \/ Remove(q)
      PROVE  saved' = saved /\ overlap' = overlap /\ dropped \subseteq dropped'
  BY <1>3 DEF DeleteProvider, TenMinutesPass, Remove, history
<1>4. ASSUME NEW q \in Cursor, RestartWritesBack(q)
      PROVE  UNCHANGED <<saved, overlap, dropped>>
  BY <1>4 DEF RestartWritesBack, history
<1> QED
  BY <1>1, <1>2, <1>3, <1>4 DEF Next

\* A Save of a provider nobody deletes stores the version after the last one;
\* a Delete stores none.
LEMMA SaveStores ==
    ASSUME Types, SaveIsNext, SaveWrites
    PROVE  /\ \A q \in Provider \ {save.p} : saved'[q] = saved[q]
           /\ Alive(save.p) /\ save.p \notin dropped => saved'[save.p] = save.creds
           /\ save.p \in Cursor => saved'[save.p] = saved[save.p]
<1>1. /\ save.pc = "put" /\ save.p \in Provider /\ save.creds \in 0..MaxVersion
      /\ saved[save.p] \in 0..MaxVersion
  BY SaveShape DEF SaveWrites, Types, TypeOK
<1>2. saved[save.p] \in Nat /\ save.creds \in Nat
  BY <1>1, OAuthAssumption
<1>3. Max({saved[save.p], save.creds})
        = IF saved[save.p] <= save.creds THEN save.creds ELSE saved[save.p]
  BY <1>2, MaxOfTwo
<1>4. CASE saved' = saved /\ ~Alive(save.p)
  BY <1>4
<1>5. CASE saved' = [saved EXCEPT ![save.p] = Max({@, save.creds})]
  <2>1. /\ \A q \in Provider \ {save.p} : saved'[q] = saved[q]
        /\ saved'[save.p] = IF saved[save.p] <= save.creds THEN save.creds
                            ELSE saved[save.p]
    BY <1>1, <1>3, <1>5 DEF Types, TypeOK
  <2> QED
    BY <1>1, <1>2, <2>1 DEF SaveIsNext
<1> QED
  BY <1>4, <1>5, SaveEffect

\* Every step keeps the stored credentials the newest ones.
LEMMA FreshStep ==
    /\ Types /\ NewIsUntouched /\ SaveIsNext /\ FreshCredentials /\ ReadIsFresh
    /\ [Next]_vars
    => FreshCredentials'
<1> SUFFICES ASSUME Types, NewIsUntouched, SaveIsNext, FreshCredentials, ReadIsFresh,
                    [Next]_vars,
                    NEW p \in Provider, p \notin overlap', p \notin dropped', Alive(p)'
             PROVE  row'[p].creds = saved'[p]
  BY DEF FreshCredentials
<1>1. /\ p \notin overlap /\ p \notin dropped
      /\ Alive(p) => row[p].creds = saved[p]
  BY SavedEffect DEF FreshCredentials
<1>2. CASE row'[p] = row[p] /\ saved'[p] = saved[p]
  BY <1>1, <1>2 DEF Alive
<1>3. CASE KeepsRows
  <2>1. saved' = saved
    BY <1>3 DEF KeepsRows, PollOnce, GetProviderAuthorizationStatus,
       CompleteProviderAuthorization, Authorize, FindProviderOAuthCredentials,
       SubmitCallback, ProviderAuthorizationStatus, AddCursorProvider, FinishCursor,
       StartSave, StoreDeletes, SessionEnds, SaveReads, SaveFails, RemoverReads,
       RemoveFails, RestartReads, vars, history
  <2> QED
    BY <1>2, <1>3, <2>1, RowsKept
<1>4. ASSUME NEW c \in Client, NEW q \in Provider, CreatePending(c, q)
      PROVE  row'[p].creds = saved'[p]
  <2>1. saved' = saved /\ row[q].secret = "unborn"
    BY <1>4 DEF CreatePending, history
  <2>2. Untouched(q)
    BY <2>1 DEF NewIsUntouched
  <2> QED
    BY <1>2, <1>4, <2>1, <2>2, CreateEffect DEF Untouched
<1>5. ASSUME NEW c \in Client, AuthorizeFails(c) \/ CleanupProviderOAuth(c)
      PROVE  row'[p].creds = saved'[p]
  <2>1. saved' = saved
    BY <1>5 DEF AuthorizeFails, CleanupProviderOAuth, history
  <2>2. row'[p] = row[p]
    BY <1>5, CleanupEffect DEF Alive
  <2> QED
    BY <1>2, <2>1, <2>2
<1>6. ASSUME NEW c \in Client, CompleteStored(c) PROVE row'[p].creds = saved'[p]
  <2>1. saved' = saved /\ req[c].pc = "write"
    BY <1>6 DEF CompleteStored
  <2>2. req[c].p = p => req[c].creds = saved[p]
    BY <1>1, <2>1 DEF ReadIsFresh
  <2>3. row'[p] = row[p] \/ (req[c].p = p /\ row'[p].creds = req[c].creds)
    BY <1>6, CompleteEffect
  <2> QED
    BY <1>2, <2>1, <2>2, <2>3
<1>7. ASSUME NEW c \in Client, StoreCursorCredentials(c)
      PROVE  row'[p].creds = saved'[p]
  <2>1. \/ row'[p] = row[p] /\ saved'[p] = saved[p]
        \/ row'[p].creds = 1 /\ saved'[p] = 1
    BY <1>7, StoreEffect DEF Types, TypeOK
  <2> QED
    BY <1>2, <2>1
<1>8. CASE SaveWrites
  <2>1. CASE p # save.p
    BY <1>2, <1>8, <2>1, SaveEffect, SaveStores
  <2>2. CASE p = save.p /\ Alive(p)
    BY <1>1, <1>8, <2>2, SaveEffect, SaveStores
  <2>3. CASE p = save.p /\ ~Alive(p)
    BY <1>8, <2>3, SaveEffect DEF Alive
  <2> QED
    BY <2>1, <2>2, <2>3
<1>9. ASSUME NEW q \in Provider, DeleteProvider(q) \/ Remove(q)
      PROVE  row'[p].creds = saved'[p]
  <2>1. saved' = saved
    BY <1>9 DEF DeleteProvider, Remove, history
  <2>2. row'[p] = row[p]
    BY <1>9, RemoveEffect DEF Alive
  <2> QED
    BY <1>2, <2>1, <2>2
<1>10. ASSUME NEW q \in Provider, TenMinutesPass(q) PROVE row'[p].creds = saved'[p]
  <2>1. saved' = saved /\ row[q].secret = "pending"
    BY <1>10 DEF TenMinutesPass, history
  <2> QED
    BY <1>1, <1>2, <1>10, <2>1, AgeEffect DEF Alive
<1>11. ASSUME NEW q \in Cursor, RestartWritesBack(q) PROVE row'[p].creds = saved'[p]
  <2>1. saved' = saved
    BY <1>11 DEF RestartWritesBack, history
  <2>2. row'[p] = row[p] \/ (Alive(p) /\ row'[p].creds = row[p].creds)
    BY <1>11, BackEffect DEF Types
  <2> QED
    BY <1>1, <1>2, <2>1, <2>2
<1> QED
  BY <1>3, <1>4, <1>5, <1>6, <1>7, <1>8, <1>9, <1>10, <1>11
     DEF Next, RequestStep, Library, KeepsRows

\* Every step keeps what completions have read as fresh as it was.
LEMMA ReadStep ==
    Types /\ SaveIsNext /\ FreshCredentials /\ ReadIsFresh /\ [Next]_vars => ReadIsFresh'
<1> SUFFICES ASSUME Types, SaveIsNext, FreshCredentials, ReadIsFresh, [Next]_vars
             PROVE  ReadIsFresh'
  OBVIOUS
<1>1. ASSUME NEW p \in Cursor PROVE saved'[p] <= 1
  <2>1. p \in Provider /\ saved[p] <= 1
    BY OAuthAssumption DEF ReadIsFresh
  <2>2. CASE saved' = saved
    BY <2>1, <2>2
  <2>3. CASE SaveWrites
    <3>1. saved'[p] = saved[p]
      BY <2>1, <2>3, SaveStores
    <3> QED
      BY <2>1, <3>1
  <2>4. ASSUME NEW c \in Client, StoreCursorCredentials(c) PROVE saved'[p] <= 1
    <3>1. saved'[p] = saved[p] \/ saved'[p] = 1
      BY <2>1, <2>4, StoreEffect DEF Types, TypeOK
    <3> QED
      BY <2>1, <3>1
  <2> QED
    BY <2>2, <2>3, <2>4, SavedEffect
<1>2. ASSUME NEW c \in Client, NEW p \in Provider, req[c].pc = "write", req[c].p = p,
             p \notin overlap', p \notin dropped'
      PROVE  saved'[p] = req[c].creds
  <2>1. saved[p] = req[c].creds
    BY <1>2, SavedEffect DEF ReadIsFresh
  <2>2. CASE saved' = saved
    BY <2>1, <2>2
  <2>3. CASE SaveWrites
    <3>1. p # save.p
      BY <1>2, <2>3 DEF SaveWrites
    <3> QED
      BY <2>1, <2>3, <3>1, SaveStores
  <2>4. ASSUME NEW d \in Client, StoreCursorCredentials(d)
        PROVE  saved'[p] = req[c].creds
    <3>1. req[c].creds \in 1..MaxVersion
      BY <1>2, ReqShape DEF Types
    <3>2. p \in Cursor => req[c].creds = 1
      BY <2>1, <3>1, OAuthAssumption DEF ReadIsFresh
    <3>3. saved'[p] = saved[p] \/ (p \in Cursor /\ saved'[p] = 1)
      BY <2>4, StoreEffect DEF Types, TypeOK
    <3> QED
      BY <2>1, <3>2, <3>3
  <2> QED
    BY <2>2, <2>3, <2>4, SavedEffect
<1>3. ASSUME NEW c \in Client, req'[c].pc = "write",
             req'[c].p \notin overlap', req'[c].p \notin dropped'
      PROVE  req'[c].creds = saved'[req'[c].p]
  <2>1. CASE req'[c] = req[c]
    <3>1. req[c].p \in Provider
      BY <1>3, <2>1, ReqShape DEF Types
    <3> QED
      BY <1>2, <1>3, <2>1, <3>1
  <2>2. CASE RequestStep(c)
    <3>1. FindProviderOAuthCredentials(c)
      BY <1>3, <2>2, MoveEffect
    <3>2. saved' = saved
      BY <3>1 DEF FindProviderOAuthCredentials, history
    <3>3. PICK p \in Provider : /\ p = req[c].p /\ req'[c].p = p /\ Alive(p)
                                /\ req'[c].creds = row[p].creds
      BY <1>3, <3>1, FindEffect
    <3> QED
      BY <1>3, <3>2, <3>3, SavedEffect DEF FreshCredentials
  <2> QED
    BY <2>1, <2>2, OthersStay
<1> QED
  BY <1>1, <1>3 DEF ReadIsFresh

\* A step that moves no poll of a cursor login and adds no entry or flow keeps
\* the count of entries right.
LEMMA EntriesKept ==
    ASSUME EntriesFinish, UNCHANGED entries, flows' \subseteq flows, again \subseteq again',
           \A c \in Client, q \in Cursor : /\ Polling(c, q)' => Polling(c, q)
                                           /\ Finishing(c, q) => Finishing(c, q)'
    PROVE  EntriesFinish'
BY DEF EntriesFinish

\* Every step keeps the count of entries right.
LEMMA EntriesStep ==
    Types /\ NewIsUntouched /\ EntriesFinish /\ [Next]_vars => EntriesFinish'
<1> SUFFICES ASSUME Types, NewIsUntouched, EntriesFinish, [Next]_vars
             PROVE  EntriesFinish'
  OBVIOUS
<1> DEFINE Polls == {"store", "register", "finish"}
<1>1. ASSUME NEW c \in Client, RequestStep(c), req[c].pc \notin Polls,
             req'[c].pc \notin Polls
      PROVE  \A d \in Client, q \in Cursor : /\ Polling(d, q)' => Polling(d, q)
                                             /\ Finishing(d, q) => Finishing(d, q)'
  BY <1>1, MoveEffect DEF Polling, Finishing
<1>2. ASSUME NEW c \in Client, NEW p \in Provider,
             \/ CreatePending(c, p) \/ GetProviderAuthorizationStatus(c, p)
             \/ CompleteProviderAuthorization(c, p)
      PROVE  EntriesFinish'
  <2>1. /\ UNCHANGED <<entries, flows, again>> /\ req[c].pc = "idle"
        /\ req'[c].pc \in {"authorize", "read"}
    BY <1>2 DEF CreatePending, GetProviderAuthorizationStatus, Goto, Idle, Types,
                CompleteProviderAuthorization, history
  <2> QED
    BY <1>1, <1>2, <2>1, EntriesKept DEF RequestStep
<1>3. ASSUME NEW c \in Client,
             \/ AuthorizeFails(c) \/ FindProviderOAuthCredentials(c)
             \/ CompleteStored(c) \/ SubmitCallback(c)
             \/ ProviderAuthorizationStatus(c) \/ CleanupProviderOAuth(c)
      PROVE  EntriesFinish'
  <2>1. /\ UNCHANGED <<entries, flows, again>> /\ req[c].pc \notin Polls
        /\ RequestStep(c) /\ req[c].pc # "idle"
    BY <1>3 DEF AuthorizeFails, FindProviderOAuthCredentials, CompleteStored,
         SubmitCallback, ProviderAuthorizationStatus, CleanupProviderOAuth, history,
         RequestStep
  <2>2. req'[c].pc \notin {"register", "finish"}
    BY <2>1, MoveEffect DEF StoreCursorCredentials, AddCursorProvider
  <2>3. req'[c].pc # "store"
    <3>1. CASE AuthorizeFails(c) \/ CompleteStored(c) \/ CleanupProviderOAuth(c)
      BY <3>1 DEF AuthorizeFails, CompleteStored, CleanupProviderOAuth, Goto, Idle, Types
    <3>2. CASE FindProviderOAuthCredentials(c)
      BY <3>2, FindEffect
    <3>3. CASE ProviderAuthorizationStatus(c)
      BY <3>3, StatusEffect
    <3>4. CASE SubmitCallback(c)
      BY <3>4 DEF SubmitCallback, Goto, Types
    <3> QED
      BY <1>3, <3>1, <3>2, <3>3, <3>4
  <2> QED
    BY <1>1, <2>1, <2>2, <2>3, EntriesKept
<1>4. ASSUME NEW c \in Client, Authorize(c) PROVE EntriesFinish'
  <2>1. PICK p \in Provider : p = req[c].p
    BY <1>4, ReqShape DEF Authorize, Types
  <2>2. req[c].pc = "authorize" /\ req'[c].pc = "idle" /\ RequestStep(c)
    BY <1>4 DEF Authorize, Goto, Idle, Types, RequestStep
  <2>3. p \in Cursor => entries[p] = 0
    BY <2>1, <2>2 DEF NewIsUntouched, Untouched
  <2>4. /\ UNCHANGED <<entries, again>>
        /\ \A q \in Cursor : q # p => (q \in flows' => q \in flows)
    BY <1>4, <2>1 DEF Authorize, history
  <2>5. \A d \in Client, q \in Cursor : /\ Polling(d, q)' => Polling(d, q)
                                        /\ Finishing(d, q) => Finishing(d, q)'
    BY <1>1, <2>2
  <2>6. \A q \in Cursor \ again : q # p =>
           /\ entries'[q] > 0 => \/ \E d \in Client : Finishing(d, q)'
                                 \/ q \notin flows' /\ \A d \in Client : ~Polling(d, q)'
           /\ entries'[q] > 1 => \E d, e \in Client :
                                    d # e /\ Finishing(d, q)' /\ Finishing(e, q)'
    BY <2>4, <2>5 DEF EntriesFinish
  <2> QED
    BY <2>3, <2>4, <2>6 DEF EntriesFinish
<1>5. ASSUME NEW c \in Client, NEW p \in Provider, PollOnce(c, p)
      PROVE  EntriesFinish'
  <2>1. /\ UNCHANGED <<entries, again>> /\ flows' \subseteq flows /\ p \in flows
        /\ req[c].pc = "idle" /\ RequestStep(c)
    BY <1>5 DEF PollOnce, Idle, RequestStep
  <2>2. CASE req'[c].pc = "idle"
    BY <1>1, <2>1, <2>2, EntriesKept
  <2>3. CASE req'[c].pc = "store" /\ req'[c].p = p
    <3>1. /\ \A d \in Client, q \in Cursor : Finishing(d, q) => Finishing(d, q)'
          /\ \A d \in Client, q \in Cursor : q # p => (Polling(d, q)' => Polling(d, q))
      BY <2>1, <2>3, MoveEffect DEF Finishing, Polling
    <3>2. p \in Cursor \ again /\ entries[p] > 0 => \E d \in Client : Finishing(d, p)
      BY <2>1 DEF EntriesFinish
    <3> QED
      BY <2>1, <3>1, <3>2 DEF EntriesFinish
  <2> QED
    BY <1>5, <2>2, <2>3 DEF PollOnce, Goto, Idle, Types
<1>6. ASSUME NEW c \in Client, StoreCursorCredentials(c) PROVE EntriesFinish'
  <2>1. UNCHANGED <<entries, again, flows>> /\ req[c].pc = "store"
    BY <1>6 DEF StoreCursorCredentials
  <2>2. \A d \in Client, q \in Cursor : /\ Polling(d, q)' => Polling(d, q)
                                        /\ Finishing(d, q) => Finishing(d, q)'
    BY <1>6, <2>1, StoreEffect DEF Polling, Finishing
  <2> QED
    BY <2>1, <2>2, EntriesKept
<1>7. ASSUME NEW c \in Client, AddCursorProvider(c) PROVE EntriesFinish'
  <2>1. PICK p \in Cursor : p = req[c].p
    BY <1>7, ReqShape DEF AddCursorProvider, Types
  <2>2. /\ req[c].pc = "register" /\ flows' = flows
        /\ entries' = [entries EXCEPT ![p] = @ + 1]
        /\ \/ Goto(c, [pc |-> "finish", p |-> p]) /\ UNCHANGED again
           \/ Goto(c, Idle) /\ again' = again \cup {p}
    BY <1>7, <2>1 DEF AddCursorProvider
  <2>3. /\ \A q \in Cursor \ {p} : entries'[q] = entries[q]
        /\ entries'[p] = entries[p] + 1 /\ entries[p] \in Nat
    BY <2>2 DEF Types, TypeOK
  <2>4. \A d \in Client \ {c} : req'[d] = req[d]
    BY <2>2 DEF Goto, Types
  <2>5. CASE Goto(c, Idle) /\ again' = again \cup {p}
    <3>1. req'[c].pc = "idle"
      BY <2>5 DEF Goto, Idle, Types
    <3>2. \A d \in Client, q \in Cursor : /\ Polling(d, q)' => Polling(d, q)
                                          /\ Finishing(d, q) => Finishing(d, q)'
      BY <2>2, <2>4, <3>1 DEF Polling, Finishing
    <3> QED
      BY <2>2, <2>3, <2>5, <3>2 DEF EntriesFinish
  <2>6. CASE Goto(c, [pc |-> "finish", p |-> p]) /\ UNCHANGED again
    <3>1. req'[c].pc = "finish" /\ req'[c].p = p
      <4>1. req'[c] = [pc |-> "finish", p |-> p]
        BY <2>6 DEF Goto, Types
      <4> QED
        BY <4>1
    <3>2. /\ \A d \in Client, q \in Cursor : Finishing(d, q) => Finishing(d, q)'
          /\ \A d \in Client, q \in Cursor : q # p => (Polling(d, q)' => Polling(d, q))
          /\ Finishing(c, p)' /\ ~Finishing(c, p) /\ Polling(c, p)
      BY <2>1, <2>2, <2>4, <3>1 DEF Polling, Finishing
    <3>3. p \notin again /\ entries[p] > 0 =>
             \E d \in Client : d # c /\ Finishing(d, p)
      BY <3>2 DEF EntriesFinish
    <3>4. p \notin again /\ entries'[p] > 1 =>
             \E d, e \in Client : d # e /\ Finishing(d, p)' /\ Finishing(e, p)'
      BY <2>3, <3>2, <3>3
    <3> QED
      BY <2>2, <2>3, <2>6, <3>2, <3>4 DEF EntriesFinish
  <2> QED
    BY <2>2, <2>5, <2>6
<1>8. ASSUME NEW c \in Client, FinishCursor(c) PROVE EntriesFinish'
  <2>1. PICK p \in Cursor : p = req[c].p
    BY <1>8, ReqShape DEF FinishCursor, Types
  <2>2. /\ req[c].pc = "finish" /\ flows' = flows \ {p} /\ entries' = entries
        /\ again' = IF \E d \in Client \ {c} : Polling(d, p)
                    THEN again \cup {p} ELSE again
    BY <1>8, <2>1 DEF FinishCursor, Polling
  <2>3. req'[c].pc = "idle" /\ \A d \in Client \ {c} : req'[d] = req[d]
    BY <1>8 DEF FinishCursor, Goto, Idle, Types
  <2>4. /\ \A d \in Client, q \in Cursor : Polling(d, q)' => Polling(d, q)
        /\ \A d \in Client, q \in Cursor : q # p /\ Finishing(d, q) => Finishing(d, q)'
    BY <2>1, <2>2, <2>3 DEF Polling, Finishing
  <2>5. ASSUME p \notin again'
        PROVE  ~(entries[p] > 1) /\ \A d \in Client : ~Polling(d, p)'
    <3>1. \A d \in Client \ {c} : ~Polling(d, p) /\ ~Finishing(d, p)
      BY <2>2, <2>5 DEF Polling, Finishing
    <3>2. p \notin again
      BY <2>2, <2>5
    <3>3. \A d \in Client : ~Polling(d, p)'
      BY <2>3, <3>1 DEF Polling
    <3> QED
      BY <3>1, <3>2, <3>3 DEF EntriesFinish
  <2>6. again \subseteq again'
    BY <2>2
  <2>7. ASSUME NEW q \in Cursor \ again', q # p
        PROVE  /\ entries[q] > 0 => \/ \E d \in Client : Finishing(d, q)'
                                    \/ q \notin flows' /\ \A d \in Client : ~Polling(d, q)'
               /\ entries[q] > 1 => \E d, e \in Client :
                                       d # e /\ Finishing(d, q)' /\ Finishing(e, q)'
    BY <2>2, <2>4, <2>6, <2>7 DEF EntriesFinish
  <2> QED
    BY <2>2, <2>5, <2>7 DEF EntriesFinish
<1>9. CASE UNCHANGED <<entries, flows, again, req>>
  BY <1>9, EntriesKept DEF Polling, Finishing
<1>10. CASE Library \/ RemoverReads \/ RemoveFails \/ RestartReads \/ UNCHANGED vars
  BY <1>9, <1>10 DEF Library, StartSave, StoreDeletes, SessionEnds, SaveReads,
       SaveWrites, SaveFails, RemoverReads, RemoveFails, RestartReads, vars, history
<1>11. ASSUME NEW p \in Provider, DeleteProvider(p) \/ TenMinutesPass(p) \/ Remove(p)
       PROVE  EntriesFinish'
  BY <1>9, <1>11 DEF DeleteProvider, TenMinutesPass, Remove, history
<1>12. ASSUME NEW p \in Cursor, RestartWritesBack(p) PROVE EntriesFinish'
  BY <1>9, <1>12 DEF RestartWritesBack, history
<1> QED
  BY <1>2, <1>3, <1>4, <1>5, <1>6, <1>7, <1>8, <1>10, <1>11, <1>12 DEF Next, RequestStep

----------------------------------------------------------------------------
(* The theorems. *)

\* The invariant holds in every state.
THEOREM OAuthInvariant == Spec => []OAuthInv
<1>1. Init => OAuthInv
  <2> SUFFICES ASSUME Init PROVE OAuthInv
    OBVIOUS
  <2>1. Types
    BY TypesInit
  <2>2. \A c \in Client : req[c].pc = "idle"
    BY DEF Init, Idle
  <2>3. \A p \in Provider : row[p].creds = 0 /\ row[p].secret = "unborn"
    BY DEF Init
  <2>4. save.pc = "idle"
    BY DEF Init, Idle
  <2>5. NewIsUntouched
    BY <2>2, <2>3, <2>4 DEF Init, NewIsUntouched, Untouched, On
  <2>6. SaveIsNext /\ StoredIsAlive /\ AckedIsSecured
    BY <2>2, <2>3, <2>4 DEF SaveIsNext, StoredIsAlive, AckedIsSecured, Init
  <2>7. FailureIsCrossed /\ FreshCredentials
    BY <2>2, <2>3 DEF FailureIsCrossed, FreshCredentials, Init
  <2>8. ReadIsFresh /\ EntriesFinish
    BY <2>2, OAuthAssumption DEF ReadIsFresh, EntriesFinish, Init
  <2> QED
    BY <2>1, <2>5, <2>6, <2>7, <2>8 DEF OAuthInv
<1>2. OAuthInv /\ [Next]_vars => OAuthInv'
  BY TypesStep, NewStep, SaveNextStep, StoredStep, FailureStep, AckedStep, FreshStep,
     ReadStep, EntriesStep DEF OAuthInv
<1> QED
  BY <1>1, <1>2, PTL DEF Spec

\* A provider reported "ok" keeps its credentials until somebody deletes them
\* or it, unless its login failed too, or provider_remover or a restart of the
\* proxy had read its row as pending, for any number of overlapping polls,
\* refreshes, passes and restarts.
THEOREM AcknowledgedSurvive == Spec => []AckedSurvives
<1>1. OAuthInv => AckedSurvives
  BY DEF OAuthInv, Types, AckedIsSecured, Secured, AckedSurvives
<1> QED
  BY <1>1, OAuthInvariant, PTL

\* The row holds the credentials stored last, unless a refresh came between
\* the two statements of a completion (completeStoredProviderAuthorization).
THEOREM CredentialsAreFresh == Spec => []FreshCredentials
<1>1. OAuthInv => FreshCredentials
  BY DEF OAuthInv
<1> QED
  BY <1>1, OAuthInvariant, PTL

\* cursorProviderAuthorizationStatus puts a login into the configuration once,
\* unless two polls of it overlap or a registration fails and is tried again.
THEOREM CursorIsRegisteredOnce == Spec => []CursorRegisteredOnce
<1>1. OAuthInv => CursorRegisteredOnce
  <2> SUFFICES ASSUME OAuthInv, NEW p \in Cursor \ again,
                      \A c \in Client : req[c].pc \notin {"store", "register", "finish"}
               PROVE  entries[p] <= 1
    BY DEF CursorRegisteredOnce
  <2>1. entries[p] \in Nat
    BY DEF OAuthInv, Types, TypeOK
  <2>2. ~(entries[p] > 1)
    BY DEF OAuthInv, EntriesFinish, Finishing
  <2> QED
    BY <2>1, <2>2
<1> QED
  BY <1>1, OAuthInvariant, PTL
=============================================================================
