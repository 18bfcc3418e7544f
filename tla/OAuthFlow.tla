----------------------------- MODULE OAuthFlow -----------------------------
(***************************************************************************)
(* Provider authorization.  A panel request creates a provider row with    *)
(* the secret "oauth:pending" and opens a session at CLIProxyAPI, or a     *)
(* login flow of the cursor client.  The library stores the credentials    *)
(* through ProviderCredentialStore when the user has agreed, and again at  *)
(* every refresh; the panel polls until it finds them and acknowledges.    *)
(* The cron provider_remover deletes rows that stayed pending.             *)
(*                                                                         *)
(* Credentials are a version number, 0 for none: every Save of the store   *)
(* brings a newer one.  A request or a Save reads the row and writes it in *)
(* two statements.  An UPDATE or DELETE of a deleted row changes nothing.  *)
(* An UPDATE of the credentials is followed by a read, which may fail.     *)
(*                                                                         *)
(* A restart of the proxy, whoever asks for it, reads the table and writes *)
(* the rows of cursor providers back; the row is in ProviderRegistry, here *)
(* are its secret and its updated_at.                                      *)
(***************************************************************************)
EXTENDS Integers, FiniteSets, FiniteSetsExt

CONSTANTS
    Provider,   \* ids of rows, numbered in the order of GetProviders
    Cursor,     \* those of type cursor
    Callback,   \* those whose vendor wants the callback URL submitted
    Client,     \* panel requests in progress
    MaxVersion, \* bound: versions of credentials
    MaxInput    \* bound: requests, logins, refreshes, vendor failures

ASSUME OAuthAssumption ==
    /\ Provider \subseteq Nat /\ Cursor \cup Callback \subseteq Provider
    /\ Cursor \cap Callback = {} /\ MaxVersion \in Nat \ {0} /\ MaxInput \in Nat

VARIABLES
    row,        \* row[p]: secret, credentials, and updated_at is 10 minutes old
    session,    \* the library's session of p's state
    flows,      \* cursorOAuthFlows
    req,        \* req[c]: the request client c is in
    save,       \* the Save or Delete of the credential store under way
    remover,    \* rows the pass of provider_remover has still to delete
    reload,     \* reload[p]: the secret a restart has read and is to write back
    entries,    \* how often a cursor provider was put into the configuration
    acked,      \* history: providers reported "ok" to the panel
    saved,      \* history: the version stored last, by the store or the cursor flow
    dropped,    \* history: rows or credentials somebody meant to delete
    crossed,    \* history: the login failed, or was stored or acknowledged when
                \* the remover or a restart had read its row as pending
    overlap,    \* history: saved between a request's read and its write
    again,      \* history: cursor logins registered twice or after a failure
    inputs

history == <<acked, saved, dropped, crossed, overlap, again>>
vars == <<row, session, flows, req, save, remover, reload, entries, history, inputs>>

Idle == [pc |-> "idle"]
Input == inputs < MaxInput /\ inputs' = inputs + 1
Goto(c, r) == req' = [req EXCEPT ![c] = r]
Alive(p) == row[p].secret \notin {"unborn", "deleted"}

Init ==
    /\ row = [p \in Provider |-> [secret |-> "unborn", creds |-> 0, old |-> FALSE]]
    /\ session = [p \in Provider |-> "none"] /\ flows = {}
    /\ req = [c \in Client |-> Idle] /\ save = Idle /\ remover = {}
    /\ reload = [p \in Cursor |-> "none"]
    /\ entries = [p \in Cursor |-> 0]
    /\ acked = {} /\ saved = [p \in Provider |-> 0] /\ dropped = {}
    /\ crossed = {} /\ overlap = {} /\ again = {} /\ inputs = 0

----------------------------------------------------------------------------
(* Statements of provider_repo. *)

UpdateProviderCredentials(p, secret, creds) ==
    row' = IF Alive(p)
           THEN [row EXCEPT ![p] = [secret |-> secret, creds |-> creds, old |-> FALSE]]
           ELSE row

DeleteRow(p) ==
    row' = IF Alive(p)
           THEN [row EXCEPT ![p] = [secret |-> "deleted", creds |-> 0, old |-> FALSE]]
           ELSE row

\* p is completed while the remover is about to delete it, or a restart to
\* write "pending" back.
Crosses(p) ==
    crossed' = IF p \in remover \/ (p \in Cursor /\ reload[p] = "pending")
               THEN crossed \cup {p} ELSE crossed

----------------------------------------------------------------------------
(* CreateProviderAuthorization and createCursorProviderAuthorization. *)

CreatePending(c, p) ==
    /\ req[c] = Idle /\ row[p].secret = "unborn" /\ Input
    /\ row' = [row EXCEPT ![p].secret = "pending"]
    /\ Goto(c, [pc |-> "authorize", p |-> p])
    /\ UNCHANGED <<session, flows, save, remover, reload, entries, history>>

Authorize(c) ==
    /\ req[c].pc = "authorize"
    /\ session' = [session EXCEPT ![req[c].p] = "wait"]
    /\ flows' = flows \cup ({req[c].p} \cap Cursor)
    /\ Goto(c, Idle)
    /\ UNCHANGED <<row, save, remover, reload, entries, history, inputs>>

\* The answer is an error; the row is deleted unless that fails too.
AuthorizeFails(c) ==
    /\ req[c].pc = "authorize"
    /\ DeleteRow(req[c].p) \/ UNCHANGED row
    /\ Goto(c, Idle)
    /\ UNCHANGED <<session, flows, save, remover, reload, entries, history, inputs>>

----------------------------------------------------------------------------
(* CompleteProviderAuthorization and GetProviderAuthorizationStatus: where a *)
(* request goes on when it finds no stored credentials is its field then.   *)

GetProviderAuthorizationStatus(c, p) ==
    /\ req[c] = Idle /\ p \notin flows /\ session[p] = "wait" /\ Input
    /\ Goto(c, [pc |-> "read", p |-> p, then |-> "status"])
    /\ UNCHANGED <<row, session, flows, save, remover, reload, entries, history>>

CompleteProviderAuthorization(c, p) ==
    /\ req[c] = Idle /\ session[p] # "none" /\ Input
    /\ Goto(c, [pc |-> "read", p |-> p,
                then |-> IF p \in Callback THEN "submit" ELSE "status"])
    /\ UNCHANGED <<row, session, flows, save, remover, reload, entries, history>>

\* The first statement of completeStoredProviderAuthorization; a failing one
\* counts as nothing found.
FindProviderOAuthCredentials(c) ==
    /\ req[c].pc = "read"
    /\ \/ /\ Alive(req[c].p) /\ row[req[c].p].creds > 0
          /\ Goto(c, [pc |-> "write", p |-> req[c].p, creds |-> row[req[c].p].creds])
       \/ Goto(c, IF req[c].then = "answer" THEN Idle
                  ELSE [pc |-> req[c].then, p |-> req[c].p])
    /\ UNCHANGED <<row, session, flows, save, remover, reload, entries, history, inputs>>

\* Its second statement writes what the first has read; if it fails, or the
\* row cannot be read again, the answer is an error.
CompleteStored(c) ==
    /\ req[c].pc = "write"
    /\ \/ /\ UpdateProviderCredentials(req[c].p, "database", req[c].creds)
          /\ \/ acked' = acked
             \/ Alive(req[c].p) /\ acked' = acked \cup {req[c].p}
          /\ Crosses(req[c].p)
       \/ UNCHANGED <<row, acked, crossed>>
    /\ Goto(c, Idle)
    /\ UNCHANGED <<session, flows, save, remover, reload, entries, saved, dropped, overlap,
                   again, inputs>>

\* The library that is given the callback may start to save, answered or not.
SubmitCallback(c) ==
    /\ req[c].pc = "submit"
    /\ LET p == req[c].p IN
          /\ \/ Goto(c, [pc |-> "status", p |-> p])
             \/ Goto(c, [pc |-> "read", p |-> p, then |-> "answer"])
          /\ \/ /\ save = Idle /\ session[p] = "wait" /\ saved[p] < MaxVersion
                /\ save' = [pc |-> "get", p |-> p]
             \/ UNCHANGED save
    /\ UNCHANGED <<row, session, flows, remover, reload, entries, history, inputs>>

ProviderAuthorizationStatus(c) ==
    /\ req[c].pc = "status"
    /\ Goto(c, CASE session[req[c].p] = "error" -> [pc |-> "cleanup", p |-> req[c].p]
                 [] session[req[c].p] = "ok"    -> [pc |-> "read", p |-> req[c].p,
                                                    then |-> "answer"]
                 [] OTHER                       -> Idle)
    /\ UNCHANGED <<row, session, flows, save, remover, reload, entries, history, inputs>>

\* The result of the statement is ignored.
CleanupProviderOAuth(c) ==
    /\ req[c].pc = "cleanup"
    /\ DeleteRow(req[c].p) \/ UNCHANGED row
    /\ Goto(c, Idle)
    /\ UNCHANGED <<session, flows, save, remover, reload, entries, history, inputs>>

----------------------------------------------------------------------------
(* cursorProviderAuthorizationStatus. *)

\* The flow is polled once; an answer without a token changes nothing.
PollOnce(c, p) ==
    /\ req[c] = Idle /\ p \in flows /\ Input
    /\ \/ /\ Goto(c, [pc |-> "store", p |-> p]) /\ UNCHANGED <<session, flows>>
          /\ UNCHANGED crossed
       \/ /\ session' = [session EXCEPT ![p] = "error"] /\ flows' = flows \ {p}
          /\ crossed' = crossed \cup {p} /\ UNCHANGED req
    /\ UNCHANGED <<row, save, remover, reload, entries, acked, saved, dropped, overlap, again>>

\* The login goes on only if the row was written and read again.
StoreCursorCredentials(c) ==
    /\ req[c].pc = "store"
    /\ LET p == req[c].p IN
          \/ /\ UpdateProviderCredentials(p, "token", 1)
             /\ saved' = IF Alive(p) THEN [saved EXCEPT ![p] = 1] ELSE saved
             /\ Goto(c, Idle) \/ (Alive(p) /\ Goto(c, [pc |-> "register", p |-> p]))
             /\ Crosses(p)
          \/ UNCHANGED <<row, saved, crossed>> /\ Goto(c, Idle)
    /\ UNCHANGED <<session, flows, save, remover, reload, entries, acked, dropped, overlap,
                   again, inputs>>

\* addProvider puts the entry into the configuration first; writing it or the
\* restart may fail, and then the flow stays.
AddCursorProvider(c) ==
    /\ req[c].pc = "register"
    /\ LET p == req[c].p IN
          /\ entries' = [entries EXCEPT ![p] = @ + 1]
          /\ \/ Goto(c, [pc |-> "finish", p |-> p]) /\ UNCHANGED again
             \/ Goto(c, Idle) /\ again' = again \cup {p}
    /\ UNCHANGED <<row, session, flows, save, remover, reload, acked, saved, dropped,
                   crossed, overlap, inputs>>

\* Mutant: the flow is kept.
FinishCursorKeepsFlow(c) ==
    /\ req[c].pc = "finish"
    /\ session' = [session EXCEPT ![req[c].p] = "none"]
    /\ acked' = acked \cup {req[c].p}
    /\ Goto(c, Idle)
    /\ UNCHANGED <<row, crossed, flows, save, remover, reload, entries, saved, dropped,
                   overlap, again, inputs>>

FinishCursor(c) ==
    /\ req[c].pc = "finish"
    /\ LET p == req[c].p IN
          /\ session' = [session EXCEPT ![p] = "none"] /\ flows' = flows \ {p}
          /\ acked' = acked \cup {p} /\ Crosses(p)
          /\ again' = IF \E d \in Client \ {c} : req[d].pc \in {"store", "register", "finish"}
                                                 /\ req[d].p = p
                      THEN again \cup {p} ELSE again
    /\ Goto(c, Idle)
    /\ UNCHANGED <<row, save, remover, reload, entries, saved, dropped, overlap, inputs>>

----------------------------------------------------------------------------
(* The library: sessions, and the calls it makes of ProviderCredentialStore. *)

\* The user agreed, or a token is refreshed.
StartSave(p) ==
    /\ save = Idle /\ Alive(p) /\ p \notin Cursor /\ saved[p] < MaxVersion /\ Input
    /\ session[p] = "wait" \/ row[p].creds > 0
    /\ save' = [pc |-> "get", p |-> p]
    /\ UNCHANGED <<row, session, flows, req, remover, reload, entries, history>>

SaveReads ==
    /\ save.pc = "get"
    /\ save' = IF Alive(save.p)
               THEN [pc |-> "put", p |-> save.p, creds |-> saved[save.p] + 1,
                     secret |-> IF row[save.p].secret = "pending" THEN "database"
                                ELSE row[save.p].secret]
               ELSE Idle
    /\ UNCHANGED <<row, session, flows, req, remover, reload, entries, history, inputs>>

\* Mutant: a second Save keeps the credentials of the first.
SaveFirstOnly ==
    /\ save.pc = "put"
    /\ LET p == save.p IN
          /\ UpdateProviderCredentials(p, save.secret, IF row[p].creds > 0 THEN row[p].creds
                                                       ELSE save.creds)
          /\ saved' = IF Alive(p) THEN [saved EXCEPT ![p] = save.creds] ELSE saved
          /\ session' = [session EXCEPT ![p] = "none"]
    /\ save' = Idle
    /\ UNCHANGED <<flows, req, remover, reload, entries, acked, dropped, crossed, overlap,
                   again, inputs>>

\* A login that is stored ends its session, unless the row cannot be read again.
SaveWrites ==
    /\ save.pc = "put"
    /\ LET p == save.p IN
          /\ UpdateProviderCredentials(p, save.secret, save.creds)
          /\ saved' = IF Alive(p) THEN [saved EXCEPT ![p] = Max({@, save.creds})] ELSE saved
          /\ overlap' = IF \E c \in Client : req[c].pc = "write" /\ req[c].p = p
                        THEN overlap \cup {p} ELSE overlap
          /\ \E s \in {session[p]} \cup (IF session[p] = "wait" THEN {"none", "ok"} ELSE {}) :
                session' = [session EXCEPT ![p] = s]
    /\ save' = Idle
    /\ UNCHANGED <<flows, req, remover, reload, entries, acked, dropped, crossed, again, inputs>>

SaveFails ==
    /\ save # Idle
    /\ save' = Idle
    /\ UNCHANGED <<row, session, flows, req, remover, reload, entries, history, inputs>>

\* Delete of the store, with its read: the credentials go, the secret stays.
StoreDeletes(p) ==
    /\ save = Idle /\ row[p].creds > 0 /\ Input
    /\ save' = [pc |-> "put", p |-> p, creds |-> 0, secret |-> row[p].secret]
    /\ dropped' = dropped \cup {p}
    /\ UNCHANGED <<row, session, flows, req, remover, reload, entries, acked, saved, crossed,
                   overlap, again>>

\* The vendor refuses the login, or the session expires.
SessionEnds(p) ==
    /\ session[p] = "wait" /\ Input
    /\ \/ session' = [session EXCEPT ![p] = "none"] /\ UNCHANGED crossed
       \/ session' = [session EXCEPT ![p] = "error"] /\ crossed' = crossed \cup {p}
    /\ UNCHANGED <<row, flows, req, save, remover, reload, entries, acked, saved, dropped,
                   overlap, again>>

----------------------------------------------------------------------------
(* DeleteProvider of the panel, and provider_remover. *)

DeleteProvider(p) ==
    /\ Alive(p) /\ Input
    /\ DeleteRow(p) /\ dropped' = dropped \cup {p}
    /\ UNCHANGED <<session, flows, req, save, remover, reload, entries, acked, saved, crossed,
                   overlap, again>>

TenMinutesPass(p) ==
    /\ row[p].secret = "pending" /\ ~row[p].old
    /\ row' = [row EXCEPT ![p].old = TRUE]
    /\ UNCHANGED <<session, flows, req, save, remover, reload, entries, history, inputs>>

Abandoned(p) == row[p].secret = "pending" /\ row[p].old

\* Mutant: pending is not asked for.
RemoverReadsOld ==
    /\ remover = {}
    /\ remover' = {p \in Provider : row[p].old \/ row[p].creds > 0}
    /\ UNCHANGED <<row, session, flows, req, save, reload, entries, history, inputs>>

RemoverReads ==
    /\ remover = {}
    /\ remover' = {p \in Provider : Abandoned(p)}
    /\ UNCHANGED <<row, session, flows, req, save, reload, entries, history, inputs>>

\* Mutant: the pass forgets the last row of its list.
RemoveButLast(p) ==
    /\ p \in remover /\ \A q \in remover : p <= q
    /\ IF remover = {p} THEN UNCHANGED row ELSE DeleteRow(p)
    /\ remover' = remover \ {p}
    /\ UNCHANGED <<session, flows, req, save, reload, entries, history, inputs>>

Remove(p) ==
    /\ p \in remover /\ \A q \in remover : p <= q
    /\ DeleteRow(p)
    /\ remover' = remover \ {p}
    /\ UNCHANGED <<session, flows, req, save, reload, entries, history, inputs>>

\* The first failing deletion ends the pass.
RemoveFails ==
    /\ remover # {}
    /\ remover' = {}
    /\ UNCHANGED <<row, session, flows, req, save, reload, entries, history, inputs>>

----------------------------------------------------------------------------
(* registerAllProvidersLocked, as far as it writes rows of the table back. *)

RestartReads ==
    /\ \A p \in Cursor : reload[p] = "none"
    /\ \E p \in Cursor : Alive(p)
    /\ Input
    /\ reload' = [p \in Cursor |-> IF Alive(p) THEN row[p].secret ELSE "none"]
    /\ UNCHANGED <<row, session, flows, req, save, remover, entries, history>>

\* Credentials are not among the columns.  Whether the UPDATE fails is ignored.
RestartWritesBack(p) ==
    /\ reload[p] # "none"
    /\ \/ row' = IF Alive(p) THEN [row EXCEPT ![p].secret = reload[p], ![p].old = FALSE]
                ELSE row
       \/ UNCHANGED row
    /\ reload' = [reload EXCEPT ![p] = "none"]
    /\ UNCHANGED <<session, flows, req, save, remover, entries, history, inputs>>

----------------------------------------------------------------------------
RequestStep(c) ==
    \/ \E p \in Provider : \/ CreatePending(c, p) \/ PollOnce(c, p)
                           \/ GetProviderAuthorizationStatus(c, p)
                           \/ CompleteProviderAuthorization(c, p)
    \/ Authorize(c) \/ AuthorizeFails(c)
    \/ FindProviderOAuthCredentials(c) \/ CompleteStored(c) \/ SubmitCallback(c)
    \/ ProviderAuthorizationStatus(c) \/ CleanupProviderOAuth(c)
    \/ StoreCursorCredentials(c) \/ AddCursorProvider(c) \/ FinishCursor(c)

Library ==
    \/ \E p \in Provider : StartSave(p) \/ StoreDeletes(p) \/ SessionEnds(p)
    \/ SaveReads \/ SaveWrites \/ SaveFails

Next ==
    \/ \E c \in Client : RequestStep(c)
    \/ Library
    \/ \E p \in Provider : DeleteProvider(p) \/ TenMinutesPass(p) \/ Remove(p)
    \/ RemoverReads \/ RemoveFails
    \/ RestartReads \/ \E p \in Cursor : RestartWritesBack(p)

Spec == Init /\ [][Next]_vars

\* Time passes, the cron runs, and a deletion that it tries again and again
\* succeeds some time.  Nothing is assumed of requests and of the library.
FairSpec ==
    /\ Spec
    /\ WF_vars(RemoverReads)
    /\ \A p \in Provider : WF_vars(TenMinutesPass(p)) /\ SF_vars(Remove(p))

----------------------------------------------------------------------------
Row == [secret : {"unborn", "deleted", "pending", "database", "token"},
        creds : 0..MaxVersion, old : BOOLEAN]

TypeOK ==
    /\ row \in [Provider -> Row]
    /\ session \in [Provider -> {"none", "wait", "error", "ok"}]
    /\ flows \subseteq Cursor /\ remover \subseteq Provider
    /\ reload \in [Cursor -> {"none", "pending", "database", "token"}]
    /\ entries \in [Cursor -> Nat] /\ saved \in [Provider -> 0..MaxVersion]
    /\ \A p \in Provider : row[p].old => row[p].secret = "pending"

\* A provider reported "ok" keeps credentials until somebody deletes them or
\* it, provided its login never failed as well and neither provider_remover nor
\* a restart of the proxy had read its row as pending when the login was stored:
\* the one then deletes it, the other writes "oauth:pending" back, and a later
\* pass of the remover deletes it (provider_oauth.go, app.go provider_remover,
\* registerAllProvidersLocked).
AckedSurvives ==
    /\ TypeOK
    /\ \A p \in acked \ (dropped \cup crossed) : Alive(p) /\ row[p].creds > 0

\* The row holds the credentials stored last: a completion that writes back
\* what it has read never undoes a refresh, unless the refresh came between
\* the two statements (completeStoredProviderAuthorization, Save).
FreshCredentials ==
    \A p \in Provider \ (overlap \cup dropped) : Alive(p) => row[p].creds = saved[p]

\* A cursor login is put into the configuration once, unless two polls of it
\* overlap or a registration fails and is tried again
\* (cursorProviderAuthorizationStatus).
CursorRegisteredOnce ==
    \A p \in Cursor \ again :
        (\A c \in Client : req[c].pc \notin {"store", "register", "finish"})
            => entries[p] <= 1

\* A login nobody finishes does not stay: its row is completed or removed,
\* though deletions fail and every failure ends a pass (app.go provider_remover).
AbandonedIsRemoved ==
    \A p \in Provider : row[p].secret = "pending" ~> row[p].secret # "pending"

=============================================================================
