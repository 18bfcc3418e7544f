---------------------------- MODULE KeyRegistry ----------------------------
(***************************************************************************)
(* The secrets of the api keys live in three places: the api_keys table,   *)
(* the server's CPAPIConfig object and config.yaml, which the embedded     *)
(* proxy reads.  The key handlers change the table first and then, under   *)
(* configMu, the object and the file.  A restart of the proxy builds a     *)
(* fresh object from the table and writes it to the same file, under       *)
(* cpapiMu only; addProvider holds configMu around it, ReloadProviders     *)
(* does not.                                                               *)
(*                                                                         *)
(* The secret of a key is its generation: <<k, n>> is the n-th secret that *)
(* generateToken made for key k.  The order of the list in the file, which *)
(* nothing depends on, is left out.                                        *)
(***************************************************************************)
EXTENDS Integers

CONSTANTS
    Keys,       \* api key ids
    Handlers,   \* key requests that may be in progress at once
    MaxSecret   \* bound: the secrets made for one key

ASSUME RegistryAssumption == Keys # {} /\ MaxSecret \in Nat \ {0}

VARIABLES
    status,   \* status[k]: "absent", "live" or "deleted"
    secret,   \* secret[k]: the generation in the row of k, 0 if absent
    mem,      \* CPAPIConfig.APIKeys of the server
    file,     \* api-keys in config.yaml
    task,     \* task[h]: where handler h is and what it has read and made
    adder,    \* the provider request that holds configMu: "none", "asking"
              \* a vendor, "waiting" for cpapiMu or "restarting"
    restart,  \* the restart that holds cpapiMu: "none" or how far it is;
              \* "asking" while it asks the vendors
    listed,   \* the secrets it has read from the table
    saved,    \* history: the last save or restart that set out to write
              \* the file did so
    crossed,  \* history: the keys two requests worked on at once, or that
              \* were rotated after their deletion
    reloaded  \* history: ReloadProviders was called

vars == <<status, secret, mem, file, task, adder, restart, listed, saved,
          crossed, reloaded>>

rowVars == <<status, secret>>
fileVars == <<mem, file, saved>>
restartVars == <<adder, restart, listed, reloaded>>

Secrets == Keys \X (1..MaxSecret)

\* drop: the secret the handler read; add: the one it made; 0 for none.
Task == [at   : {"idle", "delete", "rotate", "save"},
         key  : Keys,
         drop : 0..MaxSecret,
         add  : 0..MaxSecret]

NoTask == [at |-> "idle", key |-> CHOOSE k \in Keys : TRUE, drop |-> 0,
           add |-> 0]

Live == {k \in Keys : status[k] = "live"}

LiveSecrets == {<<k, secret[k]>> : k \in Live}

Idle(h) == task[h].at = "idle"

\* A request for k begins.
Enter(k) ==
    crossed' = IF \/ k \notin Live
                  \/ \E h \in Handlers : ~Idle(h) /\ task[h].key = k
                 THEN crossed \cup {k} ELSE crossed

Init ==
    /\ status = [k \in Keys |-> "absent"]
    /\ secret = [k \in Keys |-> 0]
    /\ mem = {}
    /\ file = {}
    /\ task = [h \in Handlers |-> NoTask]
    /\ adder = "none"
    /\ restart = "none"
    /\ listed = {}
    /\ saved = TRUE
    /\ crossed = {}
    /\ reloaded = FALSE

----------------------------------------------------------------------------
(***************************************************************************)
(* CreateApiKey, DeleteApiKey and RecreateApiKey: the statements before    *)
(* the lock.  A statement that fails ends the handler.                     *)
(***************************************************************************)
Continue(h, at, k, drop, add) ==
    task' = [task EXCEPT ![h] = [at |-> at, key |-> k, drop |-> drop,
                                 add |-> add]]

CreateApiKey(h, k) ==
    /\ Idle(h)
    /\ status[k] = "absent"
    /\ status' = [status EXCEPT ![k] = "live"]
    /\ secret' = [secret EXCEPT ![k] = 1]
    /\ Continue(h, "save", k, 0, 1)
    /\ UNCHANGED <<fileVars, restartVars, crossed>>

\* GetApiKeys finds the key: it is not deleted.
ReadForDelete(h, k) ==
    /\ Idle(h)
    /\ k \in Live
    /\ Enter(k)
    /\ Continue(h, "delete", k, secret[k], 0)
    /\ UNCHANGED <<rowVars, fileVars, restartVars>>

DeleteRow(h) ==
    /\ task[h].at = "delete"
    /\ status' = [status EXCEPT ![task[h].key] = "deleted"]
    /\ Continue(h, "save", task[h].key, task[h].drop, 0)
    /\ UNCHANGED <<secret, fileVars, restartVars, crossed>>

\* GetApiKeyByID finds deleted rows too.
ReadForRotate(h, k) ==
    /\ Idle(h)
    /\ status[k] # "absent"
    /\ Enter(k)
    /\ Continue(h, "rotate", k, secret[k], 0)
    /\ UNCHANGED <<rowVars, fileVars, restartVars>>

\* Mutant: the new secret is not passed on to the append.
RotateForgets(h) ==
    /\ task[h].at = "rotate"
    /\ secret[task[h].key] < MaxSecret
    /\ secret' = [secret EXCEPT ![task[h].key] = @ + 1]
    /\ Continue(h, "save", task[h].key, task[h].drop, 0)
    /\ UNCHANGED <<status, fileVars, restartVars, crossed>>

RotateRow(h) ==
    /\ task[h].at = "rotate"
    /\ secret[task[h].key] < MaxSecret
    /\ secret' = [secret EXCEPT ![task[h].key] = @ + 1]
    /\ Continue(h, "save", task[h].key, task[h].drop, secret'[task[h].key])
    /\ UNCHANGED <<status, fileVars, restartVars, crossed>>

StatementFails(h) ==
    /\ task[h].at \in {"delete", "rotate"}
    /\ task' = [task EXCEPT ![h] = NoTask]
    /\ UNCHANGED <<rowVars, fileVars, restartVars, crossed>>

----------------------------------------------------------------------------
(***************************************************************************)
(* ... and the part under configMu.                                        *)
(***************************************************************************)
Secret(k, n) == IF n = 0 THEN {} ELSE {<<k, n>>}

\* Mutant: the old secret stays in the list.
KeepOld(t) == mem \cup Secret(t.key, t.add)

\* removeString and append.
Edited(t) == (mem \ Secret(t.key, t.drop)) \cup Secret(t.key, t.add)

\* The save may fail: the object keeps the change, the file does not get it.
SaveKeys(h) ==
    /\ task[h].at = "save"
    /\ adder = "none"
    /\ mem' = Edited(task[h])
    /\ \/ file' = mem' /\ saved' = TRUE
       \/ saved' = FALSE /\ UNCHANGED file
    /\ task' = [task EXCEPT ![h] = NoTask]
    /\ UNCHANGED <<rowVars, restartVars, crossed>>

\* addProviderConfig, under configMu: a custom or opencode provider's vendor is
\* asked for its models, by a request without a deadline.
AskVendor ==
    /\ adder = "none"
    /\ adder' = "asking"
    /\ UNCHANGED <<rowVars, fileVars, task, restart, listed, crossed, reloaded>>

\* removeProvider, which asks nobody, and UpdateProvider, when the vendor has
\* answered, save the object as it is; so does an addProvider whose save
\* fails, which then returns.
SaveProviders ==
    /\ adder \in {"none", "asking"}
    /\ \/ file' = mem /\ saved' = TRUE
       \/ saved' = FALSE /\ UNCHANGED file
    /\ adder' = "none"
    /\ UNCHANGED <<rowVars, mem, task, restart, listed, crossed, reloaded>>

\* Mutant: configMu is released before the restart.
AddProviderUnlocked ==
    /\ adder = "asking" /\ restart = "none"
    /\ file' = mem /\ saved' = TRUE
    /\ adder' = "none"
    /\ restart' = "building"
    /\ UNCHANGED <<rowVars, mem, task, listed, crossed, reloaded>>

\* addProvider: save under configMu and keep it for the restart.
AddProvider ==
    /\ adder = "asking"
    /\ file' = mem /\ saved' = TRUE
    /\ adder' = "waiting"
    /\ UNCHANGED <<rowVars, mem, task, restart, listed, crossed, reloaded>>

----------------------------------------------------------------------------
(***************************************************************************)
(* RestartCPAPI, under cpapiMu.                                            *)
(***************************************************************************)
RestartForAdd ==
    /\ adder = "waiting" /\ restart = "none"
    /\ adder' = "restarting"
    /\ restart' = "building"
    /\ UNCHANGED <<rowVars, fileVars, task, listed, crossed, reloaded>>

ReloadProviders ==
    /\ restart = "none"
    /\ restart' = "building"
    /\ reloaded' = TRUE
    /\ UNCHANGED <<rowVars, fileVars, task, adder, listed, crossed>>

\* A save of the provider that fails is logged only.
ProviderSaves(keys) ==
    \/ file' = keys /\ saved' = TRUE
    \/ saved' = FALSE /\ UNCHANGED file

\* GetProviders, and then AddProviderConfig asks the vendors, under cpapiMu.
RestartAsks ==
    /\ restart = "building"
    /\ restart' = "asking"
    /\ UNCHANGED <<rowVars, fileVars, task, adder, listed, crossed, reloaded>>

\* The fresh object has no api keys yet when the providers are saved.
RegisterAllProviders ==
    /\ restart = "asking"
    /\ ProviderSaves({})
    /\ restart' = "providers"
    /\ UNCHANGED <<rowVars, mem, task, adder, listed, crossed, reloaded>>

\* registerAllKeysLocked: GetApiKeys ...
ReadAllKeys ==
    /\ restart = "providers"
    /\ listed' = LiveSecrets
    /\ restart' = "keys"
    /\ UNCHANGED <<rowVars, fileVars, task, adder, crossed, reloaded>>

\* addProvider, if it is the caller, releases configMu.
RestartReturns ==
    /\ restart' = "none"
    /\ listed' = {}
    /\ adder' = IF adder = "restarting" THEN "none" ELSE adder

\* ... and the save.
SaveAllKeys ==
    /\ restart = "keys"
    /\ ProviderSaves(listed)
    /\ RestartReturns
    /\ UNCHANGED <<rowVars, mem, task, crossed, reloaded>>

\* Mutant: the error path does not release configMu.
RestartFailsLocked ==
    /\ restart \in {"building", "providers"}
    /\ saved' = FALSE
    /\ restart' = "none"
    /\ listed' = {}
    /\ UNCHANGED <<rowVars, mem, file, task, adder, crossed, reloaded>>

\* GetProviders or GetApiKeys fails.  After the former the file is as it
\* was; after the latter it lists no keys.
RestartFails ==
    /\ restart \in {"building", "providers"}
    /\ saved' = FALSE
    /\ RestartReturns
    /\ UNCHANGED <<rowVars, mem, file, task, crossed, reloaded>>

----------------------------------------------------------------------------
Statement(h) == DeleteRow(h) \/ RotateRow(h) \/ StatementFails(h)

Restart == \/ RestartForAdd \/ RestartAsks
           \/ RegisterAllProviders \/ ReadAllKeys \/ SaveAllKeys
           \/ RestartFails

Next ==
    \/ \E h \in Handlers :
         \/ \E k \in Keys : \/ CreateApiKey(h, k)
                            \/ ReadForDelete(h, k)
                            \/ ReadForRotate(h, k)
         \/ Statement(h)
         \/ SaveKeys(h)
    \/ AskVendor \/ AddProvider \/ SaveProviders \/ ReloadProviders
    \/ Restart

Spec == Init /\ [][Next]_vars

(***************************************************************************)
(* Statements return.  A waiter gets configMu in the end: a Go mutex hands *)
(* itself to a waiter that has starved, so the fairness of the steps that  *)
(* take it is strong, although other holders come first again and again;   *)
(* likewise cpapiMu.  Nothing makes a vendor answer: the requests of       *)
(* CustomProvider and ProviderOpencode have neither a context nor a        *)
(* timeout, so no step that leaves "asking" is fair.                       *)
(***************************************************************************)
Fairness ==
    /\ \A h \in Handlers : WF_vars(Statement(h)) /\ SF_vars(SaveKeys(h))
    /\ WF_vars(RestartAsks \/ ReadAllKeys \/ SaveAllKeys \/ RestartFails)
    /\ SF_vars(RestartForAdd)

FairSpec == Spec /\ Fairness

----------------------------------------------------------------------------
(***************************************************************************)
(* Properties.                                                             *)
(***************************************************************************)
TypeOK ==
    /\ status \in [Keys -> {"absent", "live", "deleted"}]
    /\ secret \in [Keys -> 0..MaxSecret]
    /\ mem \in SUBSET Secrets
    /\ file \in SUBSET Secrets
    /\ task \in [Handlers -> Task]
    /\ adder \in {"none", "asking", "waiting", "restarting"}
    /\ restart \in {"none", "building", "asking", "providers", "keys"}
    /\ listed \in SUBSET Secrets
    /\ saved \in BOOLEAN
    /\ crossed \in SUBSET Keys
    /\ reloaded \in BOOLEAN

\* A handler is about to list the current secret of k.
WillList(k) ==
    \E h \in Handlers : /\ task[h].at = "save"
                        /\ task[h].key = k /\ task[h].add = secret[k]

Lists(keys) == \A k \in Live : <<k, secret[k]>> \in keys \/ WillList(k)

\* The server never loses a key: however creations, rotations and deletions
\* of the same keys interleave between their statements and configMu, the
\* current secret of every live key is in the server's list, or the handler
\* that made it is about to put it there (RecreateApiKey's remove and append).
ServerListsLive == Lists(mem)

\* Nor does config.yaml, once a write of it has succeeded and no restart is
\* under way, as long as restarts come from addProvider: a restart that read
\* the table before a new key was inserted cannot overwrite the save that
\* lists the key, because it holds configMu.
FileListsLive == restart = "none" /\ saved /\ ~reloaded => Lists(file)

\* No request and no restart is in progress.
Quiet == /\ \A h \in Handlers : Idle(h)
         /\ adder = "none" /\ restart = "none"

\* A secret that was replaced or whose key was deleted is gone from
\* config.yaml when the requests are done, unless two requests crossed on that
\* very key (removeString in DeleteApiKey and RecreateApiKey): requests for
\* other keys and restarts of addProvider do not bring it back.
StaleKeyRevoked ==
    Quiet /\ saved /\ ~reloaded =>
        \A s \in file : s \in LiveSecrets \/ s[1] \in crossed

\* No vendor that is asked under configMu or cpapiMu stays silent for ever.
VendorsAnswer == []<>(adder # "asking") /\ []<>(restart # "asking")

\* Every key request returns as long as the vendors answer: configMu comes free
\* even when the restart it is held for fails, and nobody waits for both locks
\* in a circle.  One silent vendor is enough to hold configMu, and with it
\* every key request, for ever.
HandlersReturn == VendorsAnswer => \A h \in Handlers : ~Idle(h) ~> Idle(h)
=============================================================================
