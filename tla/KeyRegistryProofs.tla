------------------------- MODULE KeyRegistryProofs -------------------------
(***************************************************************************)
(* The server's list and config.yaml never lose a live key, and keep no    *)
(* revoked one, for any number of keys, requests and rotations.            *)
(***************************************************************************)
EXTENDS KeyRegistry, TLAPS

\* A handler only ever removes a secret that is not, or no longer, the
\* current secret of a live key: it read the secret before it replaced it
\* or deleted the row, and generations only grow.
DropsAreOld ==
    \A h \in Handlers :
        LET t == task[h] IN
        /\ t.at \in {"delete", "rotate"} =>
              status[t.key] # "absent" /\ t.drop <= secret[t.key]
        /\ t.at = "save" =>
              status[t.key] # "absent" /\ (t.drop < secret[t.key]
                                           \/ status[t.key] = "deleted")

\* Rows that exist have a secret.
RowsHaveSecrets == \A k \in Keys : status[k] # "absent" => secret[k] > 0

ServerInv == TypeOK /\ DropsAreOld /\ RowsHaveSecrets /\ ServerListsLive

\* What a restart read is as good as the file it will write, since it holds
\* configMu: without ReloadProviders there is no other restart.
RestartInv ==
    ~reloaded => /\ restart # "none" <=> adder = "restarting"
                 /\ restart = "keys" => Lists(listed)

FileInv == ServerInv /\ RestartInv /\ FileListsLive

\* An idle handler has a well-formed task.
LEMMA NoTaskType == NoTask \in Task /\ NoTask.at = "idle"
<1>1. (CHOOSE k \in Keys : TRUE) \in Keys
  BY RegistryAssumption
<1> QED
  BY <1>1, RegistryAssumption DEF NoTask, Task

\* The first states satisfy the invariant: no key exists.
LEMMA ServerInvInit == Init => ServerInv
<1> SUFFICES ASSUME Init PROVE ServerInv
  OBVIOUS
<1>1. TypeOK
  <2>1. task \in [Handlers -> Task]
    BY NoTaskType DEF Init
  <2>2. saved \in BOOLEAN /\ reloaded \in BOOLEAN /\ crossed \in SUBSET Keys
    BY DEF Init
  <2>3. /\ status \in [Keys -> {"absent", "live", "deleted"}]
        /\ secret \in [Keys -> 0..MaxSecret]
    BY RegistryAssumption DEF Init
  <2> QED
    BY <2>1, <2>2, <2>3 DEF Init, TypeOK
<1>2. DropsAreOld
  <2>1. \A h \in Handlers : task[h].at = "idle"
    BY NoTaskType DEF Init
  <2> QED
    BY <2>1 DEF DropsAreOld
<1>3. RowsHaveSecrets /\ ServerListsLive
  BY DEF Init, RowsHaveSecrets, ServerListsLive, Lists, Live
<1> QED
  BY <1>1, <1>2, <1>3 DEF ServerInv

\* Every step keeps the types.
LEMMA TypeStep == TypeOK /\ RowsHaveSecrets /\ [Next]_vars => TypeOK'
<1> SUFFICES ASSUME TypeOK, RowsHaveSecrets, [Next]_vars PROVE TypeOK'
  OBVIOUS
<1> USE RegistryAssumption
<1> USE DEF TypeOK, Task, Secrets
<1>1. ASSUME NEW h \in Handlers, NEW k \in Keys, CreateApiKey(h, k)
      PROVE  TypeOK'
  BY <1>1 DEF CreateApiKey, Continue, fileVars, restartVars
<1>2. ASSUME NEW h \in Handlers, NEW k \in Keys,
             ReadForDelete(h, k) \/ ReadForRotate(h, k)
      PROVE  TypeOK'
  BY <1>2 DEF ReadForDelete, ReadForRotate, Continue, Enter, rowVars,
              fileVars, restartVars
<1>3. ASSUME NEW h \in Handlers, DeleteRow(h) PROVE TypeOK'
  BY <1>3 DEF DeleteRow, Continue, fileVars, restartVars
<1>4. ASSUME NEW h \in Handlers, RotateRow(h) PROVE TypeOK'
  <2>1. secret'[task[h].key] \in 0..MaxSecret /\ secret' \in [Keys -> 0..MaxSecret]
    BY <1>4 DEF RotateRow
  <2> QED
    BY <1>4, <2>1 DEF RotateRow, Continue, fileVars, restartVars
<1>5. ASSUME NEW h \in Handlers, StatementFails(h) PROVE TypeOK'
  BY <1>5, NoTaskType DEF StatementFails, rowVars, fileVars, restartVars
<1>6. ASSUME NEW h \in Handlers, SaveKeys(h) PROVE TypeOK'
  <2>1. mem' \in SUBSET Secrets
    BY <1>6 DEF SaveKeys, Edited, Secret
  <2> QED
    BY <1>6, <2>1, NoTaskType DEF SaveKeys, rowVars, restartVars
<1>7. CASE AskVendor \/ AddProvider \/ SaveProviders \/ ReloadProviders
  BY <1>7 DEF AskVendor, AddProvider, SaveProviders, ReloadProviders, rowVars, fileVars,
              restartVars
<1>8. CASE \/ RestartForAdd \/ RestartAsks \/ RegisterAllProviders
            \/ SaveAllKeys \/ RestartFails
  BY <1>8 DEF RestartForAdd, RestartAsks, RegisterAllProviders, SaveAllKeys, RestartFails,
              ProviderSaves, RestartReturns, rowVars, fileVars
<1>9. CASE ReadAllKeys
  <2>1. listed' \in SUBSET Secrets
    BY <1>9 DEF ReadAllKeys, LiveSecrets, Live, RowsHaveSecrets
  <2> QED
    BY <1>9, <2>1 DEF ReadAllKeys, rowVars, fileVars
<1>10. CASE UNCHANGED vars
  BY <1>10 DEF vars
<1> QED
  BY <1>1, <1>2, <1>3, <1>4, <1>5, <1>6, <1>7, <1>8, <1>9, <1>10
     DEF Next, Statement, Restart

\* Every step keeps the handlers' removals harmless.
LEMMA DropsStep ==
    TypeOK /\ DropsAreOld /\ RowsHaveSecrets /\ [Next]_vars
        => DropsAreOld' /\ RowsHaveSecrets'
<1> SUFFICES ASSUME TypeOK, DropsAreOld, RowsHaveSecrets, [Next]_vars
             PROVE  DropsAreOld' /\ RowsHaveSecrets'
  OBVIOUS
<1> USE DEF TypeOK, Task, DropsAreOld, RowsHaveSecrets
<1>1. ASSUME NEW h \in Handlers, NEW k \in Keys, CreateApiKey(h, k)
      PROVE  DropsAreOld' /\ RowsHaveSecrets'
  BY <1>1 DEF CreateApiKey, Continue, Idle
<1>2. ASSUME NEW h \in Handlers, NEW k \in Keys,
             ReadForDelete(h, k) \/ ReadForRotate(h, k)
      PROVE  DropsAreOld' /\ RowsHaveSecrets'
  BY <1>2 DEF ReadForDelete, ReadForRotate, Continue, Live, rowVars
<1>3. ASSUME NEW h \in Handlers, DeleteRow(h)
      PROVE  DropsAreOld' /\ RowsHaveSecrets'
  BY <1>3 DEF DeleteRow, Continue
<1>4. ASSUME NEW h \in Handlers, RotateRow(h)
      PROVE  DropsAreOld' /\ RowsHaveSecrets'
  BY <1>4 DEF RotateRow, Continue
<1>5. ASSUME NEW h \in Handlers, StatementFails(h) \/ SaveKeys(h)
      PROVE  DropsAreOld' /\ RowsHaveSecrets'
  BY <1>5, NoTaskType DEF StatementFails, SaveKeys, rowVars
<1>6. CASE UNCHANGED <<status, secret, task>>
  BY <1>6
<1>7. CASE AskVendor \/ AddProvider \/ SaveProviders \/ ReloadProviders \/ Restart
  BY <1>6, <1>7 DEF AskVendor, AddProvider, SaveProviders, ReloadProviders, Restart,
       RestartForAdd, RestartAsks, RegisterAllProviders, ReadAllKeys, SaveAllKeys,
       RestartFails, rowVars
<1> QED
  BY <1>1, <1>2, <1>3, <1>4, <1>5, <1>6, <1>7 DEF Next, Statement, vars

\* A step that is not a save of keys never takes a live key off a list it
\* was on, or was about to be on.
LEMMA ListsStep ==
    ASSUME TypeOK, [Next]_vars, \A h \in Handlers : ~SaveKeys(h)
    PROVE  \A keys : Lists(keys) =>
             \A k \in Live' : <<k, secret'[k]>> \in keys \/ WillList(k)'
<1> SUFFICES ASSUME NEW keys, Lists(keys),
                    NEW k \in Keys, status'[k] = "live"
             PROVE  <<k, secret'[k]>> \in keys \/ WillList(k)'
  BY DEF Live
<1> USE DEF TypeOK, Task, Lists, Live, WillList
<1>1. ASSUME NEW h \in Handlers, NEW i \in Keys, CreateApiKey(h, i)
      PROVE  <<k, secret'[k]>> \in keys \/ WillList(k)'
  BY <1>1 DEF CreateApiKey, Continue, Idle
<1>2. ASSUME NEW h \in Handlers, NEW i \in Keys,
             ReadForDelete(h, i) \/ ReadForRotate(h, i)
      PROVE  <<k, secret'[k]>> \in keys \/ WillList(k)'
  BY <1>2 DEF ReadForDelete, ReadForRotate, Continue, Idle, rowVars
<1>3. ASSUME NEW h \in Handlers, DeleteRow(h)
      PROVE  <<k, secret'[k]>> \in keys \/ WillList(k)'
  BY <1>3 DEF DeleteRow, Continue
<1>4. ASSUME NEW h \in Handlers, RotateRow(h)
      PROVE  <<k, secret'[k]>> \in keys \/ WillList(k)'
  BY <1>4 DEF RotateRow, Continue
<1>5. ASSUME NEW h \in Handlers, StatementFails(h)
      PROVE  <<k, secret'[k]>> \in keys \/ WillList(k)'
  BY <1>5 DEF StatementFails, rowVars
<1>6. CASE UNCHANGED <<status, secret, task>>
  BY <1>6
<1>7. CASE AskVendor \/ AddProvider \/ SaveProviders \/ ReloadProviders \/ Restart
  BY <1>6, <1>7 DEF AskVendor, AddProvider, SaveProviders, ReloadProviders, Restart,
       RestartForAdd, RestartAsks, RegisterAllProviders, ReadAllKeys, SaveAllKeys,
       RestartFails, rowVars
<1> QED
  BY <1>1, <1>2, <1>3, <1>4, <1>5, <1>6, <1>7 DEF Next, Statement, vars

\* A save of keys lists what it was about to list and drops no live secret.
LEMMA SaveLists ==
    ASSUME TypeOK, DropsAreOld, RowsHaveSecrets, ServerListsLive,
           NEW h \in Handlers, SaveKeys(h)
    PROVE  Lists(mem)'
<1> SUFFICES ASSUME NEW k \in Keys, status'[k] = "live"
             PROVE  <<k, secret'[k]>> \in mem' \/ WillList(k)'
  BY DEF Lists, Live
<1> USE DEF TypeOK, Task
<1>1. UNCHANGED <<status, secret>> /\ mem' = Edited(task[h])
  BY DEF SaveKeys, rowVars
<1>2. <<k, secret[k]>> \notin Secret(task[h].key, task[h].drop)
  BY <1>1 DEF DropsAreOld, Secret, SaveKeys
<1>3. CASE <<k, secret[k]>> \in mem
  BY <1>1, <1>2, <1>3 DEF Edited
<1>4. CASE /\ task[h].key = k /\ task[h].add = secret[k]
  BY <1>1, <1>4 DEF Edited, Secret, RowsHaveSecrets
<1>5. ASSUME NEW g \in Handlers, g # h, task[g].at = "save",
             task[g].key = k, task[g].add = secret[k]
      PROVE  WillList(k)'
  BY <1>1, <1>5 DEF SaveKeys, WillList
<1> QED
  BY <1>1, <1>3, <1>4, <1>5 DEF ServerListsLive, Lists, Live, WillList

\* Every step keeps the server's invariant.
LEMMA ServerInvStep == ServerInv /\ [Next]_vars => ServerInv'
<1> SUFFICES ASSUME ServerInv, [Next]_vars PROVE ServerInv'
  OBVIOUS
<1> USE DEF ServerInv
<1>1. TypeOK' /\ DropsAreOld' /\ RowsHaveSecrets'
  BY TypeStep, DropsStep
<1>2. ASSUME NEW h \in Handlers, SaveKeys(h) PROVE ServerListsLive'
  BY <1>2, SaveLists DEF ServerListsLive
<1>3. CASE \A h \in Handlers : ~SaveKeys(h)
  <2>1. Lists(mem)' 
    <3>1. mem' = mem
      BY <1>3 DEF Next, Statement, Restart, CreateApiKey, ReadForDelete,
           ReadForRotate, DeleteRow, RotateRow, StatementFails, AskVendor, AddProvider,
           SaveProviders, ReloadProviders, RestartForAdd, RestartAsks,
           RegisterAllProviders, ReadAllKeys, SaveAllKeys, RestartFails,
           fileVars, vars
    <3>2. \A k \in Live' : <<k, secret'[k]>> \in mem \/ WillList(k)'
      BY <1>3, ListsStep DEF ServerListsLive, Lists
    <3> QED
      BY <3>1, <3>2 DEF Lists
  <2> QED
    BY <1>1, <2>1 DEF ServerListsLive
<1> QED
  BY <1>1, <1>2, <1>3

\* The file is empty at first, and so are the keys.
LEMMA FileInvInit == Init => FileInv
<1> SUFFICES ASSUME Init PROVE FileInv
  OBVIOUS
<1>1. RestartInv /\ FileListsLive
  BY DEF Init, RestartInv, FileListsLive, Lists, Live
<1> QED
  BY <1>1, ServerInvInit DEF FileInv

\* Every step keeps the file's invariant.
LEMMA FileInvStep == FileInv /\ [Next]_vars => FileInv'
<1> SUFFICES ASSUME FileInv, [Next]_vars PROVE RestartInv' /\ FileListsLive'
  BY ServerInvStep DEF FileInv
<1>1. ServerInv /\ TypeOK /\ RestartInv /\ FileListsLive /\ ServerListsLive
  BY DEF FileInv, ServerInv
<1>2. ASSUME NEW h \in Handlers, SaveKeys(h)
      PROVE  RestartInv' /\ FileListsLive'
  <2>1. /\ reloaded \/ restart = "none"
        /\ UNCHANGED <<restart, adder, listed, reloaded>>
    BY <1>1, <1>2 DEF RestartInv, SaveKeys, restartVars
  <2>2. Lists(mem)'
    BY <1>1, <1>2, SaveLists DEF ServerInv
  <2>3. CASE file' = mem'
    BY <1>1, <2>1, <2>2, <2>3 DEF RestartInv, FileListsLive, Lists
  <2>4. CASE saved' = FALSE
    BY <1>1, <2>1, <2>4 DEF RestartInv, FileListsLive
  <2> QED
    BY <1>2, <2>3, <2>4 DEF SaveKeys
<1>3. CASE \A h \in Handlers : ~SaveKeys(h)
  <2> DEFINE Still(keys) ==
        \A k \in Live' : <<k, secret'[k]>> \in keys \/ WillList(k)'
  <2>1. \A keys : Lists(keys) => Still(keys)
    BY <1>1, <1>3, ListsStep
  <2>2. Still(mem)
    BY <1>1, <2>1 DEF ServerListsLive
  <2>3. Still(file) \/ restart # "none" \/ ~saved \/ reloaded
    BY <1>1, <2>1 DEF FileListsLive
  <2>4. Still(listed) \/ restart # "keys" \/ reloaded
    BY <1>1, <2>1 DEF RestartInv
  <2>5. Lists(file)' <=> Still(file')
    BY DEF Lists
  <2>6. Lists(listed)' <=> Still(listed')
    BY DEF Lists
  <2> HIDE DEF Still
  <2>7. CASE \/ UNCHANGED <<file, saved, restart, adder, listed, reloaded>>
             \/ AskVendor \/ AddProvider \/ SaveProviders
             \/ RestartForAdd \/ RestartAsks
             \/ RegisterAllProviders \/ SaveAllKeys \/ RestartFails
    BY <1>1, <2>2, <2>3, <2>4, <2>5, <2>6, <2>7
       DEF TypeOK, RestartInv, FileListsLive, AskVendor, AddProvider, SaveProviders,
           RestartForAdd, RestartAsks, RegisterAllProviders, SaveAllKeys, RestartFails,
           RestartReturns, ProviderSaves, fileVars, restartVars
  <2>8. CASE ReadAllKeys
    <3>1. Lists(LiveSecrets)
      BY DEF Lists, LiveSecrets
    <3>2. Still(listed')
      BY <2>1, <2>8, <3>1 DEF ReadAllKeys
    <3> QED
      BY <1>1, <2>6, <2>8, <3>2 DEF RestartInv, FileListsLive, ReadAllKeys
  <2>9. CASE ReloadProviders
    BY <2>9 DEF ReloadProviders, RestartInv, FileListsLive
  <2>10. ASSUME NEW h \in Handlers, NEW k \in Keys,
                \/ CreateApiKey(h, k)
                \/ ReadForDelete(h, k) \/ ReadForRotate(h, k)
         PROVE  UNCHANGED <<file, saved, restart, adder, listed, reloaded>>
    BY <2>10 DEF CreateApiKey, ReadForDelete, ReadForRotate, fileVars,
         restartVars
  <2>11. ASSUME NEW h \in Handlers, Statement(h)
         PROVE  UNCHANGED <<file, saved, restart, adder, listed, reloaded>>
    BY <2>11 DEF Statement, DeleteRow, RotateRow, StatementFails, fileVars,
         restartVars
  <2>12. CASE UNCHANGED vars
    BY <2>7, <2>12 DEF vars
  <2> QED
    BY <1>3, <2>7, <2>8, <2>9, <2>10, <2>11, <2>12 DEF Next, Restart
<1> QED
  BY <1>2, <1>3

\* ServerInv is an invariant of the registry.
THEOREM ServerInvariant == Spec => []ServerInv
<1>1. Init => ServerInv
  BY ServerInvInit
<1>2. ServerInv /\ [Next]_vars => ServerInv'
  BY ServerInvStep
<1> QED
  BY <1>1, <1>2, PTL DEF Spec

\* CreateApiKey, DeleteApiKey and RecreateApiKey never lose a live key from
\* the server's list, for any number of overlapping requests and restarts.
THEOREM ServerKeepsKeys == Spec => []ServerListsLive
<1>1. ServerInv => ServerListsLive
  BY DEF ServerInv
<1> QED
  BY <1>1, ServerInvariant, PTL

\* ... and, if no restart comes from ReloadProviders, neither does
\* config.yaml (addProvider holds configMu around RestartCPAPI).
THEOREM FileKeepsKeys == Spec => []FileListsLive
<1>1. Init => FileInv
  BY FileInvInit
<1>2. FileInv /\ [Next]_vars => FileInv'
  BY FileInvStep
<1>3. FileInv => FileListsLive
  BY DEF FileInv
<1> QED
  BY <1>1, <1>2, <1>3, PTL DEF Spec

----------------------------------------------------------------------------
(***************************************************************************)
(* Revoked secrets.                                                        *)
(***************************************************************************)

\* Handler h works on key k.
WorksOn(h, k) == ~Idle(h) /\ task[h].key = k

\* What the request for a key knows when no other has crossed it: it is
\* alone, it read the secret that is still current, and what it is about to
\* list is current too.
AloneOnKey ==
    \A h \in Handlers : \A k \in Keys \ crossed : WorksOn(h, k) =>
        /\ \A g \in Handlers : WorksOn(g, k) => g = h
        /\ task[h].at \in {"delete", "rotate"} =>
              status[k] = "live" /\ task[h].drop = secret[k]
        /\ task[h].at = "save" =>
              task[h].add = 0 \/ (status[k] = "live" /\ task[h].add = secret[k])

\* The request that made the n-th secret of k stale is about to remove it.
WillDrop(k, n) ==
    \E h \in Handlers : /\ task[h].at = "save"
                        /\ task[h].key = k /\ task[h].drop = n

\* Every secret of an uncrossed key in keys is current or about to be removed.
Revokes(keys) ==
    \A k \in Keys \ crossed, n \in 1..MaxSecret :
        <<k, n>> \in keys =>
            (status[k] = "live" /\ secret[k] = n) \/ WillDrop(k, n)

\* The list of the server, the file and what a restart has read.
ListsRevoke ==
    /\ Revokes(mem)
    /\ ~reloaded /\ restart = "keys" => Revokes(listed)
    /\ ~reloaded /\ restart = "none" /\ saved => Revokes(file)

StaleInv == FileInv /\ AloneOnKey /\ ListsRevoke

\* The first states satisfy it: nobody works on a key and no list holds one.
LEMMA StaleInvInit == Init => StaleInv
<1> SUFFICES ASSUME Init PROVE StaleInv
  OBVIOUS
<1>1. FileInv
  BY FileInvInit
<1>2. AloneOnKey
  BY NoTaskType DEF Init, AloneOnKey, WorksOn, Idle
<1>3. ListsRevoke
  BY DEF Init, ListsRevoke, Revokes
<1> QED
  BY <1>1, <1>2, <1>3 DEF StaleInv

\* Every step keeps a request that is not crossed alone on its key.
LEMMA AloneStep == ServerInv /\ AloneOnKey /\ [Next]_vars => AloneOnKey'
<1> SUFFICES ASSUME TypeOK, DropsAreOld, AloneOnKey, [Next]_vars
             PROVE  AloneOnKey'
  BY DEF ServerInv
<1> USE DEF TypeOK, Task, AloneOnKey, WorksOn, Idle
<1>1. ASSUME NEW h \in Handlers, NEW k \in Keys, CreateApiKey(h, k)
      PROVE  AloneOnKey'
  <2>1. \A g \in Handlers : ~WorksOn(g, k)
    BY <1>1 DEF CreateApiKey, DropsAreOld
  <2> QED
    BY <1>1, <2>1 DEF CreateApiKey, Continue
<1>2. ASSUME NEW h \in Handlers, NEW k \in Keys,
             ReadForDelete(h, k) \/ ReadForRotate(h, k)
      PROVE  AloneOnKey'
  BY <1>2 DEF ReadForDelete, ReadForRotate, Enter, Continue, Live, rowVars
<1>3. ASSUME NEW h \in Handlers, DeleteRow(h) PROVE AloneOnKey'
  BY <1>3 DEF DeleteRow, Continue
<1>4. ASSUME NEW h \in Handlers, RotateRow(h) PROVE AloneOnKey'
  BY <1>4 DEF RotateRow, Continue
<1>5. ASSUME NEW h \in Handlers, StatementFails(h) \/ SaveKeys(h)
      PROVE  AloneOnKey'
  BY <1>5, NoTaskType DEF StatementFails, SaveKeys, rowVars
<1>6. CASE UNCHANGED <<status, secret, task, crossed>>
  BY <1>6
<1>7. CASE AskVendor \/ AddProvider \/ SaveProviders \/ ReloadProviders \/ Restart
  BY <1>6, <1>7 DEF AskVendor, AddProvider, SaveProviders, ReloadProviders, Restart,
       RestartForAdd, RestartAsks, RegisterAllProviders, ReadAllKeys, SaveAllKeys,
       RestartFails, rowVars
<1> QED
  BY <1>1, <1>2, <1>3, <1>4, <1>5, <1>6, <1>7 DEF Next, Statement, vars

\* A secret that stops being current without a save of keys has its remover:
\* DeleteRow and RotateRow pass on the secret their request has read.
LEMMA RevokesStep ==
    ASSUME TypeOK, DropsAreOld, AloneOnKey, [Next]_vars,
           \A h \in Handlers : ~SaveKeys(h)
    PROVE  \A keys : Revokes(keys) =>
             \A k \in Keys \ crossed', n \in 1..MaxSecret :
                <<k, n>> \in keys =>
                   (status'[k] = "live" /\ secret'[k] = n) \/ WillDrop(k, n)'
<1> SUFFICES ASSUME NEW keys, Revokes(keys), NEW k \in Keys \ crossed',
                    NEW n \in 1..MaxSecret, <<k, n>> \in keys
             PROVE  (status'[k] = "live" /\ secret'[k] = n) \/ WillDrop(k, n)'
  OBVIOUS
<1> USE DEF TypeOK, Task, Revokes, WillDrop
<1>0. k \notin crossed
  BY DEF Next, Statement, Restart, CreateApiKey, ReadForDelete, ReadForRotate,
       Enter, DeleteRow, RotateRow, StatementFails, SaveKeys, AskVendor, AddProvider,
       SaveProviders, ReloadProviders, RestartForAdd, RestartAsks, RegisterAllProviders,
       ReadAllKeys, SaveAllKeys, RestartFails, vars
<1>1. (status[k] = "live" /\ secret[k] = n) \/ WillDrop(k, n)
  BY <1>0
<1>2. ASSUME NEW h \in Handlers, NEW i \in Keys, CreateApiKey(h, i)
      PROVE  (status'[k] = "live" /\ secret'[k] = n) \/ WillDrop(k, n)'
  BY <1>1, <1>2 DEF CreateApiKey, Continue, Idle, DropsAreOld
<1>3. ASSUME NEW h \in Handlers, NEW i \in Keys,
             ReadForDelete(h, i) \/ ReadForRotate(h, i)
      PROVE  (status'[k] = "live" /\ secret'[k] = n) \/ WillDrop(k, n)'
  BY <1>1, <1>3 DEF ReadForDelete, ReadForRotate, Continue, Idle, rowVars
<1>4. ASSUME NEW h \in Handlers, DeleteRow(h) \/ RotateRow(h)
      PROVE  (status'[k] = "live" /\ secret'[k] = n) \/ WillDrop(k, n)'
  <2>1. task[h].at \in {"delete", "rotate"} /\ task[h].key \in Keys
    BY <1>4 DEF DeleteRow, RotateRow
  <2>2. /\ task'[h].at = "save" /\ task'[h].key = task[h].key
        /\ task'[h].drop = task[h].drop
        /\ \A g \in Handlers \ {h} : task'[g] = task[g]
    BY <1>4 DEF DeleteRow, RotateRow, Continue
  <2>3. CASE WillDrop(k, n)
    BY <2>1, <2>2, <2>3
  <2>4. CASE task[h].key # k /\ status[k] = "live" /\ secret[k] = n
    BY <1>4, <2>1, <2>4 DEF DeleteRow, RotateRow
  <2>5. CASE task[h].key = k /\ status[k] = "live" /\ secret[k] = n
    <3>1. task[h].drop = n
      BY <1>0, <2>1, <2>5 DEF AloneOnKey, WorksOn, Idle
    <3> QED
      BY <2>2, <2>5, <3>1
  <2> QED
    BY <1>1, <2>3, <2>4, <2>5
<1>5. ASSUME NEW h \in Handlers, StatementFails(h)
      PROVE  (status'[k] = "live" /\ secret'[k] = n) \/ WillDrop(k, n)'
  BY <1>1, <1>5 DEF StatementFails, rowVars
<1>6. CASE UNCHANGED <<status, secret, task>>
  BY <1>1, <1>6
<1>7. CASE AskVendor \/ AddProvider \/ SaveProviders \/ ReloadProviders \/ Restart
  BY <1>6, <1>7 DEF AskVendor, AddProvider, SaveProviders, ReloadProviders, Restart,
       RestartForAdd, RestartAsks, RegisterAllProviders, ReadAllKeys, SaveAllKeys,
       RestartFails, rowVars
<1> QED
  BY <1>2, <1>3, <1>4, <1>5, <1>6, <1>7 DEF Next, Statement, vars

\* A save of keys takes the stale secret off the list and adds a current one.
LEMMA SaveRevokes ==
    ASSUME TypeOK, AloneOnKey, Revokes(mem), NEW h \in Handlers, SaveKeys(h)
    PROVE  Revokes(mem)'
<1> USE DEF TypeOK, Task
<1> SUFFICES ASSUME NEW k \in Keys \ crossed', NEW n \in 1..MaxSecret,
                    <<k, n>> \in mem'
             PROVE  (status[k] = "live" /\ secret[k] = n) \/ WillDrop(k, n)'
  BY DEF Revokes, SaveKeys, rowVars
<1>1. mem' = Edited(task[h]) /\ UNCHANGED <<status, secret, crossed>>
  BY DEF SaveKeys, rowVars
<1>2. CASE <<k, n>> \in Secret(task[h].key, task[h].add)
  <2>1. task[h].key = k /\ task[h].add = n /\ n # 0
    BY <1>2 DEF Secret
  <2> QED
    BY <1>1, <2>1 DEF AloneOnKey, WorksOn, Idle, SaveKeys
<1>3. CASE <<k, n>> \in mem \ Secret(task[h].key, task[h].drop)
  <2>1. (status[k] = "live" /\ secret[k] = n) \/ WillDrop(k, n)
    BY <1>1, <1>3 DEF Revokes
  <2>2. ASSUME NEW g \in Handlers, task[g].at = "save", task[g].key = k,
               task[g].drop = n
        PROVE  WillDrop(k, n)'
    <3>1. g # h
      BY <1>3, <2>2 DEF Secret
    <3> QED
      BY <2>2, <3>1 DEF WillDrop, SaveKeys
  <2> QED
    BY <2>1, <2>2 DEF WillDrop
<1> QED
  BY <1>1, <1>2, <1>3 DEF Edited

\* Every step keeps the lists free of secrets that nobody will remove.
LEMMA ListsRevokeStep == StaleInv /\ [Next]_vars => ListsRevoke'
<1> SUFFICES ASSUME StaleInv, [Next]_vars PROVE ListsRevoke'
  OBVIOUS
<1>1. /\ TypeOK /\ DropsAreOld /\ RestartInv /\ AloneOnKey /\ ListsRevoke
      /\ Revokes(mem)
  BY DEF StaleInv, FileInv, ServerInv, ListsRevoke
<1>2. ASSUME NEW h \in Handlers, SaveKeys(h) PROVE ListsRevoke'
  <2>1. /\ reloaded \/ restart = "none"
        /\ UNCHANGED <<restart, listed, reloaded>>
    BY <1>1, <1>2 DEF RestartInv, SaveKeys, restartVars
  <2>2. Revokes(mem)'
    BY <1>1, <1>2, SaveRevokes
  <2>3. CASE file' = mem'
    BY <2>1, <2>2, <2>3 DEF ListsRevoke, Revokes
  <2>4. CASE saved' = FALSE
    BY <2>1, <2>2, <2>4 DEF ListsRevoke
  <2> QED
    BY <1>2, <2>3, <2>4 DEF SaveKeys
<1>3. CASE \A h \in Handlers : ~SaveKeys(h)
  <2> DEFINE Still(keys) ==
        \A k \in Keys \ crossed', n \in 1..MaxSecret :
           <<k, n>> \in keys =>
              (status'[k] = "live" /\ secret'[k] = n) \/ WillDrop(k, n)'
  <2>1. \A keys : Revokes(keys) => Still(keys)
    BY <1>1, <1>3, RevokesStep
  <2>2. Still(mem) /\ Still({})
    BY <1>1, <2>1
  <2>3. Still(file) \/ restart # "none" \/ ~saved \/ reloaded
    BY <1>1, <2>1 DEF ListsRevoke
  <2>4. Still(listed) \/ restart # "keys" \/ reloaded
    BY <1>1, <2>1 DEF ListsRevoke
  <2>5. /\ Revokes(mem)' <=> Still(mem')
        /\ Revokes(file)' <=> Still(file')
        /\ Revokes(listed)' <=> Still(listed')
    BY DEF Revokes
  <2> HIDE DEF Still
  <2>6. mem' = mem
    BY <1>3 DEF Next, Statement, Restart, CreateApiKey, ReadForDelete,
         ReadForRotate, DeleteRow, RotateRow, StatementFails, AskVendor, AddProvider,
         SaveProviders, ReloadProviders, RestartForAdd, RestartAsks, RegisterAllProviders,
         ReadAllKeys, SaveAllKeys, RestartFails, fileVars, vars
  <2>7. CASE \/ UNCHANGED <<file, saved, restart, listed, reloaded>>
             \/ AskVendor \/ AddProvider \/ SaveProviders
             \/ RestartForAdd \/ RestartAsks
             \/ RegisterAllProviders \/ SaveAllKeys \/ RestartFails
    BY <1>1, <2>2, <2>3, <2>4, <2>5, <2>6, <2>7
       DEF TypeOK, ListsRevoke, AskVendor, AddProvider, SaveProviders,
           RestartForAdd, RestartAsks, RegisterAllProviders, SaveAllKeys, RestartFails,
           RestartReturns, ProviderSaves, fileVars, restartVars
  <2>8. CASE ReadAllKeys
    <3>1. Revokes(LiveSecrets)
      BY DEF Revokes, LiveSecrets, Live
    <3>2. Still(listed')
      BY <2>1, <2>8, <3>1 DEF ReadAllKeys
    <3> QED
      BY <1>1, <2>2, <2>5, <2>6, <2>8, <3>2 DEF ListsRevoke, ReadAllKeys
  <2>9. CASE ReloadProviders
    BY <2>2, <2>5, <2>6, <2>9 DEF ReloadProviders, ListsRevoke
  <2>10. ASSUME NEW h \in Handlers, NEW k \in Keys,
                \/ CreateApiKey(h, k)
                \/ ReadForDelete(h, k) \/ ReadForRotate(h, k)
         PROVE  UNCHANGED <<file, saved, restart, listed, reloaded>>
    BY <2>10 DEF CreateApiKey, ReadForDelete, ReadForRotate, fileVars,
         restartVars
  <2>11. ASSUME NEW h \in Handlers, Statement(h)
         PROVE  UNCHANGED <<file, saved, restart, listed, reloaded>>
    BY <2>11 DEF Statement, DeleteRow, RotateRow, StatementFails, fileVars,
         restartVars
  <2>12. CASE UNCHANGED vars
    BY <2>7, <2>12 DEF vars
  <2> QED
    BY <1>3, <2>7, <2>8, <2>9, <2>10, <2>11, <2>12 DEF Next, Restart
<1> QED
  BY <1>2, <1>3

\* DeleteApiKey and RecreateApiKey revoke for good: when the requests are done,
\* config.yaml holds no secret of a key that was replaced or deleted, unless
\* two requests crossed on that key, for any number of keys, overlapping
\* requests and restarts of addProvider.
THEOREM StaleKeysAreRevoked == Spec => []StaleKeyRevoked
<1>1. Init => StaleInv
  BY StaleInvInit
<1>2. StaleInv /\ [Next]_vars => StaleInv'
  BY FileInvStep, AloneStep, ListsRevokeStep DEF StaleInv, FileInv
<1>3. StaleInv => StaleKeyRevoked
  <2> SUFFICES ASSUME StaleInv, Quiet, saved, ~reloaded, NEW s \in file
               PROVE  s \in LiveSecrets \/ s[1] \in crossed
    BY DEF StaleKeyRevoked
  <2>1. TypeOK /\ Revokes(file)
    BY DEF StaleInv, FileInv, ServerInv, ListsRevoke, Quiet
  <2>2. PICK k \in Keys, n \in 1..MaxSecret : s = <<k, n>>
    BY <2>1 DEF TypeOK, Secrets
  <2>3. ~WillDrop(k, n)
    BY DEF WillDrop, Quiet, Idle
  <2>4. k \in crossed \/ (status[k] = "live" /\ secret[k] = n)
    BY <2>1, <2>2, <2>3 DEF Revokes
  <2> QED
    BY <2>2, <2>4 DEF LiveSecrets, Live
<1> QED
  BY <1>1, <1>2, <1>3, PTL DEF Spec
=============================================================================
