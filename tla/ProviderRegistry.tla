-------------------------- MODULE ProviderRegistry --------------------------
(***************************************************************************)
(* Providers live in the providers table, in the server's CPAPIConfig      *)
(* object and in config.yaml.  The handlers change the table and, under    *)
(* configMu, the object, which they save.  A restart of the proxy reads    *)
(* the table, builds another object from it and saves that; on its way it  *)
(* writes proxies, and whole rows of cursor providers, back from what it   *)
(* has read.  It runs under cpapiMu only; CreateProvider holds configMu    *)
(* around it, ReloadProviders does not.                                    *)
(*                                                                         *)
(* A row has a type, a key, a base URL, a proxy address and two switches;  *)
(* proxied stands for use_proxy with is_cloudflare.  Several rows may have *)
(* the same key.  A configuration has one list for each vendor with API    *)
(* keys and one, "own", of entries named by a provider.  An entry keeps    *)
(* what the vendor compares when it removes one.  Authorization, and with  *)
(* it the types that only log in by callback, is in OAuthFlow; of the rows *)
(* here just those of type cursor have logged in.                          *)
(***************************************************************************)
EXTENDS Integers, Sequences, SequencesExt

CONSTANTS
    Provider,   \* provider ids
    Key,        \* API keys
    Url,        \* base URLs
    RowChoice,  \* the rows requests ask for
    Client,     \* requests in progress
    MaxInput    \* bound: requests and reloads

Keyed == {"xai"}                \* a list of keys with their base URLs
Shared == {"kimi", "opencode"}  \* one entry with the keys of all (cline as kimi)
Own == {"custom", "cursor"}     \* an entry per provider
Slot == Keyed \cup Shared \cup {"own"}
Login == "token"                \* the key of a row that has logged in
Bridge == "bridge"              \* the base URL of the Cursor bridge
Row == {r \in [type : Keyed \cup Shared \cup Own, key : Key \cup {Login},
               url : Url \cup {Bridge}, proxy : {"none", "manual", "warp"},
               disabled : BOOLEAN, proxied : BOOLEAN] :
           r.key = Login <=> r.type = "cursor"}

ASSUME RegistryAssumption == RowChoice \subseteq Row /\ MaxInput \in Nat

VARIABLES
    row,        \* row[p]: the rows of p in the table, one or none
    mem,        \* the provider lists of the server's CPAPIConfig
    file,       \* those of config.yaml
    mu,         \* who holds configMu: a set of at most one client
    req,        \* req[c]: the request client c is in
    restart,    \* the restart that holds cpapiMu
    unborn,     \* ids not given out yet
    edit,       \* history: what the panel last wrote into row[p]
    past,       \* history: past[p], the places in a configuration p ever had
    partial,    \* history: providers a request left half done
    crossed,    \* history: providers two requests worked on at once
    overtaken,  \* history: providers edited while a restart held their old row
    undone,     \* history: those among them whose old row it is to write back whole
    inputs

writes == <<row, edit, past, overtaken, undone>>
history == <<edit, past, partial, crossed, overtaken, undone>>
vars == <<row, mem, file, mu, req, restart, unborn, history, inputs>>

Idle == [pc |-> "idle"]
Blank == <<>>
Input == inputs < MaxInput /\ inputs' = inputs + 1
Goto(c, r) == req' = [req EXCEPT ![c] = r]
Busy(p) == \E c \in Client : req[c] # Idle /\ req[c].p = p

Init ==
    /\ row = [p \in Provider |-> {}] /\ unborn = Provider
    /\ mem = [s \in Slot |-> <<>>] /\ file = [s \in Slot |-> <<>>]
    /\ mu = {} /\ req = [c \in Client |-> Idle] /\ restart = Idle
    /\ edit = [p \in Provider |-> {}] /\ past = [p \in Provider |-> {}]
    /\ partial = {} /\ crossed = {} /\ overtaken = {} /\ undone = {} /\ inputs = 0

----------------------------------------------------------------------------
(* AddProviderConfig and RemoveProviderConfig of the vendors. *)

Entry(p, r) ==
    CASE r.type \in Keyed   -> <<r.key, r.url>>
      [] r.type \in Shared  -> <<r.key>>
      [] r.type = "custom"  -> <<p, r.url, r.key>>
      [] r.type = "cursor"  -> <<p, Bridge, Login>>

SlotOf(r) == IF r.type \in Own THEN "own" ELSE r.type
Place(p, r) == <<SlotOf(r), Entry(p, r)>>

AddKey(list, p, r) == Append(list, Entry(p, r))
AddCompatibility(list, p, r) == Append(list, Entry(p, r))
AddCustom(list, p, r) == Append(list, Entry(p, r))
AddCursor(list, p, r) == Append(list, Entry(p, r))

\* The first with the same key and base URL.
RemoveKey(list, p, r) == RemoveFirst(list, Entry(p, r))

\* Every equal key, whoever added it.  DeleteFunc on a copy of the entry clears
\* a place for every key it deletes, but the entry keeps its length.  It clears
\* the last places and moves the keys that stay to the front; here they stay
\* where they are, since nothing depends on their order.
RemoveCompatibility(list, p, r) ==
    [i \in 1..Len(list) |-> IF list[i] = Entry(p, r) THEN Blank ELSE list[i]]

RemoveCustom(list, p, r) == RemoveFirst(list, Entry(p, r))

\* It looks for an entry named "cursor", and there is none.
RemoveCursor(list, p, r) == list

VendorAdds(list, p, r) ==
    CASE r.type \in Keyed   -> AddKey(list, p, r)
      [] r.type \in Shared  -> AddCompatibility(list, p, r)
      [] r.type = "custom"  -> AddCustom(list, p, r)
      [] r.type = "cursor"  -> AddCursor(list, p, r)

VendorRemoves(list, p, r) ==
    CASE r.type \in Keyed   -> RemoveKey(list, p, r)
      [] r.type \in Shared  -> RemoveCompatibility(list, p, r)
      [] r.type = "custom"  -> RemoveCustom(list, p, r)
      [] r.type = "cursor"  -> RemoveCursor(list, p, r)

\* Vendors that ask for the models first may get no answer, and add nothing;
\* opencode asks for its first key only.
MayFail(cfg, r) == r.type \in Own \/ (r.type = "opencode" /\ cfg["opencode"] = <<>>)

addProviderConfig(cfg, p, r) ==
    IF r.disabled THEN cfg ELSE [cfg EXCEPT ![SlotOf(r)] = VendorAdds(@, p, r)]

removeProviderConfig(cfg, p, r) == [cfg EXCEPT ![SlotOf(r)] = VendorRemoves(@, p, r)]

Has(cfg, p, r) == Contains(cfg[SlotOf(r)], Entry(p, r))

----------------------------------------------------------------------------
(* Requests.  A change of the table is noted with the edit it makes. *)

\* The panel writes rows R of p, perhaps under a restart that has read others.
Write(p, R) ==
    /\ row' = [row EXCEPT ![p] = R]
    /\ edit' = [edit EXCEPT ![p] = R]
    /\ past' = [past EXCEPT ![p] = @ \cup {Place(p, r) : r \in R}]
    /\ overtaken' = IF restart.pc = "register" THEN overtaken \cup {p} ELSE overtaken
    /\ undone' = IF restart.pc = "register" /\ \E r \in restart.todo[p] : r.type = "cursor"
                 THEN undone \cup {p} ELSE undone

Overlaps(p) == crossed' = IF Busy(p) THEN crossed \cup {p} ELSE crossed

\* CreateProvider, or the end of a cursor login, up to its row.  For a custom
\* one the handler panics before it has changed anything: there is no OAuth
\* definition to look into.
CreateProvider(c, p, r) ==
    /\ req[c] = Idle /\ p \in unborn /\ ~r.disabled /\ r.type # "custom" /\ Input
    /\ Write(p, {r}) /\ unborn' = unborn \ {p}
    /\ Goto(c, [pc |-> "created", p |-> p])
    /\ UNCHANGED <<mem, file, mu, restart, partial, crossed>>

\* A row that was written is read again, as it is by then.  This, or telling the
\* proxy of an update, may fail; then the entry stays as it was.
ReadBack(c) ==
    /\ req[c].pc \in {"created", "updated"}
    /\ LET p == req[c].p IN
       \/ /\ \E r \in row[p] :
                Goto(c, IF req[c].pc = "created"
                        THEN [pc |-> "add", p |-> p, new |-> r]
                        ELSE [pc |-> "swap", p |-> p, old |-> req[c].old, new |-> r])
          /\ UNCHANGED partial
       \/ Goto(c, Idle) /\ partial' = partial \cup {p}
    /\ UNCHANGED <<writes, mem, file, mu, restart, unborn, crossed, inputs>>

\* addProvider takes configMu, adds the entry and saves; a save that fails
\* ends the request, a vendor that fails does not.
addProvider(c) ==
    /\ req[c].pc = "add" /\ mu = {}
    /\ LET p == req[c].p IN
       \/ /\ mem' = addProviderConfig(mem, p, req[c].new) /\ file' = mem'
          /\ mu' = {c} /\ Goto(c, [pc |-> "restart", p |-> p]) /\ UNCHANGED partial
       \/ /\ MayFail(mem, req[c].new) /\ file' = mem
          /\ mu' = {c} /\ Goto(c, [pc |-> "restart", p |-> p])
          /\ partial' = partial \cup {p} /\ UNCHANGED mem
       \/ /\ mem' = addProviderConfig(mem, p, req[c].new)
          /\ Goto(c, Idle) /\ partial' = partial \cup {p} /\ UNCHANGED <<file, mu>>
    /\ UNCHANGED <<writes, restart, unborn, crossed, inputs>>

\* UpdateProvider reads the old row ...
ReadForUpdate(c, p, r) ==
    /\ req[c] = Idle /\ row[p] # {} /\ Input
    /\ Overlaps(p)
    /\ \E old \in row[p] : Goto(c, [pc |-> "update", p |-> p, old |-> old, new |-> r])
    /\ UNCHANGED <<writes, mem, file, mu, restart, unborn, partial>>

\* ... writes the new one over the row there is, if there still is one ...
UpdateProvider(c) ==
    /\ req[c].pc = "update"
    /\ LET p == req[c].p IN
       \/ /\ IF row[p] = {} THEN UNCHANGED writes ELSE Write(p, {req[c].new})
          /\ Goto(c, [pc |-> "updated", p |-> p, old |-> req[c].old])
       \/ Goto(c, Idle) /\ UNCHANGED writes
    /\ UNCHANGED <<mem, file, mu, restart, unborn, partial, crossed, inputs>>

\* Mutant: the old entry stays.
SwapConfigKeepsOld(c) ==
    /\ req[c].pc = "swap" /\ mu = {}
    /\ mem' = addProviderConfig(mem, req[c].p, req[c].new) /\ file' = mem'
    /\ Goto(c, Idle)
    /\ UNCHANGED <<row, mu, restart, unborn, history, inputs>>

\* ... and exchanges the entry, under configMu.
SwapConfig(c) ==
    /\ req[c].pc = "swap" /\ mu = {}
    /\ LET p == req[c].p
           without == removeProviderConfig(mem, p, req[c].old)
       IN  \/ /\ mem' = addProviderConfig(without, p, req[c].new) /\ file' = mem'
              /\ UNCHANGED partial
           \/ /\ MayFail(without, req[c].new) /\ mem' = without /\ file' = mem'
              /\ partial' = partial \cup {p}
           \/ /\ mem' = addProviderConfig(without, p, req[c].new)
              /\ partial' = partial \cup {p} /\ UNCHANGED file
    /\ Goto(c, Idle)
    /\ UNCHANGED <<writes, mu, restart, unborn, crossed, inputs>>

ReadForDelete(c, p) ==
    /\ req[c] = Idle /\ row[p] # {} /\ Input
    /\ Overlaps(p)
    /\ \E old \in row[p] : Goto(c, [pc |-> "remove", p |-> p, old |-> old])
    /\ UNCHANGED <<writes, mem, file, mu, restart, unborn, partial>>

\* The entry is removed before the row; a failing save ends the request.
removeProvider(c) ==
    /\ req[c].pc = "remove" /\ mu = {}
    /\ mem' = removeProviderConfig(mem, req[c].p, req[c].old)
    /\ \/ file' = mem' /\ Goto(c, [req[c] EXCEPT !.pc = "delete"]) /\ UNCHANGED partial
       \/ partial' = partial \cup {req[c].p} /\ Goto(c, Idle) /\ UNCHANGED file
    /\ UNCHANGED <<writes, mu, restart, unborn, crossed, inputs>>

DeleteProvider(c) ==
    /\ req[c].pc = "delete"
    /\ \/ Write(req[c].p, {}) /\ UNCHANGED partial
       \/ partial' = partial \cup {req[c].p} /\ UNCHANGED writes
    /\ Goto(c, Idle)
    /\ UNCHANGED <<mem, file, mu, restart, unborn, crossed, inputs>>

----------------------------------------------------------------------------
(* Restarts.  by is the client that waits for it, with configMu. *)

ReloadProviders ==
    /\ restart = Idle /\ Input
    /\ restart' = [pc |-> "list", by |-> {}]
    /\ UNCHANGED <<row, mem, file, mu, req, unborn, history>>

RestartForAdd(c) ==
    /\ req[c].pc = "restart" /\ restart = Idle
    /\ restart' = [pc |-> "list", by |-> {c}]
    /\ Goto(c, [req[c] EXCEPT !.pc = "restarting"])
    /\ UNCHANGED <<row, mem, file, mu, unborn, history, inputs>>

\* The lists of a new object are built from the rows there are now.
GetProviders ==
    /\ restart.pc = "list"
    /\ restart' = [pc |-> "register", by |-> restart.by, todo |-> row,
                   cfg |-> [s \in Slot |-> <<>>]]
    /\ UNCHANGED <<row, mem, file, mu, req, unborn, history, inputs>>

\* Mutant: every row is written back whole.
RewrittenWhole(r, now, U) == {r}

\* What one turn of the loop may leave of the row it has read as r and that is
\* now another: the proxy's address is written back, then the whole row of a
\* cursor provider, with the base URL its registration gave it.  Either UPDATE
\* may fail unnoticed, and CreateProxy may have no address to give.
Rewritten(r, now, U) ==
    LET addresses == IF r.proxied THEN {"warp", r.proxy} ELSE {r.proxy}
        proxied == {[now EXCEPT !.proxy = a, !.proxied = TRUE] : a \in addresses}
        whole == UNION {{[r EXCEPT !.url = u, !.proxy = a] : a \in addresses} : u \in U}
    IN  {now} \cup (IF r.proxied THEN proxied ELSE {})
              \cup (IF r.type = "cursor" THEN whole ELSE {})

WriteBack(p, r, U) ==
    IF row[p] = {} THEN UNCHANGED row
    ELSE \E now \in row[p] : \E w \in Rewritten(r, now, U) : row' = [row EXCEPT ![p] = {w}]

\* One turn of registerAllProvidersLocked.  A cursor provider that fails may
\* have got the URL of the bridge already.
RegisterProvider(p) ==
    /\ restart.pc = "register"
    /\ \E r \in restart.todo[p] :
          \/ /\ r.disabled /\ restart' = [restart EXCEPT !.todo[p] = {}]
             /\ UNCHANGED <<row, partial>>
          \/ /\ ~r.disabled /\ WriteBack(p, r, {Bridge})
             /\ restart' = [restart EXCEPT !.todo[p] = {}, !.cfg = addProviderConfig(@, p, r)]
             /\ UNCHANGED partial
          \/ /\ ~r.disabled /\ MayFail(restart.cfg, r) /\ WriteBack(p, r, {Bridge, r.url})
             /\ restart' = [restart EXCEPT !.todo[p] = {}]
             /\ partial' = partial \cup {p}
    /\ UNCHANGED <<mem, file, mu, req, unborn, edit, past, crossed, overtaken, undone, inputs>>

\* The restart ends: its waiting client answers and releases configMu.
RestartEnds ==
    /\ restart' = Idle /\ mu' = mu \ restart.by
    /\ req' = [c \in Client |-> IF c \in restart.by THEN Idle ELSE req[c]]

\* Mutant: the file is written after the first provider.
SaveEarly ==
    /\ restart.pc = "register"
    /\ file' = restart.cfg
    /\ RestartEnds
    /\ UNCHANGED <<row, mem, unborn, history, inputs>>

\* A save that fails is logged, and the restart goes on.
SaveProviders ==
    /\ restart.pc = "register" /\ \A p \in Provider : restart.todo[p] = {}
    /\ file' = restart.cfg \/ file' = file
    /\ RestartEnds
    /\ UNCHANGED <<row, mem, unborn, history, inputs>>

\* GetProviders fails: nothing is saved.
RestartFails ==
    /\ restart.pc = "list"
    /\ RestartEnds
    /\ UNCHANGED <<row, mem, file, unborn, history, inputs>>

----------------------------------------------------------------------------
Request(c) ==
    \/ \E p \in Provider :
          \/ \E r \in RowChoice : CreateProvider(c, p, r) \/ ReadForUpdate(c, p, r)
          \/ ReadForDelete(c, p)
    \/ ReadBack(c) \/ addProvider(c) \/ UpdateProvider(c) \/ SwapConfig(c)
    \/ removeProvider(c) \/ DeleteProvider(c) \/ RestartForAdd(c)

Next ==
    \/ \E c \in Client : Request(c)
    \/ ReloadProviders \/ GetProviders \/ SaveProviders \/ RestartFails
    \/ \E p \in Provider : RegisterProvider(p)

Spec == Init /\ [][Next]_vars

----------------------------------------------------------------------------
\* Whatever is in a list, some row had it once.
TypeOK ==
    /\ \A p \in Provider : row[p] \subseteq Row /\ edit[p] \subseteq Row
    /\ \A s \in Slot, cfg \in {mem, file} : \A i \in 1..Len(cfg[s]) :
          cfg[s][i] = Blank \/ \E p \in Provider : <<s, cfg[s][i]>> \in past[p]
    /\ mu \subseteq Client /\ unborn \subseteq Provider /\ inputs \in 0..MaxInput
    /\ \A c \in mu : req[c].pc \in {"restart", "restarting"}

\* No request is at work on p and nothing about it went wrong or crossed.
Settled(p) == ~Busy(p) /\ p \notin partial \cup crossed

\* No other provider ever had the same place.
Alone(p, place) == \A q \in Provider \ {p} : place \notin past[q]

\* A provider the panel left enabled is in the server's configuration, however
\* requests for other providers overlap with its own and whatever vendors they
\* share an entry with (providers.go, AddProviderConfig, RemoveProviderConfig).
\* config.yaml has it too, although restarts and reloads write that file from
\* an object of their own, unless the edit overtook one that had read the row
\* (cpapi.go registerAllProviders).  Two exceptions: a key that another provider
\* has or had goes when that one is changed or deleted, and a restart that is to
\* write a cursor row back may do so before the update has read its own.
EnabledIsConfigured ==
    /\ TypeOK
    /\ \A p \in Provider : Settled(p) =>
          \A r \in edit[p] : ~r.disabled /\ Alone(p, Place(p, r)) =>
              /\ p \notin undone => Has(mem, p, r)
              /\ p \notin overtaken => Has(file, p, r)

\* A disabled or deleted provider with a plain key of its own is gone from the
\* server's configuration: no key it had is left behind by the edits before, one
\* request at a time (UpdateProvider, RemoveProviderConfig).  An edit that a
\* restart then writes over is the exception: the next request removes the
\* wrong entry.
DisabledIsGone ==
    \A p \in Provider \ undone : Settled(p) /\ (\A r \in edit[p] : r.disabled) =>
        \A s \in Slot \ {"own"} : \A i \in 1..Len(mem[s]) :
            <<s, mem[s][i]>> \in past[p] => ~Alone(p, <<s, mem[s][i]>>)

\* now is what last may have become: registration gives a cursor row the URL of
\* the bridge, and gives a proxied one an address.
Kept(p, now, last) ==
    /\ now.type = last.type /\ now.key = last.key /\ now.disabled = last.disabled
    /\ now.url = last.url \/ (now.type = "cursor" /\ now.url = Bridge)
    /\ \/ now.proxy = last.proxy /\ now.proxied = last.proxied
       \/ now.proxied /\ (last.proxied \/ p \in overtaken)

\* Whatever restarts write back, a deleted row stays deleted and a row keeps the
\* type, the key, the base URL and the switch of its last edit, up to what its
\* own registration puts there; an edit that turned the proxy off may be turned
\* on again by a restart it overtook.  Only a cursor row is written back whole:
\* the edit is lost if the restart had read the row (registerAllProvidersLocked,
\* UpdateProxy, UpdateProvider).
RowIsLastEdit ==
    \A p \in Provider :
        /\ row[p] = {} <=> edit[p] = {}
        /\ p \notin undone => \A now \in row[p], last \in edit[p] : Kept(p, now, last)

=============================================================================
