# A verification project for AoyoRouter

AoyoRouter is a gateway and panel in Go around the embedded CLIProxyAPI
service: clients call it with api keys, it authenticates them, forwards to the
AI providers an administrator has configured, and accounts the tokens they use
against quotas. This directory models its parts in TLA+, checks them with TLC
and proves the main results with TLAPS. `PROJECT.json` lists the components,
the runs, the source lines behind every definition, the finding, the hazards
and the theorems.

    tlc -workers 2 -config ApiKeyQuota.cfg MCApiKeyQuota
    tlc -workers 2 -config CursorStream.cfg CursorStream
    tlapm ApiKeyQuotaProofs.tla

## The system

| Component | State | Operations | Meets |
|---|---|---|---|
| Api keys and quota (`apikey_repo`, `apikeys.go`, `access_provider.go`) | table `api_keys`: active, deleted, quota columns, secret | create, edit, delete, rotate; add usage; reset | panel, usage loop, `quota_resetter`, `Authenticate`: all write the same columns |
| Usage pipeline (`usage_plugin.go`, two `ProcessQueue`s) | two channels of 1000, a goroutine per record | report, queue, credit, store | the proxy calls `HandleUsage`; the loops write the tables; App.Start's errgroup stops them |
| CLIProxyAPI lifecycle (`cpapi.go`, `provider.go`) | `cliproxy`, `selectorCancel`, `cliproxy_config`, `appCtx`, under `cpapiMu` | init, restart, run, cancel, close | restarts come from HTTP handlers, runners are goroutines, the closer ends it |
| Key secrets and `config.yaml` (`apikeys.go`, `provider_config.go`, `cpapi.go`) | the server's config object under `configMu`, the file, the provider's object under `cpapiMu` | create, delete, rotate, add provider, reload | two writers of one file under two locks |
| Provider configuration (`providers.go`, `provider_repo`, the vendors' `AddProviderConfig`) | table `providers`, provider entries of the config | create, update, delete, reload | same locks and file; warp proxies; management API |
| Provider authorization (`provider_oauth*.go`, `provider_credential_store.go`) | `oauth:pending` rows, OAuth sessions, cursor flows | start, callback, poll, save credentials | `provider_remover` deletes old pending rows |
| Access policy (`access_policy.go`) | policies per caller scope, fingerprints with a 30 s TTL | Set on each authentication, Pick | `Authenticate`, the proxy's selector |
| Quota watcher and push (`quota_watcher.go`, `push.go`, `push_repo`) | last quota per provider, subscriptions, topics, events, VAPID keys | observe, notify, subscribe, unsubscribe, poll, prune | `quota_loader`, browsers |
| Warp pool (`warp/proxy.go`) | endpoints and proxies under a mutex | create a proxy | each rebuild and `addProvider` |
| Closer, crons (`closer.go`, `crons.go`, `main.go`, `app.go`) | close functions, a done channel | add, close all, wait | everything that opens something |
| Cursor bridge (`pkg/cursor`, `adapter/cursor`) | one HTTP server, proxies per token, one request's stream | start, stream, collect, encode, decode | provider registration |
| Stateless parts | none | effort presets, restriction patterns, vendor quota answers, error logs, paging, panel authentication, health check | |

What is hard here: the quota columns have four writers, two of which write back
rows they read earlier; requests change the database first and a shared file
later; restarts write rows and the file from what they read; the service is
replaced while goroutines still start it; vendors are asked under locks and
without a time limit; queues are bounded and their
consumers may be gone; statements fail in the middle of handlers; things are
opened while the closer is at work.

## Modules

**`ApiKeyQuota`** (`MCApiKeyQuota`, `ApiKeyQuotaProofs`). `table[k]` is the row
of key k with its quota columns; `held[w][k]` is the row that a run of
`quota_resetter` or an `Authenticate` call has read and not handled yet. A reset
is therefore two steps (`CronRead`, `Authenticate`; then `CronWrite`,
`AuthReset`), the second of which is `UpdateApiKeyQuota` on the old row: it
overwrites four columns and has no condition on `is_deleted`. `EditApiKey`
takes all it writes from the request and is one step; `AddApiKeyQuotaUsage` is
one relative UPDATE. Time is in minutes; `ToDuration` has the code's lengths.
Names, restrictions and secrets are left out. A handler reads the clock more
than once; the model reads it once per step. The history variable `chosen`
tells reset dates that an edit chose from those a reset moved on, so that
`QuotaRefills` cannot be met by moving the date alone.

**`UsageLedger`, `UsageQueue`** (`MCUsageQueue`, `UsageQueueProofs`).
`UsageLedger` says what accounting promises: each record is settled once, by
crediting its tokens to its key or by giving it up. `UsageQueue` is the code:
`stage[r]` is where the goroutine of a record is, `quota[r]` and `entry[r]` what
has become of its delta and of its usage entry, and the queues are the two
channels. The wait for the quota queue ends with a send or with the deadline;
the entry is sent only if there is room. `Stop` is the cancellation of the
errgroup's context, after which the loops return (they may take another record
first, whose statement then fails). An UPDATE that reports an error is taken
not to have been applied.

**`CPAPILifecycle`** (`ProxyProofs`). Services are numbered by their build, and
runner n is the goroutine started after build n; runner 1 belongs to the
errgroup. `RunCPAPI` is two critical sections (`SetSelectorCancel`,
`FetchService`), `RestartCPAPI` one, which leaves a nil service when the build
fails (`RebuildFails`). Library behaviour: `Run` returns when its context is
cancelled or its service is shut down (`RunStops`), or fails for reasons of its
own (`RunFails`). The history variable `hurried` records that a restart or the
closer came before a runner had called `Run`; the invariants are about the
behaviours in which none did.

**`KeyRegistry`** (`KeyRegistryProofs`). The secret of a key is a generation
number. A handler reads, executes its statement and later, under `configMu`,
edits the server's list and saves it (`SaveKeys`). A restart, under `cpapiMu`,
first saves a fresh object without keys, then reads the table and saves the
list. `addProvider` keeps `configMu` around the restart, `ReloadProviders` does
not. Under either lock a vendor may be asked for its models (`AskVendor`,
`RestartAsks`), by a request that has no deadline. The file is written as a
whole. Three history variables say what a property may assume: `saved` (the last
writer of the file succeeded), `crossed` (the keys on which two requests
overlapped, or which were rotated after their deletion) and `reloaded`
(`ReloadProviders` was called).

**`ProviderRegistry`** (`MCProviderRegistry`, `ProxyProofs`). The same two locks
and the same file, for provider entries: `row` is the table, `mem` the server's
object, `file` config.yaml. A configuration has a list of keys per vendor, one
shared entry for vendors that put all keys into one, and an entry per custom or
cursor provider. Rows have a key, a base URL and a proxy address of their own,
and several may have the same key, so that an entry (`Entry`) holds what the
vendor compares and not who added it: removing an entry by its key is modelled
list by list as the vendors do it, every equal key at once in a shared entry,
the blanks that `RemoveCompatibility` leaves included (the code moves the keys
that stay before the blanks, the model leaves them where they are; nothing reads
their order). A request writes the row, reads it back (`ReadBack`), and changes
and saves the lists; each of these may fail. A restart reads all rows
(`GetProviders`), registers them one after the other (`RegisterProvider`) and
saves, which may fail too. `Rewritten` is what it leaves of a row on its way:
the address of the proxy it opened, and the whole row of a cursor provider as it
was read, with the URL of the bridge. The history variables `partial`,
`crossed`, `overtaken` and `undone` name the circumstances in which the code
does not keep table and lists together: a request that failed half way, two
requests on one provider at once, an edit made while a restart held the row as
it was before, and such an edit of a row that was of type cursor. `past` says
which entries a provider ever had: two providers that had the same one are not
told apart by the code (`Alone`). `CreateProvider` of a custom provider
dereferences a nil definition (`providers.go:28`) before it has changed
anything, so rows get that type by an update only.

**`OAuthFlow`** (`OAuthFlowProofs`). `row[p]` is the provider row with its secret
("oauth:pending", "oauth:database" or a token) and the version of its
credentials; `session` is the library's session, `flows` the map of cursor
logins. Handlers are split at every statement and at every call of the library:
start, callback, poll, the finish of a cursor login. The credential store's
`Save` reads and writes in two steps. A read that follows an UPDATE may fail.
`provider_remover` reads a list (`RemoverReads`) and deletes from it (`Remove`,
`RemoveFails`). A restart of the proxy reads the secrets of cursor rows
(`RestartReads`) and writes them back later, with a new `updated_at`
(`RestartWritesBack`).

**`AccessPolicy`** (`MCAccessPolicy`, `RequestProofs`). One key's row, its
stored policy and the fingerprints that stand for restricted providers. An
authentication reads the row, marks each restricted provider as resolved and
looks it up (`Resolve`, `Query`, `StoreFingerprint`), stores the policy (`Set`)
and picks. A fingerprint is that of a key and a base URL. The selector compares
it with that of a candidate, which is made when the row is registered
(`Register`, `Rebuild`): it may be older than the row, and in an entry that a
vendor's providers share it has the URL of the first of them (`Carried`).
Fingerprints expire (`TTLPasses`), rows change, a restart empties the store.

**`QuotaPush`** (`MCQuotaPush`, `QuotaPushProofs`). `run[r]` is a pass of
`quota_loader`: the list of providers, the load, the cache, `Observe` as a load
and a store of the previous snapshot, the event, the pushes one by one, the
deletion of dead endpoints. Requests subscribe and unsubscribe in two statements
each. In-app endpoints read events in pages after a cursor; an event has its id
from the sequence before its row is visible (`InFlight`), so that overlapping
passes may commit in the other order. `PruneEvents` deletes old ones. `Crash`
forgets what is in memory; the VAPID keys are resolved again.

**`Resources`** (`MCResources`, `ResourcesProofs`). The closer (`funcs`, `once`,
`done`), the warp pool (`used`, `proxies`, its lock) and the cursor bridge
(`server`, `tokens`, `entries`), with crons and everything else that leaves a
close function. `CloseAll` takes the list, runs all functions at once and gives
up after its time limit; workers open things before and during it. What
`InitCPAPI` opens for the providers it finds is opened by workers here, once the
application is up.

**`CursorStream`** (`RequestProofs`). One chat request: checked, sent on, and
its frames (chunks, an end with or without an error, frames that cannot be read,
a cut) turned into events or into one message; the thinking tagger as state; the
deadline.

**`CursorWire`, `ModelCatalog`, `VendorQuota`, `PanelReads`** are operators
without state: the protobuf encoding and decoding, message bodies and checksum
of the bridge; effort presets, restriction patterns, the list of models and of
credentials, with the definition of every vendor; what each vendor's quota answer
means, a panic included; paging, error logs, who may
read what, and the health check. `Lists` holds the one operator they share for a
loop that appends while it runs. **`Computations`** (`RequestProofs`) has one
variable, `input`, the set `AnyInput` of all inputs the code may be given,
without bounds, and says what the computations of the last three are for.
**`Algorithms`** extends it, chooses bounded inputs and adds those of
`CursorWire`. Numbers have the code's width where it matters: `MaxInt32` for
minutes of a window, `MaxInt64` for the product Kimi's windows are computed by,
`MaxDuration` for the minutes the longest `time.Duration` holds, bytes and
varints of the wire. A window's length is of 32 bits and not negative except
where the code lets it be otherwise: Codex passes a negative length on, and Kimi's
product may wrap. `LengthsFit` names these two.

## Runs

- `quota`: all interleavings of panel, usage, one cron run and one
  `Authenticate` on one key (keys do not influence each other: every statement
  names one id). Period, allowance and date stay consistent, deletion is final,
  and the cron alone refills a spent periodic key. Periods minute, hour and
  forever, so a period ends within the clock's `MaxTime = 3` minutes, or does
  not; `MaxTokens = 4` is above both allowances. Overlapping cron runs and
  several requests are covered by the theorems.
- `usage`: four records of two keys and the admin, queues of capacity 2 and 1,
  so that both overflow. Queues are exact, goroutines end, queued deltas are
  settled, and the pipeline implements `UsageLedger`.
- `lifecycle`: four builds, restarts at any time. If none was hurried, at most
  the current service serves and it can be cancelled, and no runner meets a nil
  service. In every case a service that stays current is run by its own runner.
  Three restarts are enough for a runner to be overtaken twice.
- `keys`: one key with three secrets, two requests, both kinds of restart. No
  live key is lost, no replaced secret stays unless two requests crossed on its
  key, and every request returns if no vendor stays silent for ever
  (`VendorsAnswer`). The theorems cover several keys.
- `providers`: two providers, two requests, three inputs: a creation and an
  edit overlap with a restart or with each other. Rows are enabled or not,
  proxied or not, of a keyed, two shared and two own types, and rows of two
  providers may have the same key.
- `oauth`: a vendor with a callback and a cursor login, two clients, five
  inputs: enough for a login, a refresh, a restart or second request on the same
  provider and a failure, each at any point of the others.
- `push`: one provider that is loaded and one that is only subscribed to, a web
  and an in-app endpoint, two passes, pages of one event, and two events, so
  that a page ends before the list does and the passes may commit their events
  in either order. Two steps may be in progress at once.
- `policy`: two requests, two providers of one shared entry with one key and two
  base URLs between them, or logins, four edits, changes or restarts.
- `resources`: two workers, two proxies or bridges, three endpoints of which two
  have one address; every interleaving with `CloseAll` and its time limit.
- `cursor`: every sequence of up to four frames, streamed and collected. Four
  frames hold text, thinking, text again and an end.
- `algorithms`: bounded inputs, chosen so that every branch is taken: names of
  up to two tokens, keys with restricted models, providers and types in any
  combination, rows of three vendors, windows around `MaxInt32`, five usage
  entries against limits of 2 and 3, logs with and without blank lines, secrets
  and marks in their bodies. The numeric limits are
  scaled down to what TLC's integers hold; the theorems ask of them only that a
  month of minutes fits `MaxInt32` and that `MaxInt64` is not below it.
- `quota_lockout`, a violation: the panel shows a quota it has just set, yet the
  cron's write-back of the row it read before leaves `quota_setted` with an
  allowance of 0, and the key is refused from then on. Periodic keys are safe
  (`NoTornQuota`), because period and allowance are overwritten together.

Deadlock is not checked where a behaviour may end or where a bound on inputs
ends it: all records settled (`usage`), the process gone (`lifecycle`,
`resources`), one request answered (`cursor`), one input chosen (`algorithms`),
inputs used up (`providers`, `policy`). Everywhere else it is.

Several properties are stated for behaviours in which a history variable did
not record an overlap the code is known not to survive. Each such variable
names one circumstance, its comment says which, and the list below says what
happens then.

## Where code and expectation part

Met while modelling, and excluded from the properties by the history variables
or by a step of the model:

- A quota write-back takes back deltas that were added since the row was read,
  although `apikey_repo.go:67` speaks of accumulating. A key that resets
  "forever" is reset by the first cron run after an edit.
- Two restarts in quick succession leave a runner that nobody can cancel
  (`hurried`). A failed rebuild leaves a nil service, which a runner or the
  closer then dereferences. An error of the first `Run` does reach the
  errgroup and stops the usage loops, against the comment at `provider.go:258`.
- A rotation that overlaps another request for its key leaves the replaced
  secret in `config.yaml` (`crossed`).
- Custom and opencode vendors are asked for their models by requests without a
  context or a timeout (`provider_custom.go:51`, `provider_opencode.go:101`),
  under `cpapiMu` and often `configMu`: one that never answers blocks every
  restart, key request and provider request (`VendorsAnswer`).
- Two providers of a shared entry with the same key: changing or deleting one
  removes the key of both (`provider_kimi.go:34`).
- A restart writes proxies and whole cursor rows back from what it read: an
  edit of a cursor row in between is lost (`undone`), one of another row may have
  its proxy turned on again, and the file it saves has the entry of
  the row it read (`overtaken`). Every cursor row gets the address of the bridge
  for a base URL, and every proxied row that of its proxy. The loss has a second
  effect, which the proof
  of `DisabledIsGone` brought out: the server's lists still have the entry of the
  lost edit, so the next update, disabling or deletion removes the entry of the
  row it finds, and the other key stays in use. (A cursor row, a reload, an
  update to a keyed type while it registers, then a deletion.)
  `RemoveCompatibility` edits a copy and leaves a blank entry.
- A request that read a provider before a token refresh writes the older
  credentials back (`overlap`). A failed read of the credentials lets the
  clean-up delete a row whose login has completed; `provider_remover` deletes
  from a list it read before the login completed, and a restart that had read a
  cursor row as pending writes "oauth:pending" back over the login, for a later
  pass to delete (`crossed`). Two polls of one
  cursor login may register it twice (`again`).
- A request that began while another one of its key had older restrictions to
  store may be served under those (`crossed` in `AccessPolicy`); a failed look-up
  counts as done for the TTL (`lapsed`). The restriction of a kimi, cline or
  opencode provider whose base URL is not that of the vendor's first one never
  takes effect (`Misplaced`), since candidates carry the URL of the shared entry.
- A poller that has read past the id of an event whose insert was still under
  way never gets that event (`late`).
- Two passes of `quota_loader` may compare with the same snapshot (`torn`), and
  the snapshot is replaced before the event is written, so that an event whose
  insertion fails is not reported again.
- A close function added after `CloseAll` took the list is never called. Some
  close functions capture the context of the request that opened their
  resource (`warp/proxy.go:167`).
- In the bridge, an end of file in or before a frame's header counts as a clean
  end.
- `ExcludeRestrictedModels` keeps a model that passes either of its two tests (an
  `else if`): one restricted by name whose provider is not restricted, or one of
  a restricted provider whose name is not, so that it lists models the selector
  then refuses, and lists one once per provider of its type. It compares
  spellings, where the selector knows patterns, capitals and names of types; and
  it works on the expanded list, so that the variants of a restricted model are
  listed unless they are restricted by their own names (`VariantsListedByName`).
  A row of type CUSTOM makes it panic.
- An Anthropic answer without one of its windows is a nil dereference
  (`provider_anthropic.go:120`), and nothing recovers: in `quota_loader` it ends
  the process. Codex may answer a quota whose windows are nil, and percentages of
  Codex and Kimi are passed on unclamped. `QuotaIsUsable` says where exactly
  each of these happens, and that nothing else goes wrong.
- `SumUsageEntries` fails for a key
  without entries (it is not called).

## Fairness

- Quota: the clock runs, the cron is scheduled (robfig/cron with a one-minute
  schedule) and a run handles every row it read. An UPDATE that is due again
  and again succeeds in the end (strong fairness of `CronWrite`): database
  errors are taken to be transient. Nothing is assumed of panel or requests.
- Usage: a goroutine that exists is scheduled, its calls have a deadline, and
  the loops run. Records need not arrive and the application need not stop.
- Lifecycle: a started runner is scheduled until it calls `Run`.
- Keys: statements return; waiting for a mutex ends although
  others take it again and again, since Go mutexes hand over to a starving
  waiter (strong fairness of the steps that take one). No step that needs a
  vendor's answer is fair: `HandlersReturn` has the answers as its premise,
  because the code sets no time limit.
- OAuth: time passes, the cron runs, and a deletion it tries again and again
  succeeds (strong fairness of `Remove`). Nothing is assumed of requests and of
  the library, so that an abandoned login is really abandoned.
- Cursor: the handler's goroutine runs and the timer of its context fires.
  Nothing is assumed of the vendor.

## Theorems

All are for every value of the constants, from the named assumptions of the
modules only.

`ApiKeyQuotaProofs`: type correctness, `NoTornQuota`, `WindowBounded`,
`DeletedIsFinal`. The properties speak of the table, but a write-back copies a
snapshot into it, so they are not inductive. The invariant `QuotaInv` adds that
every held snapshot satisfies the same facts: it was a row once, and the clock
only moves on.

`UsageQueueProofs`: `QueuesHoldTheQueued`, `EntryAfterQuota`, and that
`UsageQueue` implements `UsageLedger`. `QueueInv` adds how `stage`, `quota` and
`entry` of a record belong together, so that a record in a queue cannot be sent
again and one that is taken was handed over for a key.

`KeyRegistryProofs`: `ServerListsLive`, `StaleKeyRevoked`, and `FileListsLive`,
which speaks of the time before the first `ReloadProviders`. The key fact is
`DropsAreOld`: what a handler is about to remove is not the current secret of a
live key, because it read it before its own statement and generations grow. For
the file, the list a restart has read is as good as the file it replaces, since
no handler saves meanwhile; that is the part of the invariant that a reload would
break. For `StaleKeyRevoked` the invariant says where every secret that is
listed and not current comes from: a request on that key that has executed its
statement and will still remove it.

`ProxyProofs`, on the lifecycle: `ServesCurrent` and `RunnerFindsService`. A
runner stores its cancel function in one critical section and fetches its service
in another, so the invariant speaks of the runners in between: there is one at
most, it belongs to the current service, nobody serves before it has stored its
function, and that function stays the stored one until it serves. Each of these
is what a hurried restart breaks.

`ProxyProofs`, on the registry: `EnabledIsConfigured`, `DisabledIsGone` and
`RowIsLastEdit`, for any providers, clients, rows and number of requests. The
properties speak of settled providers; in between, a request has changed the
table and not yet the lists, or the other way round. `ProviderInv` says of each
provider what then holds: a request that is alone on it holds a row with the
entry of the last edit, or has just written it (`AloneAt`); the row, and what a
restart holds of it, is the last edit up to the addresses that registration puts
there (`TableAt`), and what the restart has built lists the enabled ones it is
done with (`BuiltAt`); every entry anywhere was some provider's once (`Traced`,
`PastAt`); the plain keys in the server's lists are those of the row, of the old
row before the exchange of an entry, or none before an addition and after a
removal, and each is there once in a list from which one is removed at a time
(`KeysAt`). The lemmas below it say what each vendor's way to add and remove an
entry does to any list (`AddFacts`, `RemoveFacts`): it concerns entries equal to
the one of its provider only, which is why the properties ask that no other
provider ever had that one. `Touches` is that frame for a whole request step, so
that every step is proved for its own provider and once and for all for the
others.

`OAuthFlowProofs`: `AckedSurvives`, `FreshCredentials` and
`CursorRegisteredOnce`. A handler or `provider_remover` acts on what it read
several steps ago, so the invariant says what each step's copy is worth: a login
that is acknowledged, or a cursor login about to be, is pending neither in the
table nor in what the remover or a restart has read, or it is marked as crossed;
a copy of credentials is the newest version or a later save is noted as an
overlap; and the entries of a cursor provider stand for polls about to finish,
or one for the poll that took the flow out of the map. The module assumes that
there is a version to be given out (`MaxVersion` at least 1).

`QuotaPushProofs`: `TopicsFollowRows` (with the action property it contains),
`ExhaustionReported`, `DueIsAhead` and `KeysAreKept`, for any number of
endpoints, providers and passes and any page size. Topics have a row, and so has
a Subscribe that may still insert one (`RowsInv`). `DueIsAhead` needs that the
events of a page are the least ones after the cursor (`EventsForEndpoint` orders
by id): every event the page leaves out has a higher id than every event in it,
by a cardinality argument on the page, so that moving the cursor to the highest
id skips nothing that is visible; what is not, is an id in flight, and is noted
as `late` (theorem `PollingSkipsOnlyLate`). `KeysInv` says that memory and
browsers hold the VAPID keys that a restart would resolve again, or none.

`RequestProofs`, on the policy: all three properties of the run. A request that
is not crossed began when no older restrictions were waiting to be stored, and
none can be read after it, since versions only grow: whatever is waiting, or
stored after its own, is at least as new. For fingerprints, every provider that
was ever looked up is `Known`: its fingerprint is that of its row, or the row
changed or the query failed, or a look-up is under way; and a candidate that is
not stale is made from its row, with the URL of the shared entry if it is in
one. That survives a late store only because a look-up that begins beside
another one does not clear `lapsed`.

`ResourcesProofs`: all three properties of the run. A worker that has opened
something holds a close function nobody else knows, since numbers only grow; the
crons are started before any worker moves. The pool rests on its lock: the
endpoint being dialled is free until it is registered. Bridges rest on the fact
that nothing stops before `CloseAll`.

`RequestProofs`, on the stream: `FailureIsVisible` and `TextIsFaithful`, for any
number of frames. While a request runs there is no error among its events, and
it has sent an event, and with it a status, only if something was decoded
(`Streaming`). So a failure always finds either the status or the list of events
still to be written, and a request that has ended has a status. For the text, the
property speaks of finished requests only; `TextInv` says of a running one that
what was written so far, to events or to the buffer, is the text of the chunks
decoded so far with every stretch of thinking between its tags, and that the
tagger's `open` tells whether the last block still lacks its closing tag.
`WireInv` bounds the frames that wait by those sent and the one that ends the
stream, and says which statuses there are.

`RequestProofs`, on the computations: `NamesRoundTrip`,
`RestrictionsApply`, `QuotaIsUsable` and `PanelShowsOwn` hold of every
input in `AnyInput`: lists of any length, names of any tokens, any numbers a
vendor may send. There is no behaviour to be inductive over; what has to be shown
is what a loop over a list leaves behind, and such facts go by induction on the
length, through the least element of the set of lengths at which a fact fails.
The lemmas say what the appending loop, filters and flattened lists contain and in
what order. Two of the results have an argument of their own. A page holds the
newest entries because every entry it leaves out has a lower rank, by cardinality
(`Newest`). A log that is read back tells no secret because of how it was laid
out (`LaidOut`): a line that tells one is the address, a header of the
request, the status or a header of the response, and the mark before it decides in
which section the parser puts it (`SectionAfter`); in a log whose bodies have no
marks of their own the marks are exactly the four that the logger writes.

The type invariants are part of what is proved; those of the first three modules
are not repeated in the runs. Every inductive invariant was checked by TLC on
the instance of its run before it was proved.

Only model-checked: liveness, which is out of the prover's reach, and
`WireIsFaithful`, since the parser of the wire format is a RECURSIVE operator and
its checksum a bitwise exclusive or, and the prover handles neither.

## Plan

The composition of `ApiKeyQuota` and `UsageQueue`: what a key may consume
beyond its allowance while its deltas are queued.

## Not modelled

- Generated protobuf and gateway code, about 8,000 of the 17,100 lines of
  implementation: it is produced from `docs/api/v1` and has no logic of its own.
- The web frontend, which is user interface; it was read for what it promises.
- Vendors' HTTP requests, headers and JSON decoding, the listing of models and
  the addresses of the login page in the bridge: plain I/O. What becomes of an
  answer, and of its absence, is modelled, but for the list of models a vendor
  has: only whether it was answered.
- The database driver and its pool: their failures appear as failing statements
  of the modules.
- The inside of CLIProxyAPI, warp, the Web Push encryption and the cron library;
  each is modelled by how the code uses it.
- Logging, wording of errors, and routing.
