# OpenRouter Sift: TLA+ models, checks and proofs

OpenRouter Sift is a local gateway in front of OpenRouter: one Node process that
serves a control plane (`/api/*`, used by the bundled browser UI), a data plane
(`/v1/*`, used by coding agents and other clients) and static UI assets. Its
state is a handful of in-memory objects, each backed by a JSON file or by the
operating system's credential store.

All paths below are relative to the repository (`src/server.ts` is the server).

## 1. Inventory

Concurrency is that of a Node event loop. A handler runs without interruption
between two `await`s; timers, microtasks, answers of upstream calls and other
handlers run in between. All file writes are synchronous (`atomicWriteJson`
writes a sibling file and renames it), so a file holds either the old or the new
image, but a write can fail and the process can die between two writes.

| Component | State | Operations | Interacts with | What is hard | What makes it correct |
|---|---|---|---|---|---|
| Access control: `access/accessKeyStore.ts`, `desiredModelStore.ts`, `schema.ts`, the handlers and the data-plane check in `server.ts` | key table and its file, Desired Models and their file, OS entries of the secrets, the usage timer | create, update, delete key; edit, clear overrides; add, remove Desired Model; authenticate, authorize; debounced usage write | server handlers, OS credential store | two files and an OS store per call, copies held across a body read, failed writes with and without rollback, crash between two writes | a right exists only if the operator gave it and did not take it back; overrides stay inside grants; deleted ids stay dead; secrets shown as recoverable are |
| Request history: `observability/*` | records, history file, limit, lookup queue | begin, update, complete, enrich, clear, set limit, recover at startup | proxy handler, OpenRouter metadata client, settings | jobs in memory against records on disk, eviction while work is in flight, three retry limits on one counter, a bounded queue | what is shown as resolving is being resolved; outcomes are final; cleared history stays gone |
| Upstream credential: `auth/upstreamCredential.ts`, `auth/secureStore.ts` | session key, persisted key, OS entry, environment key | save (session or remembered, after a verification call), forget, load at startup | key handlers, catalog, data plane, enrichment | verification awaited before saving, three layers with priorities, an OS store whose refusal is swallowed on `clear` | the key in effect is the one the operator chose last and OpenRouter accepted |
| Metadata catalog: `openrouter/*`, `storage/metadata.ts` | model list, endpoint lists, cache file, calls in flight | single-flight sync, TTL cache, snapshots for the inference path, periodic endpoint refresh | credential, filters, UI | calls joined to one already in flight, failure keeps the old snapshot, write failure after a fetch | a refresh never loses data, everyone gets an answer |
| Routing policy: `policy/*`, `storage/policies.ts` | model policies and their file; global policy and merge mode in the settings | resolve (passthrough keys), resolve (managed keys), policy CRUD and preview | proxy handler, filters, settings | five sources of restrictions, three merge modes, "unbounded" against "empty" | no later source widens what an earlier one allowed |
| Provider filters: `providerFilters/*` | filter per Desired Model | validate, evaluate, freshness | catalog snapshot, proxy handler | missing data, stale telemetry at the moment of use | fail closed on missing or stale data |
| Proxy request: `server.ts` 1021-1153, `util/http.ts` | one handler per call: attempt, abort reason, response state, observation | fetch, retry on 429, timeout, client abort, pipe with backpressure, finish | upstream, client, history | timeout, disconnect, late answer and retry race; headers may be out already | one answer, one observation, and they agree |
| Settings: `storage/settings.ts`, `PUT /api/settings` | settings file, the values in use | load, save then apply | every component with a setting | half-applied update | the file and the values in use agree |
| Launcher lease: `launcher.ts`, `ui/src/main.tsx`, `cli.ts` 60-140 | clients, startup timer, grace timer | acquire, heartbeat, release, exit, close | browser tabs, process exit | lost, repeated and reordered messages, two timers, one lease per port that is tried | the process stays while a tab is open and ends after the last one closes |
| Local trust: `util/hostGuard.ts`, `policy/validation.ts`, the head of the request handler | what startup decided | Host/Origin guard, public paths, managed key, control key, method check, in this order | every handler | whether an exposed address needs a key is decided once, every request relies on it; the order of ten checks | what reaches the control plane is trusted; local keys stay local |
| Configuration and CLI: `config.ts`, `cli.ts` | the configuration of a run | parse arguments, environment and file, merge them | startup | three layers with their own notions of "not given" | the documented priority |
| Static UI: `controlUi.ts` | none | answer a path of the page, a route or a file | request handler | which paths it answers before `/api` | |
| Windows shortcut, logging, redaction, version | none, or one external file | | | pure I/O and formatting | |
| Browser UI, filter page: `ui/src/DesiredModelDetail.tsx` | draft, saved filter, preview, timer, request generation | edit, preview after a pause, save, remove, reload, reset | control plane | answers late and out of order, refusals, edits meanwhile | the preview belongs to the draft on the screen; what is called saved is stored |
| Browser UI, other pages: `ui/src` | React state | load a list and render it | control plane | | |

## 2. Plan

The most important behaviour first: who may use a model, then what the operator
is shown, then what a request does on its way.

| Order | Modules | State |
|---|---|---|
| 1 | `InferenceGate` (abstract), `AccessControl`, `AccessControlGate` (refinement), `MCAccessControl`, `AccessControlProofs`, `AccessControlGateProofs` | written, checked, proved (12 theorems) |
| 2 | `RequestTracker`, `RequestTrackerProofs` | written, checked, proved (5 theorems) |
| 3 | `SecureStore`, `UpstreamCredential` (takes it in), `MetadataCatalog` (composes it), `MetadataCatalogProofs` | written, checked, proved (6 theorems) |
| 4 | `LauncherLease` | written, checked, proved with item 7 (4 theorems) |
| 5 | `ProviderRouting` (operators), `RoutingConfig` (stores and what they decide), `MCRoutingConfig`, `RoutingConfigProofs` | written, checked, proved (6 theorems) |
| 6 | `ProxyRequest`, `ProxyRequestProofs` | written, checked, proved (6 theorems) |
| 7 | `Configuration` (operators), `Gateway` (composes it with `LauncherLease` and the front door), `MCGateway`, `GatewayProofs` | written, checked, proved (8 theorems) |
| 8 | `ProviderFilters` (operators), taken in by `RoutingConfig` | written, checked, proved with item 5 |
| 9 | `FilterEditor` (takes in `ProviderFilters`), `MCFilterEditor`, `FilterEditorProofs` | written, checked, proved (3 theorems) |
| 10 | composition: `ProxyRequest` with `RequestTracker` (the record a handler finishes is the one the log keeps), and with the key of the moment | open |
| 11 | the pages for a key's routing and a model's policy, which have the shape of `FilterEditor` | open |

Every invariant and every action property of the runs is proved, and so is the
refinement, within the hypotheses section 5 names; what the runs alone show is
liveness. An abstract specification of the request history (a set of records,
each open, pending or settled) is worth stating before the composition of item
10, and its refinement worth proving then.

## 3. The modules

Every module is a translation of the code named in its heading comment; names
follow the source. An action is what one handler, timer or callback does from
one `await` to the next. Definitions headed "Mutant of" are changed forms of the
definition below them: they are no part of any specification and only show that
a property can fail.

### Access control

`AccessControl` holds both stores as memory and file, the ids with an OS entry,
the armed usage timer, the data-plane handlers and the override edits in flight.
Every management call is an action; those that await a body (`StartEdit`,
`FinishEdit`; the data plane from authentication to authorization) are two. A
write either installs the whole memory image or fails; a crash may come between
the two writes of one `DELETE /api/desired-models/:id`. Variables that no action
reads record what callers were told, and the properties are about them. Only an
answer changes them: a crash and a restart leave them as they are, so whatever the
files lose shows. `expected` is the override the last answered write left for a
key and model, and `unsettled` the entries of which no more can be said: an older
edit of the key was still waiting for its body and writes back the table it
copied, or a removal of the model ended with a 500, so that its overrides are
gone in memory and back after a restart.

`InferenceGate` says what this promises: rights are a set that only the operator
changes, one key or one model at a time; a call goes to a model only under a
right its key had when it was recognised, and only while the model is on offer.
`AccessControlGate` maps the detailed state to it, and the run `ac_crash` checks
the abstract specification as a property of the detailed one.

### Request history

`RequestTracker`: the log and its file, the bounded queue, the lookups running.
`begin`, `complete`, `enrich` with its three retry limits on one counter, `clear`,
`setLimit`, eviction, recovery at startup. `persistLater` writes in a microtask,
so the write is part of the step that asked for it.

### Upstream credential and catalog

`SecureStore` is the entry of one account with the program each call runs. The
program may be missing and appear later (`secret-tool` on Linux is looked for
anew by every call), and it may fail: a write then throws, a read looks like an
empty store and a deletion like a success, as in `secureStore.ts`.

`UpstreamCredential` has the session layer, the remembered layer and the OS
entry; a PUT that verifies is `StartVerify` and later `SaveVerified` or
`Rejected`, and anything may run in between. A refused write answers 503 and
changes neither layer. What callers were told stays in `remembered`, the keys the
answers so far allow (two after a deletion that may not have happened).
`MetadataCatalog` extends it with the cache, its file and the callers that
wait for a refresh. Callers that ask while one is in flight join it; the entry a
failing refresh answers from is the one it found when it started (`cached` in
`fetchCached`, read before the `await`).

### Launcher lease

`LauncherLease`: the two timers, the registered clients, the tabs, and the calls
under way as a set, so that they may be lost and overtake each other. A reload
leaves and loads under the same client id.

### Configuration and gateway

`Configuration` has the merge of the three layers as operators: for each setting
the values that matter to `loadConfig` (given, empty, blank, unreadable, refused
by the schema), what the flags of each command preset, and `LoadConfig`. Of
settings that are treated alike one stands for all.

`Gateway` composes it with `LauncherLease`: a command loads its configuration,
`serve` starts one server, `launch` tries ports, each attempt with a lease of its
own whose timer and exit belong to whatever server is open by then; `Reply` is
the order of checks at the front door, from the Host guard to the upstream key,
as one operator. Which part takes a request over is the answer here; what that
part does is the other modules' matter. A request has an `Authorization` and an
`x-api-key`, each with a key and what stands before it (`Bearer` and one blank, the
word in other letters, the word and more blanks, nothing), because
`getInboundAuth`, `isManagedKeyCandidate`, `validateLocalAuth` and
`getUpstreamAuth` each read that in a way of their own: a managed key is known by
what follows the word in any letters, the control key at `/api` by what follows
`Bearer ` exactly, and on the way to OpenRouter by two spellings letter by letter.

### Filters

`ProviderFilters` has the validation of a filter, the evaluation of a condition
on an endpoint of which some fields are unknown, and the age limit of the
telemetry. `RoutingConfig` and `FilterEditor` both use it.

`FilterEditor` is the page that edits a filter: a draft, a timer of 250 ms that is
set anew by each change, the previews in flight, and the calls that save, remove
and reload, which the server answers in two steps (`Serve`, then one of the
`...Answered` actions or `CallFails`), so that answers overtake each other. The
page numbers its previews; the model keeps of the number whether it is the last.

### Routing

`ProviderRouting` has the two algorithms as operators: `Merge`
(`applyProviderPolicy`: merge, override, strict) and `Resolve`
(`resolveManagedProviderRouting`: layers of only and ignore lists). Lists whose
order the code does not use are sets; `order` is a sequence. `RoutingConfig` has
the settings and the model policies in memory and on disk, the override, the
filter and the endpoint snapshot a request finds, the preview the control plane
computes (`Preview`), and what a request with (`Managed`) or without a
managed key (`Passthrough`) is answered. The properties quantify over every
sampled request in every state. The code takes the override from the copy of the
key made when the key was recognised (`accessKeyStore.ts:141`, `server.ts:852`),
before the body is read, and everything else at the moment of the answer;
`override` stands for that copy, and since overrides change freely it meets every
state of the rest.

### Proxy request

`ProxyRequest` is one data-plane handler from the body to its end: calls of
OpenRouter, the 429 retries of `/v1/messages`, the one timer over calls and
waits, the abort by the client or the timer, the pipe with backpressure, the two
catch blocks and the single record. `deaf` is the one subtle piece of state:
`waitForRetry` adds its listener after `await body.cancel()`, and a signal that
was aborted in between is not heard before the delay is over.

## 4. The runs

| Run | Question | Instance |
|---|---|---|
| `ac_crash` | Do grants stay within the Desired Models, and do the stores with the data-plane check implement `InferenceGate`, over crashes? | 2 keys (symmetric), 2 models, 1 alias, 1 request, no faults |
| `ac_fault` | Deleted ids, overrides, stored secrets, and what the debounced usage write may make durable, over one failed write or unreadable file and an edit suspended in its body read | 1 key, 2 models, 1 override, 1 edit, 1 request |
| `ac_removal` | Is a removed model gone for good when a write fails? (violated, see findings) | 1 key, 1 model, 1 fault |
| `ac_usagewrite` | Does a failed usage write leave the gateway serving? (violated) | 1 key, 1 model, 1 request, 1 fault |
| `rt_history` | Does every record that is shown as resolving have a lookup, and settle? Is what was settled or cleared final? | 3 requests, limits 1 and 2, queue of 2, 1 at a time, 1 fault |
| `rt_window` | Does recovery find every pending record? (violated) | log of 2, window of 1 |
| `upstream` | Is the key in effect a vetted one, the remembered one still there, no snapshot lost, every caller answered? | 2 keys, 1 PUT at a time, 2 cache entries, 2 callers and the background refresh, a missing or late program of the store, 1 fault |
| `routing` | Do filters, overrides, policies and strict mode bound what is sent, and does a preview tell? Is what was saved in force? | 3 providers, 4 global policies, 6 model policies, 4 overrides, 7 filters, 5 snapshots, 7 requests, 1 fault |
| `proxy` | Is a request answered once, recorded right and cleaned up? Do its calls end by the deadline, and does all of it end when the client leaves? | 2 retries |
| `gateway` | Which settings win? Who reaches the control plane, and whose key leaves? Does a launch settle, and end when nobody is left? | 3 commands, every setting in every layer, every path with every usual credential, every spelling of a key on `/api` and the proxy's paths, 2 ports, 2 tabs, 1 lost call |
| `config_priority` | Is the documented priority kept? (violated) | the same |
| `editor` | Does the page show the preview of the draft on the screen, and store what it calls saved? | 3 user actions, 1 condition, 2 endpoints, 1 earlier filter, 1 failing call |

**Bounds.** `MaxFaults` counts failed writes, refusals of the OS store and
unreadable files. One is enough for every hazard in the list but one (a
removal whose two files both fail, see section 7). Two models tell "this model"
from "another one", two keys tell a change of one key from a change of all.
Three history records with limits 1 and 2 give eviction while two others are in
use; a queue of two with one lookup at a time has a waiting, a running and a
refused one. The code's constants (100 jobs, 2 at a time, 4 polls) only scale
that. Two retries reach first, middle and last attempt; the code has eight. Two
tabs give overlapping reloads. Three providers give a layer that permits, one
that forbids and one that says nothing of a provider. Models, keys and providers
are interchangeable to the code except where a constant names one. In `ac_fault`
a constraint keeps requests and the usage timer apart from overrides, which
neither decides anything by.

In `gateway` two ports give a first and a last attempt (the code tries eleven).
The sources sweep each setting alone through every combination of layers and
values, because `loadConfig` treats settings one by one, and add the settings
that decide together: host, keys and authentication mode. The requests
(`MCRequests`) are every path and method with each kind of key after `Bearer `; on
`/api`, `/v1/chat/completions` and `/v1/models` also each spelling in
`Authorization`, the control and a managed key in `x-api-key` in each spelling, and
both headers with keys at odds. Requests are looked at
while the lease is idle, because no answer depends on the tabs, and tabs and
timers act only on a server that listens; the milliseconds between the start of
an attempt and its `listen` are too short for a timer of 30 seconds.

In `editor` three user actions are enough for a draft that changes while its
preview is under way, and for a save or a reload that answers after an edit.

**Fairness** is only ever assumed of what the process or one of its timers does
by itself. `RequestTracker`: a lookup that was sent is answered, because the client
gives every call ten seconds. `MetadataCatalog`: the same for a refresh.
`LauncherLease` and
`Gateway`: a timer that stays armed fires, a command goes on, an answer ends, and
a server that was told to close does. `FilterEditor`: the timer fires and calls
are answered, as `fetch` does with a server on the same machine; the user owes
nothing. `ProxyRequest`: the timer fires,
and the handler's own continuations run; OpenRouter and the client owe nothing
there, and may fall silent for ever, which is why `CallsEnd` rests on the
deadline. It says that the calls and the waits between them end, not that the
caller is answered. Nothing is promised of what follows the head of a response
while the client stays, because the code has no limit there: the timer is
cleared as soon as the calls are over (`server.ts:1089`). A stream may then stop in the
middle, and a response that is no stream is first read as a copy for its usage
numbers (`server.ts:1110`, the state `capture`): if OpenRouter falls silent in it,
the caller does not even get the head of its answer. `DisconnectEnds` covers both
for a client that leaves.

**Deadlock** is checked everywhere except in `proxy`, where a finished request
does nothing any more, in `gateway`, where a process ends, and in `editor`, where
a user who has had three actions waits.

Every property of a passing run has a changed form of one definition under which
TLC finds it violated: a missing reset, a swapped order, an early assignment, a
dropped guard. They are listed in `PROJECT.json`.

## 5. What is proved

TLAPS checks these for every value of the constants (any sets of keys, models,
tabs; any number of retries and faults), from the assumptions named in each
module, which say no more than that markers differ from data, bounds are
numbers, and inputs have the types the schemas and parsers let through.

`AccessControlProofs`, about `AccessControl`: `TypeCorrect`, `AccessInvariant`,
`DeletedKeysStayDeleted`, `OverridesStayWithinGrant`, `MemoryStaysWithinDisk`,
`SecretsStayRecoverable`. The wanted properties are not inductive: a record in
the file comes back at a restart, so whatever is claimed of memory must hold of
the file as well, and of the copy an override edit took before its body was read.
The invariant says that both images hold only ids that were generated and not
deleted, with overrides for granted models only and with a secret in the OS store
where they claim one, and that memory grants nothing the file does not.

`AccessControlGateProofs`, about `AccessControl` and its mapping to
`InferenceGate`: `GrantInvariant`, `GrantsStayDesired`, `RemovedStaysRemoved`,
`OneFaultFailsClosed`, `OverridesAreDurable`, `AccessControlImplementsGate`. What
is offered (`desired`) and what is granted (`keys`) are two stores with a file
each, and a DELETE writes one after the other. `GrantInv` says, of the two files
and of memory, what may be seen of a half-done removal. Without faults the files
agree: grants are of models on offer, and none is withdrawn (`Exact`). After one
fault memory can differ from the file in one store only, and a withdrawn right is
missing from one of the two stores, in memory and in the files (`Shut`).
Therefore the first two theorems speak of states with `faults = 0` and the
third of states with `faults <= 1`. Those limits are the code's: one failed write breaks
`RemovedFromKeys` (run `ac_removal`), and two break `FailsClosed` (section 7).
`OverridesAreDurable` has no such limit. Neither `expected` nor `unsettled` changes
when the process dies or starts, so the promise has to hold of the file as well:
its invariant holds the file to it (`FileDurable`), memory too, and adds that the
copy an edit took before it awaited its body differs from the present table in
unsettled entries at most.
The refinement is proved step by step for `MaxFaults = 0`, the instance `ac_crash`
checks: each action changes the rights of one key or of one model at a time
or none, and a crash or a restart none at all, because the mapped rights are
read from the files while the process is down. Most of the work is that `Held`,
the mapped set of rights, changes with one record of the key store as
`InferenceGate` says.

`RequestTrackerProofs`, about `RequestTracker`: `TypeCorrect`,
`QueueDisciplineHolds`, `SettledForGoodHolds`, `PendingHasJobHolds`,
`ClearedStaysGoneHolds`, for every number of requests, limit, queue size and
number of faults. The invariant says that a request is with its handler, then with its lookup,
then settled, and its record shows which (`Stages`); that no request has
two lookups; that log and file hold one record per request; and that an outcome
in the file is the one in the log, so a crash after a failed write may lose an
outcome and never changes one. `PendingHasJobHolds` has the hypothesis
`LogFitsWindow`: no setting keeps more records than the constructor looks
through. Without it the statement is false (run `rt_window`).

`RoutingConfigProofs`, about `RoutingConfig` with `ProviderRouting` and
`ProviderFilters`: `TypeCorrect`, `ManagedIsExactHolds`, `FilterIsHardHolds`,
`StrictIsWithinPolicyHolds`, `PreviewIsSentHolds`, `SavedIsInForceHolds`, for every
set of providers, policies, overrides, filters, snapshots and requests of the
types `RoutingAssumption` names (those the schemas and parsers let through).
Little of it is induction: the invariant says that memory and files agree with
what was acknowledged until a fault, and that a filter in force is a valid one.
The rest are lemmas about the operators: what one layer of `Resolve` makes of the
set that is left, that an `only` list is never empty when a request is
forwarded, what `Merge` keeps in strict mode, and that a valid condition is met
exactly when the endpoint has what it asks for.

`GatewayProofs`, about `LauncherLease` and the `Gateway` around it. Of the lease by
itself: `LeaseTypeCorrect` (with it: the exit is called at most once),
`ExitsOnlyWhenEmpty`, `LeavesWhenEmpty`; the invariant adds that an armed timer
means an empty client set (so whichever fires finds nobody), and that nothing is
armed after the exit. Of the process: `NoLeaseIsLeft`,
`GatewayExitsWhenEmpty`, `GatewayLeavesWhenEmpty`, `ControlPlaneIsTrusted`,
`LocalKeysStay`, `PriorityIsKept`, for every choice of sources, number of ports and
set of tabs. The lease's invariant is strengthened by which phase owns a lease:
until a server listens no tab has reached it, and where
no server is open it is closed. The door's invariant says what a server that
listens was started with: an exposed one has a control key. From it the answer
to each kind of request follows without looking at the layers again.
`ControlPlaneIsTrusted` and `LocalKeysStay` hold for any set of requests and are as
strong as the code allows, no stronger: a managed key that is presented as
clients are told to never reaches `/api`, and neither local key leaves except in
the spellings the code does not know (section 7). The argument goes from a key that is
presented to the one `getInboundAuth` returns to the one that is recognised.
`PriorityIsKept` goes through the layers of one setting; it needs that a command
is given none but its own flags and that the environment has variables for some
settings only (`GatewayAssumption`).

`FilterEditorProofs`, about `FilterEditor`: `EditorInvariant`, `PreviewMatchesHolds`,
`SavedIsStoredHolds`, for any number of calls in flight. Neither looks into a
filter. For the preview: each call whose answer still counts carries the draft on
the screen, and when there is none, no timer and no refusal, the last answer is
shown. For the saved filter: while calls about it do not overlap there is one at
most, and its answer, once it is there, is what the server stores.

`MetadataCatalogProofs`, about `MetadataCatalog` with the key it composes:
`CredentialInvariant`, `TheRememberedKeySurvives`, `TheActiveKeyIsVetted`,
`CatalogInvariant`, `TheBaseIsCurrent`, `TheKnownStaysKnown`. For the key, the
wanted statements about the key in effect follow from two about the layers: the
entry in the store and the copy in memory are both among what callers were told,
and every layer holds vetted keys only. Each step of the composition is mapped to
one step of the key or none, so the catalog's actions need no argument there. For
the catalog, that a failing refresh answers from the current entry rests on the
single flight: those who wait for an entry wait for the same refresh, its leader
waits too, and no other refresh can change that entry. Until something fails,
memory equals the file, so a restart loses nothing.

`ProxyRequestProofs`, about `ProxyRequest`: `TypeCorrect`, `OneAnswer`,
`CancellationsAreRecorded`, `ResponsesAreDropped`, `RetriesAreBounded`. That a
cancelled request is recorded as such rests on a chain the invariant spells out:
until the handler is done nothing is recorded or ended, a client that leaves a
call or a response has aborted it, and the reason "client" is only ever given
when the client is gone. `RetriesAreBounded` needs that every call but the first
has used up a retry.

**Only model-checked**: liveness under fairness, which is out of the prover's
reach (`PendingSettles`, `CallersAnswered`, `AbandonedStops`, `LaunchSettles`,
`PreviewSettles`, `CallsEnd`, `DisconnectEnds`).

## 6. Findings

Four runs show a disagreement between the code and what the repository says of
it. Each is in `PROJECT.json` with its quotation.

- `ac_removal`: after a failed write of the key file, a repeated DELETE of a
  Desired Model changes nothing in memory, therefore writes nothing, and answers
  200; a restart gives the model back to the key.
- `ac_usagewrite`: the timer that saves "best-effort" usage numbers has no
  handler for a failed write, so the exception ends the process.
- `rt_window`: recovery looks at the newest 100 records while the log may keep
  more; a pending record behind them stays pending.
- `config_priority`: `serve` gives seven flags a value the user did not give, and
  they win over the environment and the file.

## 7. Observations without a run

Met while modelling. Where a document says otherwise it is quoted; for the first
three the passing properties and theorems about the front door (`ApiIsTrusted`,
`KeysStayHere`) say exactly how far the statement holds. Of the others no document
of the repository says otherwise, or the statement is outside the models.

- A managed key is looked for after the word `Bearer` in `Authorization`, and in
  `x-api-key` only if there is no `Authorization` (`server.ts:118-130`,
  `util/http.ts:129-141`). README.md:86 says "A `sift_sk_...` key is rejected on
  `/api/*`", and `server.ts:382` "Enforce this even when legacy control
  authentication is off": a request with such a key in another place is treated
  as one without it, so it is let through where no control key is set.
- In passthrough mode a managed key that stands in `Authorization` without the
  word is no candidate and is forwarded like any foreign key (`server.ts:104`).
- "Never forward the control-plane key upstream" (`server.ts:91`) is done for the key
  alone and after `Bearer ` (`server.ts:93`); in other letters or with more blanks
  it is forwarded.
- In merge mode `only: null` in a request replaces the list of the policy, and the
  soft enforcement (`soft_enforce_only`) is skipped because it asks for two lists
  (`policy/providerPolicy.ts:60`). The models have lists and absent lists only.
- A key saved with "Remember" does not take effect while a session key is set
  (`auth/upstreamCredential.ts:53`), where its comments (16-17, 50) speak of effect
  without a restart.
- `--no-fallbacks` sets an option nothing reads; `--disable-responses` and
  `enable_responses: false` of the file are overridden on `serve` by the preset.
- An environment or flag text of a policy field that cannot be read erases the
  value the file gives.
- `serve` prints that it listens before it does, and ends with an uncaught error
  when the port is in use.
- The control key protects only `/api/*` (`server.ts:391`), where `cli.ts:44`
  speaks of inbound requests.
- The preview of an override for a model without a filter and without an override
  may show more restrictions than a request gets: the request then takes another
  way (`server.ts:932`). `PreviewIsSent` is stated for the other cases.
- A PUT of a filter answers 404 on any failure, also after it has stored
  (`server.ts:478`).
- On the filter page the answer of a save overwrites edits made meanwhile and
  drops disabled conditions; two overlapping saves may show the older filter as
  saved. `SavedIsStored` is stated for a user who waits for each answer.
- There, a telemetry age such as `1e3` leaves Save enabled with the age before it;
  picking a text field puts `false` into the condition, and its preview is
  refused.
- Two endpoints of one model with the same routing id are not told apart: if one
  passes the filter the other is used as well.
- A second instance, and a failed launch attempt, work on the same JSON files.
- A page restored from the browser's back/forward cache sends no heartbeat.
- A removal of a Desired Model whose two file writes both fail at first, and
  which is then repeated, answers 200 with both files unchanged.
- A call that was recognised before its key was revoked or narrowed is still
  forwarded when its body has been read (`server.ts:905`); the abstract gate
  states that as the promise.
- Calls without a managed key are not limited to the Desired Models.
- A preflight of a data-plane path begins a record nobody completes
  (`server.ts:348`).
- Recovery makes up to two lookups after the first where the comment speaks of a
  single retry (`requestTracker.ts:98`).
- A DELETE of the upstream key whose OS store refuses silently is undone by a
  restart.
- The refresh after a PUT of the key joins one in flight that began with the old
  key (`server.ts:748`).
- A release beacon that is lost, or overtaken by a heartbeat, leaves the process
  running: lease clients do not expire (`launcher.ts:35`).
- An `eq` condition needs a numeric value (`providerFilters/schema.ts:35`), so the
  ones `registry.ts` offers for the quantization and for implicit caching cannot
  be written.
- In merge mode two disjoint `only` lists become `only: []`, which is sent.
- A model policy whose file write fails is in force until the restart although
  the caller got an error.
- A timeout is answered 504 and recorded 502; an internal error is answered 500
  and recorded without a status (`server.ts:1083`, `server.ts:1151`).
- When OpenRouter breaks off in mid-stream the response is ended regularly
  (`util/http.ts:124`).

## 8. What is not modelled

- Names, hashes, time stamps, usage numbers and cost figures: no decision of the
  modelled components depends on them. A secret is identified with its key.
- The clock. Timers may fire whenever they are armed; a cache entry or a
  snapshot may be found fresh or stale.
- An unreadable Desired Model file under a filter: the store then starts empty
  (`server.ts:264`) and a call without a managed key finds no filter
  (`server.ts:926`), so it is forwarded without one; a call of a managed key is
  refused, since no model is on offer. `AccessControl` has the unreadable file and no
  filters, `RoutingConfig` the filters and a file that is always read.
- The `models` list of a request body, OpenRouter's fallbacks: authorization,
  policy and filter look at `model` alone (`server.ts:905`, `server.ts:926`), the list is
  forwarded as it is, and the models have one model per request.
- The settings file is assumed readable at restart in `RequestTracker` (the
  limit); `RoutingConfig` has the unreadable case.
- `AccessKeyStore.setEnabled` and records of the older `legacy` secret form: the
  server calls the one nowhere and does not create the other.
- Parsing of OpenRouter's answers, the external programs behind the OS stores,
  cryptography.
- The text of headers, hosts and origins: a request is one of the kinds the
  checks tell apart. Percentiles, windows and prices of one metric are one field.
- Reading the static files, the Windows
  shortcut, logging, redaction, the version check, the browser UI but for the filter
  page and the lease calls.
