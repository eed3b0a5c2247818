# Verification of Doric

TLA+ models of the parts of this repository in which several actors meet, the
TLC runs that check them on small instances, and TLAPS proofs of what holds for
every instance.  All paths below are relative to the root of the repository.

Contents: [inventory](#inventory), [modules](#modules-and-the-code),
[runs](#what-the-runs-show), [bounds](#bounds), [fairness](#fairness),
[proofs](#proofs), [findings and accepted windows](#findings-and-accepted-windows),
[not modelled](#what-is-not-modelled), [plan](#plan).

## Inventory

Doric is one Node.js process (`agents/doric`) that keeps coding sessions alive.
A session reserves a sandbox from a pool, and its prompts run one at a time in
it, each with a new agent that talks to a model provider and to tools inside the
sandbox.  PostgreSQL keeps sessions, histories and events; Socket.IO streams
events to clients.

```
HTTP, Socket.IO ── agents/doric ──> packages/agent ──> packages/llms
                       │  │              └──────────> packages/tool, bundles/*
             PostgreSQL┘  └─> packages/sandpool ──> packages/docker | packages/firecracker
```

JavaScript interleaves at `await`, at callbacks and at timers only; that is the
grain of every module here.  What the components keep, do and owe:

**Sandbox pool** (`packages/sandpool/src/lib/sandpool.ts`).  State: records of
sandboxes with their phase, the idle queue, the FIFO of acquisitions, the set of
heat waiters, the counters of the running batch of factory calls, the retry
timer, the lifecycle.  Operations: `acquire`, `waitUntilHeated`, `release`,
`dispose`, abort listeners, settled factory and dispose calls, timers.  Hard:
every entry point and every continuation calls `pump`, which decides on the
whole state; creations, failures, aborts and shutdown settle in any order.
Correct when it never exceeds `maxSandboxes` or the attempts of a batch, leaves
no waiter that nothing will serve, serves in order, uses a sandbox for one lease
and shuts down completely.

**Session service and store** (`agents/doric/src/lib/session-service.ts`,
`sessions.ts`, `direct.ts`).  State: the row (state, messages, last sequence),
the events, the chain of promises per session that serializes appends, the maps
`runtimes` and `live`, the locals of the lifecycle loop.  Operations: create,
prompt, terminate, delete, reconcile at startup, dispose at shutdown, and the
lifecycle that acquires a lease, runs jobs and finishes.  Hard: each database
statement is a window in which a request, an abort or a crash may act on the
same row.  Correct when prompts run in the order of their acceptance, outcomes
are stored once, the lease covers every use of the sandbox and always ends, no
active session is without a lifecycle, histories only grow.

**Event stream** (`socket.ts`, `sessions.ts`, `session-publisher.ts`).  State:
sequences, the append chain, the row and who is yet to publish it, per socket the
cursor, buffer and phase.  Operations: append, update, publish, connect, replay,
flush, disconnect, deletion, the events endpoint (not modelled, it only reads).
Hard: a subscriber reads the row and the events in two queries while both are
published, and the row is published by operations that do not wait for one another.
Correct when a client gets every event beyond its cursor once, in order, without a
gap, and at last, and never knows an older row than was published last.

**Agent** (`packages/agent`, with `packages/tool` and `packages/messages`).
State: the running flag, the message storage, the ledger of recorded tool
calls, the locals of a run.  Operations: `complete` and `stream`, two copies of
one loop.  Hard: a provider, a tool, a callback or the consumer of a stream may
fail or leave at any point, and the history outlives the run.  Correct when runs
are serial, calls and results match, repairs stay in their budget and leave no
trace in later requests.

**Firecracker provider** (`packages/firecracker`).  State: on the host one
directory per sandbox, allocation files, TAPs, nft rules, mounts, jails and
processes; the image cache with its use markers; lock directories; in the
process the promise of reconciliation.  Operations: provision, dispose,
reconcile.  Hard: concurrent provisions share networks and cache, every command
may fail, a VM may die, and a crash leaves anything behind.  Correct when
networks are disjoint, used images stay, what is left behind can be found, calls
settle.

**Docker provider** (`packages/docker`).  State: the daemon's containers and
images, nft tables and key directories on the host.  Operations: provision with
a fallback without a storage quota, dispose, exec and file transfer.  Hard:
requests whose reply is lost, disposal in which one of several steps fails,
addresses that the daemon gives away again.  Correct when nothing provisioned is
forgotten, disposal can be repeated, and rules only filter their own sandbox.

**Sandbox session and VM registry** (`packages/sandbox`, `agents/doric/src/lib/vms.ts`).
Wrappers of a provider's runtime: an idempotent `dispose`, a registry of the
runtimes that live.  Correct when a registered VM is usable and disposal happens
once.

**Configuration service** (`config-service.ts`, `config-store.ts`,
`generation.ts`).  State: the active generation, the stored row with its revision,
the chain of promises that serializes replacements.  Operations: load, replace,
current.  Hard: a build that fails, a transaction whose reply is lost or a crash,
with other replacements waiting behind.  Correct when what serves is what was
committed last, and never something older.

**LLM providers** (`packages/llms`).  State: per stream the parser's buffer and what
was collected of text, reasoning, tool calls and usage; for the module one
`TextDecoder`; for the unified providers one catalog with its pending load and its
expiry.  Operations: `complete`, `stream`, `embed`, `rerank` and `models` of seven
providers over three wire dialects, the checks against a model's support, the repair
of structured replies, logging.  Hard: a chunk ends anywhere, a server ends early or
fails, a caller aborts or leaves, several callers share the decoder and the catalog;
every provider has its own code for the same wishes.  Correct when the cuts do not
show, the log tells what the reader saw, the conversation and the caller's intent
reach the model within what it supports, and an abort ends its own call only.

**OAuth** (`packages/oauth`).  State: the callback server with its pending login and
abort listeners, the token store; for Codex the file `auth.json`.  Operations:
`authorize`, `credential`, `refresh`, `close`, `resolveCodexAuth`.  Hard: two logins
wait on one server while callbacks, aborts and `close` race; refreshes with rotated
tokens run concurrently and write back what they read.  Correct when a code is
redeemed by the login that asked for it, and the stored grant is one the endpoint
still accepts.

**In-memory session store** (`packages/session`).  State: values, creations in
flight.  Operations: `getOrCreate`, `delete`, `clear`.  Hard: a creation settles
after its id was deleted and created anew.  Correct when the lives of an id are kept
apart.

**Core tools** (`bundles/core`).  `edit` replaces several texts in one file at once;
`terminal` runs a command and compacts its output.  Sequential, with hard data: line
ends, overlaps, limits.  Correct when each edit lands in its place and nothing else
changes, and when what is not shown is counted.

**OKF** (`packages/okf`).  State: the sources, the bundle of concepts on disk, per
generation the batch under way.  Operations: `generate`, with `walk`, the work on one
file, the cache and the index.  Hard: the first failure of a batch rejects the
generation while the rest of the batch goes on; an abort, a failed write or a crash
leaves a bundle in part.  Correct when the next generation leaves a bundle that matches
what it read.

**The OKF search tool** (`tools/okf`), **the other bundles** (`bundles/*`,
`packages/bundle`), **config and JSONL files** (`packages/config`, `packages/jsonl`),
**HTTP routes** and **main program** (`agents/doric/src/routes`, `index.ts`): see
[not modelled](#what-is-not-modelled).

Interactions.  The service calls `acquire` and `release` of the pool and reads
the VM registry; the pool calls `provision` through a factory and `dispose` of
the session it got; the lifecycle hands each prompt to a new agent built from
the generation that was current when the session was created; the agent's stream
is appended to the store event by event, and each append is published to the
sockets.  Between components only promises and abort signals travel, so each
module models its neighbours as promises that settle one way or another, and the
property of one module is the fairness of the next: `CallsSettle` of Sandpool is
why SessionService may assume that `release` returns.

## Modules and the code

Each operation of a component is one action per stretch between two awaits that
another actor can tell apart, named after the function or statement it models.
`PROJECT.json` gives the lines of every definition.

| Module | Models | Abstract specification | Checked through |
| --- | --- | --- | --- |
| `Sandpool` | the pool | | `MCSandpool`, `SandpoolProofs` |
| `SessionService` | service, store, lifecycle and process for one session | | `MCSessionService`, `SessionProofs` |
| `EventStream` | appends, updates of the row, publisher, sockets | `EventFeed` | `MCEventStream`, `AgentProofs` |
| `AgentLoop` | `complete` and `stream` | `Conversation` | `MCParts`, `AgentProofs` |
| `Firecracker` | provision, dispose, reconcile, image cache, networks | `SandboxProvider` | `MCFirecracker`, `FirecrackerProofs` |
| `Docker` | provision and its catch blocks, host rules, dispose, under the sandbox session and the VM registry | `SandboxProvider` | `MCParts`, `PartsProofs` |
| `Sse` | bytes to server-sent events | | by `LlmDialects` |
| `LlmDialects` | what each provider makes of the events of a stream | | by `LlmStream` |
| `LlmStream` | streams read together, their log, the shared decoder | the uncut stream, in `CutsDoNotMatter` | `MCLlmStream`, `MCLlm`, `LlmProofs` |
| `LlmBodies` | from a request to the body that is sent, and the checks around it | | by `LlmRequests` |
| `LlmRequests` | calls to all providers, the catalog, structured repairs | | `LlmScenes`, `MCLlm`, `LlmProofs` |
| `OAuth` | client, callback server and token store | | `MCParts`, `PartsProofs` |
| `CodexAuth` | `resolveCodexAuth` and `auth.json` | | `MCParts`, `PartsProofs` |
| `ConfigService` | row, active generation, chain of replacements, restarts | | `MCParts`, `PartsProofs` |
| `SessionStore` | the in-memory store | | `MCParts`, `PartsProofs` |
| `EditTool`, `TerminalTool` | the two tools | the reference definitions in their properties | `MCParts`, `AgentProofs` |
| `Sorting` | `Array.prototype.sort`, as the tools use it | | by `EditTool`, `TerminalTool` |
| `OkfGeneration` | `generate`, `walk`, the concepts and the index | the bundle of what was read, in `BundleMatchesSources` | `MCParts`, `PartsProofs` |
| `CommunityLemmas`, `FoldLemmas` | facts about library operators that the proofs cite | | |

**Sandpool.**  One record variable `pool` holds the fields of the code's `State`
and, per caller, the promise it holds (`call`, `lease`).  `Pump` is a pure
operator on that record, composed like the function: `GrantIdle`,
`ResolveHeatWaiters`, `StartRequiredCreations`, `FinishDispose`; so every action
that ends in `pump()` in the code ends in `Pump` here.  A sandbox slot is a
session record; `retrying` is a record between a failed `dispose` and its
backoff timer.  Delays, log fields and the text of errors are left out.

**SessionService.**  `db` is what PostgreSQL holds; `tail` the promise chain that
serializes appends per session; `runtime` and `sandbox` the entries of the two
maps; `lc` the lifecycle with its locals; `request` where each HTTP request is.
A database statement is one step, and its continuation another when it acts on
what the statement returned.  Statements in flight are lost in a crash.  The
agent is the sequence of its first and last events; what happens between them
appends events like these and is the business of `AgentLoop`.  Sessions share
only the pool, so one session is enough.

**EventStream.**  Events are their sequences, rows their versions.  Replay is
three steps (two parallel queries and the flush); publication and release of the
append lock are one, since the next append awaits a query before anything else.
An operation of `Updaters` is the lifecycle or a `terminate`: it writes the row
(`WriteRow`), reads it (`ReadRow`), and publishes the row it was returned when its
own continuation runs (`PublishUpdate`) or does not publish it (`Discard`).  Several
do so at the same time, and also around a deletion, so a row may be older than the
table's and than another operation's publication when it is published; `announced`
remembers which came last and is read by the property only.
`EventFeed` says what each client is promised, and the refinement mapping hides the
buffer, the queries and the lock.  One publication reaches all connections, so a step
of the feed may send to several clients.

**AgentLoop.**  Both copies of the loop in one module, distinguished by `mode`,
because they share acquire, storage, budget and tools.  A reply is the number of
its calls and a verdict (text, valid or invalid calls, a submission that fits,
can be composed, or is rejected), which is all the loop branches on.  `maxTurns`
is always set, as `direct.ts` sets it.  The storage may start with the history of
an earlier prompt.  `Conversation` is the protocol between caller, provider and
tools that both copies implement.

**Firecracker.**  `held` maps each kind of host resource to the sandboxes that
hold one and, with `cache` and `locks`, is what survives a crash.  A sandbox has
a program counter through provision or dispose; commands that only touch its own
directory are merged into the next step that others can see.  One image
reference is pulled, whose digest may move between pulls; images have the same
size and `CacheLimit` counts them.  Sweeping one stale sandbox is one step.  A
lock is taken in the step that first reads what it guards.  A VM that ends by
itself, with an exit code or by a signal (`Exits`), counts against `MaxFaults`.

**Docker.**  Every request to the daemon and every command that changes the host
is a step; what only happens inside a container or its key directory is part of
the step that ends it.  A request that fails may have taken effect, since its
reply can be lost.  Doric passes no `timeoutMs` to a provider, so the timeouts of
the client never fire.  `vm` holds the locals of a sandbox, among them `table`
and `hostDisposed`, the closure variables that make a disposal repeatable.
`ContainerExits` frees an address that a rule still filters.  `running` is the
map of `vms.ts`; a sandbox is registered when provisioning resolves and forgotten
when `dispose` does.

**Sse, LlmDialects, LlmStream.**  A body is a sequence of pieces of bytes, and a chunk
may end between any two: between carriage return and line feed, within a line, within
a two-byte character.  `Sse` is the parser with its buffer of lines; `LlmDialects` the
three families of stream functions, which share a record `Collected` of what they
gathered; `Handle` makes a step of one event: what is handed out, what is kept, whether
the loop goes on.  `LlmStream`
lets several streams arrive chunk by chunk, end early, fail, be aborted or left, with
the one `TextDecoder` of `sse.ts` between them.  Texts are sequences of tokens, JSON
objects records without the absent fields.

**LlmBodies, LlmRequests.**  `BodyFor(request, support)` is what a provider would post, for each of
the seven providers, with the conversion of messages, replay items, tools, schema and
choice, and the parameters that tune an answer (`Tuning`: reasoning with its effort,
temperature, length); `Refusal` what it throws first.  `LlmRequests` interleaves the
calls of several callers at every await: lookup in the catalog (whose pending load
carries the signal of the call that started it), preparation, request, reply, repair
of a structured reply, logged outcome.  `LlmScenes` names the requests that are tried:
every combination of wishes alone, and pairs over the catalog.

**OAuth, CodexAuth.**  Each await of `authorize`, `credential`, `refresh` and
`resolveCodexAuth` ends a step.  A refresh token is a number, and the endpoint knows
which are live; with rotation a refresh kills the token it used.  The endpoint
refuses a code that comes with another login's verifier.  `lost` and, in `CodexAuth`,
`unwritten` record that a refresh took effect and its answer reached nobody, which no
client can repair.  `MCParts` and `PartsProofs` extend the two modules side by side, hence
`LoginSpec` and `CodexSpec`, the `client` of the one and the `resolution` of the other,
the `endpoint` of the one and the `issuer` of the other.
`auth.json` is written in two steps, since a reader or a crash can meet it torn.

**ConfigService.**  `exclusive` is a chain of promises; here each request knows the one
it waits for.  Build, transaction, activation are steps; a crash keeps the row.
`drifted` records a commit whose reply was lost.

**SessionStore.**  A creation is known by the call that began it.  `delete` and `clear`
forget the creation in flight; its continuation must notice (`session.ts:54`).

**EditTool, TerminalTool.**  One call each, step by step as the code: read, normalize,
locate, check for overlap, apply, restore; execute, compact, collect diagnostics.
The reference definitions of their properties are stated without the code's offsets
and loops.  Both sort; `Sorting` says of a sorted sequence that the element at a place has
as many before it as its place says, which is what `sort` promises of an order without ties.

**OkfGeneration.**  The work on a file goes from stage to stage, read, lookup, asking,
write, writing, at the awaits where another generation, an edit or a failure may come
between; the three completions are one stage.  A concept is what its frontmatter says
of its recipe, an index the concepts whose descriptions it lists.  `alone` records
whether work of another generation overlapped.

**MCParts, MCLlm.**  Parts that share no state are checked by one run: `focus`, chosen
at the start, says which of them acts, and the others have no state, or only the one in
which nothing has begun.  So a run is the disjoint union of the state spaces of its parts.
The properties are checked as the modules of the parts state them; a tool that is not in
focus is in the state in which nothing was called.

**SandboxProvider.**  The promise that both providers implement and that the pool
takes for granted: `provision` resolves with a running sandbox or rejects and
holds nothing; a `dispose` that resolves holds nothing.  `excused` are the
sandboxes of which a reply was lost or a cleanup failed, because nobody repeats
the cleanup of a failed `provision`.

## What the runs show

| Run | Question | Properties |
| --- | --- | --- |
| `sandpool_safety` | bounds, queue, exclusive use, drained shutdown under every interleaving | `TypeOK`, `CapacityRespected`, `LeasesExclusive`, `NoWaiterStranded`, `DisposalDrains`, `ServedInOrder` |
| `sandpool_liveness` | every acquisition, release and disposal settles | `CallsSettle`, `DisposeCompletes` |
| `session` | prompt order, final outcomes, kept history, lease, service of active sessions; prompts are served, aborted sessions and shutdowns end | `HistoryIsConsistent`, `LeaseCoversUse`, `ActiveSessionsAreServed`, `PromptsAreServed`, `AbortedSessionsEnd` |
| `event_stream` | the stream implements the feed, with contiguous sequences, and delivers; nobody knows an older row than was published last | `UpdatesReachSubscribers`, `FeedImplemented`, `EventsArrive` |
| `firecracker` | disjoint networks, used images, reachable leftovers, provisions settle; it implements `SandboxProvider` | `NetworksDisjoint`, `UsedImagesStay`, `LeftoversAreReachable`, `ProviderImplemented`, `ProvisionsSettle` |
| `llm` | streams: cuts do not show, the log tells the outcome; requests: support, intent, history, local aborts | `CutsDoNotMatter`, `LogTellsOutcome`, `SupportIsRespected`, `IntentReachesModel`, `ConversationArrives`, `AbortsStayLocal` |
| `parts`, agent | ledger, transient repairs; both modes implement `Conversation`, one run at a time | `LedgerMatchesMessages`, `RepairsAreTransient`, `ConversationKept` |
| `parts`, Docker | rules meet their own container; it implements `SandboxProvider` | `RulesMeetTheirContainer`, `ProviderImplemented` |
| `parts`, OAuth and Codex | logins do not meet, stored grants live, `auth.json` stays the login it was | `LoginsAreSeparate`, `StoredGrantIsLive`, `LoginSurvivesRefreshes` |
| `parts`, configuration and store | the newest configuration serves, the lives of an id are separate | `NewestConfigurationServes`, `LivesAreSeparate` |
| `parts`, tools | edits land in place, output is accounted for | `EditsLandInPlace`, `OutputIsAccountedFor` |
| `parts`, OKF | a generation leaves the bundle of what it read, whatever came before it | `BundleMatchesSources` |
| `session_cancellation`, `session_outcomes`, `agent_history`, `firecracker_disposal`, `llm_decoder` | one documented statement each that the code does not keep | see [findings](#findings-and-accepted-windows) |

Every property of a passing run is also run against a mutant: an operator such
as `FreeNetworks_OnePastTheEnd`, defined beside the operator it stands in for,
that makes the mistake a change of the code could make.  With the mutant in
place TLC finds the property violated.

Properties that need their exact wording:

* `CallsSettle` speaks of acquisitions, releases and disposals; a caller of `heat` is
  not followed to its answer.
* `OutcomesAreFinal` allows one second outcome: after a failed save, a prompt
  whose `agent.finished` is stored also gets `agent.failed` or `agent.cancelled`.
* `PromptsAreServed` starts when the session has its sandbox; a full pool may
  keep a session queued for ever, which the code intends.  It and
  `AbortedSessionsEnd` take it that providers and tools answer or throw in the end.
* `FeedImplemented` demands gaplessness as long as the session exists; once it is
  deleted, a replay query may find part of the events gone.
* `LeftoversAreReachable` excuses sandboxes of which a cleanup command failed,
  and use markers; both have their own entry below.
* `CutsDoNotMatter` speaks of streams whose bytes did not meet another stream's in
  the shared decoder; that they can meet is `llm_decoder`.
* `SupportIsRespected` speaks of models the catalog knows; an unknown model of a
  known laboratory gets that laboratory's profile.  It speaks of what `prepare.ts`
  negotiates, and allows the caller's own tuning, which is sent unchecked; see the
  windows.
* `ConversationArrives` compares results, calls and the texts of users and of the
  system.  The text of an assistant message is not among them: over the Responses API
  its replay, or else its calls, stand for it (`openai/body.ts:81`), and a message with
  text alone and no replay is not sent.
* `StoredGrantIsLive` and `LoginSurvivesRefreshes` excuse a refresh whose answer was
  lost on its way, and a policy under which the endpoint issues no refresh tokens.  The
  endpoint refuses a refresh token that was used; that it might then revoke the tokens
  that came of it as well is not modelled.
* `NewestConfigurationServes` excuses a lost commit reply (`drifted`) until the next
  replacement or restart.
* `EditsLandInPlace` speaks of the text in which the edits were found, which after a
  fuzzy match is the normalized one, and of the entries after `normalizeEntry`: the
  caller's `newText` loses the trailing blanks of its lines and a final newline also
  where `oldText` was found as it is (`edit.ts:132`).
* `BundleMatchesSources` speaks of generations that no other work overlapped, see the
  windows.
* `ConversationKept` ties the running flag to the runs: the agent is free exactly
  while none is open.
* `ProvisionsSettle` counts rejection as settling, and excuses one provision: that of
  a VM which a signal ended before it was ready, whose cleanup (`runtime.ts:127`)
  hangs in `terminate` like the disposal of finding 4 (`WaitsForLostExit`).  VMs that
  exit with a code, and everybody else while one hangs, are not excused.
* `LeftoversAreReachable` speaks of `Resources`.  The directory of a pull
  (`.acquire-*`, `image.ts:68`) and the work files of a conversion (`image.ts:177`)
  are not among them: a crash leaves them in the cache, and no later process looks
  for them.
* `ProviderImplemented` says nothing about what an excused sandbox leaves behind
  when its provisioning is rejected; a disposal that resolves has no excuse.
* `RulesMeetTheirContainer` allows a stale rule to meet a new sandbox in two
  cases: `nft` failed and the container was removed all the same, or the
  container ended by itself and its disposal has not begun to delete the rules.

## Bounds

| Run | Instance | Why it is enough |
| --- | --- | --- |
| `sandpool_safety` | 4 callers, 4 sandboxes, `minIdle` 2, `maxSandboxes` 4, 3 attempts | a queue of two behind two leases, a batch with failures before, between and after successes, partial heat; symmetric in callers and sandboxes |
| `sandpool_liveness` | 2 callers, 2 sandboxes, `minIdle` 1, 2 attempts | one waiter behind the other with a full, a failing and a draining pool; larger instances exceed minutes because fairness is per caller and sandbox, and the safety half is proved for all sizes |
| `session` | 2 prompts, 1 termination, 1 deletion, 1 failed statement, 1 crash | two prompts make a queue behind a running one; each single failure at every statement |
| `event_stream` | 2 writers, 2 updaters, 1 client with 2 connections, 2 events, 2 updates | two appends contend, and two operations publish three versions in any order; an event in the replay, in the buffer, in both and live, and a reconnection with a cursor; clients do not interact; longer logs only by the proof |
| `llm`, streams | 8 bodies in three dialects, each beside a silent one, two beside a short one; every cut | the events that differ between dialects, one two-byte character per body, LF and CRLF; more streams only share the decoder |
| `llm`, requests | a history with parallel and single calls and two replays of the kind the provider makes; 7 providers; every combination of wishes alone, every tuning beside tools, pairs of callers over the catalog, 1 repair | a second caller joins, aborts or outlives the load of the first; the catalog changes between two attempts |
| `parts`, agent | 2 callers, 3 turns, 2 repairs, 2 calls, 1 run | a repair, an ordinary turn and another repair; a first and a last call of a batch; a second caller is refused at every point |
| `firecracker` | 2 sandboxes, 2 digests, 1 or 2 networks, room for 1 image, 1 fault, 1 crash, VMs that exit with a code or by a signal | contention for the last network, eviction of an image in use and out of use, any single failure, restart after any step |
| `parts`, Docker | 2 sandboxes, 2 addresses, 3 faults, every policy on every platform | an address that is given away again while the first sandbox is cleaned up; a step that fails, its cleanup that fails, and the repetition that fails |
| `parts`, OAuth | 2 logins, 2 users, 3 refresh tokens, every policy of the endpoint; symmetric in logins and users | two waits on one server, a refresh against a refresh and against a login |
| `parts`, Codex | 2 resolutions, 2 refreshes, every shape of file and environment | two writers of one file, one of which reads while the other writes |
| `parts`, configuration | 3 replacements, 1 crash | one works, one waits, one is called when both are over |
| `parts`, store | 2 ids, 3 calls, 2 deletions | a late creation of the first life meets the second and the third |
| `parts`, tools | files of up to 4 characters, up to 2 edits; streams of up to 6 lines around limits of 2 | adjacent, overlapping, repeated and empty edits, over a line end and at a trailing blank; head, tail, gap and diagnostics together |
| `parts`, OKF | `index` and `index.md`, 2 generations, batches of 1 or 2, 1 edit or deletion, 1 failure or crash | the two names whose concepts could collide with each other and with the index; a second generation that starts behind a rejected, aborted or lost one |

The symmetry of `parts` is that of logins and users alone, and no liveness is checked
under it.  Bounds stand in guards and are named: `MaxCrashes`, `MaxFaults`, `MaxEvents`,
`MaxVersions`, `MaxConnections`, `MaxRuns`, `MaxNetworks`, `MaxTokens`,
`MaxRefreshes`, `MaxLives`.  Deadlock checking is
off everywhere, because every one of these systems may come to rest: an idle
pool, a session that is over, bounds that are used up.

## Fairness

Only what the code or the runtime owes is assumed.

* `Sandpool`: a factory call settles; timers fire; holders release, as the
  `finally` block of the lifecycle does; a disposal that is retried again and
  again succeeds at last (strong fairness, the only one in the project, without
  which a place in the pool may be lost for good and nothing can be promised).
* `SessionService`: statements return and continuations run (`LifecycleSteps`,
  accept, terminate, delete, `Exit`).  No fairness for `Grant`: an acquisition
  may wait for ever, but it rejects once aborted.  None for requests, failures or
  crashes.
* `EventStream`: queries return and committed appends publish; nobody has to append,
  update, connect or disconnect.
* `Firecracker`: settled promises run their continuations and lock polling goes
  on (`Reconcile`, `Advance`); calls, users, faults and crashes are not owed.
* `AgentLoop`, `Docker`, the LLM modules, `OAuth` and the small services: no liveness
  is claimed.  A provider, a consumer, a browser or an endpoint may hang, and the
  transport to the Docker daemon (`docker.ts:286`) settles no promise for a response
  that is cut off after its headers.

## Proofs

`SandpoolProofs` proves about `Sandpool`, for every set of callers and sandboxes
and all options that `validateOptions` accepts (`PoolOptions`,
`NoneIsNoSandbox`):

| Theorem | Statement |
| --- | --- |
| `PoolInvariant` | `Spec => []PoolInv` |
| `TypeCorrect` | `Spec => []TypeOK` |
| `CapacityIsRespected` | `Spec => []CapacityRespected` |
| `AttemptsAreBounded` | `Spec => []AttemptsBounded` |
| `NoWaiterIsStranded` | `Spec => []NoWaiterStranded` |
| `DisposalIsClean` | `Spec => []DisposalDrains` |

The inductive invariant `PoolInv` is `Sound(pool) /\ Settled(pool)`.  `Sound`
holds before a pump as well as after it: types, an idle queue that lists idle
sandboxes once, the two bounds, the state of a batch, and the emptiness of a pool
under disposal.  `Settled` holds only after a pump: waiters have progress, and
the pool is disposed exactly when it is empty.  None of the checked invariants is
inductive by itself: `NoWaiterStranded`, for example, survives a failing factory
call only because a batch at its limit is exhausted and an exhausted batch has no
waiters (`BatchSound`), and capacity survives a grant only because the idle queue
holds no sandbox twice.

The argument follows the code.  One lemma per part of `Pump` (`GrantIdleSound`,
`ResolveHeatWaitersSound`, `StartRequiredCreationsSound`, `FinishDisposeSound`)
shows what that part preserves and establishes; `PumpSound` composes them to
"from a sound state to a sound and settled one".  One lemma per action then only
has to show that what the action does before its pump is sound.  `Min`, `Max` and
`RemoveFirst` of the community modules enter through `CommunityLemmas`.

About the leases of the same pool, with the same generality:

| Theorem | Statement |
| --- | --- |
| `LeaseInvariant` | `Spec => []LeaseInv` |
| `LeasesAreExclusive` | `Spec => []LeasesExclusive` |
| `AcquisitionsAreServedInOrder` | `Spec => ServedInOrder` |

`LeasesExclusive` lacks what a grant needs: that the callers in the queue are exactly
those whose calls are pending, each in one place, and so hold nothing yet
(`QueuedOnce`).  `LeaseInv` adds that, and leaves out the bounds and batches that play
no part.  Every action is shown to prepare a state in which nothing has been granted
and the order of the waiters is kept (`Prepares`), which the pump then serves from the
front (`Serves`); invariant and order follow from these two, once for all actions.

`PartsProofs` proves about `ConfigService`, for every number of replacements
and crashes; that the mark of no request is none is an assumption (`NobodyIsApart`):

| Theorem | Statement |
| --- | --- |
| `ConfigInvariant` | `NobodyIsApart => (ConfigSpec => []ConfigInv)` |
| `NewestServes` | `NobodyIsApart => (ConfigSpec => []NewestConfigurationServes)` |

`NewestConfigurationServes` only speaks of a service at rest.  The invariant says why it
is right then: the replacements that have not ended form a chain in which each waits for
the one before it and nobody for two, only the head of the chain works, and row and active
generation differ only between its commit and its activation, or after a lost reply.

and about `SessionStore`, for every number of ids, callers and deletions:

| Theorem | Statement |
| --- | --- |
| `StoreInvariant` | `NoneIsApart => (StoreSpec => []StoreInv)` |
| `StoreKeepsLivesApart` | `NoneIsApart => (StoreSpec => []LivesAreSeparate)` |

The invariant says where a creation of the current life is found: in flight while it is
pending, in the values once it has resolved, nowhere after it has rejected; those of
earlier lives are found nowhere, and a call shares only what its own life made.

About `OAuth` and `CodexAuth` it proves, for every number of logins, callers and
tokens, from the assumptions of the modules that the mark `Nil` is no login and no call
both logs in and refreshes (`OAuthConstants`), and that a missing file is no torn one
(`CodexConstants`):

| Theorem | Statement |
| --- | --- |
| `OAuthInvariant` | `LoginSpec => []OAuthInv` |
| `LoginsStaySeparate` | `LoginSpec => []LoginsAreSeparate` |
| `GrantStaysLive` | `LoginSpec => []StoredGrantIsLive` |
| `CodexInvariant` | `CodexSpec => []CodexInv` |
| `LoginSurvives` | `CodexSpec => []LoginSurvivesRefreshes` |

`LoginsAreSeparate` is inductive with the types.  The other two speak of a store or a file
at rest, and who may know a token fills the gap.  Under an endpoint that keeps its tokens
none that anybody holds dies (`KeptTokensLive`, `OneTokenStays`).  Under one that rotates
them a refresh kills the token it used, whoever else holds it, and the new one is known
only to the call that brings it to the store or to the file (`BroughtTokensLive`,
`WriterHasTheToken`): so there is at most one such call, and whatever it overwrites is
dead already.  That an issued token is new follows from the counter (`TokensAreIssued`).

About `OkfGeneration` it proves, for every number of runs, sources, edits and mishaps, from
the assumption that a path is a stem with a number of `.md` behind it
(`SourcesArePaths`):

| Theorem | Statement |
| --- | --- |
| `OkfInvariant` | `OkfSpec => []OkfInv` |
| `BundleMatches` | `OkfSpec => []BundleMatchesSources` |

The property speaks of the end of a run, the invariant of its course: while a run is alone
no other has work under way (`AloneMeansAlone`), and each source it has read is under work
or has its concept and its result (`ReadsAreKept`).  That one concept never overwrites
another nor the index is a fact about `outputPath` (`ConceptsAreApart`).  One lemma for all
steps of work (`WorkSteps`) and one for all steps of a run (`StageKeeps`) carry the actions.

`FirecrackerProofs` proves about `Firecracker`, for every number of sandboxes, images,
networks, faults and crashes; that no image key is named like the network lock is an
assumption of the module (`LocksAreApart`; keys are digests):

| Theorem | Statement |
| --- | --- |
| `NetworkInvariant` | `Spec => []NetInv` |
| `NetworksAreDisjoint` | `Spec => []NetworksDisjoint` |
| `HostInvariant` | `Spec => []HostInv` |
| `LeftoversStayReachable` | `Spec => []LeftoversAreReachable` |
| `FirecrackerImplementsProvider` | `Spec => ProviderImplemented` |
| `ImagesInvariant` | `Spec => []ImagesInv` |
| `ImagesInUseStay` | `Spec => []UsedImagesStay` |

That the chosen network is still free when it is recorded is no consequence of
`NetworksDisjoint` but of the lock: one sandbox at a time holds it between the two
(`LockGuardsChoice`), and nobody but that sandbox gets a new allocation meanwhile
(`EarlyHaveNone`).  Reconciliation takes the lock away without holding it, which is
right only because no provision starts before reconciliation is over
(`ReconciledFirst`).  A crash ends every provision
and disposal and leaves files and locks alone.

`HostInv` follows provision and dispose place by place: which of the two runs the
cleanup and that nothing has leaked before one begins (`Owned`), that the locals the
cleanup looks at know of the network and the mount that are held (`Recorded`), and that
the sandbox has its directory until the cleanup removes it and, of what a cleanup has
been through, only holds what a failing command has left (`Remembered`).  With
`LeftoversAreReachable` this is inductive, and it is what makes the refinement hold: a
provision that rejects and a disposal that resolves hold nothing unless a cleanup
command failed.

`ImagesInv` goes from the use markers to the evictions: whoever evicts holds the lock of
the cache, and one at a time (`EvictionIsLocked`); a sandbox with a marker is past the
places at which its image key changes (`MarksAreFinal`); and the image whose disk an
eviction has removed has no users (`EvictedIsUnused`).

`PartsProofs` proves about `Docker`, for every number of sandboxes, addresses and
faults and every policy and platform:

| Theorem | Statement |
| --- | --- |
| `DockerInvariant` | `DockerSpec => []DockerInv` |
| `RulesMeetOnlyTheirContainer` | `DockerSpec => []RulesMeetTheirContainer` |
| `DockerImplementsProvider` | `DockerSpec => ProviderImplemented` |

Per sandbox, `DockerInv` ties the container, its rules and its directory to the place in
`provisionDocker` or `dispose` and to the locals: a table is remembered before rules
exist (`TablesAreThere`), rules filter the address of the container they were made for
(`RulesFitContainer`), and what a cleanup has not removed is still known to the
repetition of the disposal (`CleanupRemembers`).  Sandboxes meet only in the addresses,
so one lemma (`OneSandboxMoves`) reduces every action to the sandbox that acts.

`SessionProofs` proves about `SessionService`, for any number of prompts, requests,
failing statements and crashes; that the lifecycle is no prompt and `None` neither is
an assumption of the module (`Writers`):

| Theorem | Statement |
| --- | --- |
| `SessionControl` | `Spec => []Base` |
| `LeaseCoversEveryUse` | `Spec => []LeaseCoversUse` |
| `ActiveSessionsHaveLifecycles` | `Spec => []ActiveSessionsAreServed` |
| `SessionOrder` | `Spec => []Order` |
| `SessionHistory` | `Spec => []HistoryIsConsistent` |

`Base` says at each place of `runLifecycle` which lease it holds, whether its entry in
`runtimes` is there and what the row may read.  `Order` is about events that are
stored one at a time and prompts that are queued later: between the commit of its
`prompt.accepted` and its place in the queue a request still holds the event lock
(`CommitsHoldLock`), so queue, job and jobs to cancel are in the order of those events
(`QueueInOrder`), and what was worked on precedes all that is still queued
(`WorkInOrder`).  `Kept` says which copy of the history has the messages of a finished
prompt: the row, or the locals of the lifecycle until `save` or a fault.

`AgentProofs` proves about `EventStream`, for every number of writers, updaters,
clients, connections, events and updates (`EventsAreCounted`: the bound is a number):

| Theorem | Statement |
| --- | --- |
| `StreamInvariant` | `Spec => []StreamInv` |
| `SubscribersKnowTheRow` | `Spec => []UpdatesReachSubscribers` |
| `StreamImplementsFeed` | `Spec => FeedImplemented` |

`StreamInv` has four parts.  The holder of the append lock computes its sequence at the
end of the log, and all before it are published (`LogInv`).  A client that replays has
two ranges, what its query read or will read and what is buffered since it subscribed,
and these meet without a gap while the session exists; one that is live was sent all
that is published (`ClientsInv`).  What an operation is yet to publish was the row at some
time, so it is not newer than the table's (`NewsInv`).  And a ready client knows no
older row than was published last, nor will a replay tell its client of one
(`UpdatesInv`): the row it buffered is the one published last, and if it buffered none,
nothing was published since its query or the query is yet to come.  The refinement follows: the flush is
the step that closes the gap, and every publication appends to a client that is level.

`AgentProofs` proves about `AgentLoop`, for every number of callers, runs, turns,
repairs and calls of a reply (`AgentBounds`: the bounds are numbers, and a reply may
have a call):

| Theorem | Statement |
| --- | --- |
| `AgentInvariant` | `AgentSpec => []AgentInv` |
| `LedgerMatches` | `AgentSpec => []LedgerMatchesMessages` |
| `RepairsPass` | `AgentSpec => []RepairsAreTransient` |
| `AgentImplementsConversation` | `AgentSpec => ConversationKept` |

All four properties speak of the messages, the locals of the loop do not: `AgentInv`
says how the two hang together (`RunOK`).  The rejected replies since the start of the
run are as many as `invalid` says, one more while `onStructuredAttempt` is told of the
last (`Budget`); each turn was either shown or rejected (`Hidden`); whether the next
request carries a correction can be read off the last message (`Corrections`), and a
baseline is that of the last reply until one is accepted (`Baselines`).  While calls
are under way the reply stands `next` or `next - 1` places from the end with nothing
but results behind it, and no handler of it has run beyond `next` (`Batches`); this is
why a call's entry in the ledger names the message whose result it is.  `RunOK` speaks
of a run, messages and started handlers as values, so each action is proved by
comparing two such triples; `RunContinues` and `RunEnds` bring that back to the agent,
where one caller at a time has a run.

For the refinement `RunOK` gives the mapped variables in terms of the locals
(`ViewOfRun`).  A step that stores no message is a stutter or the request; a reply that
is stored is accepted or rejected, according to what happened to `invalid`
(`ReplyGoes`); a result takes one call off those that are pending; everything that ends
a run closes the conversation.

and about the two tools, for every output, every limit and every file and list of edits
(`OutputsAssumption`, `TextsAssumption`: outputs are sequences of lines that have a kind,
texts are sequences of characters, limits are numbers):

| Theorem | Statement |
| --- | --- |
| `OutputAccounted` | `TerminalSpec => []OutputIsAccountedFor` |
| `EditsLand` | `EditSpec => []EditsLandInPlace` |

Each tool takes few steps, so the invariants (`TerminalInv`, `EditInv`) only say that what
is returned was made of what was read; the work is in what the loops of the code compute.

`streamDiagnostics` is a fold whose state after n lines is known (`Merged`): every
diagnostic stands for the lines like it, with the first of them and their number, no two
are alike, and no line that is a diagnostic is missing.  So no two diagnostics have a stream
and a line in common, the comparison of the sort orders them all (`BeforeOrders`), and a
sorted sequence has every element at its rank (`SortedInOrder`).  A diagnostic that the
limit cuts hence stands behind all that are kept (`TerminalTells`), also when the failed
tests of cargo follow past the limit.  That head, omitted lines and tail add up
(`CompactAddsUp`) is arithmetic about the two limits, in any order.

A text is *woven* of gaps and the texts between them (`Woven`), and a list of places that
are in order and do not overlap cuts every text into gaps and pieces (`WovenOfPieces`).
`locate` yields such a list: a place where a text was found holds it, the sort puts the
places in order and the check for overlap keeps them apart (`LocatedLie`).  Replacing from
the last to the first then exchanges one piece at a time, since a replacement leaves all
that is before it where it was (`AppliedFromTheEnd`); the mutant that replaces from the
front fails in exactly that step.  What the tool works on has no line ends but `lf`
(`FuzzyIsFlat`), so the line ends that it restores normalize to what it made
(`RestoredLineEnds`), and the reported line follows the longest common prefix
(`FirstLineDiffers`).

`LlmProofs` proves about `LlmRequests`, for every number of callers, conversations of any
length, every catalog and every number of repairs:

| Theorem | Statement |
| --- | --- |
| `RequestsInvariant` | `RequestsSpec => []RequestsInv` |
| `AbortsStayWithTheirCaller` | `RequestsSpec => []AbortsStayLocal` |
| `SupportRespected` | `RequestsSpec => []SupportIsRespected` |
| `IntentReaches` | `RequestsSpec => []IntentReachesModel` |
| `ConversationReachesModel` | `RequestsSpec => []ConversationArrives` |

from the assumption that requests are what the agent builds (`RequestsAreSound`): they have
the fields of their type, results follow their calls (`ResultsFollowCalls`), and what a
system or a user says is not empty (`prompt` of `agents/doric/src/routes/sessions.ts:14` is
not blank).  `agent.ts:165` stores the calls of a reply beside its replay.  Of the replay
nothing is assumed where it is what a model reasoned: for OpenRouter, whose replays are
`reasoning_details` without a call (`openrouter/parse.ts:161`), and for LM Studio, which
has none, the answered call is among the calls of its message.  For `openai` and `codex`,
which send the replay instead of the calls, a replay is assumed to be the `output` of a
response and so to hold the answered call too (`openai/parse.ts:219`).  The texts of
the code itself, such as the correction of a repair, are constants in `Texts`, since the
provers know of a literal only that it is itself.

`RequestsInv` says which request a call carries through its repairs and against which
support it was last checked, and that a load is in flight with the signal of a loading
caller whenever somebody waits.  The rest is about the bodies.  A body is built by flatMaps
over the messages, so what becomes of a conversation of any length follows from what
becomes of one message and from an algebra of flatMaps in `CommunityLemmas`: a flatMap
goes through a concatenation, two of them are one, and a filter before or after is a
flatMap too.  `ConversationArrives` is that algebra for each of the seven providers.

and about `LlmStream`, for every number of streams, any bodies and any cuts, from the
assumptions that a body has one of the three dialects (`BodiesAssumption`,
`ScenesAssumption`) and that the wire of a body carries what its server meant
(`BodiesAreRendered`, which TLC evaluates on the bodies of the runs):

| Theorem | Statement |
| --- | --- |
| `StreamsInvariant` | `Spec => []StreamsInv` |
| `LogTells` | `Spec => []LogTellsOutcome` |
| `CutsInvariant` | `Spec => []CutsDoNotMatter` |

The invariant compares the log with what was handed out: as long as no event that ends a
stream was among it the log is empty, and then it has the record of the first such event
(`Told`), until a stream that is over gets its record in any case (`LogFits`).  That this is
kept rests on the dialects: whatever a server sends, the code ends a stream only together
with an event that says so (`HandleIsStep`, `AfterLoopEnds`).  What an event adds is a fold
over its pieces; `FoldLemmas` proves of a fold with any operation that it goes from left to
right, and is instantiated with each operation that is folded.

`CutsDoNotMatter` says nothing of a stream on its way, so it is not inductive.  What a cut
leaves behind is a byte in the decoder, a partial line in the buffer and an event that is
not dispatched yet, and whether these are right shows only when the rest arrives.
`ClearInv` therefore speaks of the future: at every step of a stream whose bytes met nobody
else's, what it would still hear, were the body to end after any later piece, makes it hand
out what the pieces up to there give in one chunk (`Agrees`).  A chunk then moves pieces
from what is to come into decoder, buffer and parser and changes nothing of that sum,
because each of the three may take a wire in parts: two chunks decode like one
(`DecodeJoins`), two texts split like one (`SplitJoins`), and a line goes from those still to
come to what was heard (`FinalLine`).  A stream that is given up has handed out a prefix,
since what is handed out only grows (`FinalBegins`).

Every property of a passing run is stated by a theorem, but for the six of liveness:
`CallsSettle`, `DisposeCompletes`, `PromptsAreServed`, `AbortedSessionsEnd`, `EventsArrive`
and `ProvisionsSettle` are only model-checked, since fairness and `ENABLED` are out of the
prover's reach.  The
library's theorems about induction take operators as parameters, which the installed
provers cannot instantiate.  Where the length of a sequence matters in a proof, the
induction is therefore a statement about the least element of a set of numbers (`Upwards`
in `CommunityLemmas`).

## Findings and accepted windows

Each of these is a run in which TLC finds the statement violated by what the code
does; `PROJECT.json` quotes the statement.

1. `session_cancellation`: `requestCancellation` (`sessions.ts:237`) writes
   `cancelling` without looking at the state again.  If the lifecycle finished
   since the read, the session goes back from a terminal state and stays
   `cancelling` until a restart.
2. `session_outcomes`: a termination that commits while a prompt is taken from
   the queue drops that prompt and the queue behind it without any outcome event
   (`session-service.ts:252`).
3. `agent_history`: a run that ends between a reply and its last result leaves
   calls without results in the history that the next prompt sends to the
   provider (`agent.ts:207`).
4. `firecracker_disposal`: `terminate` takes a child that a signal ended for a
   running one (`runtime.ts:268`) and waits for an `exit` event that was emitted
   before; the disposal, and a place in the pool, hang.  So does a provision whose VM
  was ended by a signal while it booted (`runtime.ts:127`), with the acquisition that
  waits for it.
5. `llm_decoder`: the `TextDecoder` of `sse.ts:9` belongs to the module, so two
   streams that are read at the same time, or one after a stream that was left in the
   middle of a character, exchange bytes: a text arrives with wrong characters, or an
   event is lost.

Windows the models contain and no property excludes, because nothing documented
promises otherwise:

* A terminate between the INSERT of `create` and `runtimes.set`
  (`session-service.ts:121-128`) marks the row and aborts nothing; the lifecycle
  then acquires a sandbox and keeps it until a second terminate.
* A prompt may be accepted with 202 by a session that just became `cancelling`
  (`sessions.ts:206`); the events endpoint combines a row and events of different
  times (`session-service.ts:386`).
* `session:updated` may carry a row older than one published before
  (`session-service.ts:162` beside 206, 238, 253 and 281), and older than the record of
  a snapshot; if it comes last, subscribers keep it until they connect again.  It may
  also reach a client that connected after the deletion.  `UpdatesReachSubscribers`
  compares with what was published last, not with the table.
* When a statement of `finish` or `cancelJobs` fails, the row stays active
  without a lifecycle until the next start (`session-service.ts:104`); hence the
  condition on faults in `ActiveSessionsAreServed`.
* A callback that throws on `tool.finished` makes a recorded call be reported as
  failed too (`agent.ts:201`); a consumer that neither pulls nor returns keeps
  the agent acquired (`agent.ts:355`).
* `provision` swallows a failure of its own cleanup (`runtime.ts:127`), after
  which the directory is gone and no reconciliation looks for the rest.
  `network.dispose` gives the allocation back although its TAP could not be
  deleted (`network.ts:89`).  A rejected reconciliation is kept for the life of
  the process (`firecracker.ts:46`).  A user's open SSH connection holds up a
  disposal (`runtime.ts:283`).
* A crash between the removal of a sandbox directory and that of its use marker
  (`runtime.ts:262`) leaves a marker that no reconciliation finds, and the image can
  never be evicted.
* The Docker provider reconciles nothing after a crash
  (`packages/docker/src/lib/provider.ts:17`), nor looks for a container whose
  creation was answered by nobody (`provider.ts:25`); the label `doric.sandbox`
  would find both.  It removes a container although its rules could not be
  deleted (`provider.ts:137`), so that the next owner of the address is filtered
  by them until the disposal is repeated.

* A session whose process dies after `agent.finished` was stored and before the history
  was saved loses the messages of that prompt.
* `packages/llms`: when the caller whose signal the load of the catalog carries aborts,
  the others fall back to the profile of the laboratory, and a model of an unknown
  laboratory is refused (`unified/catalog.ts:28`).  `lmstudio-openai.ts:348` sends neither
  the choice of tools nor `parallelToolCalls`.  The indices of a rerank reply are
  not compared with the documents.  A structured call that fails after its last repair
  reports the usage of none of its attempts (`unified.ts:86`); one that succeeds reports
  the sum.
* `packages/llms`: reasoning, temperature and the limit of tokens go into the body
  without a look at the catalog, also beside `provider.require_parameters`
  (`openrouter/body.ts:77`), which then leaves no endpoint for a model that does not
  advertise one of them.
* A history that came from OpenRouter and is continued over the Responses API, as by an
  agent that changes its provider, would lose the calls of every turn that has a replay
  (`openai/body.ts:82`), and its results would follow none; `RequestsAreSound` excludes
  such a history, and the runs use each provider with its own.
* `packages/oauth`: the browser is opened before the wait for its callback is
  registered (`oauth.ts:119`), so that an immediate callback gets a 409 and the login
  waits until it is aborted or the client closed.  Refreshes are not shared: with
  rotated tokens the second of two concurrent ones is refused and its caller gets
  `oauth_refresh_failed` although the store is fresh.  A refresh may save over the
  record of a newer login.  An expiring record without a refresh token throws, even
  while it is still valid.
* `auth.json` is written in place: a crash leaves it torn, and a concurrent reader may
  find it so (`codex_auth_read_failed`).
* OKF: the work behind a rejected generation writes its concepts over those of the next
  one (`walk.ts:41`); the generation after that repairs them.  A write that fails behind
  the frontmatter leaves a cut concept that still counts as cached (`concept.ts:46`).
  Two generations at once may mix the bytes of one concept.  The concept of a source
  that was deleted stays, and the search tool finds it.  A source `a` and a directory
  `a.md` need the same path.
* `edit`: a fuzzy match is applied to the normalized text, so that trailing blanks of
  every line and the final newline go; mixed line ends become CRLF; overlapping
  occurrences (`aa` in `aaa`) count as one.  `terminal`: a line that is cut in a short
  output is not reported as truncated.

## What is not modelled

Left out for a reason:

* Docker after a crash of the process, since no code looks at what it left; a
  ruleset flushed by somebody else, after which `nft delete table` fails for
  ever; `exec` and archives, which keep no state outside of the container.
* Workspace and Git helpers of the sandbox session: commands in the sandbox.
* Preflight of Firecracker: reads the host and rejects before any state exists.
* Usage numbers, listings of models, wording of errors and of prompts, and the fields
  of log records in `packages/llms`.
* `write`, `find`, `grep`, `tree`, `web` and the Git tool: one command or request in
  the sandbox, formatted; to the agent a tool call succeeds, fails or throws, which
  `AgentLoop` has.  The diff that `edit` renders and the context lines of a diagnostic.
* OKF: the extraction of imports and exports, functions of a source; the search tool,
  which reads a bundle.  Bundle loader, config and JSONL files:
  read or parse once, no state over time.
* HTTP routes: validate and call the service; reading of the environment in the
  main program.  Startup and shutdown order are steps of `SessionService`
  (`Restart`, `Dispose`, `Exit`).

PostgreSQL, Node.js, Socket.IO, the Docker daemon, model providers, browsers, token
endpoints and the commands of the host appear only as what the code in `agents/`,
`bundles/` and `packages/` can observe of them: statements that commit or fail,
promises that settle, bytes and messages that are sent, resources that exist.

## Plan

Every component that keeps state over time has its module.  What would add most next:

* The extraction of imports and exports in `packages/okf` as functions of a source, and
  the search of a bundle by the `okf_search` tool; now a concept is what its source was.
* `find`, `grep` and `tree`, once their parsing of the output of a command is modelled.
