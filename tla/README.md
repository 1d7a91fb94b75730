# A verification project for plugin-sdk-go

plugin-sdk-go is the Go SDK for Paca backend plugins.  A plugin is compiled to
a WASM module; the host calls its exports, and the plugin calls host functions
back while an export runs.  The repository also holds the SPI for git providers
with a reference implementation, a conformance kit for providers, and in-memory
backends for unit tests.

This directory holds TLA+ models of the parts that keep state or decide
something hard, TLC configurations that check them on small instances, and
TLAPS proofs of the main results for every value of the constants.

## 1. Inventory

| Part | State | Operations | Talks to | What makes it correct |
|---|---|---|---|---|
| WASM host memory (`wasm_backends.go`) | `mallocBuffer`, `mallocOffset`, `mallocBase` | `wasmMalloc`, `wasmResetAllocator`, `wasmSlice` | the host writes requests and host results into it; every backend reads and resets it | blocks stay inside the buffer; nobody reads bytes that were overwritten |
| Exports and dispatcher (`wasm_exports.go`, `dispatch.go`, `plugin.go`, `wasm_result.go`) | `globalDispatcher`, `initted`, `ctx`, `resultBuf` | `Init`, `HandleRequest`, `EvaluateCondition`, `RunAction`, `HandleEvent`, `Shutdown`, `paca_malloc`, `ResetAllocator` | the host; the plugin's own code | a handler sees its own call; the host reads the call's own reply; one successful Init serves all calls; requests give their memory back |
| Host-call backends (`wasm_backends.go`, `custom_host_call.go`) | none of their own | DB, KV, Cache, Config, permissions, `Fetch`, `GetBranding`, `CallHostFunction` | host imports, host memory | a result is copied before the buffer is released |
| Chunked fetch (`fetch_chunks.go`, `host_limits.go`) | the body read so far, the chunk limit | `readBodyChunks`, `readFetchChunk`, `callFetchHost` | the host, host memory | the whole body or an error; it ends |
| Routing (`context.go`, `dispatch.go`) | the route map | `Route`, `matchRoute` | the dispatcher; `testing.go` for unit tests | a most specific route, in any map order, with its parameters |
| Registration (`context.go`, `automation.go`) | events, conditions, actions | `On`, `Condition`, `Action` | the dispatcher | see the dispatcher |
| Reference git provider (`gitprovider/fakeprovider`) | repositories, change requests, comments, branches, webhooks, grants, statuses, kept results, an id counter, under one mutex | about forty SPI methods | the wire adapter, callers that retry, the platform's webhooks | a retry has one effect and the original answer; answers do not change while they are encoded; ids are never reused; a grant works once; an event says what happened, once |
| Wire contract (`gitprovider/wire.go`, `errors.go`, `serve`) | none | `Dispatch` | the provider, a plugin route | only declared operations are served; every failure is a typed error |
| KV, cache and config (`backends.go`, `wasm_backends.go`, `plugintest/backends.go`) | the host's entries; in tests maps and a clock | `Get`, `Set`, `Delete`, `Advance`, `ttlToSeconds` | the host's stores, host memory | both sets of backends keep an entry for its TTL and answer alike |
| Conformance kit (`gitprovider/conformance`) | none | `Run` | a provider | it passes the reference provider, fails defective ones, and ends |
| plugintest (`plugintest`) | tables, log entries | SQL subset | plugin code under test | behaves as the host's database does |
| Native stubs, request/response/event helpers | none | - | - | - |

What is hard here: an instance is single threaded, but one fixed buffer is
shared by request payloads, event payloads, host results and abandoned
allocations, and *any* host call that copied its result out releases *all* of
it.  Init runs plugin code, host calls included, lazily inside whichever export
comes first, and again after a failure.  A transfer of a large body shrinks its
requests when the buffer is too full.  The route map is visited in random
order.  Callers of a provider time out and repeat writes, and the attempts they
gave up on still arrive.  A provider's answer is encoded after its lock is
released, from slices that later writes append to.  Webhook deliveries come
twice, late, out of order and unsigned.  The test database keeps what a failing
statement had done, and TTLs cross from nanoseconds in 64 bits to seconds in 32.
`PROJECT.json` lists these hazards with their lines and the properties that
would catch each of them.  Some are covered in part, as their notes say: events
of a plugin whose handlers call nothing do pile up in the buffer, and
`OnlyDebtRemains` says only that nothing else does; sums and TTLs that wrap an
int32 are outside the instances and the theorems; ids that the test database
generates do come again after a delete.

## 2. Modules

| Module | Models | Notes |
|---|---|---|
| `WasmMalloc` | the bump allocator: `MallocAt`, `OffsetAfter`, `wasmResetAllocator` | sizes and offsets are int32 (`Add32` wraps); `Int32Assumption` records that the host's size limits keep the sum from wrapping |
| `HostArena` | the buffer's cells and Go slices over them | a slice aliases cells (`wasmSlice`) or is a copy (`Copied`); a block holds one abstract content, and cells that disagree read as "garbage" |
| `PluginRuntime` | exports, dispatcher, host calls | one action per export entry, per step between two calls of plugin code, and per way a host call can go |
| `FetchSpec` | what `Fetch` promises | one outcome: an error, or the whole response |
| `FetchChunks` | `Fetch` and the chunk loop, against a serving, failing or lying host | implements `FetchSpec` (`Whole`, a refinement mapping) |
| `Routes` | `matchRoute` as a loop over a set in any order, and the parameter merge | a path is the sequence of its segments |
| `GoMaps` | Go maps as functions: an assignment, a merge | used by `Routes`, `FakeWrites`, `FakeAccess` |
| `FakeWrites` | the provider's writes with idempotency keys | Core.mu makes a method one step; `full` tells a Full from a Minimal |
| `RetriedWrites` | callers of those writes: timeouts, retries, late attempts, other writers | extends `FakeWrites` |
| `ListSpec` | what the provider promises of its lists | they are values |
| `FakeLists` | the lists as Go slices that share arrays; answers being encoded | implements `ListSpec` (`Values`, a refinement mapping) |
| `FakeAccess` | webhooks, access grants, statuses, credentials, identity deletion | all numbered from one counter |
| `Webhooks` | `VerifyAndParseWebhook` as a function of a delivery | a text is the places where it names the handle |
| `HookDelivery` | registration, the platform's deliveries, parsing, core's inbox | composes `FakeAccess` and `Webhooks` |
| `FakeReads` | single reads, cuts of texts, the writes that only mark | a text is the sequence of its bytes, a byte its place in its rune |
| `FakeProvider` | the whole reference provider | composes `FakeWrites`, `FakeReads`, `Webhooks` and `FakeAccess` around one counter |
| `Paging` | the kit's walks over paged lists, the reference provider's pages | a part of `ConformanceKit` |
| `ConformanceKit` | the kit's subtests as scripts of calls, the defective providers of `mutants_test.go` | composes `FakeProvider` and `Paging` |
| `InMemoryDB` | plugintest's database: seeds, INSERT, UPDATE, DELETE, SELECT | a statement is given by what its text says; the parsers are operators on that |
| `StoreSpec` | what `plugin.KV`, `plugin.Cache` and `plugin.Config` promise | a value, the time it has left, the room an answer has, and the last call with its answer |
| `PluginStores` | the WASM backends over the host's stores and the buffer of `WasmMalloc`, and plugintest's maps | implements `StoreSpec` (`Promised`, a refinement mapping); a second is `Second` units, durations and seconds have `DurationBits` and `SecondsBits` |
| `WireDispatch` | one provider operation from route to answer | one step per gate of `Dispatch` |
| `MC*` | instances for TLC | constants only |
| `PluginRuntimeProofs`, `FetchChunksProofs`, `RoutesProofs`, `WireDispatchProofs`, `HookDeliveryProofs`, `FakeListsProofs` | theorems about the module of that name | section 5 |
| `FakeProviderProofs` | theorems about `RetriedWrites` and `FakeProvider` | section 5 |
| `BackendsProofs` | theorems about `PluginStores` and `InMemoryDB` | section 5 |

`HostArena` extends `WasmMalloc`; `PluginRuntime`, `FetchChunks` and
`PluginStores` are built on them.  In each module definitions marked *Mutation* are deliberately wrong
variants of the definition that follows; nothing uses them but the mutants in
`PROJECT.json`, which show that each property can fail.

How the state corresponds to the code:

* `PluginRuntime.pc` is where the export in progress is: `entry` (payload
  sliced), `init`, `initializing` (inside Plugin.Init), `lookup`, `handler`,
  `pack` (result built), `shutdown`.  `topic` and `payload` are the slices the
  export holds.  `held` stands for anything plugin code keeps: a host result,
  or an event's payload stored for later.  `sent`, `delivered`, `registered`,
  `inits`, `debt` and `promised` are history variables for the properties.
* `FetchChunks.limit`, `body`, `size` are the locals of `readBodyChunks`,
  `readOffset` is the offset it asks for; byte
  *i* of a response is the number *i*, so that a skipped, repeated or reordered
  byte shows.
* `Routes.best` and `todo` are the loop's locals and the keys it has not seen.
* `FakeWrites.idem` is `Core.idem`; `done` is history: for each operation and
  key the requests that took effect.  `RetriedWrites.phase` is where a caller's
  current attempt is; `late` counts attempts it gave up on that are still on
  their way.
* `FakeLists.heap` is memory, an array as long as its capacity; `lists` are the
  slices the provider keeps, `held` the slices in an answer between the return
  of the method and the end of Dispatch's encoding.  What a garbage collector
  may take is dropped, so that addresses can be used again.
* `HookDelivery.mail` is every delivery sent; a delivery stays in it, for it may
  come again at any time.  `told` is what core took, by event id, with the
  number of the happening the delivery was about, which no code sees.
* `ConformanceKit.log` are a subtest's local variables, `pos` its next call.  A
  requirement that calls `t.Fatalf` ends the subtest, one that calls `t.Errorf`
  only reports.  A defective provider changes a request on its way to the
  reference provider (`Altered`), or the answer on its way back (`Spoilt`).
* `InMemoryDB.tables` is `db.tables`; a SQL NULL is `nil`, and generated ids are
  the numbers above 100, `Cells` those below.  `shrunk` is history: the tables
  that lost rows since they were seeded.  A loop of the code is a fold: `Judged`
  over the conditions of a WHERE, `Kept` and `Updated` over the rows, `Assign`
  over the assignments of a SET, `Filled` over the columns an INSERT names.
* `PluginStores.expireAt` is the entry's, with 0 for the zero time.  In the
  mapping to `StoreSpec` an expired entry that is still in the map is gone, and
  `room` is what the buffer has left.
* `WireDispatch.pc` is the gate that comes next, `outcome` how the provider's
  method ended, `hint` the error's RetryAfterSeconds.

Left out on purpose: JSON layout (decoding copies, and fails on malformed
input), the packed pointer/length pairs, titles and bodies, and slashes at the
ends of a path (`splitPathSegments` trims them; only the exact-match shortcut
sees them).

## 3. Runs

| Run | Instance | Shows |
|---|---|---|
| `plugin_runtime` | a 3-cell buffer, blocks of 1 or 2, two names, three registrable handlers, replies of 1 or 2 with a limit of 1 | handlers, held results and the host's result are never overwritten; failed Inits leave nothing behind; requests give their memory back |
| `fetch_chunks` | a 10-cell buffer at every initial fill, responses up to 10 bytes with a limit of 9, chunk limit 8 shrinking to 2 | whole body or error, an end, and success from a partly used buffer |
| `routes` | every pair of routes over patterns of up to three segments, paths of up to four, two methods, host parameters or none | a most specific route wins in every order; its handler gets the host's parameters and those of the match, each with the segment in its place |
| `retried_writes` | two callers in two repositories, a shared key or keys of their own, two attempts each, one other write, Full and Minimal | one effect per key, retries get the original answer, a key never crosses operations, every caller is told |
| `hook_delivery` | two repositories, two URLs, two ids, two happenings out of five kinds | one event per happening, which says what happened; old references are harmless, a grant state works once |
| `in_memory_db` | one table of up to two rows with three seeds (one with a row too short), WHERE clauses of up to two conditions | statements act on exactly the rows their WHERE describes, also after failed ones |
| `plugin_stores` | one key in each store, an empty and another value, TTLs of -5 to 3 half seconds, five units of time, a 3-byte buffer at every fill | both sets of backends are stores |
| `wire_dispatch` | a required and three optional operations, two of which share a capability; every set declared and implemented | every request is answered with the right class of outcome |
| `conformance_kit` | texts of up to five bytes in runes of one to three, lists of up to 3, a limit of 3 pages, both variants, sixteen defective providers and one that pages at will | the kit passes the reference, fails each defect, ends; cuts split no rune |
| `fake_lists` | one answer at a time, payloads of one or two elements, two writes, new arrays with or without room to spare | answers and lists are values though they share arrays |
| `literal_always_beats_param`, `any_where_in_full` | the instances above | two places where the code does not do what a comment beside it says; see section 4 |

Why the bounds are enough.  The buffer holds one and a half of the largest
blocks, so that blocks overlap, fit exactly, and are refused.  Two contents tell a
right read from a wrong one; a third adds nothing, as no step compares two of
them.  A limit of 1 on results lets a reply be at and over it.  `inits`
saturates at `MaxInits`.  In `fetch_chunks` a full chunk does not fit the buffer, half of one does, and the
response can exceed the limit by one.  Two routes are what a tie needs, and a
path of four segments lets a relative pattern have two parameters.  In
`retried_writes` two callers are what a collision of branches, of keys or of
repositories needs, one retry leaves one late attempt, and the one other write
closes, merges, reopens, opens or creates what a late attempt then meets.  In
`hook_delivery` two ids let a webhook be removed and registered again, or a
grant be begun beside it; two happenings are what confusing two needs.  In
`fake_lists` the interference of a write with an answer takes an append before
the read, to make room, and one after it.  In `conformance_kit` the texts put
every place of a rune on the limits (the kit's 20, 10, 5 and 4 bytes are 4, 3, 2
and 2 here), and diffs on both sides of the length that makes the kit ask for a
part; lists of 1 to 3 leave the last page full and half full.  In `in_memory_db`
two conditions are what telling "all" from "the first" or "the last" needs, and
the short row makes any statement fail after a row it had changed.  In
`plugin_stores` a second is two units, so that TTLs fall on and between
seconds; no TTL exceeds the four bits of seconds.  `MaxRows`, `MaxClock`,
`MaxHint`, `MaxItems`, `MaxAttempts`, `MaxOthers`, `MaxHappenings`, `MaxSeq`,
`MaxSpare`, `MaxWrites`, `NumArrays`, `MaxInits`, `MaxReply`, `MaxResponse` and
`MaxChunk` are the bounds that are not in the code.

Symmetry is used in `hook_delivery` only: repositories and URLs are
interchangeable there, and no liveness is checked.

Fairness.  `FetchChunks` assumes weak fairness of its next-state relation: a
host call returns and the loop goes on.  That is all `FetchEnds` and
`PartlyUsedBufferSucceeds` need, since in a single-threaded guest nothing else
runs meanwhile.  `WireDispatch` assumes it of Dispatch's steps, which includes
that a provider's method returns: the route gives it a context that expires
after 60 seconds, and a provider that ignores it is outside this model.
`RetriedWrites` assumes that the provider answers a request that reached it and
that an answer the caller still waits for arrives; a timeout may always come
first, as often as `MaxAttempts` lets a caller try again.  Sending, timeouts and
late attempts are owed by nobody.  `ConformanceKit` assumes that the suite, one
sequential program, goes on, which includes that every call of the provider
returns.  The other modules state only safety: nothing obliges the host or the
platform to make a call.

The suite of `conformance_kit` stops when its last subtest is over, so that this
run does not look for deadlocks; the others do.

## 4. Findings

Each of these is a run whose property TLC refutes.

* A literal `projects` segment does not beat a parameter in the same place when
  a parameter follows it: the scores tie and the map's order decides.
* plugintest's database cuts a WHERE joined by a lower-case `and` after its
  first clause, though FROM, WHERE and SET are read in either case.

Other disagreements met while modelling.  The models do what the code does; no
run is spent on them.

* The comment on `mallocBuffer` says the allocator is reset before the request
  is handled; it is reset afterwards, so a request near the buffer's size leaves
  its handler no room for the first host result.
* `Plugin.Init` is documented to be called once; a failing one is called again
  by every later export.
* `UpdateChangeRequest` makes a draft where `OpenChangeRequest` refuses drafts.
* plugintest's database ignores the columns a SELECT names, and does not accept
  `INSERT INTO t VALUES (...)`, both of which its comments list as supported.
* The reference provider's update can reopen a change request beside another
  open one for the same branch, which opening refuses: close 1, open another for
  its branch, reopen 1.
* `once` keeps no errors, so that a late attempt can take effect after its caller
  was told `conflict`.
* `mentions` takes `@paca-bot-2` for a mention of `paca-bot`: `\b` also holds
  before a hyphen.
* A TTL of 2^31 seconds or more wraps in `ttlToSeconds`.  `KV.Get` is documented
  to answer false "when the key does not exist"; on the host an empty value, and
  one the buffer has no room for, is answered as a miss, in the test double as a
  hit.
* The kit never calls `EnsureWebhook` on the reference provider: Full delivers
  app-level webhooks, and Minimal manages none.  It does not notice a diff cut
  without saying so when the whole diff is no longer than 20 bytes, and never
  creates a branch from an existing branch other than the default one, so that a
  provider that only checks that `From` exists passes.
* The conformance kit's walks over repositories and changed files stop after 100
  pages without an error, so that a provider whose pages never end passes; its
  walk over issues reports it.

## 5. Proofs

All theorems hold for every value of the constants that satisfies the named
assumptions of the modules.  Three have a hypothesis besides, which is part
of their statement.  The assumptions that carry weight:

* `Int32Assumption`: what the host may send is far below 2^31, so that the sum
  in `wasmMalloc` does not wrap.
* `OpsAssumption`: `describe` is no row of the operation table; `wire.go` serves
  it before the table is looked at.
* `HappeningsAssumption`: a webhook delivery has the fields of `fakeHook`.
* `BranchesAssumption`: the names that a branch must not have (none at all, a
  malformed one) are no branch's name.
* `CallsAssumption`: a caller has one call, and two callers that share a key use
  it with different operations.  Two calls of one operation with one key are, to
  the provider, attempts of one call.
* `NoneAssumption`: the value for "no answer is being encoded" is no answer.
* `SeedsAssumption`: the columns of a seeded table have different names, and no
  row is longer than the columns.  A row may be shorter; that is what makes a
  statement fail halfway.
* `CellsAssumption`: generated ids are recognizable, numbers that nobody else
  puts into a table.  In the code they read `generated-id-N`, with N the number
  of the row.
* `TextsAssumption`: diffs, logs and files are UTF-8; `FakeReads.ValidText` says
  so of the bytes.

### The runtime

`PluginRuntimeProofs` proves every property of the `plugin_runtime` run.  None
of them is inductive alone.  The invariant `IInv` adds:

* `CallInv`: at each control point, where the call's bytes are: at `entry`
  still in the buffer, below `mallocOffset` and equal to what was sent; later
  on the heap.  The copies made at `entry` are what carries
  `HandlerSeesItsCall` over the host calls of Init and of the handler.
* `HeldInv` and `ResultInv`: what plugin code and the host keep is on the heap,
  so that no write to the buffer can change it.
* `ContextInv`: `ctx = registered`, and a call is past `init` only when
  `initted` holds.
* `DebtInv`: the offset is the debt plus the request in progress, which the
  reset in `PackResult` takes to zero.

`FetchChunksProofs` proves the three invariants of the run and that the
loop implements `FetchSpec`'s safety part: the initial states map to initial
states and every step to a step or a stutter.  Its invariant says that what was
read is the response's prefix of that length when the host is truthful
(`PrefixInv`), that the announced size is then the response's length
(`SizeInv`), and that a finished transfer has exactly that many bytes
(`OkInv`).

`RoutesProofs` proves the three properties of the `routes` run, for every set
of patterns and every visiting order.  `BestOf` speaks about the routes visited
so far: `best` is a candidate among them and none of them scores higher, or
none of them matches.  `LiteralWins` follows with a lemma about scores
(`MoreLiteralScoresMore`: outside a spelled-out project scope a pattern that is
literal in more places counts more literals).  For `ParamsReachTheHandler`,
`ParamsInv` carries what a match owes its handler from `consider` through the
loop to the merge: the parameters it names and no others, each with the segment
in its place (`Bears`).  `consider` establishes it because `Bound` takes the last
place that names a parameter (`BoundLast`), and place i of what follows a project
is place i + 2 of the path (`RelativePlace`).  That an exact match has no
parameters needs one thing more: in the loop the requested path is not itself
registered, so that only `MatchExact` yields it.

### The provider

`FakeProviderProofs` proves the three invariants of `retried_writes`, for any
number of callers, attempts and other writes.  `OneEffectPerKey` says nothing
about `idem`, and a retry does not reach `idem` when a check before `once`
refuses it.  `IInv` adds:

* `KeyInv`: `idem` has an entry exactly where `done` has one, with that result,
  for a Full; a Minimal keeps nothing.
* `CallInv`: a call that took effect would pass the checks before `once` again
  (those look at things that only grow: change requests, the repository's
  seeded branches), and what it did is still there.  A Minimal's call has not
  taken effect while it waits and leaves no late attempt.
* `StoreInv`: numbers are given out in order, so that a new change request
  replaces none that an earlier answer named.

`GrowthKeeps` is the lemma behind it: a step that only adds to the store keeps
what every call passes and names.  `PerformOutcome` gives the ways a call can
go, `CallRuns` and `PerformOther` put them into the invariant, for a caller's
own attempt and for somebody else's.

Its second part proves `CutsKeepWhatFits` of a reference provider that is given
any requests in any order, and replaced by a new one with another text at any
time (`ProviderUsed`); the kit's scripts are one such use.  The theorem's
hypothesis is that a size is an integer, and the texts are `ValidText`.
`cutHead` and `cutTail` are recursive functions: `BackExists` and `OnExists` show
that their recursive equations have a solution, `BackIs` and `OnIs` by induction
along the text that it is the nearest place to cut at (`LastStop`, `FirstStop`),
and `PartValid` that a part of a text is whole runes exactly when both its ends are
such places.  The invariant is only that the text is valid; what remains is that no
request but the two answers in their name (`OtherAnswer`).

`FakeListsProofs` proves that answers and lists that share arrays do not
interfere (`SharingIsSafe`) and that `FakeLists` implements `ListSpec`
(`SlicesImplementValues`): each write changes the list it names and nothing
else, and no answer moves while it is being encoded.  `IInv` says that a kept
slice lies within its array (`MemoryInv`, `ListsInv`), that the two arrays
written in place are never in an answer and never move, and that what an
answer holds is allocated (`HeldInv`).  An append that finds room writes
behind every slice that anyone holds of that array; one that finds none takes an
array that nobody holds (`FreshArrays`).  The refinement is proved action by
action with the values before and after each step (`KeptValues`,
`AnswerValues`).

`HookDeliveryProofs` proves the four properties of `hook_delivery`, for all
repositories, URLs and happenings.

* `AccessInv`: every id in use, also in an old reference, is at most `seq`; a
  webhook has one repository, a URL one webhook in it; a state was granted once
  if it is spent and never otherwise.  With it `OldRefsAreHarmless` and
  `StateWorksOnce` are inductive.
* `MailInv`: a signed delivery is one of something that happened, and of one
  happening one delivery goes to a URL.  The second half is where
  `EnsureWebhook`'s reuse of a URL's webhook matters.
* `ToldInv`: what core took came from a signed, well-formed delivery.

`EventsAreTrue` (`EventsSayWhatHappened`) has a hypothesis: what a happening
addresses is what `Named` finds in its text.  It is false of a text like
`@paca-bot-2`, which names another account (section 4); such happenings
are outside the theorem and outside the instance.

`WireDispatchProofs` proves the four invariants of `wire_dispatch` for every
table of operations, provider and hint.  `GateInv` says what is known when each
gate comes next, `OutcomeInv` that only a method that was allowed to run has
ended, and `AnswerInv` that an answer refuses the request at a gate or tells how
the method ended.

### The stores

`BackendsProofs` proves that both sets of backends implement `StoreSpec`
(`BackendsAreStores`), for every unit of time, buffer, set of values and clock,
with types as the only invariant: the work is in the mapping, in which the time
an entry has left is counted from a clock that may jump
(`TimePasses`), an entry past its time is gone before it is dropped
(`GetExpiredStep`), seconds are rounded up (`SecondsRoundUp`) and the host's
answer has length 0 in exactly the cases `StoreSpec` names
(`WhatFitsIsAnswered`).  Its hypothesis `TTLsFit` says that no TTL makes a sum
or conversion in `ttlToSeconds` wrap.  Without it the refinement is false
(section 4): a wrapped TTL expires too early, or never.

### The test database

The second part of `BackendsProofs` proves every property of `in_memory_db`, for
any schema, seeds, statements, parameters and number of rows.

`DBInv` is the inductive invariant: each table is a table (different columns, no
row longer than them, cells that are numbers), and in one that lost no rows since
it was seeded a generated id tells in which place its row was inserted (`Fresh`).
The second half is what `GeneratedIdsDistinct` needs: an id comes from the row
count, so that ids repeat once rows were deleted, which is why the property is
about the tables that are not in `shrunk` (nothing in the repository says that
they do not repeat).  The first half is what
makes an index that a loop computes an index of the row.

The statements are loops, folds in the model.  Each of the five (`VerdictLoop`,
`KeptLoop`, `AssignLoop`, `UpdateLoop`, `FillLoop`) is first shown to go through
the states of a run, one turn after another; `NatSetInduction`, induction in the
form of membership in a set, then carries an invariant of the loop through them.
There are five such lemmas, alike as they are, since a lemma cannot take the
loop's body for a parameter here (see below).  The invariants of the loops:

* `VerdictLoop`: the verdict so far is that of the conditions read so far
  (`WhereIsEvaluatedInFull`).
* `KeptLoop`: what is collected is the rows seen so far that are to stay, in their
  order.
* `AssignLoop`: each column has what the last assignment to it says, all others
  what they had.
* `UpdateLoop`: the rows seen are updated when they match, the others are as they
  were, until one fails (`UpdateChangesWhatItSays`).
* `FillLoop`: the row under construction keeps its length.

### Only model-checked

* Liveness (`FetchEnds`, `PartlyUsedBufferSucceeds`, `EveryRequestAnswered`,
  `EveryCallIsTold`, `SuiteEnds`), which is out of the prover's reach, as are
  fairness and ENABLED.
* `ReferencePasses` and `DefectsAreCaught`: about scripts of calls against the
  whole provider; they say something about the kit's fixed fixtures, which the
  instance has, and nothing more general.

The library's induction theorems take an operator for a parameter, which the
provers at hand cannot instantiate.  The inductions above go through sets instead:
`NatSetInduction`, proved from the well-foundedness of the natural numbers.

## 6. Not modelled, and the plan

Not modelled: the shape of static records (titles, URLs, terms, host names) and
the checks of the kit that only look at it; `webhook-management`, the one subtest
that runs against neither variant of the reference provider; host calls that
only send; plugintest's logger, permissions and harness; native stubs and the
request, response and event helpers.  Each is a declaration, a pure accessor or
a single assignment, without an order of steps that could go wrong; the
reasons are in `PROJECT.json`.

What could be proved next: that ids are never reused across the writes, the
statuses and the grants of `FakeProvider` together (in `FakeWrites` and
`FakeAccess` apart it is part of the invariants above), and that `Paging`'s walks
visit the pages of a list in order.
