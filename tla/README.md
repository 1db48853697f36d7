# A TLA+ verification of responses-gateway

responses-gateway is one asyncio process (FastAPI under uvicorn) that serves
OpenAI's Responses API over any provider litellm reaches. What litellm does not
do by itself, and the gateway exists for, is `previous_response_id`: the gateway
keeps every stored response in its own `sessions` table and rebuilds the history
of a conversation before it calls the provider. These modules model that core,
the streaming bridge in front of the client, and what validation, configuration
and aliases do to a request on its way; TLC checks them on small instances and
TLAPS proves the safety properties of all of these for every instance, and that the
core implements an abstract specification of what it promises.

## 1. Inventory

| component | code | state | operations |
|---|---|---|---|
| HTTP layer | `gateway/api.py` | none of its own between requests; one coroutine per request | `create_response`, the generator `_gen` of a streaming answer, exception handler, `X-Request-Id` middleware, `/healthz`, `/v1/models` |
| Validator | `gateway/validator.py` | configuration | `validate`: reject (422) or strip unsupported tools and fields in place |
| SessionResolver | `gateway/session/resolver.py` | none | `resolve`: check the parent, walk `parent_id` to the root, rebuild the messages |
| SessionRecorder | `gateway/session/recorder.py` | none | `record`: build the row, offload a large payload, insert |
| SessionStore | `gateway/session/store.py`, `models.py`, `alembic/` | the `sessions` table | `insert`, `get_by_id`, `list_by_session_id`, `delete_expired` |
| ColdStorage | `gateway/storage/cold.py` | objects in memory or in S3 | `put`, `get` |
| LLMRouter | `gateway/llm.py` | alias map | `call`, `stream`, alias resolution, error wrapping |
| StreamBridge | `gateway/streaming.py` | announced items and parts, items seen, final response; one per stream | `tee`, `final_state` |
| Errors, Ids | `gateway/errors.py`, `gateway/ids.py` | none | statuses and bodies, uuid7 ids |
| Config, Logging | `gateway/config.py`, `gateway/logging_setup.py` | read once at start | YAML and environment merge, structured logs |

### How they interact

A request passes validator, resolver, router, recorder in this order, in one
coroutine. Coroutines share nothing in memory but configuration: they meet in
the table and in cold storage. `resolve` awaits the database once for the parent
and once more for every ancestor, cold storage for every offloaded row;
`record` awaits cold storage and then the database. Between any two awaits every
other request may run, rows may be purged, and the process may die.

A response id is made before the provider is called. A client that does not
stream hears it after the row was committed; a streaming client hears it in
`response.created`, long before. When a stream fails the client gets
`response.failed` and `[DONE]`, and nothing is recorded.

StreamBridge sits between the provider's event iterator and one client. Per
event it rewrites the response id, works out which announcements the provider
left out, and consumes and forwards those and then the event.

### What is hard here, and what makes each part correct

* **Resolver.** Many reads make up one history, while siblings commit and rows
  are purged. The history must be one line of parents, complete, in order, of
  one provider, without siblings or unstored responses.
* **Recorder.** Two storages, written one after the other, may fail or be
  cancelled at either. A row must never point at an object that is not there,
  and nobody may be told of success before the row is there.
* **Store.** Rows expire one by one. What `delete_expired` leaves must still be
  conversations: no hole in the middle of a line.
* **Streaming.** The client knows an id before anything is stored; the provider
  may fail in the middle, the client may leave, the process may die. Failure
  must leave nothing behind, success everything.
* **Bridge.** Providers omit announcements and ids in any combination, bring
  them late, or work on several items at once; the client must see a well-formed
  stream anyway and the stored response must be what the client saw.
* **Validator, alias merge, config merge** are sequential functions over
  nested data; their hazards are index and precedence mistakes, and what one of
  them leaves for the next: a stripped field that an alias brings back, a request
  that is recorded after it was resolved, a text where a boolean is compared.

`PROJECT.json` lists the hazards line by line with the properties that cover
them, and those that nothing covers yet with the reason.

## 2. Modules

| module | models | notes |
|---|---|---|
| `SessionStore` | the table | rows, `GetById`, `InsertRow`, `DeleteExpired`; `purged` remembers what was deleted |
| `ColdStorage` | no backend, in-memory, S3 | puts that end without an answer may or may not have written |
| `Gateway` | `create_response` with resolver, recorder and router, over the two above | one request per id; the state of each handler, the clock, what each client heard |
| `StreamBridge` | `tee`, `_consume`, `final_state`, and a provider | the provider takes named liberties |
| `Conversations` | the promise, without code | a growing forest of responses: ask, keep, answer, forget |
| `GatewayConversations` | that `Gateway` implements `Conversations` | the refinement mapping |
| `GatewayInvariant`, `GatewayProofs` | the inductive invariant `IInv` of `Gateway`, and its theorems | twelve named parts |
| `ConversationsProofs` | the theorem that `GatewayConversations` states | step by step |
| `StreamBridgeInvariant`, `StreamBridgeProofs` | the inductive invariant `BridgeInv` of `StreamBridge`, and its theorems | thirteen named parts |
| `Dicts` | Python dicts and values | external; functions and tokens |
| `Validator` | `validate`, both modes | pure operators |
| `LLMRouter` | the alias map, its merge, the keywords of both calls | pure operators |
| `Messages` | the items `_reconstruct_messages` takes from inline rows | pure operators |
| `Positions` | selections from a sequence by position | pure operators |
| `ConfigMerge` | `load_config` | pure operators; a nested dict is given by its paths |
| `RequestPath` | validator, router and messages in the order `create_response` calls them | what `load_config` returns is its constant `Load` |
| `ConfiguredPath` | `RequestPath` with the `load_config` of `ConfigMerge` | what file and environment may be |
| `RequestPathInvariant` | the inductive invariants `RequestInv` and `DialogueInv` | |
| `ValidatorProofs`, `RequestPathProofs`, `DialogueProofs` | what one verdict leaves of a request; what is sent of it; what is sent of a conversation | TLAPS |
| `ConfigProofs` | what `load_config` makes of file and environment | TLAPS |
| `CommonLemmas` | least members, recursion, flattening, positions | TLAPS |
| `MCGateway`, `MCConversations`, `MCStreamBridge`, `MCRequestPath` | constants and symmetry for TLC | |

### Gateway: state and actions

An action is what a handler does between two awaits; `pc` names the await.

| `pc` | awaiting | actions leaving it |
|---|---|---|
| `idle` | the request | `Receive` (validate; mint the id; 422, or straight to the provider, or to the lookup) |
| `lookup` | `get_by_id(previous_response_id)` | `Lookup` (404, 410, 409, or the walk) |
| `walk` | `get_by_id` of the next ancestor | `Walk` |
| `rebuild` | `cold.get` of the offloaded rows | `Rebuild` (503, or the provider) |
| `llm` | litellm | `CallReturns`, `CallFails`, `StreamEvent`, `StreamEnds`, `StreamFails` |
| `put` | `cold.put` | `ColdPut` (object, or inline) |
| `insert` | the commit | `Insert` |
| `reply` | sending the body or `[DONE]` | `Reply` |
| `done`, `gone` | nothing: answered, or connection lost | |

`DbFails`, `Disconnect`, `Crash`, `Restart`, `Tick` and `Purge` surround them.
A commit that is interrupted by any of these may have landed. No code under
`gateway/` calls `delete_expired`; `Purge` is the periodic job the design allows,
and `PurgeRuns` switches it.

A turn is abstracted to the row it comes from and its form. `dialogue` is what
an inline row gives: user items without system items, then assistant items.
`raw` is what an offloaded row gives: `_payload` wraps the member it wants once
more, so the whole request becomes one item and the output none.

Each handler serves one request and an id is one request, so `Ids` bounds the
number of requests of a behaviour. `serial` is the order in which ids were made.

### StreamBridge: state and actions

`Take` is the part of `tee` up to the first yield, for one provider event;
`Yield` consumes and forwards one pending event. `told` and `open` are the
provider's; a delta's payload is a *piece* that names the item and part the
provider means, which the code does not see, so that a misplaced delta is
visible in the model.

What the provider does is the protocol, loosened by named liberties: it leaves
messages (`silent`) or calls (`hidden`) unannounced, brings an announcement after
what it announces (`late`), has several items open (`parallel`), leaves `item_id`
out of events of an announced item (`anonymous`), and ends with items open
(`abrupt`). The first, the fifth and the sixth come from the comment in `tee`, from
`tests/unit/test_streaming.py` and from `_LIFECYCLE_EVENT_TYPES`; the others are
what the bridge would meet from a provider that does more of the same. The
properties hold with all of them at once and say what each costs: a late
announcement is announced twice, a hidden call is not stored, and text of
messages open side by side may land in the wrong one (`Strays`) until
`output_item.done`.

### RequestPath: state and actions

`Gateway` tells requests apart by model and flags; `RequestPath` follows their
fields. `Start` is `load_config`, a constant operator, so that what is proved holds
of whatever configuration it returns; `Receive` validates and takes out `store`;
`Resolve` puts the history before the input; `Call` builds the keyword arguments,
which litellm receives (200) or Python refuses (502), and records the turn.
`turns` keeps of each request what came, what the validator said and what was
sent; `rows` are the stored ones. A value is a token written as Python writes it,
so that `True`, `1` and `'true'` differ and compare as they do there. A tool is its
type. An item has a role (or a type) and the place it came from, which no code
looks at and the properties use.

Handlers share none of this, and parents here are live, inline and of one
provider label, so that requests come one after the other. What
interleaving, expiry, offloading, labels and failures add is `Gateway`'s part.

### Bug operators

Definitions commented "As a bug:" are not part of any specification. Each has
the parameters of the definition it precedes and differs from it as a plausible
mistake would; put in its place, TLC finds the named property violated.

## 3. What the runs check

| run | module | instance | shows |
|---|---|---|---|
| `core` | MCGateway | 3 requests, 2 providers, mixed flags, provider failures | `TypeOK`, `OneLabelPerHistory`, `RefusedIsNotStored`, `UnstoredIsNeverUsed`, `IInv` |
| `branch` | MCGateway | 4 requests, large payloads over S3, storage and database faults, disconnects, crashes | `LinearHistory`, `WholeHistory`, `SessionsAreTrees`, `VisitedNeverCuts`, `ChronologicalHistory`, `PayloadReachable`, `IInv` |
| `ends` | MCGateway | 2 large requests, streaming or not, all faults, in-memory backend, fairness | `EveryRequestEnds`, `AnnouncedGetsStored`, `EndedIsFinal` |
| `refine` | MCConversations | 3 requests, two labels, large, stored or not, purges, database failures, crashes | `IInv`, `PurgedFromTheRoot`, `WholeHistory`, `AnsweredIsStored`, `ImplementsConversations` |
| `bridge` | MCStreamBridge | 5 provider events and the end, 2 messages with 2 parts, 1 call, all liberties | `TypeOK`, `WellFormed`, `AnnouncedOnce`, `FinalListsItems`, `FinalMirrorsStream`, `ClosedIsExact`, `OnlyHiddenCallsAreLost`, `OneResponseId`, `BridgeInv` |
| `request` | MCRequestPath | 29 deployments in every order of their environment, 3 requests each | `NothingRejectedIsSent`, `StrippedAddsUp`, `AliasDecides`, `OnlyTimeoutsCollide`, `RequestInv`, `DialogueInv`, `DialogueInOrder`, `DialogueIsWhole`, `CallsComeFirst`, `OrderIsIrrelevant`, `EnvironmentOverYaml` |

### Bounds, and why they are enough

* **Requests (`Ids`).** Two requests give a parent and a child; three give a
  grandchild, or two siblings, and a third actor between two reads of a walk;
  four give a branch below a shared parent with a child of its own, the smallest
  tree in which retrieval by session and retrieval by parent differ in the
  middle of a line.
* **Time (`MaxTime`, `TTL`).** Expiry compares instants, so what counts is the
  order of commits and purges. In `refine` the ttl is 0 and the clock reaches 1:
  rows stored at 0 are live until the tick and expired after it, so a parent can
  expire, be seen expired (410) and be purged while its child is under way or
  live. `v_parent` has a longer clock.
* **Events (`MaxEvents`).** Five provider events before the response's own end hold
  `created`, the text of one message, its late announcement, text of a second message
  beside it and the end of one: every liberty meets every other, and every such stream
  is also seen to its end. The bound is on the provider; what the bridge adds is not
  bounded, and the theorems hold for any bound.
* **Deployments (`Scenes`, `MaxTurns`).** A deployment varies one concern and keeps
  the others plain, so that three requests can be taken in all of them. *Rejecting*:
  both modes, no allow list, one, and one that overlaps the deny list, against
  lists of up to four tools (denied, allowed, unknown, untyped, two dropped in a
  row) and fields by value and presence. *Configured*: a file without, with some and with all
  the options, under environments that agree with it, extend it, contradict it,
  conflict with themselves or name no option. *Aliased*: duplicate,
  skipped and colliding entries, one that sets `stream`, clients that send what an
  alias sets.
  *Conversing*: three turns in every shape, every form of input, calls and their
  results; three turns are the fewest in which a doubled history differs from a
  repeated input of the parent.
* **Faults.** Each run enables the faults its question is about; `ends` enables
  all of them. Only S3 can fail on a key that is fine (`Fallible`); the in-memory
  backend loses everything when the process dies, S3 nothing.
* Requests, stages and payloads are symmetric in `Ids` and messages, so the
  safety runs use symmetry; the liveness runs do not.

`CHECK_DEADLOCK FALSE` stands in every configuration because a behaviour really
ends: every id was served, the clock is at its bound, the stream is over.

### Fairness

`FairSpec` asks weak fairness of `Handler(q)`, one formula per request. The event
loop runs every ready coroutine; the drivers answer or raise; litellm is called
with a timeout and a number of retries, and so ends. Nothing obliges a
client to send, to stay or to leave, a purge to run, or the process to restart.
`EveryRequestEnds` needs no fairness of `Crash` or `Restart`: a crash itself ends
what is in flight.

## 4. What the code does not do, though a document says so

Six runs check a sentence of a document or comment and TLC refutes it.

| run | sentence | what happens |
|---|---|---|
| `v_announced` | `streaming.py:6-7`, the client can use the id immediately | a follow-up sent before the stream is over is answered 404 |
| `v_cold` | architecture design, line 245, offloaded rows are rebuilt transparently | the turn comes back as a raw request without the answer (`resolver.py:124`) |
| `v_alias` | `README.md:62`, cross-provider chains are answered 409 | names without a slash share a label (`llm.py:26-27`, `api.py:130`) |
| `v_parent` | `resolver.py:1`, the full history is rebuilt | a purge between the check and the walk drops it silently (`resolver.py:87-89`) |
| `v_status` | `streaming.py:9-10`, the final state mirrors a non-streaming response | the stored status stays `in_progress` |
| `v_env` | `config.py:129-130`, booleans of the environment rely on pydantic's coercion | `reject.fields` is a dict of anything, so `GATEWAY_REJECT__FIELDS__BACKGROUND=true` stays a text and rejects nothing (`validator.py:99-103`) |

Others are plain in the code and need no run: a database failure is a bare 500,
as nothing raises `StorageUnavailableError` (architecture design, line 313, says
503); nothing deletes expired rows at startup (line 247); a failed cold write
puts no warning header (line 312) and strip mode no `X-Stripped-Features`
(`config.py:60-62`); an unhandled error has no `X-Request-Id` (line 315). An alias
whose `litellm_params` set `timeout` or `num_retries` makes every call through it a
502, and one that sets `stream` every streaming call (`llm.py:109-113`;
`OnlyTimeoutsCollide` shows that nothing else does).

## 5. What is proved

A theorem holds for every value of the constants the named assumptions allow; a run
shows the same formula on one instance. Each `Spec => []P` below rests on an
inductive invariant that runs check as well.

### The core: `GatewayProofs`

For every set of ids, models, labels, kinds of request and faults, every backend,
ttl and clock bound: `TypeOK`, `LinearHistory`, `WholeHistory`,
`ChronologicalHistory`, `OneLabelPerHistory`, `SessionsAreTrees`,
`VisitedNeverCuts`, `PurgedFromTheRoot`, `UnstoredIsNeverUsed`,
`AnsweredIsStored`, `RefusedIsNotStored`, and the action property `EndedIsFinal`.
`PayloadReachable` is proved where the backend outlives the process, or the process
does not die (`Durable`): no commit, fault or disconnect then leaves a row without its
payload.

The assumptions are `StoreAssumption`, `NoRowAssumption` and `BackendAssumption`
(sentinels are no ids and no rows, the ttl is a number of days, three backends) and
`GatewayAssumption` (labels and providers are functions on models, the inputs are
a non-empty set of requests).

None of the properties is inductive. That a history is one line in the end
depends on what the walk read, one await at a time, and that on what other
handlers committed long before. `IInv` records it:

* `Untouched`: a handler's variables have their first values until their stage;
* `Records`: a row is what its own request made it, session, parent and label,
  and exists only when its handler is done;
* `Parents`: what `resolve` saw of the parent stays true of the request, even
  after the parent is purged;
* `Serials`: requests only name ids minted earlier, so there is no cycle;
* `Chains`: the rows read so far are ancestors in line, all with q's label;
* `Walks`: the walk goes on to a response that was stored, and ends at a root or
  at a purged row;
* `Histories`: what was sent is that chain turned around;
* `Lifetimes`: a child expires no earlier than its parent;
* `Askings`: what was stored was asked before, and what was purged stays out;
* `Outcomes`: what the client heard agrees with the handler and with the table;
* `Payloads`: a record in hand carries its payload or points at an object that
  was put before, so that no crash leaves a dangling row.

The proof first says what any step does to the share of one request (`Actor`,
`Frame`, `Stage`: another handler's step leaves it alone) and to one row
(`Commit`, `Growth`), then that facts about settled requests survive steps of
others (`Settled`, `RecordStays`, `ParentStays`, `LinkStays`), and then each
part of `IInv` by cases on the action. `PurgedFromTheRoot` rests on the clock
not going back and on the ttl not changing while rows exist; the model has both.

### The refinement: `ConversationsProofs`

`Refinement` proves `Spec => ImplementsConversations`, with `UnaskedAssumption`
(the mark of a request that was not asked is no lineage) beside the above. A step
that hands a request to litellm is `Ask`: `WalkIsLineage` shows that the rows a walk
collected one await at a time are a lineage of the responses kept *now*, by `Chains`,
`Walks` and `Histories`. A commit, or the several that a crash reveals, is `Keep`;
`delete_expired` is `Forget`, where `Lifetimes` gives that it takes the oldest; the
end of an answer is `Answer`, where `Outcomes` gives that the row is there. Everything
else stutters.

### The bridge: `StreamBridgeProofs`

For any number of events, items and parts and any set of liberties
(`BridgeAssumption`: messages and calls are apart, parts are numbers): `TypeOK`,
`WellFormed`, `AnnouncedOnce`, `FinalListsItems`, `FinalMirrorsStream`,
`ClosedIsExact`, `OnlyHiddenCallsAreLost`, `OneResponseId`.

`tee` books an announcement when it takes an event and forwards it up to three yields
later, so that no fact that ties the books to `forwarded` alone is inductive. Most parts
of `BridgeInv` speak of `Out`, the client's stream followed by what is pending, which a
yield does not change: `Booked` and `Announcements` tie the provider's record to the
announced sets and these to `Out`; `Precedence`, `Closings` and `Accounted` say where
an event may stand in it. `Listing`, `Identity` and `Closed` relate what was consumed
to `forwarded`. `Spoken` says once what any provider event is and `Took` what `tee`
makes of it, and the parts follow from these two.

`FinalMirrorsStream` compares pieces. `Retold` says that the provider's record of an
item is what `Out` brings of it, which `output_item.done` repeats part by part;
`Gathered` that an orderly item not closed yet holds exactly the pieces received of it.
An item that was closed is the first sorted by part, one that was cut off the second,
and sorting what is sorted changes nothing (`SortedStays`). `PiecesAre` and `PiecesGrow`
read the pieces of a growing stream off its positions, without induction.

### What is sent: `ValidatorProofs`, `RequestPathProofs`

For every deployment, reject configuration, alias map and sequence of requests, and
whatever `load_config` returns: `NothingRejectedIsSent`, `StrippedAddsUp`,
`AliasDecides`, `OnlyTimeoutsCollide`. `SceneAssumption` says what a deployment is: its
fields, that no variable is set twice in an environment, that tools, roles and outputs
are sequences of strings.

Strip mode pops tools by index from the back, a recursion over the hits. Induction
over data is out of reach, so `PoppedUpTo` and `PopsTheHits` argue by the least index
at which the claim fails (`Least`): the tools left are those not hit, in order. From
there `LeftIsClean` and `LeftAddsUp` say what a verdict leaves, `ArgumentsAre` what
the keyword arguments are, and `RequestInv` carries both from `Receive` to what was
sent: `Judged` (each request has its verdict), `Underway` (the request in hand is what
was left of it), `NothingElseIsSent`.

### What is told: `DialogueProofs`

For conversations of any length and shape: `DialogueInOrder`, `DialogueIsWhole`,
`CallsComeFirst`. `DialogueInv` says that a row is a turn with its own input and output
(`RowsAreTurns`), that a request continues an earlier row (`TurnsFollow`), and that
what it is called with is what the rows before it tell, followed by its own input
(`TellsAll`), even as the table grows. The walk along the rows is a recursive function;
`Recursion` (in `CommonLemmas`) shows that such a function exists wherever each row comes
after its parent, `ChainGrows` that a new row changes no earlier walk, `FlattensInOrder`
and `FlattenAppend` where each turn's items stand in the flattened history. That every
history is a `Tale`, in order and with calls before their results, is again shown at
the least row where it would fail.

### What is configured: `ConfigProofs`

For every file and every environment, in every order of it: `OrderIsIrrelevant` and
`EnvironmentOverYaml`. `ConfigurationAssumption` says what those are: the file is a
nested dict, the environment is a finite set of texts, and no variable names something below an option
but below `reject.fields`, which may be set itself beside names below it. That is all it
excludes, and it must: of `GATEWAY_REJECT__MODE` and `GATEWAY_REJECT__MODE__X` the code
raises a `TypeError` where the first comes first and starts where it comes last.

The proof follows the variables one by one (`Step`, `Steps`). A variable that sets
`reject.fields` always ends in a refusal (`FieldsRefuse`): before a name below it the
parser raises, after it pydantic does. Without one no variable ever meets a value on its
way, and what is parsed `Spells` the variables: their values, the sections above them,
and nothing else, whatever the order (`SpellsMore`, `ParsedSpells`); two dicts that spell
the same are the same (`OneSpelling`).

`_deep_merge` is recursive and `DeepMerge` is not: it says path by path what is left.
`MergeIsRecursive` proves that this is the code's recursion: under a key that both have
with dicts stands the merge of the two, under any other key of the second what the
second has, under a key of the first alone what the first has. `NestedInvariant` proves
that the dicts `load_config` merges are the nested ones this is about.

From there `EnvironmentIsHeeded` follows a setting all the way, through
`NothingRejectedIsSent`: a text, or a number, that the environment rejects for a field
is never sent in it, unless an alias sets the field. What `v_env` refutes is the same
sentence of a boolean.

### What the refuted sentences need

The runs of section 4 show where a document's sentence fails. These theorems say under
which condition it holds after all, or how generally it fails.

| run | theorem | what holds |
|---|---|---|
| `v_parent` | `ParentIsSentUnlessPurged` | `ParentIsSent`, where no job calls `delete_expired` (`OnlyPurgeRemoves`) |
| `v_alias` | `OneProviderIfLabelsTell` | `OneProviderPerHistory`, where names of one label are all routed to one provider |
| `v_cold` | `TransparentIfInline` | `ColdIsTransparent`, where nothing is offloaded: no backend, or no payload above the threshold |
| `v_announced` | `AnswersAreUsable` | once the answer is complete, a follow-up is answered 404 only if the response was purged |
| `v_status` | `StatusNeverFollows` | the stored status is `in_progress` at the end of every stream, whatever it ended with |
| `v_env` | `EnvironmentIsHeeded` | what the environment rejects as a text or a number is not sent |

No passing run checks these formulas; TLC agreed with each on instances of the runs' kind
before it was proved, and found `AnsweredIsUsable` and `EnvironmentRejects` violated when
a bug was put in the place of `AfterLLM` and of `DeepMerge`.

### Only model-checked

* `EveryRequestEnds` and `AnnouncedGetsStored`: liveness, out of the prover's reach.
* What `Construct` says of pydantic is external: the theorems take it as it is, and
  `v_env` shows what follows from it.

## 6. What is not modelled

* Texts, instructions, usage, log lines, error bodies; what a tool is but its
  type; `tool_choice`, which the code never looks at.
* Malformed requests: no model, a model or a tool type that is no string, tools
  that are no list. Some are a bare 500.
* Configuration options other than one of each kind pydantic treats alike; an
  environment with two variables that differ only in case, or that names
  something below an option that is no dict (section 5 says what the order then does).
* Models with a slash in `RequestPath`, and offloaded rows there: `Gateway` has both.
* `X-Request-Id`, `/healthz`, `/v1/models`: they touch no state of the gateway.
* The two reads `_reconstruct_messages` makes of one cold object are one step:
  objects are never changed or deleted while the process lives.
* Several processes on one database. Handlers of one process interleave at every
  await as those of two would; what differs is the in-memory backend.
* A clock that goes back, and a ttl, an alias map or a cold backend that an
  operator changes between two starts.
* A `content_index` that is no number, or an upstream item without an id.

## 7. Plan

Done: `SessionStore`, `ColdStorage`, `Gateway`, `Conversations`, `StreamBridge` with
all its liberties, `Validator`, `LLMRouter`, `Messages`, `ConfigMerge` and their
composition `RequestPath`; inductive invariants and proofs for `Gateway`,
`StreamBridge`, `RequestPath` and `ConfiguredPath`; the refinement of `Conversations`, proved.

Left, in this order:

1. `StrictClient`: the Responses event protocol as an abstract specification,
   implemented by `StreamBridge` where the provider is not late.
2. `StreamBridge` composed with `Gateway`: a `response.failed` after items were
   forwarded, a cut stream, what is stored in each case.
