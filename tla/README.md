# liberated-claude in TLA+

liberated-claude is a gateway between Claude Desktop, which speaks the
Anthropic Messages API, and providers that speak either that API or OpenAI
Chat Completions. These modules model the parts of it whose behaviour depends
on order, concurrency, failure or memory, check them with TLC on small
instances, and prove the central facts with TLAPS for every value of the
constants.

Contents: [inventory](#inventory), [modules](#modules-and-code),
[runs](#runs), [fairness](#fairness), [proofs](#proofs),
[disagreements found](#disagreements-with-the-codes-own-words),
[not modelled](#not-modelled), [plan](#plan).

## Inventory

| Part | State | Operations | What makes it hard | What makes it correct |
| --- | --- | --- | --- | --- |
| Request path (`server/messages.go`, `count_tokens.go`, `server.go`) | `gates` (a channel per provider with `maxConcurrent`), `noCountTokens` (a latch per provider) under `mu`, one goroutine per request | `handleMessages`, `handleCountTokens`, `acquire` and its release, `sendUpstream`, `markCountTokensUnsupported` | any number of handlers; the client may hang up at any step; a retry loop that waits while it holds a slot; a latch read before a call and written after it | slots are given back exactly once; a provider never has more than `maxConcurrent` calls; only what was throttled is sent again; the latch closes on answers only; everyone gets a slot |
| Streamed translation (`transform/response.go`) | open block, next index, calls started, stop reason, token totals | `StreamOpenAIToAnthropic`, event by event | reasoning, text and fragments of several calls in any order; the body or the client may break off anywhere | the events form a Messages stream; content arrives in order, in blocks of its own type; the closing event reports the last stop reason and usage |
| Sign-in codes (`server/oauth.go`) | two maps behind a lock | `handleAuthorize`, `handleDeviceAuthorization`, `handleToken`, `put`/`take` and their device twins | racing redeemers; expiry computed outside the lock; a sweep inside `put`; restarts | a code yields one token at most and never comes back; a live code is not swept |
| Catalogue (`config/config.go`, `alias/alias.go`, `server/models.go`) | providers kept, aliases seen | `expand`, `validate`, `Encode`, `Decode`, `SplitOneM`, `Resolve`, `handleModels` | advertised IDs outlive the process in Claude Desktop; providers come and go with their keys | an advertised ID leads to its model, now and after restarts |
| Non-streamed translation (`transform/response.go`) | none | `OpenAIToAnthropic`, `respContentBlocks`, `respUsage`, `completeOpenAI`, `writeJSON` | provider variants of content, reasoning and usage; written a second time beside the streamed one | what is told costs what the provider counted; a streamed reply and a whole one come to the same |
| Request translation (`transform/request.go`) | none; the client holds the history and sends it again | `AnthropicToOpenAI` and its helpers | tool results split out of user turns; images; cache marks; a history made with one model and sent to another | the provider gets everything the user said once and in order, its own answers as they were, results behind their calls, marks only where configured |
| Lifecycle and prices (`cmd/liberated-claude/main.go`, `pricing/`) | the table of rates, `rates` under `mu`, the context of the signal | `run`, `detectRates`, `SetRates`, `Rates`, shutdown | one deadline for all providers; lists that overwrite each other; a signal, a failing listener and the end of the grace period in any order; ten seconds of shutdown against replies of thirty minutes | the gateway starts whatever providers do, stops when told, and cuts replies only late |
| Bootstrap document (`server/bootstrap.go`, `config/bootstrap.go`) | none | `bootstrapConfig`, `priceRows`, `validateImport`, the overlay | the overlay has the last word, and settings are read in two ways | rows that the client accepts, from the final prices; settings served as they were checked |
| Estimate, authentication, request log (`server/estimate.go`, `server.go`) | none | `countInputTokens`, `authenticate`, `logRequests` | none beyond their libraries | |

The parts meet in few places. `handleMessages` and `handleCountTokens` ask the
catalogue (`Resolve`) which provider serves a model, and share that provider's
latch and the retry loop; only messages pass the gate. A messages handler runs
the translations while it holds its slot: that of the request before its call,
one of the two of the reply after it. The bootstrap document reads the
configuration and the rates that were set before the listener started. The code
store and the catalogue share nothing with the rest but the process and its
restarts.

## Modules and code

### Gate, Gateway, GatewayProofs

`Gateway` has one handler per goroutine of `net/http`. `pc[h]` is where the
handler is: `acquire` (the `select` in `server.go`), `probe` (the read of the
latch), `build` (`rewriteModel` or `AnthropicToOpenAI`), `send` and `call`
(`client.Do` before and after the request is on the wire), `backoff` (the
`select` in `sendUpstream`), `relay` (what follows a response), `mark`,
`estimate`. `job` is the request, `attempt` the loop counter, `status` the class
of the last answer, `gone` whether `r.Context()` is done. `gate[p]` is the
number of tokens in the channel and `noCount[p]` the latch.

The steps are cut where handlers can interleave: at the channel operations, the
critical sections of `mu`, and around each upstream call. The deferred release
belongs to the step that returns (`Finish`). Answers are four classes (`ok`,
`garbled`, `throttled`, `refused`), as many as the code tells apart. Time is
absent: a backoff may end at any moment. `GetBody` never fails, because every
request is built from a `bytes.Reader`, so that error path has no step.
Requests refused before `acquire` change nothing and are no steps either.

`Gate` is what `maxConcurrent` promises: a set of handlers inside each provider,
bounded by its limit. `Gateway` implements it with `inside[p]` the handlers
between acquire and release; the refinement ties the code's count of slots to
who is really there.

### ReplyClosing, AnthropicStream, StreamTranslate, StreamProofs, StreamClient, StreamClientProofs

`ReplyClosing` is what both translations of a reply share: `respStopReason` and
the arithmetic of the usage, which the code has twice.

`StreamTranslate` is `StreamOpenAIToAnthropic`, one step per event written or
part of a chunk passed over, so that a failed write can end it between any two
events. A chunk keeps what the function looks at; a payload is the identity of
the piece that carries it (chunk, type, call). `stopped` is the one piece of
state that is not a variable of the function: `currentBlock` has been stopped
and its successor is not yet started. An absent tool index and index 0 are one
call, as in the code. Lines that are blank or carry no data change nothing.

`AnthropicStream` is the shape of a reply a client can rely on.
`StreamTranslate` implements it with the headers of its events. `StreamClient`
puts the blocks together as a client does and compares them with what the
upstream sent. Its `StreamedLikeWhole` brings the two translations together: what
the client has built is what `OpenAIToAnthropic` makes of the same reply in one
piece (`Assembled`, with the last finish and the last usage of any chunk). Three
conditions say how far: the blocks agree if the parts came in the order of a whole
reply (reasoning, text, one call after the other), the stop reason if the last
`finish_reason` came with a delta, the costs if the last usage did and no text came
in a chunk behind it. Where a condition fails the two do differ: the streamed
translation passes over chunks without a choice or a delta, the one that
`include_usage` asks for among them (`StreamUsage`).

### RequestTranslate, ReplyTranslate, Conversation, ConversationProofs, SequenceLemmas

`RequestTranslate` is `AnthropicToOpenAI` and `ReplyTranslate` is
`OpenAIToAnthropic`, function by function, with the errors of either as
predicates (`Untranslatable`, `Refused`). A text is a sequence of pieces, so
that joining is concatenation and a piece can be followed through any number of
translations; the separator that `strings.Join` puts in is left out. A content
is absent, a text, a list of blocks or parts, or something else. `Completed` adds
what `completeOpenAI` and `writeJSON` do: JSON that the encoder refuses leaves a
status of 200 and no body.

`Conversation` is where they meet. The client composes a turn, sends its whole
history to a model of its choice, and keeps the reply as it was shown, to send it
again with the next turn. Client and provider are external: the client answers
every call of the last reply, in one turn; the provider may answer with text,
parts, reasoning under either name, calls with and without arguments, arguments
that are not JSON, nothing, or an error. An answer the client cannot read leaves
its turn to be sent again or given up. The constants are typed by named
assumptions: `Turns` and `Replies` may hold any messages that are decodable at
all, and of a turn after a reply they say what a client does (`Answering`): its
first message begins with one result for each call of that reply, and no other
message of it has results.

`SequenceLemmas` is what the proofs need of lists: of `FlattenSeq`, `SelectSeq`
and lists mapped item by item, at an append, at a concatenation, and for every
item.

### Prices, Bootstrap, Service, Lifecycle, LifecycleProofs

`Prices` is what `package pricing` and `priceRows` make of price lists. A price
in writing is absent, text that is no number, a number, or unbounded (NaN and
infinity pass `ParseFloat`); a rate is a whole number with a mark for the last.
`Merge` is never called by the program; `Merged` is also the loop in
`detectRates`. `Bootstrap` is the document: `validateImport`, the overlay with
its two ways to read a setting (`Find` and `child` take the first of a name,
`settingsJSON` the last), and `bootstrapConfig`.

`Lifecycle` is the process. `phase` is where `run` is: in `config.Load`, in
`detectRates`, in the `select`, in `Shutdown`, or over. `answered` is what each
provider asked so far had to say (a history that the properties compare with),
`table` the map `out`, `rates` the server's. `Skip`, `FetchAnswers` and
`FetchFails` are one turn of the loop each; `DeadlinePasses` leaves `FetchFails`
as the only step of every fetch, the one under way included. A signal before
`NotifyContext` kills the process. `Listen` is the goroutine of the listener,
which may fail at any time; `ListenerEnds` and `BeginShutdown` are the branches
of the `select`. `BeginShutdown`, `ShutdownReturns`, `GracePasses` and
`ShutdownFails` are `httpSrv.Shutdown` with its ten seconds. A connection is new,
active, idle or left by its client; idle ones are closed by a shutdown, and one
that is open may bring another request until then. `LoadFails` is the check of
the import only: what else can refuse a configuration is in `Catalog`.

`Service` is what that life promises to clients: requests are taken while it is
up, a process that ends well leaves nobody waiting, one that fails cuts off
whoever waits. `Lifecycle` implements it.

### OneTimeCode, CodeStore, CodeStoreProofs

`CodeStore` has handlers that issue and redeem codes, the maps, a clock and
restarts. One function `store` holds both maps (a code is of one kind for
good). The cuts are at the lock: the draw with its expiry, the put with its
sweep, the take, and what follows it. A restart empties the store and ends the
handlers, but what was drawn and handed out is remembered, so that reuse across
restarts would show. `OneTimeCode` is the life of a code: unissued, live, taken,
dead, in that direction only.

### Catalog, CatalogProofs

`Catalog` runs a process from its document and environment through `expand` and
the validation loop to a catalogue that serves, and lets Claude Desktop learn
the advertised IDs and keep them across restarts with any other document and
environment. An ID is a name or its hex form, with its `[1m]` markers; bytes,
letter case and malformed hex forms are abstracted. `Refused` is what `validate`
asks before it looks at models, its check of the import excepted, which is
`Lifecycle`'s. `Resolve` is `ResolvesTo`: the first model in document order that
matches. Claude Desktop adds a `[1m]` marker to an ID for the long context and
`SplitOneM` takes one off, whoever put it there. So both properties say what they
mean for IDs that end in `[1m]` themselves: those are reached with another marker
added, and as they stand they mean the model named without it.

### MC modules

`MCGateway`, `MCStream`, `MCCodeStore`, `MCCatalog`, `MCConversation` and
`MCLifecycle` give the constants values.
Definitions called "Slip" in the modules are plausible mistakes, in the form of
the definition that follows each; no specification uses them. They are there to
see that a property notices: each property of a passing run has one that breaks
it (`PROJECT.json`, `mutants`).

## Runs

| Run | Shows |
| --- | --- |
| `GatewaySafety` | types, placement, conservation of slots, the bound on messages calls, when a request is sent again or given up, what closes the latch, and the refinement of `Gate` |
| `GatewayLiveness` | every request for a responsive provider is answered; a latched provider is eventually left alone |
| `Stream` | shape, order and place of everything in the reply, what its closing event says, and how far it comes to the same as the whole reply |
| `Conversation` | what the provider gets of the user's turns, of its own and of the calls' results, where cache marks go, and what a reply is said to cost |
| `Lifecycle` | start and stop under any providers, clients and signals; what documents show; the refinement of `Service` |
| `CodeStore` | one token per code, no live code swept, the refinement of `OneTimeCode` |
| `Catalog` | every advertised model is reached with a `[1m]` marker added, and without one unless its own ID ends in it; a remembered ID means one model for good |

`GatewaySafety` has three handlers, one provider with two slots and two
retries: two handlers can fill the gate while the third waits, hangs up, or
probes; two retries tell a first, a middle and a last attempt apart. A second
provider would only add independent state (nothing in the code relates two
providers), and `GatewayLiveness` has one. Handlers are symmetric, and no
liveness is checked under symmetry. `GatewayLiveness` has two handlers, so that
one waits behind the other, a gated provider that answers and an open one that
may never do. `Retries` is 3 in the code; the proofs hold for any number.

`Stream` has two calls and twelve kinds of chunk, among them each of reasoning,
text and a fragment alone, several of them in one chunk, two calls in one
chunk, an announcement without arguments, a finish with usage, a second finish
with a usage whose cached tokens exceed its prompt, a finish without a delta, usage
without a choice and content that is refused. Four chunks (`MaxChunks`) leave a block, enter another
and come back, which is what the state of the translation can remember, with one
more for the finish and the usage. The runs of the two claims stay at three. A
translation ends, so deadlock is not checked.

`Conversation` has three models: explicit by the model over a provider on none,
explicit by the provider with its reasoning under `reasoning`, and all defaults.
The client begins with or without a marked system prompt and may send plain and
marked prompts, an image the translation refuses, a document it passes over, a
reminder of role system, and results as text, as parts or with an image, in the
order of the calls or not, with text before or behind them. Three turns
(`MaxTurns`) are a prompt, the results of its calls and a turn after that, each to
any of the models. Bills count cache hits and writes in a gateway's own counters, in
the provider's details, in both, nowhere, or with zeros in the one beside hits in the
other, and one has more hits than prompt. `WantedTokens` exceeds the models' limit. A
conversation ends with its turns, so deadlock is not checked.

`Lifecycle` has four configurations: two providers that both publish prices, one
that does not before one that does, one whose overlay sets the prices itself, and
one whose import is refused; the second also names its import twice. Its three
lists name one model or both, with a negative price, one that is no number, one
that is unbounded and one above `MaxRate` (5, for 10000 in the code). Two
connections let one be cut or waited for while the other is served, new or idle;
documents are fetched at a safe origin and at one that is not. A process ends, so
deadlock is not checked.

`CodeStore` has three handlers, so that two can race to redeem while a third
issues; two codes of each kind, so that a sweep meets a code it drops, one it
spares and one of the other kind; lifetimes 1 and 2 and a clock up to 3
(`MaxTime`), so that codes are redeemed before, at and after their expiry.

`Catalog` has nine documents: mixed names, a name at two providers, names with
and without a marker, the same name with and without, a provider without models, a
model and a provider that are refused, and one without an address to listen on;
every subset of three variables is an environment.

The runs whose names are those of a claim check one property each, and TLC
refutes it: see below.

## Fairness

`GatewayLiveness` and `Lifecycle` assume some. In `GatewayLiveness` the steps a handler takes by itself are
weakly fair: the scheduler runs every goroutine and timers fire. Steps that
wait for a provider are weakly fair only for providers in `Responsive`; in the
code `http.Client` ends every call after thirty minutes, and the constant lets
the model have a provider that is not waited out. The end of a reply also needs
a client that reads it or hangs up, for the server sets no write timeout.
`Acquire` is strongly fair: a goroutine blocked in a send is queued by the
channel and served in order as slots come free, although between two turns the
channel may be full again.

`Lifecycle` assumes weak fairness of what the process does by itself: the steps
of `run`, the timers of the discovery deadline and of the grace period, a fetch
that ends once its context has. No provider has to answer, no listener to open or
fail, no client to leave and no handler to return; that the process starts and stops
all the same is the point of the two deadlines.

## Proofs

TLAPS checks, for every value of the constants:

| Module | Theorems |
| --- | --- |
| `GatewayProofs` | `TypeCorrect`, `HandlersAreInPlace`, `SlotsAreKept`, `MessageCallsAreBounded`, `RetriesAreUsed`, `ReplaysAreThrottled`, `LatchFollowsAnAnswer`, `GatewayImplementsGate` |
| `StreamProofs` | `TypeCorrect`, `StepsAreOrderly`, `StreamImplementsAnthropicStream` |
| `StreamClientProofs` | `ProseIsKeptApart`, `ClientHasWhatWasSent`, `CallsGetOneBlock`, `RunsKeepTheirArguments`, `ClosingIsTrue`, `StreamsReadLikeWholes` |
| `ConversationProofs` | `ConversationTyped`, `UserIsHeard`, `AnswersReturnAsGiven`, `ResultsAreBehindTheirCalls`, `MarksGoToExplicitProviders`, `CostsAreTheProviders` |
| `CodeStoreProofs` | `TypeCorrect`, `CodesAreUsedOnce`, `LiveCodesAreKept`, `StoreImplementsOneTimeCode` |
| `CatalogProofs` | `TypeCorrect`, `ModelsAreReached`, `LearnedIdsAreKept` |
| `LifecycleProofs` | `TypeCorrect`, `RepliesAreKept`, `PricesAreFinal`, `SettingsAreAsChecked`, `RowsAreAccepted`, `LifecycleImplementsService` |

They rest on the named assumptions of the component modules only: finitely many
handlers, natural numbers where the code has counts, null values outside
the sets they stand beside (`AbsentAssumption` among them: an absent counter is
no number and an absent usage none that a whole reply can have), and the types of what clients hold and
providers answer, with `Answering` for the client's turns. TLC evaluates these on
every run.

Every safety property that a passing run checks is a theorem, whatever the length
of a stream or a history. Facts about lists of any length are proved by induction
all the same: `SetInduction` and `ListInduction` in `SequenceLemmas` are over a
set of numbers or of lists instead of a predicate, and follow from the least
element of what such a set would leave out.

*Gateway.* The bound on calls is not inductive by itself. `Placed` says which
handlers may be where (only messages wait for the gate, whoever backs off was
throttled with retries left), and `SlotsMatchHolders` says that the channel of
a provider holds one token for each handler between acquire and release.
Together with `TypeOK` these are inductive: every step either leaves the
set of holders alone or adds or removes one handler together with one token. The
bound on calls follows because whoever is on the wire for a message is a holder,
and the refinement because a step changes `inside` as it changes the holders.

*Stream.* `Orderly` is the strengthening: `stopped` is true only where the next
step starts a block or the message ends, and the last event written tells which
part of the message is under way. With it each step is one of the abstract
stream or leaves the headers alone.

*Stream client.* What the client holds and what was sent are `FlattenSeq`s over
`out` and `read`, so a step is followed by what it appends. Every step is one of
five: it takes a chunk with all its parts (`Took`), opens a block for the next part
(`OpenedNext`), handles the next part (`Handled`), gives up (`Gone`), or does none
of these (`Calm`). `Remaining` is read off `pc`: the parts of the chunk that
are still to be handled.

- `Held`: blocks are numbered as they come and the current one is the newest, prose
  is in a block of its type, and the calls in `started` are those with a block, one
  each.
- `Progress`: what was sent is `done \o Remaining` for some list of parts `done`, and
  what is shown is the payload of `done` (`Through`). Of a stream that was given up
  only the prefix is known. Hence `ShownAsSent` and, with `Held`, `OneBlockPerCall`.
- `CallsKept` needs from `Through` that the newest block is that of the last part
  done: as long as fragments come in runs, a fragment of a call that has its block
  already is behind another of the same call.
- `Told`: `totals` bill the last usage in `Charged`, the chunks with a delta and a
  usage less the one under way, and `stopReason` is the last finish that came with a
  delta. The output billed is at least that of the bill, and just that as long as no
  text came in a chunk behind it, for a text counts towards an output that the
  upstream has not told. `Final`: once the closing event is out only `message_stop`
  follows.

`StreamsReadLikeWholes` needs the blocks themselves, not only their contents. A part
and a block have a tag each, the type and the call. `Alongside`: as long as the parts
of a tag come together, the tags of the blocks are those of the parts done in the
order they first come, and perhaps one more that was opened for the next part.
With everything done and the tags ranked, what first comes is reasoning if there
is any, text if there is any, and the calls (`FirstsInOrder`), which is the order
`OpenAIToAnthropic` makes blocks in; and what a block holds is what was sent under
its tag. The stop reason and the costs are those that `Told` has; only that the last
finish, or usage, came with a delta is added to it.

*Conversation.* Each helper that makes messages, parts or blocks of a list is shown
to be that list mapped item by item and flattened, so that it goes over
concatenations. `UserReads` is the one fact about the loop over a user's blocks:
for any reading of messages and parts in which a message of parts reads as its
parts do, what the translation of a turn reads is what its blocks read, in order.
It is used with three readings: the pieces (nothing of the user is lost), the marks
(none unless explicit) and the assistant's messages (none comes from a user's turn).
`IInv` is inductive: besides the types, the history is what replies have confirmed,
in which the assistant's turns are the answers, and the client's own turn behind it
(`KeptApart`); what is on its way is the translated history (`SentIsHistory`); and
what the client got last is what the provider's last answer is completed to.

For the results, `Follows` says of a list of messages that the messages behind each
answer with calls are results of those calls and that there are no others; it is
closed under concatenation and holds of every turn with the answer before it.
`Chained` is what the history needs: what is confirmed ends with the last answer,
everything before that answer went out in order, and the client's turn answers its
calls.

*CodeStore.* `OneOwner`: a code not drawn is nowhere, a stored code has no
holder, a code has one holder at most, and none that is stored or held has
yielded a token. Every step moves a code between owners; the abstract life of a
code is read off its owner.

*Catalog.* `AliasesSeen` and `AliasesDistinct`: the loop has seen the aliases of
the models before `at`, and they differ. When it is done all differ, and since
`Decode` takes `Encode` back, at most one model matches an ID. `SplitOneM` takes
back the marker that was added and no other; of an ID that comes as it stands it
leaves one without a marker as it was and makes another ID of one that ends in
`[1m]`, which is why the two theorems tell these apart.

*Lifecycle.* Four parts. `Placed`: no connection and no document exist before
the process serves, one is cut only once the process has failed, late or with its
listener, and none is served after a clean end. `LastListed`: the table has, for
each ID, the rates of the last provider asked so far that named it; a longer
`answered` moves that provider only for the IDs the new list names. `Documented`:
once the process serves, all providers were asked and the rates are the table, and
every document was made from those. Hence a document is final. That its rows are
acceptable needs that `PriceRows` keeps only what is `Valid` and that the overlay
does not set the key. `Checked`: past `Load` the import was checked, so the
document, which reads a name given once as the check read it, serves what was
checked. The refinement follows from `Placed` step by step.

Only model-checked: liveness (`EveryRequestAnswered`, `ProbingDiesOut`,
`StartsWhateverProvidersDo`, `StopsWhenTold`), since the prover handles neither
fairness nor `ENABLED`; and the refuted claims, which TLC shows by a behaviour.

## Disagreements with the code's own words

| Run | What the repository says | What its steps do |
| --- | --- | --- |
| `GatewayOnlyCountlessMarked` | "provider has no count_tokens endpoint, estimating from here on" (`count_tokens.go:126`) | any status but 200, a throttling one included, closes the latch for good, and so does a 200 cut off while it is read, since the error of `ReadAll` is dropped |
| `StreamFragments` | "toolCalls[index] = accumulated tool call" (`response.go:189`) | a fragment goes to the current block, whichever call that belongs to |
| `StreamUsage` | "Process usage (final chunk when include_usage was set)" (`response.go:396`) | a chunk without choices is skipped before its usage is read |
| `ConversationCacheMarks` | "`cache_control` blocks forwarded untouched" (README.md:78) | on explicit too, the marks of a system prompt are dropped, and those of tool results |
| `ConversationArguments` | "Validate that Arguments is valid JSON; return error if not." (`response.go:106`) | the arguments are kept, the encoder refuses them, and the client gets a 200 with an empty body |

More are in the models without a run of their own.

- "gates admits a bounded number of upstream calls per provider name"
  (`server.go:22`): count probes do not pass the gate, so that
  `MessageCallsBounded` is about messages calls only.
- "An unset variable is a startup error" (README.md:53): a provider's unset
  variable drops the provider (`Expand`).
- "It accepts the advertised alias" (`config.go:350`): an accepted ID that ends
  in `[1m]` is advertised as it is and loses its ending in `Resolve`. It is not
  found, or, where the name without it is served too (`MarkedTier`), that other
  model answers for it. `EveryModelIsReached` and `LearnedIdsMeanOneModel` say so.
- "the export URL, OAuth issuer and client ID are set together or left entirely
  empty" (`bootstrap.go:125`): of an import given twice the first is checked and the
  last is served, so that a document can have the export URL alone (the second
  configuration of `MCLifecycle`). `SettingsAreServedAsChecked` is about settings
  given once.
- "An upstream that refuses once is not asked again"
  (`count_tokens_test.go:71`) holds for requests one after the other, as in that
  test; a probe already past the check goes out after the mark, and
  `ProbingDiesOut` shows that such probes drain.
- A provider on the latch need not have answered "with a refusal"
  (`server.go:30`): `CountUnusable` is enabled for a usable answer too.
- Tool result messages "come before any remaining text" (`request.go:221`), but
  text that a user turn has before its results stays before them, and stands
  between the calls and their results. `ResultsFollowTheirCalls` is about turns
  that begin with their results.
- "the unrecognized fields are preserved verbatim via Extra"
  (`wire/anthropic.go:22`): blocks have no such field, and those of an unknown
  type are left out of a translated request.

## Not modelled

Pure I/O and rendering (the request log, the verification page, the metadata and
well-known routes, the model list beyond its IDs), XML and JSON decoding, the
comparison of one header that is `authenticate`, and the scripts under `tools/`
stay out: they keep no state, or their substance is in libraries. The token
estimate is a sum over a tokenizer library; `Gateway` keeps that it answers or
fails. Header copying and the wording of errors are abstracted everywhere.

Within what is modelled: the separators that joining puts between texts;
temperature, stop sequences, tool descriptions and schemas, which pass through;
the model's name and the ID of a reply; floating-point rounding of prices; and
settings nested deeper than two levels. Time is absent from `Gateway`, and with
it the conversion of `Retry-After`, which a large value can overflow.

## Plan

What is left, each with what it is for:

1. The conversion of `Retry-After` with its 64-bit overflow, at a small width.
2. Two providers of one name, which share a gate whose size is the later one's.
