# C Interface Discovery: a TLA+ model

C Interface Discovery is a browser application. It reads the C sources and headers of several
programs, analyses them with tree-sitter, shows the messages the programs exchange and how they
are laid out, and can put questions about them to a language model. It has no server of its own:
the state is React state in one tab, two browser stores, and one HTTP endpoint for the model.
This directory models the parts whose correctness depends on the *order* of things (what a handler
has read before an `await` and uses after it, what is stored when the tab dies, which of several
answers ends a turn) and the algorithms the analysis is built from: the layout of structs, and the way from the calls in a
source file to the arrows between applications.

Paths below are relative to the repository; the application is in `src/`.

## 1. Inventory

| Component | State it keeps | Operations | Interacts with | What is hard |
|---|---|---|---|---|
| Session (`App.tsx`) | applications with files and analysis, external headers, registry ref, patterns | add, remove, rename, clear an application; drop and remove files; external headers; clear session; re-analyse; restore | store, registry, analysis, all panels | closures that keep the list of applications over an `await`; operations that overlap; reload at any point |
| Session store (`utils/persistence.ts`) | application list in localStorage, files in IndexedDB | save and load both, clear | session | one store is synchronous, the other a queue of transactions that can be refused or die with the tab |
| File registry (`analyzer/fileRegistry.ts`) | entries of two zones, shadowing, collision warnings | add, remove, list, clear | session, analysis | a file of one zone hides the other's, rejected ones included |
| File ingestion (`analyzer/fileIngestion.ts`) | none | read a drop | session | asynchronous, partial rejection |
| Ask panel (`components/AskPanel.tsx`) | turns, controller of the question in flight | send, stop, clear, close, open | conversation | late events and late `finally` blocks of abandoned questions |
| Conversation (`llm/conversation.ts`) | messages, rounds | one generator per question: tool rounds, then a streamed answer | client, tools, digest | bounded rounds, complete tool protocol, cancellation between calls |
| LLM client (`llm/client.ts`, `llm/sse.ts`) | a timer and a combined signal per request | chat, stream, list models | endpoint | time limit against answer against cancellation; truncated streams |
| Settings (`components/LlmSettings.tsx`, `llm/config.ts`) | configuration (stored), models, probe report | edit, refresh models, run probes | client, diagnostics | refreshes that finish out of order and write from an old render |
| Diagnostics (`llm/diagnostics.ts`) | results of the probes | chain of probes | client | which failure makes which later probe meaningless |
| Suggestions (`components/PatternSuggestions.tsx`, `llm/suggest.ts`) | a run, its proposals | run, stop, accept | client, pattern registries | runs that overlap; a registry that changes during a run |
| Pattern registries (`analyzer/patternRegistry.ts`, `msgStructRegistry.ts`) | patterns, stored | add, update, remove, import, clear | session, analysis | written through synchronously |
| Digest (`llm/digest.ts`), tools (`llm/tools.ts`) | none | render an analysis within a token budget; look up | conversation | what is cut must be announced |
| Pack detection, preprocessor | stack of packings while reading a header | `#pragma pack`, attributes | layout | unbalanced push and pop, labels |
| Layout engine (`structLayoutEngine.ts`) | catalogue of structs | size, alignment, offset of every field | composition, digest, tools | typedef chains, nesting, recursion, packing of nested structs |
| Composition and header bundle (`messageComposition.ts`, `headerGenBundle.ts`) | none | flatten a message, order the definitions | layout | agreement with the layout engine; dependency order |
| Source analysis (`sourceAnalyzer.ts`, `payloadResolver.ts`) | calls, constants, payloads per file | strategies tried in turn on the arguments of a call | parsing, patterns | blocks, casts, several assignments; evidence of one call filed under another |
| Messages and struct roles (`messagingExtractor.ts`, `structRoleAnalyzer.ts`) | evidence merged per message | direction, confidence, roles | source analysis | four ways to find a name; independence of file order |
| Graphs (`buildAppGraph.ts`, `buildGraph.ts`) | none (marks shared interfaces) | edges between applications, and between files | session's analyses, tools | routing through applications that pass messages on; merged pairs; marks that are never taken back |
| Parsing (`headerParser.ts`, `index.ts`) | none | syntax tree to tables, merging of headers | everything | the grammar of C |
| User interface | local display state | rendering | all | nothing a model would show |

What makes each of them correct, in one sentence: a *session* that is reopened is the session that
was on screen, and no operation loses what another one did; a *store* holds one whole image, the
newest; a *question* has one owner, ends exactly once and is bounded; a *request* is a well-formed
conversation; *settings* are those last chosen; a *layout* is the ABI's or flagged as a guess; a
*graph* shows an edge exactly where one program sends what another receives; a *digest* says what
it leaves out.

## 2. Plan

Ordered by what a failure would cost the user. Everything but the last item exists.

1. `Session`, `WriteBehind` (abstract), `SessionProofs`: the session and its stores.
2. `Ask`, `AskProofs`: panel, conversation and client.
3. `Layout`, `LayoutProofs`: the layout engine as a machine with a call stack. On top of it
   `Header` (`#pragma pack` replayed over the lines of the headers loaded), `Abi` (the compiler's
   layout, written independently) and `Composition` (the tree of a message).
4. `Settings`, `Patterns` and, composing them, `Suggestions`: panels that overlap their own requests.
5. `Payload`, `Sources`, `Messages`, `StructRoles`, `AppGraph`: each extends the one its input comes from; `Interfaces`
   loads and removes files and runs them all after each change.
6. `PanelsProofs`, `InterfacesProofs`: the copies of the settings and of the patterns, what a
   report means; for the interfaces every safety property: payloads, the order of the files, edges, flows, marks. `HeaderProofs`: what the headers parse to, and packing. `AbiProofs`: the layouts are
   the compiler's or flagged. `CompositionProofs`: the tree of a message fills its bytes, and its warnings miss nothing.
7. To come: `Digest`, the budget algorithm, whose input is what 5 computes; the closure and order of the generated header bundle.

How they compose: `Session` treats the analysis as an opaque function of files, and `Interfaces` is that
function, with a session in which nothing overlaps; `Ask` stands alone, because all it takes from the rest is an opaque
digest; `Suggestions` writes the patterns that `Sources` has as a constant.

## 3. Session

`Session.tla` has one action per handler of `App.tsx`. What a handler does up to its first real
`await` is one action, what it does after it another:

- Reading a drop (`ingestFiles`) takes time. `DropAppFiles` and `DropExternal` put the drop into a
  slot of `drops` together with `seen`, the list of applications its closure captured.
  `FinishAppDrop` and `FinishExternalDrop` go on with `seen`, not with `apps`, exactly where the code
  does: the registry (a ref) is current, the applications are the snapshot.
- The analysis awaits only resolved promises once the parser is initialised, so no event of the
  user falls inside it. It is part of the action that runs it and an opaque function of its input
  (`Outcome`): the own files and the headers not shadowed by them.
- `SaveSession` appends a write to `queue`, the browser's FIFO of transactions on one object store;
  `CommitWrite` replaces the whole image, as the transaction's clear and puts do. `StorageFails` drops
  a request. `meta` is localStorage and changes at once.
- `ParserLoads`, `ParserFails` and `RestoreSession` are the start-up effect; the application list is read before
  the files are (`loadAppMeta` is synchronous, `loadSession` is not). `Reload` is a crash, a reload or
  closing and reopening: memory, drops and queue are gone, the two stores stay.

Variables: `apps` is `applications`, `extReg` the registry behind `externalRegistryRef`,
`externalFiles` the state of that name, `patterns` both registries, `phase` where the start-up effect is.

Three next-state relations differ in what the *user* does: `Next` is everything the code allows;
`BusyNext` has a user who waits for the restore and a storage that works; `PatientNext` one who also waits for
a drop to be read before doing anything else. The code blocks neither of them, which is why a property is
stated under the weakest of the three it holds for.

### Runs

| Run | Specification and instance | Properties | Shows |
|---|---|---|---|
| `session_patient` | `PatientSpec`; 2 applications of 3 ids, 2 names, a pattern, a source in two versions, a header that is good, replaced or rejected, 2 writes outstanding | `TypeOK`, `RoundTrip`, `AnalysisCurrent`, `DropsAreAdditive` | reopening restores the screen, with the analyses it shows unless patterns were edited since; the analysis is of the files on screen; a drop only adds |
| `session_busy` | `BusySpec`; 2 overlapping drops, headers only, 1 write outstanding | `ExternalView`, `ExternalDurable`, `NamesDurable` | what survives overlapping: headers and the list of applications |
| `session_anything` | `Spec`; operations before the restore, refused requests, patterns, a drop of a header, 1 write outstanding | `SomeApp` | there is always an application to drop files on |
| `session_live` | `FairPatientSpec` | `FilesReachDisk`, `ImplementsWriteBehind` | files reach the store; the session implements `WriteBehind` |
| `session_lost` | `BusySpec` | `DropsAreAdditive` *violated* | the second of two drops removes the files of the first (`App.tsx:220-225`), against `c-interface-discovery-spec.md:471` |
| `session_stale` | `BusySpec` | `FilesDurable` *violated* | an external drop that overlaps an application drop saves the old list (`App.tsx:281`): files on screen that are in no store |

Bounds. Three ids for two applications let an identifier be new, removed and stored at once. One source
and one header are the two kinds the handlers tell apart; two contents distinguish a replaced file
from a kept one; a rejected version shows filtering and shadowing. Two slots are the least that overlap,
and every hazard found needs only two. `MaxQueue` outstanding requests: a handler waits (its
action is not enabled) when the queue is full, so a larger queue only delays commits further; two (`session_patient`, `session_live`)
allow a save to be overtaken by a newer one and by a reload; the runs with overlapping drops, where the order of the handlers is the question, have one. `CHECK_DEADLOCK FALSE` is there because identifiers
run out in a finite instance, never in the code.

Fairness: dropped files are read in the end (the browser's `File` promises settle), the parser and the initial read
settle, and a transaction that was accepted commits. Nothing is assumed of the user or of reloads.

`WriteBehind` is the promise in ten lines: edits in memory, versions persisted whole and in order, a crash that
loses the versions still waiting and gives back of each key the persisted value or nothing. "Or nothing" is the
code's: files whose application is not in the metadata are not restored, and neither is anything when there is
no application file.

## 4. Ask

`Ask.tla` follows a question through `AskPanel.send`, the generator `ask` and `chat`/`chatStream`. Between two
awaits on the network the generator runs in one task, so an action is "what the endpoint or a timer does, and
everything up to the next request": `ReplyCalls` appends the assistant message and all tool results and
sends the next request, `Finish` is the return of the generator with the `finally` block of `send`. `asks` holds
*every* generator, those of cleared turns included, because they run on until their request settles; `turns`
is what is on the panel; `abortRef` names the ask whose controller Stop and Clear abort. A request has a
timer (`timedOut`) and the panel's signal (`aborted`); `AbortSettles` is `classifyAbort`.

One run, `ask` (2 turns, 2 tool rounds, 2 calls per round with replies that ask for more, 2 stream events):

- `OneWanted`: however turns are stopped, cleared, hidden and started, at most one request that nobody cancelled is at the
  endpoint and it belongs to a running turn.
- `StopReaches`: Stop works on every running turn; the late `finally` of an old ask does not take the controller of a new one.
- `Bounded`: requests and lookups per question are bounded whatever the model replies.
- `WellFormed`: every message list sent is a conversation: each tool call answered, no answer without its call.
- `EndedTurnsStay`: a turn that ended changes no more (action property).
- `TurnsEnd`: every turn ends even if the endpoint stays silent (liveness).

Two turns are the least that interfere, and a third would need the first to be both abandoned and outstanding
with the second; the theorems below cover any number. The constants of the code are 6 rounds and 10 calls; the
properties depend only on their order, and `AskBounded` is proved for all values.

Fairness: a timer that was set fires unless cleared, and a fetch whose signal was aborted rejects. The
endpoint owes nothing: `Endpoint` has no fairness except that an aborted reading of an error body ends.

## 5. Layout

`Layout.tla` is `buildStructCatalog` and the recursion of `computeLayoutInternal` in it. The recursion is a
stack, `frames`, one record per call with the locals of the call (`offset`, the fields and gaps so far, the
alignment, the sum of the padding, `isEstimated`); `guard` is `RECURSION_GUARD`, the one piece of state that is global to the
module of the code and outlives a call if an exit forgets it. Each action is one turn of the field loop (`PlacePointer`,
`PlacePrimitive`, `PlaceUnknown`), the entry into an embedded struct (`EnterNested`), the return from it together
with placing the field (`LeaveNested`), or a turn of the catalogue's loop (`SkipEmpty`, `StartStruct`, `FinishStruct`).
`TypedefMap`, `PrimitiveOf` and `Canonical` are the three ways the engine follows typedefs, each with its own limit of
hops, as recursive functions.

`Header.tla` says where the dictionary comes from: the lines of the headers that were loaded, with
`buildPackMap`'s stack of packings replayed up to the line of each struct (`PackAt`), `resolvePack`, and the rule that the first definition
of a name is kept. `Composition.tla` is `partsOf` over the finished catalogue and, separately, the containment graph from which
`collectWarnings` takes the structs it warns of: two walks of the same structs with different code for typedefs. A `Node` is a call of
`partsOf` (the struct, the structs opened above it, the offset in the message), `Parts` what it shows, and `Levels` the calls of the
tree by their depth. The walk of the warnings visits each struct once, so what it reaches is the least closed set (`Reached`), whatever its order. `CompositionAssumption` says
that it follows at least as many typedefs as the engine does; both follow 4 (`headerGenBundle.ts:93`).
`Abi.tla` is the reference: System V layout in rounds, in each of which the structs are laid out whose embedded structs are, with
sizes, alignments and offsets defined apart from the engine (no stack, no maps, no guard, no hops). A struct that is in no round
is one no compiler could lay out from these headers. The comparison needs every name to mean one thing and every chain of typedefs to be within the
hops (`Unambiguous`); that is the module's assumption on `TypeDicts`, and section 9 says what it leaves out.

| Run | Instance | Properties | Shows |
|---|---|---|---|
| `layout` | `HeaderSpec` on `MCHeaders` | `TypeOK`, `LayoutsTiled`, `LayoutsAligned`, `GuardHonest`, `PackScoped`, `EstimatedHonest`, `AbiCorrect`, `CompositionFills`, `WarningsReach`, `CatalogEnds` | every layout is tiled and aligned, the compiler's or flagged, filled by the message tree; the catalogue ends |

What each property is for. `LayoutsTiled`: the gaps the engine locates and the fields are together every byte once, also behind the last
field. `LayoutsAligned`: with divisibility rather than offsets alone, so that arrays of the struct stay aligned. `GuardHonest`:
the guard is exactly the stack; a struct used twice is not recursive, structs that embed each other end. `EstimatedHonest` and
`AbiCorrect` go together: flagged exactly when something below is unknown, recursive or of unknown length, and otherwise equal to the reference in size, alignment and
every offset and size of a field. `PackScoped`: each struct has the packing of the innermost scope, defined by counting pushes
and pops rather than by a stack, and nothing reaches into the next header. `CompositionFills`, `WarningsReach`: the
parts of a struct fill what the block above has for (one of) it, at every level, unless the packing is overridden (an embedded struct
keeps its own packing then, the catalogue's entry does not), and the tree shows no struct the warnings miss.

Bounds (`MCLayout`). *Pairs*: `S` with up to two of eleven kinds of field (primitive, typedefs of primitives one and two deep, the other struct under three names,
itself, pointer, array, array of unknown length, unknown type), `T` with one of five bodies, in five arrangements of order and packing; two
fields are the least with a gap between and behind them, and two structs the least that embed each other.
*Scopes*: every sequence of three out of eight lines (push and pop with and without values, values that are no
packings, reset, end of a header) with a struct behind each: enough for a push in a push, a pop of
either, and what comes behind. *Triples*: a struct used several times, under several names, before and after its definition, and a third level of
recursion. Both targets. The tables have one primitive for each difference between the targets but `long double`, for which
`AbiCorrect` fails on the 64-bit target (section 9). The hop limits are the code's (4, 6 and 4), and no chain in these headers is as long as a limit.
`packOverride` is unset, as every caller in the application leaves it; the proofs cover all its values, for which `AbiCorrect` claims nothing once it is set,
the compiler knowing no such thing. `CHECK_DEADLOCK FALSE`: the
catalogue ends. Fairness: weak fairness of the next step, since the code is one synchronous loop.

## 6. Panels

`Settings.tla` is `LlmSettings.tsx` with the configuration it stores. The configuration exists three times: `config` in the panel,
`appConfig` in `App.tsx`, `stored` in localStorage, which `loadLlmConfig` reads through `normalizeConfig` (an entry may be another version's or
written by hand, hence `Junk`; and `NumberOf`, the texts of digits that are read as numbers). `Replace` is `update`: all three at once, except that the browser may refuse the write
(`refused`). A request is outstanding between two actions and keeps what its closure captured: `refreshes[r]` is the configuration a
list of models was asked for with, `probe.config` that of the diagnostics. Each of the five requests of `runDiagnostics` is answered by an action of
its own (`ProbeModels`, `ProbeCompletion`, ..., each with its failures), which emits results and sends the next.

`Patterns.tla` is the two registries (`registry`), the lists on screen (`shown`), localStorage (`kept`) and the form; `ImportFile` is an import
that may meet an element that is no object half-way and leaves what it had added. `unsaved` says of each registry that a write was refused or an import
broke off. `Suggestions.tla` adds the suggestions panel and joins the three: the assistant's switch shows and hides panels
(`SuggestionsFollow`, `FormFollows`), leaving one aborts what it waited for.

| Run | Properties | Shows |
|---|---|---|
| `panels` | `TypeOK`, `CopiesAgree`, `UsableMeansProbed`, `StoredIsShown`, `RequestsSettle` | three copies of the settings agree wherever they are read, a report has every probe once and "usable" means that nothing failed, screen and storage have the same patterns, requests settle |
| `panels_off` | `OffMeansSilent` *violated* | unticking the switch between two requests of the diagnostics does not stop them (`LlmSettings.tsx:86`), against `config.ts:10` |

Bounds: three actions of the user, with answers of the endpoint free between them. Every property relates at most two
handlers and an answer; four actions only repeat combinations. Endpoints typed with a trailing slash and of slashes alone, two models of which one
reports its window, an import with duplicates, one with a broken element in each place, three patterns; one list request at a time beside the
diagnostics, which fetch the list too. `CHECK_DEADLOCK FALSE`: after the last action nothing happens.

`CopiesAgree` leaves out the endpoints that `normalizeConfig` mends by half (`MendedByHalf`): "/" is stored as typed and read as the
empty text, and when that is stored it is read as the default, so the endpoint in use changes without being edited.

Fairness (`FairSpec`): requests settle, because each has a time limit (`client.ts:50-65`) and both ways out are actions. Nothing is
assumed of the user.

## 7. Interfaces

From text to graph in five modules of operators, in the order of the code's passes:

- `Payload.tla`: `resolvePayload` on a call with its arguments as small trees (a name, a member, the address of either, a cast, a
  size) and the statements before it by block. A strategy finds a set of at most one result; trying them in turn
  is `a ?? b`, which is `b` where `a` is empty. `Honest` says what a payload really is.
  An address has two forms: "address" is what the resolver tests for, a `unary_expression` with `&`, "pointer" the `pointer_expression` that the grammar it is
  shipped with makes of the same text and no strategy recognises (section 9). The address of a member, `&foo.bar`, is answered with the type of `foo`, as
  `payloadResolver.ts:143` intends.
- `Sources.tla`: `analyzeSource`: calls of the C library and of the user's patterns, the constants, sizes, parameter and callback types at them,
  filed under the *first* entry of the same type and direction (`Collector`), as the code does. A pattern is two sets of names, those it matches
  as the name of a callee and those it is found by in a text: an anchored one has calls but no entry, and what is found at them goes to another entry of its kind, or is dropped.
- `Messages.tla`: `extractMessageInterfaces`: defined names, chosen structs, passed names, implied structs, each only if not found before;
  direction and roles by the calls of the files that mention the name, or by the calls it is passed to.
- `StructRoles.tla`: containment, bindings, envelopes and the seven roles.
- `AppGraph.tla`: both graphs and `crossAppEdges`. A drawn edge has the set of arrows it stands for, so which of two opposite arrows is kept does
  not matter. An edge between files is as certain as the message that was met first, hence the *set* `directions`.

What the code filters, flattens or searches keeps its *positions* here: a filtered list is a function on the positions that
remain (`Where`), a list of lists one on pairs (`Flat`), and the first or last of some is `Foremost` or `Hindmost` of their positions. Only the order of
positions is ever used, as in the code, and nothing is recursive, so the operators can be reasoned about. A program is a set of
texts; `Text` (assumed in `InterfacesAssumption`) says that a text mentions the identifiers its calls and parameters are made of, without which
"mentions" would mean nothing.

`Interfaces.tla` is the machine: `AddFile`, `RemoveFile`, `AddExternal`, `RemoveExternal` change the files and re-run the analysis (of one
application, or of all for a shared header), `ViewApps` and `ViewFiles` open a graph, which marks messages as incomplete on the
analyses themselves (`marks`). What the files of a name say is fixed per behaviour by `chosen`, so a load order is a path.

The run `interfaces` has the properties that hold; they compare results with the text of the loaded files, not with each other's code. `Sending`,
`Receiving` and `Controls` read a file's direction off the functions it calls and the patterns it mentions, and know nothing of entries, roles or messages:

- `PayloadHonest`: a payload reported with high confidence as the address of a variable (or of a member of it) has the type of the nearest declaration of the
  variable, one reported as a pointer that type or its parameter's, casts or no casts. An untyped pointer has the type of the variable it was pointed at last, if that is
  settled (`Settles`): the block with the last assignment has all of them, whatever the earlier ones were, and other blocks around the call declare and copy what they like.
- `OrderIndependent`: two applications with the same files, loaded in any order, have the same messages, directions, confidence,
  roles and struct roles, unless headers disagree about a name. (The transport shown does depend on the order.)
- `EdgesBacked`: no edge from a file or application all of whose mentions of the message only receive, nor to one that only sends.
- `CertainMeansEvidence`: an edge is drawn as certain only with a call that tells a direction, as bidirectional only if messages go both ways.
- `FlowsDrawn`: a message one application only sends and another only receives is drawn between them, or through every application that passes it on and
  not around them.
- `ToolsAgree`: under every naming of the applications, equal names included (`App.tsx:195-215` lets them arise), the assistant is not told that a message is unmatched when the
  graph draws an edge for it; and where the applications that produce or consume it have different names, it is told of the message as matched exactly if an edge carries it or only
  applications that pass it on have it. With equal names the converse fails: see section 9.
- `MarksSound`: a message both produced and consumed within an application is not marked in it.

The run `payload_recent` has one property, `MostRecent`, and is *violated*: a payload found by tracing assignments is what the most recent assignment says, as the comment
at `payloadResolver.ts:319` and the test at `payloadResolver.test.ts:368` have it. With a cast to `A` in the block of the call and one to `B` in the block around it the
resolver reports `B`: it searches backwards a list that begins with the innermost block.

Bounds (`MCInterfaces`). *Exchange*: two applications and a hub that relays, listens or is silent. *Broadcast*: constants nobody defines, a
rejected header hiding a good one, two definitions of a struct, callbacks, control calls, a struct found only through a
parameter, calls of an anchored pattern. *Twins*: two applications of the same files in all orders. *Snippets*: six arguments and every sequence of two out of six statements
behind three declarations in one block, or one statement in an inner block (where a variable may be declared again) after at most
one outside. Three files per application and three applications are the least for a sender, a hop and a receiver, and for an order
to matter. Three names for three applications are all the ways to share them. `Settles` bounds the claim and not the model: see section 9. `CHECK_DEADLOCK FALSE` is there for
the snippets, whose one file and one header can only come and go.

## 8. Proofs

`SessionProofs.tla`, `AskProofs.tla`, `LayoutProofs.tla` and on top of it `HeaderProofs.tla`, `AbiProofs.tla` and `CompositionProofs.tla`, for the panels `PanelsProofs.tla` (the
settings and the registries of `Patterns` in it), for the graphs `InterfacesProofs.tla`. They hold for all values of the constants under
the assumptions of the modules they extend (distinctness of the "nothing" values, positive bounds, which the configurations satisfy and TLC
evaluates; for the layout also that the tables hold sizes and powers of two; for the comparison with the compiler that names are unambiguous). That parsing keeps one struct per name is assumed by
`Layout` and proved by `HeaderProofs`.

- `TypeCorrect` (`Spec`). Its interest is in the types: what is saved and analysed is a `GoodMap`, without rejected files.
- `ExternalViewCorrect`, `ExternalHeadersSurvive` (`BusySpec`), from `ExternalInv`: the *last* image, the one in the newest
  outstanding write or the store itself, has the headers on screen. The property speaks of the store with an empty queue and is not
  inductive; the invariant says what the queue must hold for it to come true. `StartUpInv` is needed because before the restore the queue
  holds a read.
- `SessionRoundTrip` (`PatientSpec`), from `PatientInv`: at most one drop is being read and nothing changed since it began, the last image has the files
  of every open application, and the metadata read at start-up are those still stored. That the analyses come back too rests on `AnalysisInv` (`ShownAgain`): what is on screen and what
  the restore computes are both the analysis of the same files and headers with the same patterns.
- `SomeAppCorrect` (`Spec`) holds because of three things far apart: the guard of `RemoveApp`, that the list a drop captured has the application
  the drop is for, and that a restored list is not empty.
- `NamesDurableCorrect` (`BusySpec`), from `NamesInv`: a step after the restore stores the list again, leaves it alone or leaves no files to lose; before
  the restore nothing is on screen and the read that is outstanding carries the list that is stored.
- `AnalysisCurrentCorrect` (`PatientSpec`), from `AnalysisInv`, with `PatientInv`: an application on screen shows (`Shows`) the analysis of its files and the unshadowed
  headers once the session is restored, and has neither files nor analysis before; a drop lands on the list it was begun with.
- `DropsAreAdditiveCorrect` (`PatientSpec`): an action property from the same fact. Under `BusySpec` it is false, as `session_lost` shows.
- `SessionImplements` (`PatientSpec`): the refinement of `WriteBehind`. A handler that saves is `Edit`, a transaction that commits `Persist`, a reload
  `Crash`, whose kept keys are those the metadata list and the headers; every other step, the restore included, is invisible, because the mapping already shows before the restore
  what the restore will show. `Versions` says that the outstanding writes are the abstract backlog.
- `AskTypeCorrect`, `AskOneWanted`, `AskStopReaches` and `AskEndedTurnsStay`, from `PanelInv`: a turn on the panel runs exactly as long as its ask waits, and only the ask
  the reference names can be wanted. `AskBounded`, from `RoundsInv`: the rounds count the requests and bound the lookups. `AskWellFormed` is inductive with the types: a round appends the calls together
  with all their results, and a conversation followed by such a block, or by a question, is one (`Paired`).
- `LayoutTypeCorrect`, `LayoutsTiledCorrect`, `LayoutsAlignedCorrect`, `GuardHonestCorrect`: for every dictionary, every table of primitives and
  every number of hops. The properties speak of finished layouts; what carries them is the same said of each call on the stack as far as it
  has come (`TiledInv`, `AlignedInv`). `Grown` is all those proofs know of a placed field, `FramesFrom` and `LayoutsFrom` say where the calls
  and layouts of the next state come from, so that the eight actions are gone through once. Tiling rests on a lemma for a piece added at
  the end (`TiledByGap`, `TiledByField`), alignment on `AlignUpFacts` and on the fact that of two of the five alignments one divides the other.
  `GuardHonest` is inductive; the return from a struct needs `NamesOnce`, since the guard holds names and the stack structs.
- `EstimatedHonestCorrect`, from `HonestInv`. The flag of a call on the stack says exactly whether one of the fields *placed so far* is uncertain (`CallHonest`); a
  finished layout is one of a call that placed all of them. That the engine's ways of following typedefs lead where the names lead is
  proved for each of them (`PrimitiveMeans`, `TypedefMapMeans`, `CanonicalMeans`). The guard is where engine and reference differ most: a struct refused because it is
  on the stack is within itself, and such a struct is in no round (`NeverWithin`); conversely a struct in no round has a reason below it, and because
  each struct is on the stack once (`GuardHonest`), the stack is no deeper than there are rounds, so the reason is found (`CompleteKnown`).
- `AbiCorrectWhenNatural`, from `MatchInv`: offsets, sizes, end and alignment of a call agree after each field (`CallMatches`) with those of a compiler that packs as
  the engine does (`EngineRounds`), where `Placed` rounds up and takes maxima step by step and `Arranged` chooses multiples and the largest of a set. These
  rounds are the compiler's own if no field is of a primitive more aligned than the default packing (`NaturalRounds`). That hypothesis, `Natural`, is the
  exception section 9 describes (`long double` on a 64-bit target); the headers of the run `layout` satisfy it. `MatchInv` itself needs no such hypothesis, which is why the next theorem has none.
- `CompositionFillsCorrect`, from `MatchInv`, `LayoutsTiled` and `MemberInv` (a field reported as an embedded struct is of a type that means that struct). The parts of one
  node are the fields and gaps of one layout, moved (`PartsFill`). That they fit the block above is not local: the block got its size from a *nested* call for
  the member, the parts come from the *catalogue's* layout of it, and the two were computed in different rounds with different packings on the
  stack. They agree because a struct laid out in one round is laid out the same in every later one (`EngineStable`). Everything in the tree of a
  struct that is not estimated is itself known (`LevelsCompiled`).
- `WarningsReachCorrect`, from `MemberInv`: whatever closed set of structs has the message has each node of its tree, level by level (`LevelsReached`), because the containment
  graph resolves a type to what it means (`CanonicalNameMeans`), as the engine does.
- `PackScopedCorrect` (`HeaderSpec`): a stack of values on the one side, counting pushes and pops on the other. `ReplayedInStep` is an induction over the
  lines: after each line the stack has as many values as pushes are open, and its value at each depth is that of the innermost scope among the lines at most that deep.
  A pop then takes up what the scope around it says. `Balanced` is needed there and nowhere else.
- `ParsedDictionaries`: by induction over the lines, parsing collects one struct per name, well-typed and in source order; `HeaderImplementsLayout` uses it to carry the
  theorems of `LayoutProofs` over to `HeaderSpec`, whose dictionaries are no longer assumed but computed.
- `PanelsTypeCorrect`, `SettingsAgree`, `UsableIsProbed` and `RegistriesStored`, from `PanelsInv`: settings and registries share no variable, so each
  keeps an invariant of its own and the steps of the panels together are sorted by what they touch. `CopiesAgree` and `StoredIsShown` are
  inductive with their types. `UsableMeansProbed` speaks of a finished report; `RunInv` says it of a run half-way: it has the results
  of the probes before the one it waits for, in order, a probe was skipped only after a failure, and on screen is the last part of
  them, all of them unless the user reset the panel meanwhile (`LastOfExtends`).
- `MarksSoundCorrect` and `ToolsAgreeCorrect`, from `IInv`: an analysis has one entry per message (`OneEach`) and a file has one of three roles
  (`RolesTyped`), so a mark made by name meets the one entry it was computed from, and marks are dropped with their analysis. `ExtractedType`
  shows both of every result of `extractMessageInterfaces`, because a name is looked for in one way only if it was not found in those
  before. For `ToolsAgree` a message has a drawn edge exactly if `Routes` is not empty (`EdgeOfRoute`), which is counted out on the two
  sides (`RouteOfSides`); that the tools see the same sides rests on the three roles alone (`ToolSides`). Nothing is assumed of the names: a side is empty under
  any of them exactly if it is without (`SomeNames`), and two sides differ as sets of names if no two of their applications share one (`NamesAgree`). `InterfacesTypeCorrect`, from `TypeInv`.
- `CurrentCorrect`, from `CurrentInv`: of every application the analysis kept is that of the files loaded now (`Current`), each pass of it
  from the results of those before. The next theorems all follow from this invariant: what they say is then a matter of one analysis,
  any set of texts and any patterns. They hold where the value for "no analysis" is none of the results of the extraction (`Distinguished`, as null is
  none in the code: any value will do that is no set of records with the fields of a message); TLC's model values are such.
- `EdgesBackedCorrect` and `CertainMeansEvidenceCorrect`, from `MessagesBacked`: the role of a file in a message does not deny what its text says, and a
  message is confident only if a text tells a direction. For a name found by mention, a file's entries send and receive exactly as its
  text does (`TextSends`): entries of the C library come from a first call of that text, those of patterns from a mention. For a
  name found at calls, the entry that collected it may be another pattern's, but has its direction (`CollectedOrigin`, `CallRoleBacked`). `RouteBacked` and
  `FileRouteBacked` carry this to the arrows, hops through applications included; `AppEdge` and `FileEdge` say which messages an edge, merged or not, stands for.
- `FlowsDrawnCorrect`: what is passed to a call is collected by an entry (`PassedCollected`), is then the name of a message in which the file has a role
  (`PassedMessages`), and by `OnlyProduces` and `OnlyConsumes` the application is on that side of it alone; `RouteDrawn` and `DrawnRoute` say that the edges
  drawn are the routes, straight or through those that pass the message on.
- `PayloadHonestCorrect`: each of the seven strategies is for arguments of its form (`ByForm`), so what is reported with high confidence for an object whose address is passed is the
  type of a declaration, the foremost of them, and with the innermost block first that one is in the nearest block that declares the name
  (`NearestDeclaration`). A variable passed by its name, cast or not, is found as a declaration or as a parameter (`CarriedHonest`). Through a pointer: what a settled assignment aims at is
  declared before it and in no block nearer to the call (`SettledTypes`), so the assignment tells something (`AssignmentTells`), and nothing that tells comes behind it in the order the resolver searches.
- `OrderIndependentCorrect`: everything the analysis says of an application, but for the transport, depends on the *set* of its texts (`Reordered`). Unions and
  existence do so by themselves (`SameInferred`, `SameNames`). Where the code takes the first of something the proof shows that the first is the same one: of the calls of
  one file, whose order is the text's, not the files' (`SelectedRole`, `SameRoles`), of the files of one name, of which there is one (`TextByName`), and of the
  headers that declare a name, which is where they must agree (`SameMerged`).

Each invariant is proved in three steps, initial states, one step per action, and consequence; the operators
(`Merge`, `Good`, `ImageOf`, the last image under `Append` and `Tail`, the number of lookups under concatenation) have
lemmas of their own.

Induction over data. The library's induction theorems take an operator and cannot be instantiated, but a recursive function over the lines of a
header or the fields of a struct can be reasoned about: `Induct` (HeaderProofs) derives induction for a *set* of natural numbers from the
well-foundedness of `<`, and each such function is first shown to exist (`Recursion` in AbiProofs does it once for all functions that repeat a step). There are no facts to cite about `SelectSeq` and the folds
over sequences; the interfaces use positions instead, where all that is needed is that some positions have a first one (`Least`, `ForemostExists`).

Only model-checked: the liveness properties `FilesReachDisk`, `TurnsEnd`, `CatalogEnds` and `RequestsSettle`, since liveness under fairness and ENABLED are
out of the prover's reach. Every other property of a passing run is stated by a theorem. No module that is proved about reaches a RECURSIVE operator.

## 9. What is left out, and why

- Of the session: the order of applications and files, match counts, selection and mode (display only, nothing reads them back);
  `analyzeInFlightApps` (it guards against overlapping analyses, which do not overlap because the analysis does not yield to events);
  an exception inside the analysis; the time between `setState` and the render that makes new closures; two tabs sharing the stores;
  a full localStorage.
- Of a question: the digest, trace and reasoning shown with a turn, the texts, how the network cuts a stream into chunks (the parser
  reassembles them), identifiers of tool calls.
- Of the layout: bit-fields (the parser takes a field's type from its type node, which never ends in `:N`, so the bit-field branch of
  `computeLayoutInternal` is not reached and each bit-field is laid out as a whole field); a struct with the name of a primitive
  once lower-cased (`primitiveSizeAlign` lower-cases); a struct tag and a typedef that share a name (the dictionary has one name space);
  typedef chains longer than the hops (these two and the struct named like a primitive are what `AbiAssumption` excludes); `#pragma pack(pop, N)` and labels beyond what `DirectiveOf` shows; the texts of the warnings.
- Of the panels: settings that nothing else depends on, the download of a report, the choice of candidates and the prompt of the suggestions.
- Of the interfaces: line numbers and texts of references, transports of edges, positions, the lists shown at the nodes, array extents and the depth
  of a struct; regular expressions are the set of names they match; declarations of several variables, and members of members.
- Parsing of C, rendering, the tools' texts: pure functions of text whose cases are a grammar's or a layout's.
- The digest and the header bundle: planned (section 2).
- `workers/analyzer.worker.ts` is never started.

What the model shows of the code and no property of a passing run claims otherwise:

- `payloadResolver.ts:319` scans the statements backwards to find the most recent assignment, but the list begins with the innermost block
  (`priorSiblings`), so with assignments in two blocks the *outer* one wins, which `payload_recent` shows; and an assignment that resolves to nothing is skipped in favour of an older
  one. `PayloadHonest` is claimed where one block has all assignments and the last of them tells something.
- The resolver takes `&x` to be a `unary_expression` (`payloadResolver.ts:138`), and so do its tests, which build their nodes by hand. The parse tables of the grammar in
  `public/tree-sitter-c.wasm` make every `&x` and `*x` a `pointer_expression` and reserve `unary_expression` for `! ~ - +`. With that grammar the address strategies do not
  fire: `put(&msg)` is left to the struct the call implies, and `p = &k` is passed over for an older assignment, against `docs/payload-resolution-patterns.md:8-18`.
  The model has both forms, since it depends on a binary which of them the program meets.
- `&foo.bar` is reported with high confidence as the type of `foo`, not of the member (`payloadResolver.ts:143`): intended by its comment, and what `Honest` says of it.
- A parameter counts before a local variable that hides it (`payloadResolver.ts:461-467`); under a cast it is the other way round. `Honest` allows both types.
- Where nothing is packed the engine still packs, to 8 bytes on the 64-bit target (`structLayoutEngine.ts:474`): a `long double`, whose entry is `[16, 16]` (line 106), is
  placed at a multiple of 8, although `types.ts:53` says that no packing means natural alignment. `AbiCorrectWhenNatural` excludes exactly such primitives.
- A constant defined in a `.c` file and passed to a messaging call is "definition not found" there (`sourceAnalyzer.ts:307` only knows the headers').
- Evidence at a call is filed under the first entry of the same type and direction, which may be another pattern's (`sourceAnalyzer.ts:333`).
- No payload carries its constant (`msgIdConstant` is always null), so the tool that looks payloads up by constant finds none (`tools.ts:462`).
- A file that sends and receives a constant by two patterns gets the role of the first when the name was only found there (`messagingExtractor.ts:349`).
- `incomplete` is never taken back within an analysis (`buildAppGraph.ts:186`), and opening the graph of one application marks messages that
  another one completes (`buildGraph.ts:118`).
- Two applications of the same name, which adding, removing and adding one produces (`App.tsx:196`), are one in `crossAppEdges`: the assistant then takes a flow between them for one that
  a single application passes on, and one between them and a third for one through a hop, while the graph draws both.
- A list of models that arrives late overwrites a model chosen meanwhile (`LlmSettings.tsx:65`).
