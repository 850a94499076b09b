# A TLA+ model of sniff-css

sniff-css drives a headless Chrome (or a Flutter app) through a JSON-RPC socket, performs
interactions on a page, waits for it to settle, and stores what it extracted; other commands
read two such captures and report what changed, or what is wrong with one.

Two things are hard in it. The first is what goes wrong *between* two awaits: a load event that was
read too early, a browser that dies under a call, two captures that share a device, a page that
moves while it is being clicked, a child that blocks on a pipe nobody reads. The second is what
goes wrong between two *programs that agree on a file*: styles are hoisted, scoped and compacted
by one module and merged back by another, selectors are made by one and matched by another, an
effect is cut by one and classified by another. These modules model both, TLC checks them on small
instances, and TLAPS proves what matters most of the first, of what the commands do to files, of what
they are configured to do, and of what they make of a page, for every value of the constants.

`PROJECT.json` lists the runs, the mutants that each property refutes, the source lines every
definition stands for, the hazards and the theorems. All paths below are under
`src/crates/` of the repository.

## 1. The system

| component | state it keeps | operations | talks to | what is hard | what makes it correct |
|---|---|---|---|---|---|
| JSON-RPC client, `sniff-cdp/src/jsonrpc.rs` | id counter, table id → oneshot, sink behind a mutex, broadcast channel | `call`, `close`, `subscribe`, reader task, `dispatch` | the peer over a WebSocket; every task of the process | calls race, are cancelled, the connection dies | an answer reaches its own call; no answer is lost; events are not overtaken |
| CDP session, `sniff-cdp/src/session.rs`, `client.rs` | session id, target id | `new_page`, `enable_domains`, `navigate`, `wait_for_event`, `close` | client above; one broadcast channel for all sessions | events of other sessions, events read before the subscription, lagging | `navigate` returns for its own load event; a wait that listened in time misses nothing unsaid |
| browser pool, `sniff-css-mcp/src/browser.rs` | semaphore, `RwLock<Sniffer>`, launch options | `sniff_with`, `run`, `relaunch` | sessions; MCP tools | crashes during calls, racing relaunches, retries | permits conserved; browsers do not pile up; calls end, or hang by themselves |
| browser process, `sniff-cdp/src/browser.rs`, `endpoint.rs` | child process, profile directory, `TEMP_SEQ` | launch, wait for the endpoint, ask a running browser, drop | operating system | silent and dying children, helpers that outlive the browser, two launches at once | every launch ends, no stray process, no directory taken from another, or left before every attempt to remove it |
| capture pipeline, `sniff-engine/src/sniffer.rs` | phase, reports | `sniff_session_with_progress` | everything in `sniff-engine` | the page changes between steps | actions in their order, waits after them; the capture ends |
| interactions, `sniff-engine/src/action.rs` | target box | `prepare`, `perform` | page | the target moves, vanishes, is covered or replaced, does not take the focus | the action reaches its target, or the page is to blame |
| waits, `sniff-engine/src/waiter.rs` | in-flight counter, idle clock, budget, deadlines | six strategies, one after the other | events, page | missed starts, redirects, endless traffic, a wait that only ran out of time | idle means idle; what was waited for is there; the wait ends |
| effect reports, `sniff-engine/src/effects.rs` | visible elements before and after | capture, diff, limit, classify | page | late reactions, tolerances, limits | an effect is attributed to its action; `no_effect` is true |
| session state, `sniff-core/src/storage.rs` | state file | restore, init script, export, atomic write | browser's cookie jar, page's `localStorage` | jar shared by captures, later documents | a saved login is the login, a restored one is seen |
| snapshot store, `sniff-css-mcp/src/store.rs`, `sniff-core/src/snapshot.rs`, `sniff-css/src/commands/capture.rs` | directory tree | `save`, `save_bytes`, `persist_snapshot`, `ensure_gitignored`, list | file system, other processes | concurrent savers, crashes | published files are whole |
| Flutter capture, `sniff-css-mcp/src/server.rs`, `sniff-css/src/commands/capture.rs`, `sniff-flutter/src/{device,inspector}.rs` | window size of the device, time dilation of the app | `ViewportGuard`, `freeze_animations`, `sniff_flutter_page`, `run_flutter` | adb, the Dart VM service | failures between set and reset, drop tasks, overlap | size and dilation are what the capture needs, and come back |
| Flutter tool and emulator, `sniff-flutter/src/{machine,device}.rs` | child processes, devices of adb | launch, attach, read the endpoint, drain, kill | flutter, adb | pipes that fill, tools that die | every launch ends, nothing blocks for ever |
| driver, VM service, widget extractor | — | drive, inspect, extract | Dart VM service | failures in between | see Flutter capture |
| element extractor, `sniff-engine/src/extractor.rs` | — | selector and path of an element, tree, background | page | `nth-of-type`, anchors | a selector names one element |
| output formats, `sniff-engine/src/output.rs` | — | four documents; slim, compact, scoped and hoisted styles | files | what is hoisted or dropped is to be merged back | the reader has what the extractor had |
| snapshot diff, `sniff-css-diff/src/{model,diff}.rs` | — | load, match siblings, compare | files | pairing, tolerance, ignored properties | silence means no change, and symmetric |
| deterministic checks, `sniff-css-check/src/{rules,uniformity}.rs` | — | tree walk, occlusion sweep, rules, uniformity | files | context inherited from ancestors, equal coordinates, even groups | a verdict is the one its definition gives |
| configuration and contrast, `sniff-core/src/{config,contrast}.rs` | — | parse waits, actions, viewports; blend, ratio | CLI, server | separate notations and defaults | both surfaces mean the same |
| MCP server, `sniff-css-mcp/src/{server,progress}.rs` | pool, store | `sniff_page`, `sniff_diff`, `sniff_check`, … | all of the above | concurrency of tools; its own notation of a request | — |
| CLI, `sniff-css/src` | — | arguments, batches, dry runs, exit codes | all of the above | order of shortcuts, partial failure of a batch, one stdin for all its items | an item's failure is its own |
| AGENTS.md block, `sniff-core/src/agents.rs`, `sniff-css/src/commands/init.rs` | a file and its staging file | upsert, replace | file system, the user's editor | kills, edits in between, broken markers | what the user wrote stays; an update is idempotent |

Interactions: a tool call or a CLI command takes a permit of the **pool**, the pool opens a
**session**, the session's commands are **JSON-RPC** calls, and on the session runs the
**pipeline** (restore **session state**, navigate, stabilize, **interact**, report **effects**,
**wait**, extract, save state). The payload goes to the **store**. A **Flutter capture** takes
no permit; it uses the same JSON-RPC client against the Dart VM service.

## 2. Modules

Each component has one module, an `MC…` module that instantiates it, and one configuration
per question. A state variable is named after the field it models, an action after the
function or the await it models; the comments in the modules name the calls. `history` variables record what
happened for the sake of a property and are read by no guard.

**RpcService** is the abstract specification of the client: an invocation is issued, served at
most once, and completes with what the peer did for it, fails unserved, or is cancelled.

**JsonRpc** is the client. `Number`, `Register`, `LockSink`, `SendOk`/`SendFails`, `Return` are
the stretches of `call` between two points at which another task can run; `Cancel` drops its
future at an await (that is what `tokio::time::timeout` does to it). `Read` is one turn of the
reader's loop with `dispatch`; `ReaderEnds` leaves the table as it is, as the code does. The
peer answers in any order, emits events and goes away, with a tail of its frames lost.
A oneshot channel is identified with the call that created it. It refines RpcService under
`status = StatusOf(pc)`, `served` being the same variable in both.

**CdpSession** runs two pages on one connection. Events travel through the reader to one
bounded broadcast queue per subscriber; a subscriber that falls `Capacity` behind sees
`Lagged`. Navigation is `SendNavigate`, then `Subscribe`, then `Receive`/`ReceiveLagged`/
`Timeout`: the order of the code, not the safe one. `overtaken` remembers whose load event was broadcast before its task
listened. `Close` may fail, and is not repeated; a setup that fails (`SetupFails`) leaves its target open: nothing is claimed of either.

**ChromePool** is `sniff_with`: queue, permit, clone of the sniffer, run, relaunch and retry. A browser runs as long as
something refers to it: the lock, a job's first or second clone (`Referenced`). `Relaunch`, `Replace`, `RelaunchFails` are the two awaits of
`relaunch`, so a launched browser exists before it is the current one. What a dying browser does to a run is taken from JsonRpc: a reply that was awaited never
comes (`hung`), a call sent later fails. `Stall` is any other answer that does not come: nothing on the way of a run has a timeout of its own, neither
`Page.navigate` nor an evaluation under a dialog. `FalseAlarm` is `is_transport_error` matching the text
of an error of a healthy browser.

**NetworkIdle** is `wait_network_idle` with the page's requests and the bounded event queue.
Time is counted in ticks of the 100 ms poll; the counter saturates at zero as `saturating_sub`.

**SnapshotStore** has files as inodes with blocks, a directory, descriptors with an offset, and
savers of both kinds: the server's (temporary file, rename) and the CLI's (in place). A name
is target and second, which is all that the code puts into it. Any saver dies anywhere, any
write can fail.

**FlutterCapture** has the window size, the app's time dilation and the captures that share
them; `Drop` leaves a task in `drops`, which runs at any later time, or never if the process
exits first. `shared` records the captures that did not have the device to themselves.

**SessionState** has the cookie jar and `localStorage` of the browser, the state file and its
temporary file, and captures that restore, log in, go on to another document, and save. `Export` reads `localStorage` as well as it can: an
evaluation that fails (`unread`) leaves a file with the cookies alone.

**PagePipeline** is one run of the pipeline against a page that, between any two steps, draws something elsewhere or over something else, hides or removes
an element, reveals one, moves the focus, loads another document, or opens a dialog. The viewport has two places, its center and the rest; more than one thing may be drawn at a place,
so a click lands on the target, on what covers it or took its place, or on nothing: no step of the code tests what is on top, and `ScrollTo` brings along whatever does not
scroll. `Focus` may not give the target the focus, and nobody looks. `hits` records for each action what it reached, what had been
`lost` by then (the place, the focus), and whether the target was `clear`. The waits are steps of it: `NextStrategy` begins the next
strategy of the list, `PollStrategy` is one evaluation of a polled one (selector, element, flag) with its deadline, `LetPass` the end
of one that is awaited (fonts, network, delay) or its timeout, `Explain` the question whether an element that was not ready is there at
all; `CallFails` is any call of the pipeline failing.

**ToolProcesses** has launches of one process of sniff: Chromium, the flutter tool, the emulator,
a browser that runs already. A child writes lines into bounded pipes and blocks while one is full and its
other end is held; `Held` says who reads which stream, and until when. `Read`, `ReadEof`,
`FindExited`, `PollDevices`, `Timeout` are the turns of the loops that wait for an endpoint;
`FailLaunch` is what every error path does to child and directory, with its single attempt to
remove the latter. `AwaitExit`, `RemoveFails`, `Remove` are the bounded loops of `BrowserProcess::drop`: each may give up, on a process that still runs and on files that stay.

The commands over captures are one chain of modules. The data are small trees: a value of a
property is a number with a unit, an element a record with its styles, its rectangle and its children, a
selector the steps of its path.

- **StyleFormat** (`output.rs`): the styles of one element in its line, compact or not, with scoped variables, and what is hoisted
  out of all lines. **SnapshotFormat** (`output.rs`, `model.rs`) extends it: what is written of an extracted tree, in four
  formats, full and slim, and what `load_str` makes of it.
- **SiblingMatching** (`diff.rs`): siblings matched by selector and then by position. **TreeDiff** extends it and SnapshotFormat:
  changes under a tolerance and with ignored properties, action lists, statistics.
- **Contrast** (`contrast.rs`): blending, effective backgrounds, ratio against threshold. **PageTree** (`extractor.rs`) extends it: the
  elements of a page, generation by generation, each with the chain of those above it, and the path by which selectors and effects name it.
  **Extractor** extends that: the extracted tree. So does **EffectReport** (`effects.rs`): what the
  page's script records of an element before and after an action (of those that are looked at, `LookedAt`: nothing inside of an inline SVG), what counts as a move or a restyle, how lists are limited
  and the effect classified.
- **CrossChecks** (`rules.rs`, `uniformity.rs`): the sweep over the elements by their left edges; the norm of a group and who deviates.
  **CheckRules** (`rules.rs`) extends it and SnapshotFormat: the walk with the context an element has from
  its ancestors, what paints above what, backdrops, the rules on one element, groups.
- **Invocation** is one run of a command: its items, what each gave, files, exit code. `Refuse` is a batch that is not run, `ItemFails` an item
  that fails, `Finish` the end with the exit code of the verb. Every command below extends it.
- **DocumentBatch** is the loop of `sniff diff` and `sniff check`, and of the server's tools of the same name: `Capture` is an earlier capture
  of a page, `BatchRequests`, `Begin`, `Load`, `Compute` are the turns of an item. `Operands` says where an item's captures come from, a file or stdin, which the first to come to it has whole (`spent`). What is written, what a reader makes of it and what is
  answered are operators (`Written`, `Read`, `Answer`), so that the loop is the same for every one of them.
- **CapturedPages** extends DocumentBatch by the pages that were captured, and states what the two scripts that ran in them say of them (selectors, backgrounds, effects).
- **OfflineCommands** extends that by the real writer, reader and answers: `WriteCapture`, `ReadCapture`, `Computed`.
- **CaptureRequest** (`config.rs`, `cli/capture.rs`, `input.rs`, `server.rs`): the two notations of a capture and the configuration that
  each parses to, with defaults, environment and errors. A notation is a sequence of tokens, not of characters.
- **CaptureCommand** is `sniff capture` and `sniff_page`: what an
  item inherits, dry runs, where payloads go and with which name, exit codes.
- **InitCommand** (`agents.rs`, `commands/init.rs`) is `sniff init`: `ReadAgents`, `Stage` and `RenameStaging` are the stretches of `apply` between which the
  user may save the file (`EditAgents`), and the process fail or be killed; `Upsert` and `Tidy` are the functions on the text, line by line.
- **SniffCommands** composes the three on one file system: `CommandsSpec`.

The proofs are in **JsonRpcProofs**, **CdpSessionProofs**, **BrowserProofs** (ChromePool and ToolProcesses: the browser as the pool uses it and as a
process), **FlutterCaptureProofs**, **SessionStateProofs**, **PagePipelineProofs** (PagePipeline and NetworkIdle: the capture and its longest wait),
**PageProofs** (the functions on pages and lists, without a state machine) and
**FileProofs** (SnapshotStore and SniffCommands: what is kept in files, what is captured, and what is said of it), which extends PageProofs.

Modules that recurse over a tree of any depth (SnapshotFormat, Extractor, TreeDiff, CheckRules) use RECURSIVE operators; what they
compute at one place of the tree is in modules of its own (StyleFormat, SiblingMatching, CrossChecks, PageTree, Contrast), about which there are theorems.

Definitions under a comment that starts with "Mutated:" belong to no model: each is what its successor would be with
a plausible bug, and PROJECT.json names it in a mutant. Where a property is a conjunction, one
conjunct is refuted by the listed mutant; others refute the rest when they take the place of the definition that follows them,
in the same run: `DiffMatched` of TreeDiff, `InOrder` of SiblingMatching, `Resized` of EffectReport, `FromParent` of CheckRules, `NormIsFirst` of CrossChecks, `NobodyDrains` of ToolProcesses.

The concurrent modules compose by contract: JsonRpc's results are the environment
of CdpSession and ChromePool (which frames a caller may see, in which order, and what a lost
connection does), instead of one product of state spaces. The commands compose directly.

## 3. Runs

| run | instance | shows |
|---|---|---|
| `rpc` | 2 calls, 1 event | routing, wire order, `Closed` unreachable, refinement of RpcService, answers arrive while the connection is up |
| `rpc_closed` (violated) | the same | a call that waits when the connection closes never returns |
| `session` | 2 pages, queue of 2, 1 unrelated event | a load belongs to its own navigation, a timeout on a loaded page has its reason, an answered navigation ends |
| `pool` | 3 jobs, 2 permits, 4 browsers, 1 crash, 3 false alarms | permits, at most two browsers for a job past the semaphore, a queued job finishes unless it hangs itself or every permit is with one that hangs |
| `idle` | 2 requests, 1 redirect, idle and grace 1 tick, budget 3, queue of 4 | counter conservative, the wait ends; `IdleIsIdle`, what that means for a waiter that missed no start, holds as well |
| `store` | 2 server savers and 1 CLI saver of one target, 2 seconds | whole files, returned paths hold their payload, for names nobody shares |
| `flutter` | 3 captures: two sized (one CLI, one server), two acting, 1 adb failure | dilation while acting, size while extracting; size restored |
| `state` | 4 captures, 1 relaunch | restored login seen, own login saved, without `localStorage` if that cannot be read |
| `pipeline` | 3 interactions, 3 elements, a wait of every kind, 2 polls, 1 thing that the page does of its own at any time, every setting | targets, attribution, what is waited for has been there since the last action, termination |
| `commands` | lists of up to 3 cards, layers of 3 boxes, nested boxes, tints, clicks; every format; batches of up to 4 items; requests that vary one or two fields; files of up to 3 lines, and one of 9 | see below |
| `tools` | two launches: two browsers; an emulator and the flutter tool; a remote browser; 2 lines each, a pipe of 1 | no strays; a directory is nobody else's, and is given up only after every attempt to remove it; launches end, and nothing in use is stuck |
| `offline_mixed` (violated) | captures of lists | a capture is refused by its own reader |

The properties of `commands`, most of them a conjunction of named parts:

- `RoundTrip`: what `jsonl` and `jsonl-flat` say of a tree, with everything hoisted, is read back as the
  elements and styles each element would have been written with by itself.
- `SelectorsUnique`: the selectors that matching relies on name one element each, on pages whose anchors are unique and within a selector's climb.
- `BackgroundsAgree`: the page's script and the tree walk, two implementations, resolve the same background, wherever the capture starts; or the walk, which starts from
  what it does not know where the script starts from the canvas, says that it does not know. It does not say so in the body of a document that is captured from its root.
- `EffectsTruthful`: `LimitKeepsEffect` (the limit trims lists, never the verdict) and
  `NoEffectTruthful` (`no_effect` is only said of a page whose visible elements, those that are looked at, are the same, stand where they stood and look as they did, when the four steps
  of a report's paths tell them apart).
- `DiffSound`: `SilenceMeansSame` (a diff that reports nothing compared equal captures, up to what it was
  told to ignore), `SwapSymmetric` (base and head exchanged exchange added and removed, and keep the
  changes), `ReorderSilent` (anchored siblings may change places).
- `ChecksSound`: `OcclusionIsPairwise` (the sweep over sorted edges finds what the comparison of all pairs
  finds), `AncestorsDecide` (a finding that depends on ancestors is the one their list, read as a whole,
  gives), `NormIsMajority` (an instance that agrees with more than half of its group never deviates).
- `BatchIsolated`: an item gives what it gives alone, whatever stands before it and fails; only stdin is gone for the items after the one that reads it, and for all of them when
  the batch itself was read from it.
- `PayloadReachable`: what a batch reports as persisted is there at the end, unless names coincide.
- `BlockManaged`: what the user wrote outside the block stays, blank lines aside, wherever an update fails or is killed; an
  update that succeeded leaves the block, and the next one finds nothing to do.
- `SurfacesAgree`: a request of the server and the command line that says the same get the same configuration.

**Why the bounds are enough.** In `rpc` the interesting interference is between one call and
one other (an id displaced, a table entry removed, the sink held), and two calls have it all;
the safety part is proved for any number. In `session` a third session adds no kind of foreign
event, and a queue of 2 lags with 3 frames in flight. In `pool` 3 jobs on 2 permits have two
that race to relaunch while a third queues; 4 browsers, and the false alarms to get there, let each of two jobs hold two of its own. In
`idle` the budget exceeds idle plus grace, so both ends of the wait occur, and a redirect makes
a request be announced twice. In `store` two savers of the same target meet in one second or
not; payloads have different lengths, so that a torn file differs from a whole one. In
`flutter` a third capture sees what one failed and one completed capture leave behind. In
`state` the file is written twice and restored in between, and savers overlap. In `pipeline`
each of click, type and upload has its own predecessor's effect to wait for. The bounds on
what the page does of its own (`MaxChanges`), crashes, alarms, adb failures, relaunches, events and ticks are named constants; nothing else is cut.

In `commands` three siblings are the fewest for which a greedy pairing can go wrong, for a majority of a group and for a sweep
that must step over a box; three levels of boxes have a parent and a grandparent that disagree; effects are limited to 0, 1 and 2 entries
against up to 3. `Deepest`, how far below the document element elements are, is no less than the depth of every page in the run, and `Elements` are all that occur in them. In `tools` a child writes one line more than its pipe holds, so it blocks unless it is read; two launches of browsers share
what they can share (numbers, directories), and the emulator and the flutter tool the devices.

The type invariants (`TypeOK` of each module) hold in these runs as well, and are not listed with them where
a proof gives them for every instance. Of the modules that only `commands` uses, most compute; the types of InitCommand's state are part of its
proof (`InitTypeOK`).

`CHECK_DEADLOCK FALSE` throughout: a finished set of calls or captures has nothing left to do.

## 4. Fairness

- JsonRpc: weak fairness of a registered call's steps and of the reader (the tokio runtime polls a woken
  task), and of the peer's answers. None for starting, cancelling, closing or the peer's death.
- CdpSession: weak fairness of the reader, of the steps of a navigation and of its timer. The
  browser owes nothing: the page need not ever load, because the timeout ends the wait for its event; and `Page.navigate` need
  not be answered, in which case `navigate` waits for ever (`session.rs:110` has no timeout), so `NavigationEnds` begins at the answer.
- ChromePool: weak fairness of each job that does not hang. No run is assumed to end: an answer may fail to come at any point of it (`Stall`), and
  `JobsFinish` says that this costs one permit for each job that hangs, and nothing else. Strong fairness of `Acquire`, because tokio's semaphore
  serves its queue in order, so a job is not overtaken for ever.
- NetworkIdle: weak fairness of the waiter, strong of "time passes or an event is received":
  a wait in `select!` with a 100 ms timer cannot be kept from both.
- PagePipeline: weak fairness of the pipeline (the browser answers, unless a dialog is open; time passes)
  and of what the page is about to reveal. None of `CallFails`, nor of what the page does of its own, and a flag that the application never sets only runs out of time.

- ToolProcesses: weak fairness of the turns of a waiting launch, of its clock (a tokio timer), of the task
  that drains the emulator, of Drop's two loops (they are synchronous), of a process that can write, and of
  the end of a process that was killed. None for what a child does of its own accord: it may
  be silent for ever, or exit; nor for adb.

SnapshotStore, FlutterCapture, SessionState and the commands are checked for safety only: the first three have nothing
that must happen, and the commands are a loop over a finite list.

## 5. Proofs

The proofs hold for every value of the constants, given the assumptions named at the head of each module. They say what a constant
is (finitely many jobs or requests, positive bounds, disjoint kinds of savers, records of the right fields) and, where the code has only so many
cases, which: `GivenActions`, `PageShape`, `Strategies` of PagePipeline, `LinesGiven` and `ItemsOfInit` of InitCommand, `ItemsOfDocuments` of
DocumentBatch, `RequestsExpressible` of CaptureCommand (the requests that are compared with command lines are those that a command line can say), `PhysicalGiven` of StyleFormat
(no property's physical equivalent is a custom property), and in CapturedPages `ElementsGiven` and `PagesGiven` (elements have children that are elements and a rectangle
of four numbers, and no page is deeper than `Deepest`), `SignatureGiven` (what both signatures of an element hold) and `BoundsGiven`. TLC evaluates
them in the runs. Every safety property of the runs is proved but the three that read or compare whole trees.

Where an argument is by induction (on the length of a list, or over the steps of a fold) it is stated for a set of numbers, or of sequences, that holds 0
and is closed under the step (`NatInduct`, `SeqInduct`); `FoldExists` and `FoldUnique` give what a fold over a sequence does from its single steps.

**JsonRpc.** That `oneshot[c]` holds c's own answer is not inductive: one must know that the
entry by which a reply finds c is c's, and that a reply in flight carries the id of the call it
answers. The invariant `IInv` adds: ids handed out lie below `nextId` (`IdsHandedOut`) and differ
(`UniqueIds`); a table entry, a request and a reply belong to the call whose id they carry
(`PendingOwn`, `RequestsOwn`, `InboundOwn`); a call that has not sent is unserved
(`UnsentUnserved`). Each action's step then follows conjunct by conjunct. From it:
`TypeCorrect`, `RoutingCorrect`, `NoAnswerLost`, `ClosedNeverReturned`, and
`ClientImplementsService`: each step of the client is a step of RpcService or a stutter. `EventsFirst` needs one fact more, `Ordered`: on the wire, and in
what has been broadcast of it, an event stands before every reply that the peer sent after it.

**CdpSession.** That a successful navigation was woken by its own load event follows from where the event of
`about:blank` can be (`Route`): a page that is being set up has not navigated (`SetupNew`), the reply to `Page.navigate` comes only after the
commit (`Committed`), the blank page's event stands before that reply on the wire (`BlankFirst`), and so none is left, on the wire
or in the queue, when the navigation subscribes (`NoBlankLeft`); and a load event of the navigation is only sent
when it has happened (`LoadsTrue`). From it `OwnLoad`. `NothingMissed` (`TimeoutsHonest`) follows the event of the navigation itself: once it has happened it is on the wire, in
the queue of a task that listens and has not lagged, or its task did not listen when it was broadcast (`Delivered`); a timeout finds the queue empty. Both for any number of pages and any
capacity of the queue.

**ChromePool.** `PermitsConserved` counts a set, `Holders`. Three lemmas say what an action does to
it (kept, one job joins, one leaves), through the library's facts on cardinality; the
invariant is `TypeOK /\ PermitsConserved`. From it: `TypeCorrect`, `PermitsNeverLost`,
`ConcurrencyBounded` (never more jobs at the browser than permits).

`BrowsersCapped` (`BrowsersBounded`): a browser that runs is the current one, or a job past the semaphore refers to it, with one of its two clones (`Bound`; `Bindings` says which of them it has where). That
is one browser more than two for each such job, and while a permit is free that one is allowed for. When none is left, some job refers to the current one as well, or has yet to clone it and so refers
to one browser at most (`CurrentHeld`); the rest is counting (`BrowsersCounted`).

**SnapshotStore.** The invariant says that inodes are handed out once (`Fresh`), that what a descriptor is open on,
and what a name leads to, belongs to savers of that name (`Owned`), and, for a saver whose name is nobody else's, how much of its payload its file
holds at each point of its way (`Safe`): the written prefix before the rename, all of it from
then on. A file that was published is never opened again by such a saver, so it stays whole: `PublishedWhole`, `HandlesHold`,
for any payloads, number of savers, crashes and failed writes.

**SessionState.** A capture that is not `shared` is the only one that is busy (`Alone`), so its own steps are the only ones between its
restore and its extraction (`Restored`) and between its login and the file it writes (`Saved`);
`Paths` says which captures can be at which point at all; `Unread` and `Written`, of which capture the file has no items because `localStorage` could not be read. From it: `RestoredSeen`, `OwnLoginSaved`.

**ToolProcesses.** `Named`: numbers in the names of directories are handed out once, so two launches of browsers never
have the same; that gives `DirKept`, which is `ProfileKept` without its uniqueness, and `ProfilesKept`. Nothing is assumed of how long a killed browser or its helpers go on: a directory that is left behind was given up after `Polls` attempts. `NoStraysLeft`
goes through `KillEnds`: whatever a child is doing, it is no longer running after a kill. For any number of launches of any tools.

**FlutterCapture.** None of the four safety properties of a capture that is not `shared` is inductive.
The invariant `IInv` adds that such a capture is alone on the device, with no restore pending
(`Alone`), so that only its own steps touch size and dilation. For `SizeRestored`, a size
that is not the original one must be owed: by a capture still to restore it or by a dropped guard's
task (`SizeOwed`); who owes it must remember the original one (`PrevOriginal`); and one that is done
has restored it (`DoneRestored`), which is why the exit of a CLI process that succeeded may lose the
task. From it: `TypeCorrect`, `ActsCorrect`, `OwnSizeCorrect`, `RestoredCorrect`, for any
number of captures, overlaps, failures and failed adb commands.

**PagePipeline.** Everything rests on types and on where the index of the current interaction can be (`TInv`). For any list of
interactions, any page and any settings:

- `TargetReached` (`ReachesTarget`): as long as the page has not moved anything since the target's place was read, that is where it is (`AimedAt`), and if nothing else is drawn there the click
  has nothing else to hit; a text goes to the target as long as it took the focus and kept it. The page may act between any two steps, and the model records what was lost.
- `EffectsAttributed` (`EffectAttributed`): what an interaction set off is not pending when the next one is prepared, except for late reactions
  (`NothingDue`), and what is compared are the looks before and after this interaction (`Counted`, `Compared`).
- `WaitedIsThere` (`WaitsMet`): the strategies that were passed are the first ones of the list, and what each of them waited for has been, since the last action, what it asks
  for (`PassedHold`, `BeenThere`). That it still is so at the extraction is not said: the page may hide it again, and no step of the code looks once more.
- `PerformedInOrder`: interactions reach the page in the order in which the configuration lists them; `ShortcutsClickFirst` is what the
  order of the shortcuts makes of that for any list, the general form of the departure `TypedBeforeClick`.

**NetworkIdle.** What the counter is compared with includes events that have not been read, and reading one moves all of them up. So the invariant speaks of
every suffix of the queue: a request is open for a suffix if, as far as that tells, it is in flight when the suffix begins (`Open`, `OpenSet`). The requests in flight and the
ends in the suffix are no more than its starts and the open requests (`Balanced`); after an end in the queue its request is not open, until it starts again
(`Closed`); and the requests open for the whole queue are no more than the counter and the starts that were missed (`Known`). From it `CountedConservatively`, and `IdleWhenCounted` (`IdleIsIdle`), for any
number of requests and redirects, any capacity and any times. `Closed` is what makes an end that lowers the counter take its request out of the open ones.

**Commands.** `UpsertCorrect` is about the text of `AGENTS.md` alone: of any text, the updated one keeps every line that is outside of blocks, blank
lines aside, has a block, and is left as it is by a second update. `Walk`, `Collapse` and `Rest` are folds, of which it is shown that each
commutes with `Append`; a text that has no two blank lines in a row and that `Walk` leaves alone is `Clean`, and `Tidy` makes it `Steady`. `AgentsBlockManaged` (`BlockManaged`)
then follows `sniff init` through its two files: what was read is what is there unless the user saved in between (`AsRead`), the staging file and the result hold the user's
lines (`HoldsRest`) and the block (`HoldsBlock`), and an update after one that worked reports `unchanged` if the user did not save (`SecondIdle`), with a failure or a kill at any step.

`PayloadsReachable` (`PayloadReachable`): a path that a result names is in the file system (`Reached`), for any batch.
`BatchesIsolated` (`BatchIsolated`): what is loaded when an item is computed is what this item names, all of it and nothing of an earlier item (`Loading`, over the
sides loaded so far, `FirstSides`), and stdin has been read exactly if the batch came from it or an item that was reached named it (`DrainedNext`; `DashRead`, since one item names it
once, `OneDash`). For any reader and any answer.

**CaptureRequest and CaptureCommand.** `SurfacesSame` (`SurfacesAgree`) is a statement about two parsers. What `SpecOf` writes of an interaction is a selector followed by
its options, and the parser, which counts the numbers at the end (`Trailing`), finds the selector again because it does not end in a number itself
(`OptionsTrail`, `PointerParsed`; `EntryParsed` for the texts and the lists of files). That gives `ActionsAgree`, for selectors, texts and times of any kind. `HeadersAgree`: flags in any order
(`SetToSeq`) are merged over the environment's headers as a request's own are. With `ConfigsAgree`, one step is left: `sniff_page` answers from the configuration of its
request (`PageInv`). For requests with any number of interactions, waits and headers, in any environment without defaults that only the server reads.

**Pages.** The three theorems on `CommandsSpec` hold for any pages, as deep as they are, at the moment the captures are there; they rest on PageProofs, where no state is.

- `SelectorsApart` (`SelectorsUnique`): the chains of a page are grown generation by generation, and `ChainsGrown` shows that each element is there once
  and that a chain's rest is the chain of the parent. A path goes up to the first anchor (`PathIs`). Two chains with one path have the same anchored top, and from there
  downwards the same parent, tag and place, step by step (`PathsTell`).
- `BackgroundsSame` (`BackgroundsAgree`): the loop of the page's script, which stops at the first opaque layer, and the resolution from the canvas down are shown to satisfy one recursion; it is run from the canvas and from `Unknown`, and both give the same or the second gives
  `Unknown`. In the body the canvas makes no difference: if it is known, it is the background of the document element or of the body, and that one is opaque and in between.
- `EffectsTrue` (`EffectsTruthful`): entries are strictly ordered, semantic ones first (`EntriesOrdered`), so that there is one list of them, with a place for each (`ListedAll`); what
  is cut off stands behind something that decides the verdict as well (`CutKeeps`). And a report without an entry means that no path came, went or differs
  (`NothingDiffers`), so that records, then elements, correspond. Proving it corrected the property: it had spoken of elements told apart by their whole path, but two that share
  its last four steps are one to the report.

**Lists of siblings, groups, rectangles, styles** (PageProofs). Each is about one operator and any arguments:

- `MatchingFair` (`MatchChildren`): what a pass has paired stays paired, no head twice (`Pairing`); after the first pass an element without a partner found all of its selector
  taken (`Selected`), after the second it found nothing left (`Completed`). So one list of siblings never has both a removed and an added element.
- `MajorityKept` (`Deviants`): the value of more than half of the instances stands on both sides of the middle of the sorted list, so it is the median (`MedianIs`); it
  is the only mode as well (`MostIs`).
- `SweepPairwise` (`Sweep`): after each pair, the covers found are the largest of those among the pairs seen so far (`Found`, `Largest`); a pair that the early end of the inner loop leaves out
  shares no area, because the rest of the order lies further right (`PassedShares`).
- `HoistingLossless` (`Hoisted`, `Unhoisted`): what all elements agree on is part of what each of them would have in its own line, scoped variables aside, which are never
  hoisted (`GroupWithin`; here `PhysicalGiven` is needed); an entry that is left out of a line is one that the hoisted ones give back (`Restored`).

Model-checked only:

- liveness (`Answered`, `NavigationEnds`, `JobsFinish`, `WaitEnds`, `CaptureEnds`, `LaunchEnds`), which is outside the prover's reach;
- `RoundTrip`, `DiffSound`, `ChecksSound`: they speak of what RECURSIVE operators compute on whole trees, about which the prover has no backend. Their cores, which do not recurse, have the theorems
  above: hoisting for `RoundTrip`, matching for `DiffSound`, the sweep and the norm for `ChecksSound`. What is left to TLC is the walk: flattening and rebuilding the tree, pairs of
  subtrees, and the context that is handed down.

## 6. Known departures

Where a document, a comment or a test says something the code does not do. Two of them are runs
of this project (`rpc_closed`, `offline_mixed`; PROJECT.json
quotes the lines). The others in the table have a property in their module, at its end, that TLC refutes in
seconds when it is added to the module's configuration (`LeftAtRealTime` with one capture, `TypedBeforeClick` with
`LoginForm` of MCPagePipeline and `Shortcuts = TRUE`; those of InitCommand in MCSniffCommands):

| property | what TLC shows | the line |
|---|---|---|
| `JsonRpc!PendingOnlyInFlight` | entries of unsent and cancelled calls stay in the table | `jsonrpc.rs:63` |
| `CdpSession!TimeoutMeansNotLoaded` | a load event read between the answer to `Page.navigate` and the subscription is missed | `session.rs:108` |
| `CdpSession!ClosedMeansDisconnected` | `Lagged` is reported as a closed connection | `client.rs:33` |
| `ChromePool!CrashRecovered` | a job whose answer does not come hangs and keeps its permit, after a crash (what `rpc_closed` means for the pool) or under a page that does not answer | `browser.rs:4-5` |
| `ChromePool!OnlyDeadReplaced` | a healthy browser is replaced, by a false alarm or by the second of two relaunches | `browser.rs:3-4` |
| `NetworkIdle!IdleMeansNoRequests` | requests that started before the wait are invisible to it | `waiter.rs:185` |
| `SnapshotStore!NeverTorn` | two server savers of one target in one second publish a torn file | `store.rs`, "The write is atomic" |
| `FlutterCapture!LeftAtRealTime` | a capture that fails leaves the app frozen | `server.rs:767` |
| `PagePipeline!TypedBeforeClick` | a login form filled by shortcuts is clicked before it is typed into | `cli/capture.rs`, the shortcuts |
| `SnapshotStore!PayloadKept` | a second capture of a target within a second replaces the first one's payload | `capture.rs:80` |
| `SnapshotStore!TreeIgnored` | a process that dies between creating and writing `.gitignore` leaves it empty for good | `store.rs:8-10` |
| `SessionState!FreshSession` | a capture that restores nothing navigates with an earlier capture's cookies | `storage.rs:4` |
| `InitCommand!EverythingElseKept` | an update collapses the blank lines of the rest of the file, and drops what follows a marker whose end is missing | `agents.rs:4-6`, "preserving everything else in the file" |
| `PagePipeline!ProgressRises` | 0.40 is reported, and then 0.35 | `progress.rs:56-63` |

The provisos in the properties that hold are of the same kind, and dropping one of them refutes the
property: `shared` (captures of one device, or of one browser, disturb each other), `orphaned`
(a process that exits, or a size set by a command that failed, before the backstop), `late`
(a page that reacts after `settle_ms`), `blocked` (an evaluation under a dialog is never
answered), `hung` (a job that awaits an answer that does not come), `overtaken` (a load event before the subscription to it), `Namesakes` (one name for two captures),
`lost` in InitCommand (a file that is saved between an update's read and its rename), and `lost` and `clear` in PagePipeline: a page that moves between the reading of a place and the click, something
drawn over the target, an element that does not take the focus or does not keep it. The code looks for none of these; an action under them succeeds and does something else.

Met while modelling the commands and the tools, and kept in the models as the code has them:

- *Files.* Compact captures change verdicts of checks, though compact is said to be lossless (`output.rs:526-532`): a property that is its
  default is missing from the file, and some rules ask for it. Scoping variables makes an unchanged variable look changed; a change
  from one default to another is invisible; `ignore_props` does nothing for captures that are not grouped. A document in
  `json` is loaded as elements that mean nothing; `summary` is loaded, without styles.
- *Diff.* The fallback pairs with the first unused sibling of any selector (`diff.rs:3-4` says position); a change from `0px`
  to `0.2px` is reported under any tolerance. A batch of which an item failed exits with 0.
- *Checks.* `will-change` is never captured, and `empty-alt-image` and `aria-hidden-focusable` cannot fire on what is captured. A negative
  `z-index` is taken to be above `auto`; only the nearest stacking context is looked at.
- *Effects.* Keys of elements are not unique more than four levels down; a change of opacity up to 0.5 is within the
  tolerance for numbers, and so `no_effect`; changed text and ARIA attributes are not compared. What is inside of an inline SVG is not looked at (`effects.rs:216`): an
  action that changes nothing else is `no_effect`.
- *Capture.* Errors of the configuration are "internal" (70) in `sniff capture`, although a dry run of the same exits with 2 and
  `sniff-css/src/output.rs:34-36` lists 2 for them. A dry run applies neither `--json` nor the flutter backend's device. A batch with `--persist PATH` writes
  all its payloads to that path (`commands/capture.rs:84`). Headers that are malformed in the environment are an error on the command line and ignored by the server; the
  command line reads neither `SNIFF_STORAGE_STATE` nor `SNIFF_BASE_URL`; an upload of no file, a text that is empty, a blank header are accepted by
  one and refused by the other; only a request can give times to a `type` or an `upload`. `SurfacesAgree` speaks of requests both can express.
- *Tools.* A `FlutterMachine` is dropped, and its child killed, as soon as the VM service is known. The first device that
  `adb` lists is taken for the emulator that was launched (`device.rs:74`), whose exit nobody notices; it is never ended (`mem::forget`), though it is
  said to be dropped at exit (`commands/capture.rs:252`). The end of Chromium's output is reported as a timeout. A launch of Chromium that is cancelled, rather than
  fails, leaves the child running: no `kill_on_drop`. A failed launch tries once to remove the directory, with the child still dying. `resolve_endpoint` has no timeout.

Hazards without a property: entries of the table that nobody removes (`jsonrpc.rs:253`), the sink's lock under a send
that blocks (`jsonrpc.rs:250`), a retry that repeats a pipeline's actions (`browser.rs:101`), a relaunch that loses
`ignore_certificate_errors` (`browser.rs:125`), the two steps of `ensure_gitignored` (`snapshot.rs:29`), the target that a failed `new_page` or a failed close leaves open (`session.rs:33-71`,
`sniff-css-mcp/src/browser.rs:119`), and what starts to move after the page was frozen for the second time (`sniffer.rs:261`).

## 7. Not modelled

- Packaging (no program logic).
- Screenshot and AX tree are part of `Extract`; the AX tree is carried through the files as it comes.
- Two runs of `sniff init` at once, which share `AGENTS.md.tmp`; the removal of a block (`upsert` without one), which nothing calls.
- The WebSocket's send buffer: a send does not block on a peer that stops reading.
- Launch options in the pool; the search for a browser's binary and its flags.
- Driver, VM service and widget extractor: single steps of FlutterCapture.
- The server's listing of snapshots, its resources and prompts; the commands `prime`, `snapshots`, `self`.
- Rules about the content of images and texts, the messages of rules, the visual order of effects, the wording of summaries, number formatting, JSON syntax.
- Animations, and what freezing them does (`STABILIZE_JS`, the second time after the actions): the pipeline's steps are there, the page's clock is not.
- JavaScript run in the page: modelled by what it returns. The table of property names and categories is a constant.
- Colours are a luminance and whether they are opaque: the contrast formula's floating-point arithmetic is not in the model, its thresholds are.

## 8. Plan

Done: JsonRpc with RpcService; CdpSession; ChromePool; NetworkIdle; SnapshotStore; FlutterCapture; SessionState; PagePipeline; ToolProcesses;
the chain from SnapshotFormat to SniffCommands; the waits as steps of PagePipeline; the proofs of section 5.

What could follow, in this order:

1. The pool with a pipeline whose retry repeats its actions, and with launch options.
2. Matching of the AX tree with elements; the listing of stored snapshots.
3. An abstract one-at-a-time store that SnapshotStore implements for distinct names; a navigation service for CdpSession.
4. `RoundTrip` for any tree: SnapshotFormat's walks as functions over the generations of PageTree, and HoistingLossless at each of its elements.
