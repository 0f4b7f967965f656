# A TLA+ model of amber-html

amber-html turns a URL into Markdown, HTML, a screenshot, a PDF or an archive.
A capture is an HTTP fetch when that is enough, and otherwise a render in a
Chromium process driven over a pipe. Part of the library is concurrent: the
transport shared by threads, the pool of browsers, the daemon's permits, the
installer shared by processes. Most of it is sequential and lives from its
boundaries: a crawl that must end, a retry that must stop, framings that must
survive their own delimiters. This directory models both in TLA+, checks them
with TLC on small instances and proves the main results for every value of the
constants with TLAPS.

All paths below are relative to `src/crates/amber-core/src/`.

## Inventory

| Component | State | Operations | What makes it correct | What is hard |
|---|---|---|---|---|
| `Pool<T>` (`pool.rs`) | `idle` stack, `leased` count behind one mutex | `acquire`, `acquire_with`, `release`, `discard` | at most `capacity` leases; one owner per resource; no slot lost or invented | the factory runs outside the lock and may fail or panic |
| `PipeCdp` (`cdp.rs`) | `pending`, `closed`, id counter, writer lock, event channel, reader thread, child | `send_to`, `events`, reader loop, `mark_closed`, `drop` | answers matched to commands; no waiter forgotten; no registration leaked; drop ends | out-of-order, late and missing answers; timeouts racing answers; death of the browser at any point |
| `FrameReader` (`cdp.rs`) | bytes since the last NUL | `push` | frames do not depend on how the bytes were chunked | messages split and merged by reads |
| Browser pool, render session (`render.rs`) | a `Pool<PipeCdp>`, the browsers' processes and pages | `BrowserPool::capture`, `capture`, `render_on_target` | no orphan process; a failed browser is not reused; captures do not affect each other | crashes, partial failure, reuse of state fixed at spawn |
| Settle engine (`render.rs`) | `loaded`, `inflight`, the event queue | `settle`, `SettleTracker`, `wait_for_ready` | the page is loaded and quiet when captured, or a timeout has passed | events of an earlier document; a stream that never ends |
| Daemon (`daemon.rs`) | permits (`Pool<()>`), one thread per connection | `serve`, `handle_conn`, `handle` | permits bound the captures and all come back | panics, clients that stall |
| Installer (`chromium.rs`) | cache directory, staging directory, zip | `ensure_chromium`, `download_and_extract` | the installed path is complete or absent | concurrent processes, crashes between steps |
| Crawler (`crawl.rs`, `cache.rs`, `sitemap.rs`) | `Frontier` (queue, seen, count), cache | `crawl`, `crawl_incremental` | each page once, within scope, depth and budget, none missed; changes reported once | failing fetches, cyclic link graphs, two spellings of a page |
| Crawl store (`store.rs`) | a map and one JSON file | `record`, `save`, `load` | what loads was saved whole | a crash while saving |
| Fetch (`http.rs`) | the attempt under way | `fetch_with_retry`, `fetch_once` | bounded attempts, none after a permanent failure | which failures may pass |
| Capture pipeline (`capture.rs`, `fetch.rs`, `detect.rs`, `output.rs`, `lib.rs`, CLI) | the capture under way, its files | `run`, `snapshot`, `Snapshot::render`, `save` | the tier chosen can produce what was asked; an exit of zero means files | combinations of mode, format, actions and failure |
| Pagination (`lib.rs`) | pages so far, next link | `capture_paginated` | a chain without a cycle | links that change, spellings |
| Recurring captures (`recurring.rs`) | next boundary, clock | `run_schedule_with` | every boundary once, none early | early wake-ups, slow captures |
| MCP server (`mcp.rs`) | none between lines | `handle_request`, `serve` | one answer per request, none per notification, in order | malformed input |
| C ABI (`capi.rs`) | allocations in the caller's hands | `amber_*` | freed once, none lost, on error paths too | calls that fail halfway |
| Browser options (`actions.rs`, `blocking.rs`, `emulation.rs`, `session.rs`) | none | parsing, CDP commands | the browser is told what the fetch would have sent | order of the commands |
| Texts (`robots.rs`, `budget.rs`, `inline.rs`, `warc.rs`, `wacz.rs`, `extract.rs`, `meta.rs`, `selectors.rs`, `structured.rs`, `provenance.rs`, `evidence.rs`, `diff.rs`, `monitor.rs`, `semantic.rs`, `naming.rs`, `corpus.rs`) | none | parsing, matching, framing, indexing | agreement with a reference definition, or with their inverse | boundaries |
| Limits, metrics, bindings, packaging | none, or counters nothing reads | wrappers | | nothing a state model reaches |

How they interact: the CLI, the bindings, the MCP server and the daemon call
`snapshot`, which runs the capture pipeline; the pipeline fetches over HTTP or
asks the installer for Chromium and renders through one `PipeCdp`.
`BrowserPool` keeps `PipeCdp`s in a `Pool` instead, and the daemon uses a
`Pool<()>` as its permits. A `PipeCdp` shares `pending`, `closed` and the
event channel with its reader thread; everything else is owned by one thread.

## Modules

### `BoundedLease`

The promise of a pool without its mechanism: a set of holders, a set of clients
whose last request was refused, a number of leases lost with their holder. A
lease is granted only while fewer than `Bound` are out and refused only when
all are.

### `Pool`

`pool.rs`. Each critical section of the mutex is one action: the three branches
of `acquire`/`acquire_with` are `Reuse`, `Exhausted` and `Reserve`; the factory
ends in `MakeOk` or `MakeErr` (which includes the `discard` of the code);
`Release` and `Discard` give the slot back. `Unwind` is a panic in the factory
or in the caller's work, after which neither runs: the lease is a plain count.
`saturating_sub` is `Decremented`. `acquire` is `acquire_with` without
`MakeErr`. What the factory returns is a resource nobody else has.

`answer` and `lost` are history: they record what the caller was told and how
many slots unwinding has cost, and no guard but the bound `MaxLost` reads them.

### `CdpPipe`

`cdp.rs`. A call of `send_to` is cut where another thread can act:

| Action | Code |
|---|---|
| `BeginSend` | the `is_closed` check |
| `Register` | `ids.alloc` and the insertion in `pending` |
| `LockWriter`, `WriteOk`, `WriteErr` | `write_frame` under the writer lock, and the removal when it fails |
| `Receive`, `Expire`, `Reclaim` | `recv_timeout`; the removal after a timeout is a step of its own |
| `ReadResponse`, `Deliver` | `dispatch_frame`: `pending.remove`, then the send on the channel |
| `ReadOther` | events, empty, malformed and unknown frames |
| `ReaderStops`, `Drain` | the end of `reader_loop`; `mark_closed` sets the flag, then drains |
| `TakeEvents`, `ConsumeEvent`, `DropReceiver` | `events()` and what `render.rs` does with the receiver |
| `DropBegins`, `DropEnds` | `Drop`: kill and reap, join the reader, remove the profile |
| `Browser...` | Chromium, from how the transport uses it |

Chromium answers a command at most once, in any order or never, emits events
and noise, and may die at any time. What it wrote stays readable after its
death, and a write to it then fails. Both pipes are bounded, so writers block.
A frame is a record; `Wire` has the byte framing. A
timeout may expire at any moment of a wait. `ReadErrors` says whether a read of
fd 4 may fail while the browser lives.

### `BrowserPool`

`render.rs`, over `Pool`, which it extends (the browsers are the pool's
`Items`): each step is a step of the
pool together with what it does to processes and captures, or one of the
browsers alone. A capture leases (`StartReusing`, `StartSpawning`,
`StartRefused`, `SpawnOk`, `SpawnErr`), renders (`Attach`, `Navigate`,
`Rendered`), and ends: `CloseAndRelease` after a success, whether or not
`closeTarget` worked, or `FailAndDiscard`, which frees the slot and leaves the
browser alive in the caller's hands (`doomed`) until `Drop`. `Crash` may take a
browser at any point. `spawnedWith`, `eventsTaken` and `stray` are what a
browser keeps from one capture to the next.

A launch can fail before Chromium is spawned or after it, when the reader thread
cannot be started (`cdp.rs:387`). `SpawnErr` is both: the slot is given back, and in
the second case a browser is in `left`, running, with no handle that could kill or
reap it. It may end by itself (`Crash`), since its command pipe has; its process
stays. `left` is history that only the bound `MaxLeft` and the properties read.

The commands sent within `Attach`, `Navigate` and `Rendered` are not told
apart: they are sent one after the other by the thread that has the browser to
itself, and the first that fails ends the capture at `FailAndDiscard`, which
is enabled at every stage.

### `Launch`

`spawn_with_limits`, `win_spawn::spawn` and `Drop` of `cdp.rs`, by several
threads at once. What it keeps is who holds which end of which pipe: `ends` in
this process, `copies` in the children. `Fork` copies every end that is open in
the process, `Exec` keeps the two that are mapped to descriptors 3 and 4;
`CreateProcess` passes on every end that some launch has marked inheritable.
Each step may fail (`ReturnsErr`) and drops what is still open, nothing else.
`Join` is the reader's end of file, which needs every copy of the write end
gone.

### `Settle`

`settle` and `SettleTracker` of `render.rs`. `Observe` is one turn of the loop
that read an event, `GoesQuiet` one that read none for a poll interval,
`GivesUp` the overall timeout, which is looked at between two reads. `Delta` is
what an event does to the count of requests in flight.

The page is the environment: its requests start, are redirected and end, child
frames load, the page loads and goes idle, each with the event Chromium reports,
while earlier events are still on their way. `events` is all that Chromium has sent
and settle has not read, and `arrived` how many of them are in the channel: the rest
is in Chromium, in fd 4 or with the reader thread, which puts them into the channel
in their order (`Deliver`). A quiet interval is an empty channel, whatever is behind
it. The channel fills from the
moment the browser is spawned, so what `Page.setLifecycleEventsEnabled` replays
for about:blank is in front of everything else (`BlankReplays`). The loop's
branch for a disconnected channel cannot be taken: the sender belongs to the
`PipeCdp` that `settle` borrows. Fonts, scrolling and the fixed delay come after
the loop and are left out; waiting for a selector is in `Capture`.

### `Daemon`

`daemon.rs`, over `Pool`, which it extends: its callers are the connections and
its resources the permits. A connection is `closed`, `reading`, `routing`,
`capturing` or `writing`. `TakePermit`, `NewPermit` and `Busy` are the three
ends of `acquire` in `handle_conn`; `Captured` is `handle` and the `release`
after it, whatever the method and the query; `Panics` unwinds past the release;
`Handled` is the other routes. A client may stall before it has sent its request
and while it should read the answer, since neither read nor write has a timeout.
`MakeErr` and `Discard` of `Pool` are not used here. The end of `serve` when
`accept` fails is not modelled.

### `ChromiumCache`

`ensure_chromium` and `download_and_extract` of `chromium.rs`, run by processes
that share a cache directory. An action is one change of the file system or one
look at it, so processes interleave between any two. `remove_dir_all` is a loop:
`OpenStaging`, `Unlink` for each file, `Purged`; it works on the directory it
opened, which another process may rename meanwhile (`opened`). An archive that
was opened stays readable after it was unlinked and not after it was truncated
(`archive`). `Fault` is an operation that fails by itself, `Crash` the end of a
process at any step; both leave the file system as it is. The choice of platform
and URL, `AMBER_CHROMIUM_PATH` and the parsing of the zip are left out.

`clean`, `overlapped` and `cutShort` are history that the properties use as
premises: no operation of the call failed by itself, no process has started
while another was installing, no run has ended between its rename and its chmod.
No guard reads them.

### `BoundedCrawl`, `Frontier`, `Crawl`

`BoundedCrawl` is the promise of a crawl without its queue: permitted pages are
found and taken, each at most once in a run and at most `Limit` of them.
`Frontier` is the struct of `crawl.rs` with its scope test, normalisation and
budgets. `Crawl` drives it over a site: `BeginRun` fetches robots.txt, which may
fail, and seeds the queue; `TakeNext`, `Request` (one attempt of `HttpFetch`),
`Fetched`, `AddLink` and `Visited` are one turn of the loop, with one link added
at a time. `crawl` and `crawl_incremental` make the same requests and differ in
what they return, `visited` or `changed`, so one machine keeps both. The cache
of content hashes survives from run to run while the site is edited
(`Edit`). `expanded`, `lastBody` and `requests` are history.

### `HttpFetch`, `Options`, `Capture`

`HttpFetch` is `fetch_with_retry`: an attempt meets one of the server's
`Replies`, `FetchOnce` classifies it, `LastTry` is the test after a failure.
`Options` holds what a caller may ask, the commands and headers it becomes, the
table of formats and `Assess`, the verdict on a static page. `Capture` is one
call from the command line to the files: parse, the invalid requests, the
static fetch, the decision, the browser session command by command (`Session`,
`Send`, `Poll`), the close, and the files one after the other (`Save`) up to the
exit code. Chromium answers with data, with none, with data that does not
decode, or fails. What a format is rendered from is `Source`.

### `Pagination`, `Recurring`, `Store`, `Mcp`, `Handles`

Small machines, one per file or function: `Turn` is one iteration of
`capture_paginated`. `Recurring` has the clock as environment, which advances by
any amount while the schedule sleeps or captures. `Store` writes its file in
steps between which the process may stop, and `FromJson` refuses what is not
whole. `Mcp` is `serve` over a client that writes lines of every kind, reads
answers late and closes either end. `Handles` is a caller of the C ABI that keeps
to its documented contract, with calls that fail at any argument.

### Algorithms on texts

A text is a sequence of characters or of larger tokens, whichever the algorithm
tells apart; `Text` has the operations of `str` that they share, and `Documents` the
program of which every document of a bounded length is a state. Each module has
the algorithm as operators, and after a rule the reference it is compared with.

| Module | Code | Compared with |
|---|---|---|
| `Robots` | `robots.rs`: parser, pattern matcher, group and verdict | what a pattern denotes; groups read off the lines; the longest rule |
| `Words` | `budget.rs`, `semantic.rs` | the definition of fitting a budget; the text put together again; the order of cosines, as fractions |
| `Mhtml` | `inline.rs` | a bundle built from its parts; transfer encodings undone; a page with its references replaced |
| `Markup` | text scanners of `extract.rs`, `detect.rs`, `sitemap.rs` | the text outside tags, a set of paragraphs, escaped locations |
| `Page` | `extract.rs`, `meta.rs`, `selectors.rs`, `provenance.rs` over a parsed tree | ancestors and subtrees |
| `Archive` | `warc.rs`, `wacz.rs`, `naming.rs` | a replay that looks the records up by the index |
| `Answers` | `structured.rs`, `provenance.rs`, `corpus.rs`, `evidence.rs` | responses built around a value; pointers resolved; keys and signatures cut, lengthened or changed in one character |
| `Changes` | `diff.rs`, `monitor.rs` | the longest common subsequence by its definition |
| `Wire` | framing and `win_spawn` in `cdp.rs`, requests in `daemon.rs`, charset in `http.rs`, actions in `actions.rs` | the same bytes in one piece; encoded requests and written actions; the rules by which a Windows program divides its command line |

### Proofs: `PoolProofs`, `CdpPipeProofs`, `BrowserPoolProofs`, `ChromiumCacheProofs`, `CrawlProofs`, `CaptureProofs`, `ServiceProofs`, `Induction`

See "What is proved". `ServiceProofs` has the components that stand alone:
`Daemon`, `Settle`, `Store`, `Handles`, `Launch`, `Pagination`, `Recurring` and
`Mcp`. `CrawlProofs` also has what is proved of `Robots`, and `CdpPipeProofs` what is
proved of the framing and the command line in `Wire`. `Induction` has the lemmas about the naturals, about
counting along a sequence, about folds, and about splitting and finding texts, that
four of the others rest on.

### Properties and seeded defects

What a run checks is often a conjunction of named parts, each stated with its
comment in the module it is about:

| Property | Parts |
|---|---|
| `PoolInv` | `PoolTypeOK`, `LeaseAccounting`, `Bounded`, `ExclusiveLease` |
| `ReaderServes` | `ReaderDrains`, `DropCompletes` |
| `LaunchesEnd` | `DropReturns`, `FailedLaunchLeavesNone` |
| `LeftoversHarmless` | `RunSucceeds`, `ReturnsUsable` |
| `FrontierExact` | `TypeOK`, `DepthIsDistance`, `RequestsBounded` |
| `TierRight` | `BrowserForbidden`, `StaticOnlyIfSufficient`, `BrowserOnlyIfNeeded` |
| `SessionOrdered` | `CaptureTypeOK`, `SetUpBeforeLoading`, `CapturedAfterActions` |
| `DeliversRequested` | `BrowserEmitsRequested`, `Reproducible`, `ExitMeansWritten` |
| `PermitsExact` | `CapturesBounded`, `BusyMeansFull` |
| `SettleCounts` | `SettleTypeOK`, `InflightTracks`, `QuietMeansIdle` |
| `ScheduleExact` | `EveryBoundaryOnce`, `NeverEarly` |
| `ResponsesExact` | `McpTypeOK`, `AnswersInOrder`, `CodesAreProtocol` |
| `WalkExact` | `ChainOfNext`, `StopsForReason` |
| `OwnershipExact` | `NeverFreedTwice`, `AllocatedIsOwned` |
| `EveryoneIsServed` | `HealthAnswers`, `RequestsAnswered`, `PermitsReturn`, `ScheduleReturns`, `ServeEnds` |
| `RobotsExact` | `PatternsExact`, `GroupsExact`, `AllowsExact` |
| `CallReturns` | `CallEnds` of `Capture`, for the part that captures |
| `InputsRead` | `FramesWhole`, `CommandLineKept` |
| `PagesRead`, `RecordsHold`, `RequestsUnderstood` | the comparisons of the text modules (`MCTexts`) |

A definition named `Bug...` in a module is a seeded defect, written before the
definition it replaces. No specification uses it; `PROJECT.json` pairs each
with the property that must then fail.

## Runs

| Run | Shows | Bounds |
|---|---|---|
| `cdp_pipe` | a send gets its own answer; nothing stays in `pending`; a waiter can be woken | 2 callers, 2 sends each, pipes of one frame, 1 event |
| `cdp_pipe_live` | sends return, the reader drains fd 4, drop ends; launches that overlap, fail or are dropped leave no Chromium, and hold up a drop only where another launch has its pipe | 2 callers, 1 send each, pipes of one frame, 1 event; or 2 launches on either platform |
| `browser_pool` | no orphan, no failed browser reused, processes bounded, the counter equals the slots out, `Pool` implements `BoundedLease`, the pool keeps serving | 3 callers, 1 slot, 3 browsers, 1 unwinding, 1 browser left by a launch |
| `chromium_cache` | a trusted build is complete, leftovers never fail a later run, what is returned can be run, a version directory stays | 2 processes, 3 files |
| `crawl` | `Crawl` implements `BoundedCrawl`; depths are distances; nothing within the budgets is missed; requests are bounded; changes are reported exactly; runs end | 6 pages, an alias, 2 URLs out of scope, 5 pages a run, depth 3, 2 attempts, 2 runs, 1 edit |
| `texts` | each algorithm agrees with its reference | every document up to 3 to 8 tokens over 3 to 16 tokens |
| `services` | the daemon's permits; settle's counter and quiet intervals; the schedule; the store under crashes; MCP answers; the walk along next links; ownership across the C ABI; of a capture, the browser only where allowed and whenever the code calls for it, settings before loading, artefacts after actions, retries exact, files and exit code agreed, an end | 2 connections, 1 permit, 1 panic; 2 requests, 1 frame, 3 unread events; 3 captures by time 9; 3 changes of 2 URLs; 3 lines of 10; 3 pages; 4 calls; 6 sets of formats, 3 modes, options all off, all on and one by one, 3 attempts, 1 redirect, 2 polls |
| `browser_pool_settle` | violated: a reused browser is captured without waiting for the page | 2 callers, 1 slot, 3 browsers |
| `chromium_cache_torn` | violated: a version directory can be half populated | 2 processes, 2 files |
| `settle_load` | violated: settle ends on a page that has not loaded | as `services` |
| `capture_wait` | violated: a capture with a selector to wait for is answered without a browser | the captures of `services` |
| `capture_html` | violated: single-file HTML of a page that the static tier satisfied cannot be rendered | the captures of `services` |

Three runs hold several components that do not interact: `services` (in
`MCServices`), `texts` (`MCTexts`) and `cdp_pipe_live` (`MCCdpPipeLive`). A
variable `part`, chosen in the initial state, says which component moves; the
others keep their initial state, so the states of the run are the sum of the
components' and not their product. A document of `texts` grows token by token, so
every document up to its bound is a state.

Why the bounds are enough. In `browser_pool` more callers than slots make
refusals happen, one browser can be leased while two more are still to be
killed or one of them was left by a failed launch, and the one slot can be lost. In `cdp_pipe` two sends of one caller let a
late answer to the first meet the second, two callers let ids and the writer
lock be contended, and one-frame pipes make both directions block. Two launches
are enough for one to inherit the other's ends at each step of it. In
`chromium_cache` a process can be stopped with one file written, one half
written and one missing; the two processes are also two successive runs, any
number of them. The site of `crawl` has two ways of different length to a
page, cycles, a page with two spellings, one that robots.txt forbids and links
out of scope by host and by scheme; with it the page budget, the depth budget
and the end of the queue each end some run, and a page fails in one run and is
back in the next. Of a capture each reply of a server is one that the
classification or the decision tells apart. In `services` one request can hide
behind another that is redirected or fails, the child frame's load can come
before the page's, the second connection finds the only permit out, and the
panic can lose it; a capture of the schedule can outlast two intervals; a crash
falls before, inside and after a save with something new in it; a page of the
walk can be named again by each later one. In `texts` every alphabet
has the tokens at which the algorithm branches and one it does not, and every
bound leaves room for two occurrences of the longest of its delimiters.

The bounds on counters are `MaxCalls` (`BeginSend`, and the calls of `Handles`),
`MaxEvents` (`BrowserEmits`), `MaxLost` (`Unwind`), `MaxLeft` (`SpawnErr`),
`MaxFrames` (`FrameLoads`), `MaxUnread` (`Emits`), `MaxChanges` (`Store`), `MaxLines` (`Mcp`), `EndOfTime`
(the clock), `MaxRuns` and `MaxEdits` (`Crawl`), in those guards. `MaxAttempts`,
`MaxRedirects`, `MaxPages`, `MaxDepth`, `RunLimit`, `PageLimit` and `MaxPolls`
are limits of the code. `MaxUnread` bounds Chromium: it keeps its events until
settle has read some. The runs `browser_pool`, `chromium_cache` and their
violations check deadlock. The others do not, since what they model stops: a
transport that was dropped, a capture that has exited, a crawl that has made its
runs, a document that is complete.

Interchangeable callers, browsers, files and processes are symmetric in runs of
safety and action properties. The runs with liveness properties use no
symmetry, except `chromium_cache`, whose properties are action properties.

## Fairness

`CdpPipe` assumes weak fairness of each thread inside `send_to`, of the reader
thread, and of the end of `drop`: the operating system runs a thread that can
run. `recv_timeout` is part of the caller's fairness, for a clock advances.
Nothing is assumed of Chromium or of those who call `send`, `events` or
`drop`; that is why `SendReturns` has the premise that fd 3 is writable again
and again. The premise cannot be dropped: the timeout of `send_to` covers the
wait for the answer and not the write, and a browser that stops reading with a
full pipe blocks the writer, and everyone behind its lock, for good.

`Launch` assumes that a launch that has begun goes on, that a child that was
forked executes, and that a Chromium whose command pipe has ended exits
(`LaunchFair`). Nobody has to begin a launch or drop a connection. The last
assumption is Chromium's and the library relies on it: nothing else ends the
child of a launch that failed after the spawn.

`BrowserPool` assumes weak fairness of a capture that has begun. Each command
of it returns, which is `SendReturns`. Nothing is assumed of crashes, panics or
of new captures.

`Daemon` assumes weak fairness of routing (`RoutingFair`): a connection that has
parsed its request takes its permit, is refused or is answered. Nothing is
assumed of clients, which may stall for ever. That a capture ends is not assumed
either; it is the premise `CapturesEnd` of `RequestsAnswered` and
`PermitsReturn`, justified by the timeouts of the fetch and of the transport,
and `HealthAnswers` does without it. The three are parts of `EveryoneIsServed`.

`Crawl` assumes weak fairness of a crawl's own steps (`Step`), and `Capture` of
a capture's: a fetch has a timeout, every command of a session has one, polling
is bounded by `WAIT_FOR_TIMEOUT`. Nothing is assumed of the owner of the site or
of who starts a run. The schedule of `Recurring` assumes that the clock goes on
and that captures return; the MCP server that its one thread runs. Nothing is
assumed of its client. The store, the C ABI, the walk and the texts have safety
properties only.

## What is proved

`PoolProofs`, for every finite set of callers, every set of resources and every
capacity, from `PoolAssumption` (the callers are finitely many, the bounds are
naturals, `NoItem` is no resource):

- `PoolInvariant`: `PoolSpec => []PoolInv`, where `PoolInv` is `PoolTypeOK`,
  `LeaseAccounting`, `Bounded` and `ExclusiveLease` together. They have to be
  proved together. `Bounded` is not inductive alone: `Release` keeps the sum
  `leased + Len(idle)` only if `leased` is not zero when `saturating_sub` is
  applied, which is `LeaseAccounting` applied to the caller that releases; and
  that caller is a holder because of the type invariant's link between `pc` and
  `held`. `ExclusiveLease` needs the same link to know that a caller that
  reuses had nothing.
- `LeaseAccountingHolds`, `BoundedHolds`, `ExclusiveLeaseHolds`: each from it.
- `PoolImplementsLease`: `PoolSpec => ImplementsLease`. `Reuse` maps to `Grant`,
  and `BoundedLease` grants only below the bound while `Reuse` does not look at
  it: `Bounded` supplies the missing guard, since `idle` is not empty.
  `Reserve` maps to `Grant`, `Exhausted` to `Refuse`, `MakeErr`, `Release` and
  `Discard` to `Return`, `Unwind` to `Forfeit`, `MakeOk` to a stutter.

`CdpPipeProofs`, for every set of callers, every number of calls and events and
every size of the pipes, from `CdpAssumption` (the bounds are naturals, a
pipe holds at least one frame, `None` is no caller) and `NoMessageAssumption` (the value
that stands for "no message" is none of the messages a channel carries):

- `CdpInvariant`: `Spec => []CdpInv`. The heart of it is that ids are unique in
  flight: every tag `<<id, call>>` in fd 3, in Chromium, in fd 4 or under
  dispatch has an id below `nextId`, and two tags with one id belong to one
  call. With it an answer found in `pending` under its id is the answer of the
  call that registered there, so what the reader holds (`HandOwn`) and what
  lies in a call's channel (`MailOwn`) is the call's own.
- `OwnAnswerHolds`, `NoLeakedSlotHolds`: each from it.
- `WaiterReachableHolds`: if `ReadErrors` is false, `Spec => []WaiterReachable`.
  The premise is needed: with it the reader stops only once the browser is dead
  and fd 4 empty, so a call that registers after the drain cannot complete its
  write. `ClosedReachesEveryCaller` shows what happens without it.

`BrowserPoolProofs`, for every finite set of captures and every set of browsers
and proxies, from `PoolAssumption` and `BrowserAssumption` (`MaxLeft` is a natural):

- `BrowserUsesPool`: `Spec => UsesPool`. Each step is a step of `Pool` or leaves
  it alone, so `PoolInv` holds of the leases here too.
- `BrowsersImplementLease`: from it and `PoolImplementsLease`, so the browsers keep
  what `BoundedLease` promises, through crashes, failing captures and panics.
- `BrowserInvariant`: `Spec => []BrowserInv`, with launches that fail before and
  after Chromium runs; it adds to `PoolInv` that a
  capture in progress has nothing left to drop (`NothingLeft`), renders only on
  a browser it has leased (`RendersOnLease`), and `NoOrphan` and
  `FailedNotReused`. The last two need `ExclusiveLease`: a discarded browser
  is out of circulation only because it had a single owner. They need
  `NothingLeft` because a second failure would overwrite the browser to drop.
- `NoOrphanHolds`, `FailedNotReusedHolds`: each from it.
- `ProcessBoundHolds`: the running browsers are those in the stack, those leased,
  those being dropped and those left by a launch, and the first two are bounded by
  `Bounded` and `LeaseAccounting`.

`ChromiumCacheProofs`, for every set of processes and every set of files
containing the binary, from `CacheAssumption`:

- `CacheInvariant`: `Spec => []CacheInv`, the types, and while no two runs
  have overlapped: at most one process is under way, the files it still has to
  write are the only ones of staging that are not whole once it extracts, nobody
  has the version directory open, and that directory is absent or complete.
- `TrustedIsCompleteHolds`: from it.
- `LeftoversHarmlessHolds`: `RunSucceeds` and `ReturnsUsable` are not inductive,
  so `LeftoversInv` says what a process that is alone can count on at each step:
  it has downloaded the archive it extracts, a staging directory it found is still
  there when it purges it, and it has a version directory when it looks for the
  binary, unless an operation of it failed (`Supplied`); and unless a run was cut
  short, a build that nobody is finishing can be run (`Usable`). A run that failed
  without an operation of its own failing would have had to meet a leftover at
  one of those steps.
- `DestStaysHolds`, `InstallSettlesHolds`: need only the types from it, and so hold
  of overlapping runs too.

`CrawlProofs`, for every site, scope, budget and failure, from the assumptions
of `Frontier`, `HttpFetch` and `Crawl`:

- `FrontierInvariant`: `Spec => []FrontierInv`. The pages of the queue have been
  seen and not taken, and each is in it once, whatever their spellings. That is
  what makes `seen` enough of a guard: a page is marked when it enters the queue
  and not when it leaves.
- `CrawlIsBounded`: `Spec => ImplementsBoundedCrawl`. `TakeNext` maps to taking a
  page that is found and new by that invariant, `BeginRun` to a new run,
  `AddLink` to a discovery or a stutter, the rest to stutters.
- `BreadthFirst`: `Spec => [](Ordered /\ Tree)`. `Ordered`: the queue is sorted by
  depth, holds at most two adjacent depths, and nothing handed out is deeper than
  what waits. `Tree`: each page was enqueued once, over a link of a page one step
  nearer, and what a page links to is no farther than a step beyond it, except
  for the links still being added. They need each other: a page enters at the
  depth of the current one plus one, which is right only if nothing nearer is
  still to come.
- `FrontierIsExact`: `Within[d]`, the pages within distance d, is a recursive
  function, and from `BreadthFirst` it follows by induction on d that the pages
  enqueued at depth d or less and handed out are those in `Within[d]`. The induction
  and the equations of the function come from `Induction`.
- `CrawlReachesAll`: with an empty queue nothing is waiting or being added, so
  the pages taken are closed under permitted links up to `MaxDepth`, and by the
  same induction they are `Within[MaxDepth]`.
- `ReportsAreExact`: the cache has, of a page with one spelling, the body of the
  last visit (`CacheKnows`), and this visit compares before it records.
- `RequestsAreBounded`: the attempts of the fetch under way are counted apart
  from those of the pages done with (`Spent`).

`CaptureProofs`, for all requests, replies and limits, from `HttpAssumption` and
`CaptureAssumption` (a request's actions and headers are sequences, its actions
are among those `to_cdp` knows, its formats and mode are the program's):

- `CaptureInvariant`: `CaptureSpec => []CaptureInv`. Its parts are `Types`; `Stages`, what
  the call has come to at each stage; `Tiers`, that the static tier runs only
  where no browser is needed from the start and the browser only where it is
  allowed; `Sessions`, about the commands; `Saving`, about files and exit code.
  `Sessions` is the long one: what was sent is the session's commands in their
  order, less the waits, which end or are given up without a command, and a
  session that has come through has sent every other. To tell where in
  `Session(request)` a step is, `Prefixed` and `Reached` relate the commands sent
  and still to send to positions in it; `SessionLayout` cuts the concatenation of
  `Session` into what sets up, what acts and what reads, for any request.
- `TierIsRight`: from `Tiers`; the decision is taken once and what it was taken on
  does not change.
- `SessionIsOrdered`: the methods of a command tell which part of the session it
  belongs to (`MethodsApart`), and `Prefixed` that everything in front of it has
  been sent. `HeadersAreCredentials` is the part about data: of headers with one
  name the browser is told the last, and the cookies' replaces one named `Cookie`.
- `CredentialsAgree`: if no name is given twice, what the static fetch presents to
  the server is what the browser is told to present, the cookies included.
- `CaptureDelivers`: each format is made from a field that a command of the session
  fills (`ArtefactsOnly`, `Fields`). The files of a call are in `InOrder`, where no
  format is twice (`InOrderIs`), so a file that was written is not written again
  and the exit code tells of all of them.
- `FetchRetriesExact`: `CaptureSpec => RetriesExact`, by the type of the attempts and
  `PowerOf2`, whose equations `DoublingValues` gives.

`Induction`: `SetInduction` is induction over the naturals for a set, from the
well-foundedness of inclusion on finite sets, and `RecursionOnNat` that a function
defined by recursion on the naturals exists and is unique. The theorems of the library
that say the same take an operator as a parameter, which the provers cannot
instantiate; these take a set and a function.

A fold is out of reach for the same reason, but a `FoldLeft` whose operator is a
definition of the model can be unfolded: it is the value, at the set of all
indices, of a `CHOOSE`n function that takes the highest index off a set and
applies the operator. `FoldExists` says that such a function on the finite sets of
naturals exists, `FoldTyped` that its values stay in any set that the operator
does not leave, and `FoldAlong` that it runs along the sequence: there is an f with
f[0] the start, f[k + 1] the operator applied to f[k] and element k + 1, and
f[Len(s)] the fold. From there a proof goes by `SetInduction` on k. `SplitAlong` and
`SplitCuts` are this for `str::split`: the pieces stand in the text one behind the
other, with a separator before each but the first and none inside. The theorems that
rest on it:

- `RobotsGroups`: `GroupsFollowLines` for every file, by an invariant of the parser
  after k lines: the groups closed and the current one are those of the first k
  lines.
- `RobotsVerdict`: `VerdictIsLongest` for every file: the fold over the rules of a group
  keeps the best so far.
- `PatternsDenote`: `MatchesWhatItDenotes` for every pattern and path. `Denotes` is a
  recursion from the end of the pattern, the matcher a fold from its start, and they
  meet at the wildcards. `PieceGoesOn`: a path can go on from a place in front of a
  literal exactly if the literal stands there and the path can go on behind it.
  `GreedySound` takes the places that the matcher found back to the start, one literal
  at a time; `GreedyComplete` goes the other way with the invariant that the matcher is
  never behind the cut of the path that the pattern denotes, because each hop is to the
  first occurrence. An anchor behind a wildcard is the exception: there it would have
  to take the last one.
- `RobotsExactHolds`: `TextsSpec => []RobotsExact`, these three for every document over
  any tokens, from `RobotsAssumption` (names, patterns and paths are texts). The
  inductive invariant is that a document is a sequence over the tokens of its part.
- `FramesIgnoreCuts`: for every stream and every cut of it into reads, the frames are
  `SplitAt` of the whole stream, and the buffer its last piece. After k reads the
  frames are those of the part read so far; a push is a fold of its own over the
  bytes of the chunk.
- `InputsReadHolds`: `TextsSpec => []InputsRead`, for every document over any tokens,
  with no assumption. `FramesWhole` follows from `FramesIgnoreCuts` and `JoinedAlong`:
  pieces lie one behind the other in what they are joined to. `CommandLineKept` runs
  the child along what the parent writes. `Written` is the invariant of
  `append_quoted`: when k characters of an argument are quoted, the child that reads
  what is written so far is in quotes and has them, but for the backslashes that wait
  for the next character. Each of its three cases writes exactly what brings the child
  from there to the next prefix (`WrittenOn`); at the closing quote the doubled
  backslashes are halved (`QuotedPassed`). `LinePassed` is the invariant of the join,
  argument after argument. The rules of the child are in `Divide`, from the
  documentation of `CommandLineToArgvW`.

`ServiceProofs`, one invariant per component, from the assumptions of its module.

Of the daemon, for every finite set of connections and every set of permits,
from `PoolAssumption`:

- `DaemonInvariant`: `Spec => []DaemonInv`, the types together with `PoolInv`,
  which holds because each step of a connection is a step of `Pool` or leaves it
  alone. The types include the link the rest needs: a connection is capturing
  exactly when the pool counts it as using.
- `PermitsExactHolds`, from two lemmas. `CapturesBoundedHolds`: the connections that capture are among the holders, whom
  `LeaseAccounting` and `Bounded` count.
  `BusyMeansFullHolds`: only `Busy` answers 503, under the guard of
  `Exhausted`, which `LeaseAccounting` turns from the counter into the holders.

Of the settle engine, for every set of requests and frames and every length of the
channel, from `SettleAssumption`:

- `SettleCountsHolds`: `SettleSpec => SettleCounts`. The type of the counter is the
  hard part, for it is signed and an end without a start would take it below
  zero: `SettleInv` says of every prefix of the unread events that the count
  after it is not negative. An event at the end of the channel disturbs one
  prefix, an event read shifts them all. `QuietMeansIdle` follows because on a
  quiet interval the count is zero: what it misses is what the unread events start.

Of the others, one invariant each:

- `StoreTypes`, `LoadsSaved`: for every set of URLs and hashes. The file is
  absent, torn, or a map that some save wrote whole; loading refuses what is
  torn, so what loads is a saved map.
- `Ownership`: for every set of blocks and selectors and any number of calls. What
  the C ABI has allocated and the caller has not freed is exactly what the
  caller's out pointers hold, so each is freed once.
- `LaunchTypes`, `DropWaits`: for every set of launches, on both platforms. A launch
  that is being dropped has its own side only and its Chromium is dead, so the end
  that keeps its reader from the end of file is a copy in a child of another launch:
  one that has not executed yet, or, on Windows, any that runs. On Unix the copies
  of a child after its exec are its own two (`LaunchInv`).
- `Walks`: for every site and limit. All but the first page are spelled as links
  are (`NextLink`), no URL is captured twice in one spelling, so a page that
  comes twice came first by another; and a walk that goes on has a link it has
  not followed, or has just met a page without one (`StopInv`).
- `Schedule`: for every start, interval and clock. The arithmetic is in
  `NextRunIsFirst` (the boundary chosen is the first one not before the time
  asked for) and `NextRunAdvances` (asked one tick after a boundary it is the
  next one).
- `PermitsImplementLease`: the daemon's steps are steps of its pool, or leave it
  alone, so the permits keep what `BoundedLease` promises.
- `McpResponsesExact`: for every sequence of lines, from `McpAssumption` (what a line
  can be). `Num(lines, Asking, i)`, the number of lines up to i that ask, is the
  place of the response to line i. `McpInv` says that of the lines answered
  (`Matched`), and that a capture under way is for the line read last and not
  among them. Lines and places grow together by lemmas of `Induction` that count
  along a sequence, where a filtered sequence cannot be reasoned about.

Only model-checked: the liveness properties (`SendReturns`, `ReaderServes`,
`LaunchesEnd`, `KeepsServing`, `RunsEnd`, `CallReturns`, `EveryoneIsServed`), which
are out of the prover's reach; and of the properties about texts `PagesRead`,
`RecordsHold` and `RequestsUnderstood`: their algorithms are recursive operators or
filter sequences (`SelectSeq`, which is opaque to it) in the main, which the prover
cannot reason about. Every other property of a passing run is a theorem.

## Not modelled

- `metrics.rs` and `limits.rs`: counters that nothing reads back, and rlimits
  that the operating system enforces.
- What libraries do: TLS and redirects inside the HTTP client (a redirect is a
  count of hops), the tables of character sets, HTML parsing (a page is the
  sequence of its elements) and its conversion to Markdown, the zip container,
  hashing and signing (a hash is an injective value), JSON (a value that parses
  or does not).
- Time: the length of the politeness delay, of the backoff and of the settle
  delay. That a dead browser is noticed by settle only when its overall timeout
  ends (`render.rs:312`) is a bound on time too; the model lets the timeout
  expire at any moment.
- Rounding: `Words` orders cosines exactly, where the code compares `f32`.
- `AMBER_CHROMIUM_PATH`, platform detection and the URL of a build.
- The bytes of the daemon's responses and of a replayed HTTP response in a WARC,
  `default_name` and `safe_url`, redaction of credentials in what is logged.
- The subcommands of the CLI other than the capture, the UniFFI, Node and Go
  wrappers and the packaging, which forward to functions modelled here.

## What the code does differently from what it says

The runs marked "violated" check a sentence of the source:

- "Wait until the page is settled before capture" (`render.rs:299`): the event
  receiver can be taken once per browser, so only its first capture waits.
- "Wait for the `load` lifecycle event" (`browser.rs:21`): the load of
  about:blank, still in the channel, or of a child frame counts as the page's.
- "the cache-hit check never trusts a half-populated `version_dir`"
  (`chromium.rs:249`): two processes share the staging directory, and one can
  publish what the other is emptying or filling. What does hold is
  `TrustedIsComplete`, for processes that take turns.
- "Optional CSS selector to wait for after settle (forces a browser)."
  (`capture.rs:21`): the decision is taken by the formats, the mode and the actions
  (`capture.rs:112`), and an auto capture that the static fetch satisfies does not
  wait. `TierRight` states what the code does, without `wait_for`.
- "returning a `Snapshot` that can emit the requested formats" (`lib.rs:131`):
  single-file HTML is made from MHTML, which only a browser gives, and yet it
  does not ask for one (`output.rs:61`).

The next four are properties of a module that TLC refutes; they have no run here.

- `mark_closed` "fail[s] every still-pending caller" (`cdp.rs:211`). A call that
  passed the closed check before the flag was set registers after the drain. If
  the reader ended because the browser died, the write fails and the caller
  learns it at once (`WaiterReachable` holds in `cdp_pipe`); if it ended by a
  read error (`ReadErrors`), the caller waits out its timeout
  (`ClosedReachesEveryCaller` in `CdpPipe`).
- "at most `capacity` concurrent browsers" (`render.rs:214`): `discard` frees the
  slot before the browser is killed (`AtMostCapacityBrowsers` in `BrowserPool`).
  A launch that fails after the spawn frees its slot and leaves a process for good.
  What does hold is `ProcessBound`, one more per capture between the two and one
  more per such launch.
- "on error returns a non-zero code and sets *out to null" (`ErrorClearsOut` in
  `Handles`): a null argument is found before `*out` is cleared, so after that
  error the pointer keeps its old value. The modelled caller knows that such a
  call gave it nothing to free.
- "closing our copies of the child's ends (so EOF propagates correctly when
  Chromium exits)" (`cdp.rs:832`), on Windows: another Chromium launched at the
  same time inherits them, and a drop waits for it too (the exception in
  `DropReturns`).

The models show the following too, without a run of its own:

- A quiet interval is judged by the channel alone, so a request whose start is in
  fd 4 or with the reader is missed (`QuietMeansIdle` says that no other is).
- A redirect is counted as a new request that never ends, so settle can no
  longer end on a quiet interval (the second term in `InflightTracks`).
- "Concurrency is bounded by a Pool of permits" (`daemon.rs:4-5`): every panic
  lowers the bound by one for good (`lost` in `CapturesBounded`).
- If the zip does not store the mode of the binary, a run that ends between the
  rename and the chmod leaves one that cannot be run, and later cache hits
  return it, where `ensure_chromium` promises "a usable" executable
  (`chromium.rs:171`, `cutShort` in `ReturnsUsable`).
- The archive has one name for all processes too, so one truncates or removes
  what another reads (`chromium.rs:232`).
- "Bring-your-own proxy" (`capture.rs:32`): fixed when the browser is spawned
  and ignored on reuse (`spawnedWith` and `want` in `BrowserPool`).
- "healthy → return for reuse" (`render.rs:241`): the failure of `closeTarget` is
  ignored (`stray` in `BrowserPool`).
- "a mid-capture disconnect surfaces ConnectionClosed" (`render.rs:610`): it is
  an I/O error when the write is what notices (`WriteErr` in `CdpPipe`).
- A launch that fails after the spawn leaves its profile directory and a child
  that nobody waits for (`profiles` in `LaunchTypeOK`, `FailedLaunchLeavesNone`).
- In an incremental crawl a failed fetch is recorded as an empty body, so the
  page is reported when it fails and again when it is back (`FoundBody`; the
  premise of `ReportsExact`). Two spellings of a page have two cache entries.
- Redirects are not held against robots.txt or the scope, and robots.txt is asked
  about the path without its query.
- The byte budget escalates to a browser in auto mode, where the option says it
  rejects larger bodies; the deadline is looked at only before the browser.
- A failure on a later page of `capture_paginated` discards the pages before it.
- In robots.txt a pattern with `*` before its `$` can miss a path it denotes: each
  literal is matched at its first occurrence, so `/*a$` does not match `/aa`
  (`PatternsExact` says when the matcher is exact).
- "Trim trailing CR/LF that belong to the boundary delimiter, not the part"
  (`inline.rs:314`): a part that ends in line ends of its own loses them too, and a
  soft line break at its end becomes a literal `=` (the premises of `PartsReturn` and
  `TextReturns`).
- "`None` on bad length or non-hex input" (`evidence.rs:134`): `from_str_radix` takes
  a sign, so `+5` is read as `05` and a bundle changed in this way still verifies
  (`SameBytes`).
- "Treat a stray `<` with no closing `>` as literal text so we never lose the tail"
  (`extract.rs:194`): the tail is lost.
- A part of a bundle with no headers at all has its body read as headers. A
  `srcset` holding a `data:` URI is split at its comma. `@import "x"` is not
  rewritten.
- `decode_basic_entities` decodes `&amp;` first, so `&amp;lt;` becomes `<`.
- A JSON response in a fence on one line gives nothing, and of prose with two
  values the first bracket decides which is read.
- An MCP line that is not UTF-8 ends the server, where malformed lines should
  get -32700 (`mcp.rs:53`), and a batch is dropped without an answer.

## Plan

Every subsystem with state is modelled, and the algorithms on texts with it. What
would add most from here:

1. More of the algorithms on texts along the lemmas on folds, first the parsers that
   have an encoder to be held against: requests, headers and actions, which need
   their filters and recursive functions written as folds.
2. A `BrowserPool` whose sessions are `Capture`'s, command by command, so that a
   browser's leftovers (`stray`, `eventsTaken`) meet the next session.
3. `Settle` with lifecycle events that carry their frame and loader, against the
   day the code reads them.

A run asks one question of the system, and the project keeps their number small:
a new component joins the run of those it does not interact with, or takes the
place of a divergence that the code has removed.

## Running

    tlc -workers 2 -config MCServices.cfg MCServices
    tlapm PoolProofs.tla

and likewise for the other configurations; `PROJECT.json` lists every run with
its module, its properties and the code each definition models.
