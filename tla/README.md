# A TLA+ model of dd-run

dd-run is a command palette for Windows written in Rust: a window (an egui
host) that lists commands offered by *extensions*, most of which are child
processes speaking newline-delimited JSON-RPC on their standard streams.  This
directory holds TLA+ modules for it, the TLC configurations that check them on
small instances, and proofs of the main invariants that TLAPS checks for every
instance.  Paths below are relative to the repository.

## 1. The system

| part | where | state it keeps | what is hard about it |
|---|---|---|---|
| extension pool | `crates/dd-gui/src/app/{pool,invoke,page,aggregate_job,fallback_flow,health}.rs` | `ExtPool`: warm clients, busy marks, three receivers, LRU set, source statuses, crash guards, templates | clients are *moved* into threads and come back later, possibly after the pool was rebuilt |
| LRU set | `crates/dd-host/src/cache.rs` | queue of ids with instants, capacity | ids only: each caller must release what it evicts |
| crash breaker | `crates/dd-gui/src/robustness.rs` | consecutive crashes, tripped | reset by a success that was sent before it tripped |
| aggregation | `app/aggregate_job.rs`, `aggregator/` | events of a round, what has arrived | a second round may start while the first runs, and while requests are out |
| RPC client | `crates/dd-host/src/process.rs` | child, bounded inbound queue, request id, buses of notifications and reverse requests, overflow flag and count | late answers, a queue that overflows while nobody drains it, two threads on two atomics |
| framing, envelopes | `crates/dd-protocol/src` | decode buffer, poisoned flag | messages split anywhere, size limit; a refusal that is refused in turn |
| in-process extensions | `ext_client.rs`, `ext_inprocess.rs` | object behind a worker thread, hung mark | a call that returns after it was given up |
| environment of extensions | `aggregator/env.rs`, `app/aggregate_job.rs`, `process.rs` | copies of manifests, globals of the built-in ones | copies taken before and after the injection; rounds that overlap |
| page flow | `app/page.rs`, `app/refresh.rs`, `navigation.rs` | page stack, pending refresh, debounce | a result for a page the user has left, or for an older query |
| stub cache | `crates/dd-host/src/cache.rs` (`FrozenCache`) | files under two naming schemes | written by overlapping rounds |
| manifests | `crates/dd-host/src/manifest.rs`, `builtin.rs` | two directories | nothing may vanish silently |
| trust ledger | `crates/dd-host/src/trust.rs`, `signing.rs` | decisions on disk | decisions against changed files; two writers of one file |
| panel state | `state.rs`, `fuzzy.rs`, `usage.rs`, `fallback.rs` | items, query, selection, offers, menu | positions in a list that is replaced |
| window, hotkey, tray | `app/lifecycle.rs`, `hotkey.rs`, `tray.rs`, `platform/capture_hook.rs` | visible, focus, registration, keyboard hook | events of one intention in either order; threads that answer late |
| results, dialog, toasts | `result.rs`, `app/host_actions.rs`, `app/clipboard_worker.rs` | last command, dialog, requests of extensions | other commands run while a question is open |
| settings | `settings.rs`, `app/keys/settings_actions.rs` | preferences, marks, file, backup | versions that know different fields; crashes between write and rename |
| backdrop | `refresh_backdrop`, `platform/dwm.rs` | what the compositor was told | the compositor changes at once, the window a frame later |
| extension SDK | `crates/dd-ext/src/lib.rs` | output queue, request ids | the peer of the protocol, with threads of its own |
| built-in extensions | `crates/dd-ext/src/builtins` | index of bookmarks, program list, engines | addressed by position or slug in data that changes |
| file search | `crates/dd-ext/src/bin/search.rs` | ids of files, icon cache and queue | caps, workers, restarts |
| conformance tool | `crates/dd-run-cli/src/main.rs` | answers and verdict | steps skipped on earlier answers |
| log files | `file_log.rs` | open handle, numbered files | every file operation may fail |

How they interact.  Everything in `ExtPool` belongs to one thread, the frame
loop: `logic()` runs on every frame (health checks, `poll_aggregate`), `ui()`
only while the panel is visible (the other polls, input).  A request takes a
client out of the vector `processes` and moves it into a thread; the answer
comes back with the client through one of three receivers (`invoke_rx`,
`page_rx`, `fallback_rx`).  An aggregation round is another thread, sending
`Meta`, then one event per extension as it arrives, then `Done`; it scans the
manifests, asks the trust ledger, reads the stub cache and starts clients.  What
arrives changes the list and the pages; what a command answers changes window,
page, dialog, toast and clipboard.  The settings page restarts rounds and writes
the configuration and the ledger.  Hotkey, tray, clipboard and update check are
threads of their own, polled on frames.  Each subprocess client owns a reader
thread that pushes frames into a bounded queue; the process at its other end
runs the SDK's loop.

RPC client in detail.  `ExtensionProcess` belongs to whoever holds it: the frame
loop while it is in the pool (which polls it), a worker thread during a request,
an eviction or a round.  The reader thread cuts the process's output into frames
and delivers them with `try_send`; a full queue drops the new frame, raises a
flag and adds to a count.  A call writes its request, then takes frames until the
answer with its id, a fatal frame, its deadline or the end of the stream;
meanwhile reverse requests are put on record and answered.  A poll empties the
queue in the same way.  Every write blocks while the pipe is full.

What makes each correct.

* Pool: calls to an extension are serialised; a client is in the vector, in one
  thread, or gone; a busy mark is always cleared; every kept client is in the
  LRU set, so that eviction and idle reclaim reach it.
* Breaker: an open one stays open until the user retries, and nothing of the
  extension is under way meanwhile.
* RPC client: an answer settles the request it belongs to and no other; frames
  lost to a full queue are counted; the answer of a process that exits is heard.
* Page flow: what lands answers the text in the box; a page nobody touches ends
  up with its content.
* Trust: what runs was allowed, or is signed, or is packaged and pinned.
* Stub cache, manifests, framing: nothing is shown as another's, nothing
  vanishes, however writes interleave or bytes are cut.
* In-process calls: what the host carries out was asked by calls that answered.
* Environment: a process has the settings of the round that started it, and the
  host's own protected variables.
* Interface: an action hits the row, command or dialog the user sees; settings
  name what is registered; a configuration survives versions and crashes.
* Extensions: an entry opens what it shows; a fresh index is current; output is
  whole; an expression means what its grammar says; a green check was earned.

## 2. The modules

| module | models | proofs in |
|---|---|---|
| `WarmPool` with `LruWarmSet`, `CrashGuard` | `ExtPool` and every handler that changes it | `WarmPoolProofs` |
| `InboundGate` | the bounded inbound queue with its flag and count | `InboundGateProofs` |
| `ExtProcess` | one extension process, its reader thread, its client; its queue is `InboundGate` | `ExtProcessProofs` |
| `RpcClient` | abstract: what a caller of `ExtProcess` may rely on | `ExtProcessProofs` |
| `PageFlow` | page stack, request under way, refresh window, debounce | `PageFlowProofs` |
| `TrustLedger` | ledger file, its two writers, assessment, what runs | `TrustLedgerProofs`, `HostProofs` |
| `FrozenCache` | stub files under rounds that overlap | `HostProofs` |
| `ManifestScan` | rules and merge of the two manifest directories | |
| `Framing` | the decoder on a stream cut anywhere | |
| `ServeLoop` | the SDK's loop and the validator of both ends | `HostProofs` |
| `InProcess` | in-process client, calls that outlive their caller | `HostProofs` |
| `ProcessEnvironment` | what rounds and reheats put into the environment of a process | `HostProofs` |
| `PanelList` | list, filter, selection, offers, usage, context menu | `GuiProofs` |
| `WindowFlow`, `PanelSize` | a frame with hotkey, tray, focus, native move loop; sizes | `GuiProofs` (`WindowFlow`) |
| `HotkeyFlow` | requests to the hotkey thread and the settings they change | `GuiProofs` |
| `CaptureHook` | the keyboard hook of the recording dialog | |
| `ResultFlow` | results of commands, host requests, dialog, toast, clipboard, update check | `GuiProofs` |
| `SettingsFlow`, `Material` | configuration over sessions; backdrop and outline | `GuiProofs` |
| `Bookmarks`, `WebSearch`, `AppCatalog`, `ShellRun`, `Calc` | built-in extensions | `ExtensionsProofs` |
| `SearchLink`, `SearchSidecar` | the connection to the indexer; ids and icons of file search | `ExtensionsProofs` |
| `Conformance` | `dd-run --conformance` from pick to verdict | `ExtensionsProofs` |
| `LogFiles` | `dd-run.log` and its rotation | |
| `MCWarmPool`, `MCExtProcess`, `MCPageFlow` | instances for TLC | |
| `MCHost`, `MCExtensions`, `MCGui` | instances of the modules above, part by part | |

`WarmPool` composes the LRU set and the breaker with the pool; `ExtProcess`
composes queue, reader, client and process and implements `RpcClient`;
`ServeLoop` composes both ends of the protocol through the shared validator.
Recursion is written as recursive functions or folds throughout (the descent and the
grammar of `Calc`, the loop of `dedupe_suffixes`, `access_at` in turn, the loops
over a stream), so that every module can be proved about.

### WarmPool

One action per handler; because they run on one thread each is atomic, and what
interleaves is the answers of threads, the exits of processes and the user.

| variable | in the code |
|---|---|
| `visible` | `window.visible`: whether `ui()` does its work |
| `pool.processes[e]` | how many clients of `e` the vector `processes` holds |
| `pool.lru`, `pool.sources`, `pool.crash_guards` | the fields of those names; `"None"` where `sources` has no entry |
| `inflight` | `inflight` |
| `rx` | the three receivers with the request behind each: its extension, and whether it was a reheat |
| `orphans` | calls that go on after `restart_aggregation` dropped `fallback_rx` |
| `templates` | `fallback_store`, where Ready and Exhausted are one value: neither is fetched again |
| `phase`, `todo`, `arrived`, `scanned` | `aggregate_rx` with the thread behind it, `arrived`, whether `exts` is set |
| `listed` | extensions with items the user can still act on |
| `rounds` | counts restarts, bounded by `MaxRounds` |
| `overlapped` | history variable, see below |

The actions: `DispatchInvoke`, `DispatchFetchPage`, `SyncFallback` start requests
(`dispatch_invoke`, `dispatch_fetch_page`, `start_fallback_fetch_chain`);
`PollInvoke`, `PollPage`, `PollFallback` take answers with everything the code
does then (storing or dropping the client, the statuses, the breaker, the
eviction, the page `GoToPage` opens, the next fetch of the chain);
`PollDisconnected` and `AggregationLost` are the `Disconnected` arms;
`RestartAggregation` and `Retry` restart a round; `MetaArrives`, `ExtArrives`,
`AggregationDone` are its events; `RefreshHealth` is the health check with the
idle reclaim; `SetCapacity`, `Show`, `Hide` are the user's.

What is abstracted.

* Commands, pages and queries: a request is its extension and channel.
* Time: how long an id has been idle is chosen at each reclaim, which is sound
  because idle ids are always a suffix of the LRU queue.
* Processes exit at any moment; the code sees it only in a health check or in
  the answer of a call, so that is where the model chooses.
* The vector `processes` is a count per extension; where its order matters (the
  loop that ends a round, the first client the fallback chain wants) every order
  is allowed.  The code's order is one of them, so safety carries over; a
  counterexample is read back against the code before it is called a finding.
* A restart drops the receiver of the previous round's thread, whose remaining
  results are lost with their clients; nothing of it is left to model.
* The set of extensions is fixed; a round may leave any of them out
  (`active`), as disabling and distrusting do.
* Confirmation dialogues, toasts, clipboard: no effect on the pool.

`overlapped`.  A request that is out when a round starts, or sent before the
round has delivered the extension, meets a round that brings a second client;
the code does nothing about it (finding 1 below).  The properties of a clean
history are stated for the extensions to which this has not happened, and the
variable records exactly that; it never influences a step.

### InboundGate

The reader's two updates of a drop (`owing`) happen in either order, because both
are relaxed and on different atomics; the consumer's two swaps are two steps with
`swapping` between them.  Frames carry a number, so that order and loss can be
told; `received`, `last` and `reported` are history.

### ExtProcess

| variable | in the code |
|---|---|
| the variables of `InboundGate` | `rx`, `overflown`, `dropped` |
| `alive` | `child`: the process runs |
| `reader` | the reader thread and its decoder's `poisoned` |
| `stdin`, `stdout` | the two pipes, in whole messages; the first holds `PipeCap` of them |
| `read`, `offered` | the process: requests it has read, and answered |
| `holder` | where the `ExtensionProcess` is: with a thread that makes calls, in the pool, dropped |
| `ready` | `declared` is set |
| `next_id`, `waiting` | the request counter, and `id` in `call` |
| `polling`, `owed` | where the holder is: in `poll_notifications`, in a write |
| `host_requests` | the field of that name, by kind |
| `outcome`, `ran`, `unreported` | history: the result of each call, what the UI has run, whether an `items_changed` was swallowed |

A handler that writes is two steps, taking the frame and writing the reply,
because the write may wait; nothing else of the client happens in between, the
reader and the process go on.  The first call is `initialize` and the others need
its success.  Messages are kinds: which method is called, and what a result
says, changes nothing here.  A process may send any kind of frame at any moment
and answer what it has read late, twice or never; that it can only answer what
it has read is an assumption (an id made up in advance would be taken for the
answer).  An oversized message poisons the decoder unless its end came with the
same chunk.  The diagnostic buses (`notifications`, `unmatched`) and standard
error are left out: nothing reads them but logs.  `AbortOversized` is the kill
that follows the attempt to answer; a pipe that stays full holds it up as it does
every write.

### PageFlow

All pages belong to one extension, so that every fetch competes for one client.
`stack` holds, per page, its id, the text in its box (`query`), the text its
content answers (`of`), how it is loading and whether it was filled; `request` is
the fetch under way with the text it was made for; `debounce` and `refresh` are
the two timers; `window` says whether the panel is shown and what hiding does to
the stack; `aggregating` is a running round, during which fetches are refused.
`missed` is history: a step that drops a refetch for good sets it on the page on
top.  These steps are named in the model: a dispatch that is refused because the
client is busy (`tick_refresh` has forgotten the change by then), a stale result
thrown away, a thread that ends without an outcome (`Disconnected`: `page_rx` goes
and the page stays loading), a timer used up while another page is on top, a change
merged into one that is pending for another page, and a debounce refused during a
round.  The
content of `Root` is left to `PanelList`.

### TrustLedger and the other modules of the host

`TrustLedger` keeps three copies of the ledger apart: the file, the one the
settings page works on, the one of the thread that judges and pins.  With
`Overlap` the two may exist at once.  A file's content is a manifest and a
program; hashes tell contents apart, a signature is a content the publisher
signed.  A scan reads the manifest into memory (`loaded`), a judgement hashes both
files and asks ledger and signature (`starting`), and the start runs the manifest in
memory with whatever program is on the disk by then (`runs`).  Files are replaced at
any moment; within one judgement they are read at one.  `replaced` is history: the
manifest was replaced after the scan that read it, or the program after it was
hashed, which nobody notices.  An extension has one start under way at a time, and
a ledger is damaged while none is under way.  `FrozenCache` takes `load_one` apart at
its file operations, with a damaged file, an installation or another round in
between.  `ManifestScan` takes which of the nine rules a document breaks as an
input and models duplicates and merge (the order of what is loaded is that of its
origins, then of its files).  `Framing` is a stream over the
symbols that matter (a byte, CR, LF, an invalid byte) pushed in pieces, compared
with a function of the whole stream.  `ServeLoop` describes lines by the fields
`Envelope::validate` looks at; the host side answers what arrives as
`process.rs` does.  In `InProcess` each call moves the object into a thread, which
returns it in time, late, or never.

`ProcessEnvironment` keeps two rounds apart at the steps of their thread: the
language, the scan and what it sends, the injection, each extension.  A variable
is told apart by where its value comes from (the host's own, the manifest, the
round) and a manifest's key by whether it is spelled as the host spells it; on
Windows the two spellings are one variable, and the later one in the map stays.
`round[r].alone` is history: no earlier round could still write a global when
this one began.  A client is in the vector of the pool or with a thread.  The first
result of the newest round releases the vector only; what was with a thread comes
back later (`GiveBack`) with the environment it has, which `outlived` (history)
notes.  Which of several clients of one extension is taken or released is left open,
and so is how many are called at a time: that is `WarmPool`'s.

### The graphical program

`PanelList` takes a frame in the code's order: results first, then the keys, then
the drawing, with which the text of the box reaches the list.  How well a text
matches is a constant, and so are the ids of commands and templates: two extensions
may give the same one, while the items of one extension are assumed to have ids of
their own.  `WindowFlow` walks a frame step by step; viewport
commands take effect at its end; the system moves the window in a loop of its own
(`nativeResize`).  A press of the tray icon (or its menu) takes the focus, is held for
as long as the user likes, and sets the flag and sends `Toggle` when it is let go
(`press`); 300 ms are one step, after which a click that found the panel shown is
`late` and the mark of the lost focus gone (`click` is history, one step for both
since the hiding came after the press).  `HotkeyFlow` has the two queues between panel and thread, the
number of the request waited for, and other programs that take and free
combinations.  `CaptureHook` has a thread per opening of the dialog and the two
statics they meet in.  `ResultFlow` lets two extensions answer commands, ask the
host for things and be evicted while a dialog is open.  `SettingsFlow` runs a
handler's saves one by one, each as a write aside and a rename, with a crash or a
failure in between; other versions write the file meanwhile.  `Material`
compares what the compositor was told with what the window drew last.
`LogFiles` lets another program hold any of the files.

### The extensions and the tool

`Bookmarks` has two callers inside `snapshot()` (a call that was given up keeps its
thread), each looking at the time of a file and then reading it.  `WebSearch`
numbers coinciding slugs; `AppCatalog` keeps one enumeration and shows it through
a blocklist that changes.  `ShellRun` has a process, an heir it leaves behind, two
pipes and two readers.  `Calc` parses tokens to a tree; numbers are one token.
`SearchSidecar` has the loop, up to four threads, the window of the notification,
and the host that opens what was chosen; `SearchLink` the client of the indexer.
`Conformance` keeps every answer of the backend, so that the verdict can be
compared with all of them: an answer is what the protocol says (`whole`), has what
its step looks at and is flawed elsewhere (`accepted`), or lacks that (`bad`).  The
calls to the host are a record with a cap, of which the newest stay; `missed` is
history: a call was dropped by the queue, pushed out of the record or made after
it was read.

## 3. The runs

| run | checks | bounds and why they are enough |
|---|---|---|
| `warmpool_safety` | `SerialPerExtension`, `OneHolder`, `LruCoversPool` | two extensions (symmetric), capacities 1 and 2: they evict each other or do not; one restart, which is what it takes for a request to meet a later round; every crash trips |
| `warmpool_breaker` | `TrippedIsQuiet`, `TripIsSticky` | one extension with a page a key opens, threshold 2 (a history), two restarts, threads that may vanish |
| `warmpool_live` | `RequestsSettle`, `HiddenReleases` | `b` runs in the host, `a` has a direct page; no restarts |
| `extprocess_behaviour` | `AnswerBeatsExit`, `ImplementsGate`, `AnswersOwnCall`, `ImplementsRpc`, `PollsReturn` | three calls, so that a late answer meets a second call after `initialize`; three frames on a queue of one, so that it overflows; a record of one; a pipe of two, so that writing can block |
| `pageflow_typing` | `TypeOK`, `NothingForgotten`, `LandsForTheBox`, `QuietPageSettles` | two pages, one of them the file page with its own debounce; two texts; `MaxDepth` 2 counts `Root`, so that one page lies above it. Two pages above each other, and the same page twice on the stack, are left to the theorems, which are about any depth |
| `host_parts` | `HostTypesOK`, `EveryFrameCounted`, `StartsAsDecided`, `StubsAreSound`, `NothingVanishes`, `AnswersWhatWasAsked`, `RunsWhatWasReturned` | queue of two and six frames; the ledger in four parts: a packaged extension over two releases, a packaged and a foreign one under overlapping writers, a signed one, and one whose manifest and program are rewritten between scan, judgement and start; two rounds, two releases, one with fallbacks; two manifests per directory; six symbols on a limit of two; two requests with an effect and a line of a thread; four calls on buses of one and two; two rounds over two extensions, one frozen and one adjustable, whose manifests declare a protected variable and the injected ones in either spelling, with two clients at a time (one that comes back beside one that a round has started) and two settings that differ in both values |
| `extensions_parts` | `ExtensionTypesOK`, `FreshIsCurrent`, `IdsFindTheirEngine`, `LaunchesWhatItShows`, `OutputIsWhole`, `MeansWhatItSays`, `ItemsKeepTheirFile`, `SearchRecovers`, `GreenIsEarned` | two profiles, two callers, two writes; names of one slug and one that is the numbered slug; every expression of five of six tokens; deadline of two polls, pipe of one; four ids on a cap of two; one icon thread; rebuild after three failures; one command, a record of two calls and at most one call while an answer is waited for, so that one is pushed out |
| `gui_parts` | `GuiTypesOK`, `MenuActsOnItsRow`, `ConfirmRepeatsWhatAsked`, `SettingsTakeEffect`, `LogIsKept`, `TrayClickHides`, `WrittenOnceRegistered`, `UnknownSurvives` | two extensions with a command (one of them an application) and a template each, both pairs of one id, and texts that rank them differently; one tray event, a press held for more or less than 300 ms; three hotkey requests on two combinations; two extensions of two commands; two sessions of two changes; four files of two lines |
| `warmpool_at_most_one_in_flight`, `calc_stack_is_bounded`, `settings_newer_config_is_kept`, `shell_run_returns` | one property each | expected to end in a violation, see below |

A `parts` run checks modules that share no variable in the code.  Its MC module
holds the variables of all of them and a variable `part` that never changes; the
variables of the others stand still at one value.  The state space is the sum of
those of the parts, each is explored as if it were alone, and nothing is claimed
about their combination.  Its properties are families, one per kind of promise,
that pick the property of the part at work (`StartsAsDecided` is
`NothingRunsUnasked`, `OnePinPerRelease`, `ProtectedIsKept`, `RoundConfigures`
and `GlobalsFollow`, `SettingsTakeEffect` is
`AppliedOnLeaving` and `MaterialGoesAway`, `StubsAreSound` is `StubsAreTheirOwn`
and `NoStubHidesFallbacks`, `SearchRecovers` is `ClientIsRebuilt` and
`NoIconStuck`, `LogIsKept` is `OnlyTheOldestGoes` and `LatestIsKept`).  `MCHost`
runs the ledger four times (`trust`, `shared`, `stranger`, `rewritten`): a packaged
extension over two releases with one writer at a time; under overlapping writers a
packaged and a foreign one with one program each, a signed one with two programs,
and one with two manifests and two programs.

`CHECK_DEADLOCK FALSE` stands where the bounds on frames, calls, sessions or lines
end every behaviour, and in `pageflow_typing`, where a panel nobody touches may rest.
Symmetry is used in runs of safety properties only.

Fairness.  `WarmPool`'s `FairSpec`: weak fairness for the events of a round (its
calls time out, and `logic()` polls it on every frame, asking for a repaint while
it runs) and for the idle reclaim of a hidden panel (`logic()` asks for a frame
every 15 s while clients are kept); strong fairness for the three polls, which
are enabled only while the panel is visible and an answer is there.
`ExtProcess`'s `HostFairSpec`: weak fairness of writing that can go on and of a
poll that has begun (running threads), and strong fairness of `CallTimesOut`,
which is disabled while a reply is written and whose deadline is looked at on
every turn of the loop of `call`; `FairSpec` adds that the extension goes on
reading its standard input, without which a poll need not return (below);
`WarmPool`'s assumption that calls end rests on the same premise.  `PageFlow`:
weak fairness of a thread ending, with an outcome or without (every call has a timeout), of the timers (a visible
panel asks for repaints) and of the end of a round.  `ShellRun`'s `FairSpec`: the scheduler
runs the extension and its readers, and the command itself ends.  Nothing is
assumed of the user beyond the premise of each property.

`LruCoversPool` is not part of `warmpool_breaker`, where threads may vanish: a
round that ends without `Done` skips the loop that fills the LRU set.

### What the code does differently from what it says

Each of four runs is expected to end in a violation of one property, which states
what a comment or the protocol document promises.

1. `warmpool_at_most_one_in_flight`: `restart_aggregation` clears `inflight`
   (`keys/settings_actions.rs:726`) while requests are under way.  The next round
   brings a second client of the same extension and the next click is sent to it,
   against "at most one in-flight request" (`app/mod.rs:371`, protocol section 4).
   When the first client comes back the vector holds two.
2. `calc_stack_is_bounded`: the depth limit of the evaluator, which runs in the
   host and is there because a stack overflow aborts it, is not counted on the
   way from an exponent to the next (`calc.rs:340`): `1^1^1^...` recurses once for
   each `^`.
3. `settings_newer_config_is_kept`: in a session that is read-only because
   `config.json` has a newer schema, importing a backup replaces the mark along
   with the settings (`settings_actions.rs:193`), and the save that follows writes
   the older schema over the file (`app/mod.rs:715`).
4. `shell_run_returns`: after a command has ended in time its readers are joined
   without a deadline (`shell.rs:355`); a process it left in the background holds
   the pipe open, and the join does not return, against the comment above it.

The modules state more promises which TLC refutes on the same instances.  They
stay there as definitions, with the promise in their comment, and are no runs:

| module | definition | what happens |
|---|---|---|
| `WarmPool` | `TrippedOffersRetry` | a round starts an extension with an open breaker and shows it as warm; the settings page then has no Retry to close it |
| `WarmPool` | `WarmMeansProcess` | each arrival rebuilds the sources from statuses recorded earlier: one that has exited or was evicted is warm again |
| `ExtProcess` | `RefusedIsNotRun` | a reverse request is put on record for the UI before its capability is looked at |
| `ExtProcess` | `ChangesAreReported` | `items_changed` during a call is kept for diagnosis and starts no refresh |
| `ExtProcess` | `OversizedIsClosed` | the frame that reports an oversized message is dropped when the queue is full; the process stays, mute |
| `ExtProcess` | `PollsReturn`, under `HostFairSpec` | replies are written without a timeout on the UI thread; the pipe of an extension that does not read is full at some time |
| `PageFlow` | `LoadingIsFetching` | a page whose first fetch is thrown away as stale while a round runs, or whose thread ends without an outcome (`page.rs:226`), stays marked as loading, with nothing under way |
| `TrustLedger` | `DenialHolds` | `trust.rs:404` trusts what the publisher signed before it comes to the denial, against `trust.rs:369` |
| `TrustLedger` | `DecisionsLast`, with `Overlap` | settings page and pinning thread each write back the whole ledger; the later one undoes the other |
| `ProcessEnvironment` | `ReheatKeepsEnvironment` | a round sends its manifests before it injects, and injects into other copies (`aggregate_job.rs:137` and `148`): a process started by a reheat, during the round or any time after, has neither language nor configuration, against `aggregate_job.rs:100`; an extension that reads `DDRUN_LANG` falls back to Chinese |
| `Framing` | `LegalLinesArrive` | `framing.rs:118` measures an unfinished line with its CR: one that is exactly at the limit is refused when the read ends between CR and LF |
| `PanelList` | `OffersAreForTheText` | text reaches the list when it is drawn, after Enter was handled: an offer runs with the previous text |
| `PanelList` | `MenuNeverMeetsANamesake` | the menu is guarded against a list refreshed under it by the id of its item (`ctx_menu.rs:162` and `205`), though an item is named by extension and id everywhere else (`state.rs:355`): an item of another extension with that id, come to that place, is acted on |
| `PanelList` | `ArrivalsKeepSelection` | the selection is a position, and an arrival sorts a row in above it |
| `WindowFlow` | `HeldClickHides` | the mark of the lost focus expires 300 ms after the hiding (`lifecycle.rs:388`) and the flag of the click is set when the button comes up (`tray.rs:404`): pressed for longer, or through the menu, the panel is hidden and shown again, against the comment at `lifecycle.rs:324` |
| `WindowFlow` | `WatchdogFollowsPanel` | only the correction of a window that would not hide sets the watchdog's mark; `show` does not |
| `PanelSize` | `SettingsSizeIsNotRemembered` | leaving the settings page and hiding before the window has followed stores the larger size |
| `CaptureHook` | `DroppedGuardUnhooks`, `EscCancels` | the dialog and the installing threads meet in two statics: closing early reaches another thread, or one without a queue, and its hook stays; a thread that ends late clears the sender of the next dialog |
| `HotkeyFlow` | `SettingsNameTheHotkey` | an answer after the 2 s of the wait is not written, though the combination is registered |
| `ResultFlow` | `NothingAskedVanishes` | requests still with a client that is evicted or exits go with it |
| `SettingsFlow` | `SaveFailureIsSeen` | the toast of the failure is replaced by the handler's own in the same frame |
| `Material` | `MaterialIsShown`, `OutlineFollowsTheme` | a material chosen while an earlier one counts down is cleared with it; a change of the system's theme does not redraw the outline |
| `Bookmarks` | `TruncationIsTold`, `OpensWhatItShows` | a file that holds more than the limit is cut while it is parsed, where nobody notes it; an entry is a position in an index rebuilt meanwhile |
| `WebSearch` | `OpensWhatItShows` | ids are resolved against the engines active at the click, not at the listing |
| `AppCatalog` | `ShortcutsAreFound` | a title is marked as seen by a shortcut that is then dropped for its target, and hides the next one of that title |
| `SearchSidecar` | `IconsArrive`, `OpensWhatItShows` | an icon that lands inside the notification window is not announced; a name the URL encodes opens nothing on a share, and a file that bears the encoded name instead |
| `Conformance` | `GreenIsCompliant` | against "绿灯即合规" (`main.rs:864`): of the items of a page only the ids are looked at, templates are counted, `get_command` has to answer something that is not null, an invoked command a kind there is, and of the calls to the host those still on record when it is read |
| `Conformance` | `FallbackIsDeclared` | the step that would find undeclared templates is skipped when none are declared |
| `LogFiles` | `LatestIsAlwaysKept` | after two refused reopenings the handle is on a file that is removed |

Seen while reading, and modelled only as far as said:

* `call` writes its request before it computes its deadline (`process.rs:903`), so
  it too may not return; `CallTimesOut` has no bearing on a write.
* The reader raises the flag before it adds to the count and the consumer swaps
  them in the same order (`process.rs:938`): in between, an overflow of zero
  frames is reported, and the frame is told with a later overflow, if there is
  one (`EveryFrameCounted` shows that it is not lost).
* The end of a round evicts victims collected over the whole loop
  (`aggregate_job.rs:322`); with two clients of one extension in the vector the
  one accessed last may be among them.
* A round that begins before the one before it has injected may be overtaken by it:
  the built-in extensions then keep the earlier configuration until the next
  round (`GlobalsFollow` without `alone` is refuted).
* A manifest that spells an injected variable in lower case overrides it: the keys
  are apart in the map and one variable to Windows.  A frozen extension with a
  stub keeps the texts of the language it was last started in, since a stub is
  found by id and release only (`spawn.rs:225`).
* After `close`, or an oversized line, the SDK still serves the rest of the chunk.
* A change reported to `hide_keep_state` while the system moves the window turns
  into a plain hide; a result that arrives while hidden acts on the panel shown
  next; a toast of the update check expires unseen while hidden.
* `poll_hotkey` looks at the 2 s before it drains the channel, so an answer that
  waited there is late; "restore default" replaces the request waited for.
* An import drops unknown fields of the present configuration; a transient read
  error at start lets the next save write the defaults over the file; the
  autostart entry is written before the setting.
* An unreadable bookmark file is cached as empty under its time; `usage.json` of
  an unknown version is overwritten by the first activation; resetting usage says
  "done" when its save failed.
* What an extension asks of the host while the conformance tool closes it is not
  judged.

## 4. The proofs

All theorems assume only the named assumptions on the constants (`ASSUME` in
`WarmPool`, `CrashGuard`, `InboundGate`, `ExtProcess`, `PageFlow`, `HotkeyFlow`,
`MCHost`, `MCGui`, `MCExtensions`), which TLC evaluates in the runs.  Those of the MC
modules say that bounds are numbers, that fallbacks belong to extensions and
their releases, that manifests declare what the model has keys for and that the
settings chosen among are settings
(`HostAssumption`), that an extension has finitely many commands, a score is a number, the material has frames to be
counted down, and the log has a predecessor to rotate to and takes a line
(`GuiAssumption`), and that
slugs are lists of words, what is configured lists of names, the cap of the file
index not below a page of results, the profiles finitely many and the record of the
conformance tool of some length (`ExtensionsAssumption`).  Beyond that, sets of extensions, files, names, texts and
contents are arbitrary.

`WarmPoolProofs` proves, for every finite set of extensions, every capacity,
threshold and number of restarts, with and without panics: `TypeCorrect`
(`TypeOK`), `OneHolderHolds` and `Serialised` (`OneHolder`,
`SerialPerExtension`), `QuietWhenTripped` (`TrippedIsQuiet`) and `OnlyRetryCloses`
(`TripIsSticky`).  The inductive invariant is
`IInv == TypeInv /\ OneHolder /\ TrippedIsQuiet`.
`SerialPerExtension` is not inductive: it counts calls and clients, but does not
say that a warm client of a busy extension cannot exist, that the slot naming an
extension has its busy mark, or that the running round has nothing to add to an
extension it has delivered; `OneHolder` says those things.  `TrippedIsQuiet` is
inductive together with it because the request whose answer records a crash is
the only one the extension has.  The argument goes handler by handler; the lemmas named `...Shape` say what each pool operation leaves alone,
and `RequestedStep` and `FallbackStep` treat the two dispatches that several
handlers end in.

`LruCovers` proves `LruCoversPool` where the threads of rounds end with Done: a
round whose channel closes without it is merged without the loop over the warm
extensions, which is what `~WorkerMayPanic` rules out.  Its invariant, `LruInv`, says
of every reachable state that the keep-alive set holds extensions and no more of
them than its capacity, and between rounds what the property says.  It rests on
what the operations of the set do to its elements (the lemmas named `...Ids`): what
is pushed out is among the victims, so every client is in the queue or among them,
and `evict_warm` (`EvictedCovers`) drops a victim that has one client, the most that
`OneHolder` leaves it outside an overlap.  For the loop at the end of a round the
same is the invariant of its recursive function (`AccessedInTurnIds`).

`InboundGateProofs` proves `TypeOK`, `EveryFrameCounted` and `InOrder` for every
capacity, stream and set of bodies.  Each is inductive together with `TypeOK`.

`ExtProcessProofs` proves, for every number of calls and frames, every set of
kinds of frame and every capacity:

* `QueueIsGate` (`ImplementsGate`): every step is a step of the gate or leaves it
  alone; it takes only that standard output carries messages.  The theorems of
  `InboundGateProofs` then hold of the client (`QueueKeepsBooks`), and the rest
  uses them.
* `OnlyOwnAnswers` (`AnswersOwnCall`): the client implements the safety part of
  `RpcClient`.  The invariant is `Books`: requests are numbered in order and those
  that ended have an outcome (`Numbered`); the process reads only requests that
  were made (`Sent`); and no answer is under way that the process has not given
  (`Causal`), which is what an answered call needs.
* `AnswerOutlivesProcess` (`AnswerBeatsExit`): the invariant adds `ExitFacts`.
  The answer to the call in flight is in the pipe with the reader reading, or in
  the queue, or something is `Noticed`: a counted loss, or an oversized message
  on its way to the host (`AnswerDue`).  When the reader has ended and the queue
  is empty only the counted loss is left.  It takes that a poisoned decoder is
  noticed too (`PoisonNoticed`), and who may write, call and poll (`Holding`).
* `TypeCorrect` (`TypeOK`).

`PageFlowProofs` proves `TypeCorrect`, `NothingIsForgotten` (`NothingForgotten`) and
`LandedForTheBox` (`LandsForTheBox`) for every set of pages and texts and every
depth.  `NothingForgotten` speaks of the page on top only and is not inductive: a
page below comes back on top when the one above is left.  The invariant
`AllTended` says it of every page in the stack, with what going back does about
pages below (they are fetched again, or their timer is still to come).

`TrustLedgerProofs` proves `NothingUnaskedRuns` (`NothingRunsUnasked`) for every set
of extensions, files and releases, overlapping writers included.  The invariant
says that each of the three copies of the ledger is `Backed`: an entry that allows
a foreign extension holds a content the user has allowed.  A copy written back
whole may lose decisions, but never makes one up.  So a judgement clears only
contents that were allowed or signed, and unless `replaced` says otherwise the
manifest in memory is the one that was hashed and the program on the disk still the
one that was hashed (`LoadedFresh`, `StartFresh`).  `TypeCorrect` is its type
invariant, and `DecisionsAndPinsLast` shows that where the two writers exclude each
other no decision is lost (`DecisionsLast`) and a release pins once
(`OnePinPerRelease`): the copy being worked on agrees with the file but for the
row it is about (`AloneIInv`).

`HostProofs`, `GuiProofs` and `ExtensionsProofs` are about the specifications of the
parts runs (`HostSpec`, `GuiSpec`, `ExtensionsSpec`), so that each theorem has the
very formula a run checks.  The tables the runs use (commands and what a text makes
of them, names with their slugs, installed programs, fallbacks, what manifests
declare) are constants, arbitrary in the theorems.  Each part has an invariant of
its own, kept by its steps, and by the others because they leave its variables
alone.

* `StubsStaySound` (`StubsAreSound`): `OwnFile` says of every file on disk that what
  it holds was given by the pair and release it is named after, and that no stub of
  a pair with fallbacks exists; a round on its way to a save does not hold one.
* `StartsStayAsDecided` (`StartsAsDecided`): the three ledgers of the run are
  instances of `TrustLedgerProofs`; of the environments, `PoolOK` says that whatever
  a round started still has what that round was given, and that once the newest
  round has been told of an arrival, what was started from an older one was with a thread
  when the first came; `GlobalsOK`
  follows the globals through the steps of a round that is alone.
* `RunsStayReturned` (`RunsWhatWasReturned`): one object may still be polled, that of
  the slot or of the call waited for, and what it holds comes after everything that
  ran (`Live`); the objects of abandoned calls never get back.
* `AnswersStayAsked` (`AnswersWhatWasAsked`): what is under way in either pipe is made
  by one of the two ends or is one of the malformed lines (`Told`, `Said`), of which
  the answer passes the validator of the other.
* `NothingEverVanishes` (`NothingVanishes`): of the manifests of a directory with one
  id one wins (`OneWinner`) and a merge keeps one extension of each id
  (`MergeKeepsIds`).  For the decoder: the loop over `u` that goes on where the loop
  over `s` stopped gives the frames the loop over `s \o u` adds (`LoopFollows`), so
  cutting a stream anywhere makes no difference (`CutAnywhere`), and what was given
  to the decoder up to the point where it was poisoned is what it returned the
  frames of (`FramingIInv`).
* `TypesStayOK` (`HostTypesOK`): the type invariants of all parts at once.  Three of
  them need more than the invariants above: the decoder gives frames without a line
  feed since it cuts at every one (`FramesExact`), a request under way has a number
  the host gave (`Numbered`), and what a process was started with is a map over the
  variables the host knows (`EnvTypes`).
* `GuiProofs.TypeCorrect` and `WrittenOnlyIfRegistered` (`WrittenOnceRegistered`):
  `Numbered` orders the numbers in the two queues, `AboutIt` says that an answer with
  the number waited for is about the combination waited for, and `StillHeld` that a
  positive answer with the latest number finds its combination still registered.
* `MenuStaysOnItsRow` (`MenuActsOnItsRow`): needs the types of the panel; the rows are
  the sorted hits, each a command of the list or an offer, and the menu compares
  the id it was opened on with the id that is there, so that what it acts on is its
  own item or has its id.
* `TrayClickStaysHidden` (`TrayClickHides`, an action property): between the button
  going down and the `Toggle`, while the click is `quick`, a hidden panel was hidden by
  the lost focus and the mark of that is there.
* `QuestionsStayAsked` (`ConfirmRepeatsWhatAsked`): the command under way is the last
  one started.
* `UnknownStays` (`UnknownSurvives`, an action property) and `ChangesTakeEffect`
  (`SettingsTakeEffect`): whatever a handler has still to save is `Current`: it has, in a session
  read from the file, the fields the session does not know, and the extensions have seen it unless a
  mark is set.  For the backdrop, a material that is shown without glass is being
  counted down.
* `LogStaysKept` (`LogIsKept`): `AtHand` says where the newest line is: under the
  first name, or one name further after a refused reopening, since a rotation, rung
  by rung, leaves dd-run.log under one of these two (`RotatedOk`).  `Orderly` says
  that each predecessor is older than what it takes to fill the files before it, so
  that what the last rung removes is as old as `Keep - 1` full files.  That there
  is a file nobody uses (`UnusedOk`) is counted: no more files have lines than there
  are lines.
* `GuiProofs.TypesStayOK` (`GuiTypesOK`): the type invariants of the parts of the
  window.  Beyond the invariants above, the list has as many uses as it has
  commands, in itself and in its copy, and a selection exactly where a row is shown
  (`ListGood`), whatever arrives, is typed or counted; and for the recorder `HookIInv`
  says that no thread runs that no dialog has started, that the chain has one hook
  for each thread that waits or pumps (`Chained`), and that what a dialog has not read
  is no more than what keys have sent and one report for each thread that is past
  its installation (`Heard`, `Reported`).
* `WholeOutput`, `OutputStaysWhole` (`OutputIsWhole`): what was written to a pipe is
  what is in it and what its reader has (`Conserved`), and a reader ends only when
  the pipe is empty and closed.
* `FreshStaysCurrent` (`FreshIsCurrent`): the invariant is about every copy a caller
  holds as well as the index, and about times, which never exceed the clock.
* `IdsStayFound` (`IdsFindTheirEngine`): of one more candidates than there are engines
  one is free (`CandidateIsFree`), so the loop ends, and the suffixes stay distinct.
* `LaunchesStayShown` (`LaunchesWhatItShows`), `SearchStillRecovers`
  (`SearchRecovers`), `ItemsStayTheirFile` (`ItemsKeepTheirFile`): the numbers of files
  grow, the index forgets the smallest only when it is full, and a whole page of
  results fits (`Given`), so that no answer on its way has lost a number.
* `GreenStaysEarned` (`GreenIsEarned`): `Unasked` says that nothing is kept of steps
  still to come, `OnRecord` that a call is on record until the record is read unless
  one was missed (`CallsStayOnRecord`), and `Earned` that a walk without failure so far
  has earned each step it has taken.
* `ExtensionsProofs.TypesStayOK` (`ExtensionTypesOK`): the type invariants of the
  extensions.  `Small` says that the index of files never holds more than its cap,
  since a full one forgets what is below a window of that many numbers;
  `OrderLists` and `NextIsToDo` that a rebuild comes to each profile, `FlattenTyped`
  and `FlattenCuts` that what was merged is cut; a command's bytes read are at most
  those written (`Conserved`).
* `SumsMeanWhatTheySay` (`MeansWhatItSays`): two recursive functions, the descent of
  the code (`Parse`) and the reference (`Meaning`), give the same tree. TLA+ takes a
  recursive definition for the choice of a solution, so first there is one of each:
  a call of the parser makes only calls with less to do (`LaterIsLess`: fewer
  tokens, or a tighter rule at the same token), so that solutions for the calls with
  less than n to do extend to n (`ParseBelow`, `ParseIs`), and a meaning depends on
  shorter expressions alone (`MeaningIs`). Then both are compared on a part of the
  expression from one token to another (`Span`), whose levels and cuts are those of
  the whole (`SpanLevel`, `SpanCuts`). Sound (`ParseSound`): what a call reads
  closes its parentheses, ends with an operand, holds no operator looser than its
  rule, and means the tree it returns (`Parsed`, `Tight`); `SumParsed`,
  `PowerParsed` and `SignedParsed` say where the last or the first cut of such parts
  joined is. Complete (`AllGetThere`): a part that means something is read to its
  end, unless a tighter operator stands behind it or it is too deep, by induction on
  its length; for a loop the claim is that it stands at the end of the part at some
  turn, because the parts before an operator are those the loop has read. The step
  for `Power` is the one that matters: an exponent is what `parse_unary` reads, sign
  and all.

What a recursive function computes is proved by induction all the same: the
library's induction theorems take an operator, so `HostProofs`, `ExtensionsProofs`,
`WarmPoolProofs` and `GuiProofs` have their own in terms of sets (`LeastNat`: a set of numbers that is not empty has a least one, from
which `NatInd`; `Recursion`: a step function has a run of any length; `StaysIn`: what
every step keeps holds along the run).

A proof that failed showed that `FreshIsCurrent` as it stood before was false: the
index may keep a copy of a bookmark file that was removed since, which nobody
reads.  The run had not shown it because its bound on the writes was too small for
the sequence; the property now speaks of the files there are.

Another showed that the bound `CaptureHook` had stated on the queue of a dialog, two
more than the keys fill, was true of the two sessions of the run only: a thread
reports to whichever dialog has armed the sender last, so that the dialogs of
several openings may each hear the threads of the others.  TLC found it with three
sessions; the bound is now one report a session.

Every invariant and every action property of the passing runs is proved.  Checked by
TLC only: the liveness properties `RequestsSettle`, `HiddenReleases`, `PollsReturn`,
`QuietPageSettles` and that part of `ImplementsRpc`, since fairness is out of the
prover's reach.

## 5. What is left

1. The methods (`initialize`, `get_items`, ...) as calls of their own in
   `ExtProcess`, with what each caller does with a failure.
2. `InProcess` as an implementation of `RpcClient`, which puts both kinds of
   client under one promise.
3. `ProcessEnvironment` and `WarmPool` as one: the environment of each client under the
   pool's own order of calls and evictions.
4. `PanelList` under `PageFlow`: the root page of the stack as the list.
5. The shortcuts of single pages and the pick lists of the settings.

## 6. Not modelled

Drawing, theme, icons, fonts and the Windows calls without state; the scores of
`fuzzy.rs` (a constant of `PanelList`); the wire format of the
indexer and image decoding in the file search; the shell links and the registry
(external); of `system.rs` all but its confirmation; the scaffold and those
commands of the tool that print what one call returns; log filters and the panic
log; signatures and hashes as algorithms.  `PROJECT.json` lists each part with its
status and reason.
