# TLA+ models of BrowserPane for Hermes

BrowserPane gives an agent (Hermes) and a person one shared Chromium: a private
X server with a GPU display driver, a capture pipeline that streams the screen
to a viewer, a compact MCP service that lets an agent read and act on the tabs,
and supervised workflows that export reports. This directory holds TLA+ modules
of the parts whose correctness depends on the order of steps, on failures or on
limits, TLC configurations that check small instances, and TLAPS proofs for
every instance.

Read `src/` below as the root of the repository.

## 1. Inventory

| Part | Source | State | Operations | What is hard | Correct when |
|---|---|---|---|---|---|
| Workflow runner | `hermes/workflow_runner/runner.py` | the step a worker is at, the row it read, the plan, the candidate | execute a run: navigate, export, verify; reconcile; fail | crash between an input and its record, storage errors in error handlers, several processes, cancellation and abandonment at any moment | an approval exports at most once; intent is durable before the input; a run ends settled or `uncertain` |
| Run journal | `journal.py`, `journal_db.py`, `private_files.py` | rows in SQLite, a lock file | approve, begin, checkpoint, cancel, abandon, expire | read in one transaction, write in another | one unresolved run; no lost cancellation or evidence |
| Report artifacts | `artifacts.py` | the download directory | snapshot, candidate, verify | files replaced under the verifier, late downloads | a verified file is the one that was seen completed |
| Workflow service | `service.py`, `warm.py`, `control.py` | queue, active job, worker thread, futures | execute, status, cancel, close | two threads and a lock, a worker that dies | each accepted job is answered once; status is coherent |
| Pacing | `pacing.py`, `pacing_ledger.py`, `pacing_store.py` | one persistent row per site; a run's budget of waiting | reserve, complete; admit | clock steps, restarts, several processes, policy changes, late sleeps, cancels | never more than the budget in a window, never closer than the interval; no wait beyond the run's budget |
| Catalog, CLI | `catalog.py`, `contracts.py`, `cli.py`, `mcp.py` | registered workflows | register, list, dispatch | little: bounds and formats | - |
| Snapshot leases | `native/gpu-dummy/src/lease.rs`, `abi/lease-*.c` | three slots with dirty tiles, leases, generations | damage, resize, acquire, release, owner gone | resize under a lease, failing exports, exhausted numbers | a clean tile is current, a leased image does not change, no slot leaks |
| Present clock | `native/gpu-dummy/src/clock.rs`, `abi/present.c` | queued vblank events, one timer | queue, abort, deliver | callbacks that re-enter a delivery, which goes on with an old reading of the clock | no event is early or left without a timer |
| Geometry, driver | `abi/driver.c`, `randr.c`, `src/geometry.rs` | the X server's screen | modes, pixmaps | the server's interface | - |
| Live encoder | `native/vulkan-lease/live-*.c`, `tail-*.c` | outstanding batch, tail base, video worker state, two mutexes | commands, capture, ACK, hint, worker publish | two threads, stale acknowledgements, a slot pool at its limit | the client's picture converges; old video never overwrites new tiles |
| Live supervision | `native/vulkan-lease/live-watch.c`, `live-listener.c` | child process, time since its last pulse | accept, fork, pulse, health, stop, kill | a child that hangs, ignores SIGTERM, or is slow | a silent child is replaced, a live one is not |
| Compact MCP: engine | `server/compact/{executor,request-ledger,session,action-*,flow-runner,tab-state}.mjs` | queue of tool calls, request ledger, epochs, views, dialogs | call, act, flow, read | calls that outlive their request, retries, dialogs in the middle of an action | one action at a time, a retry never acts twice, an action uses the view it was chosen from |
| Compact MCP: tabs | `browser.mjs`, `main.mjs`, `entry.mjs` | registry of tabs, default tab | list, new, close, disconnect | tabs close while titles are awaited | the registry is the browser |
| Compact MCP: HTTP | `http-*.mjs` | admitted requests, sessions with reservations | create, handle, delete, sweep, close | aborts at every await, cleanup that waits for operations | a session is given back, but not before its operations end |
| Compact MCP: observations | `observation*.mjs`, `snapshot-coverage.mjs`, `validation.mjs`, `schemas.mjs`, `reader.mjs` | states, views, cursors | capture, reproject, continue, splice; parse; read | evicted bases, budgets that cut a page anywhere, names that look like references | the client's text is the server's, a page misses no line |
| Compact MCP: files | `mcp-downloads.cjs`, `uploads.mjs` | staged downloads, open descriptors | forward, resolve | the host changes the directory meanwhile | nothing is overwritten, an upload is one version of one file |
| Gateway | `server/gateway-*.mjs`, `main.mjs` | the gateway's process, its token, an adopted session | rotate, bootstrap, ticket | rotation during requests and spawns | one session per gateway; a rotation is not lost |
| Readiness | `check-gpu.mjs`, `gpu-*.mjs`, `doctor.mjs`, `listener-status.mjs`, `close-browser.mjs`, `check-settings.mjs` | a conversation with the browser, its sockets | check | answers, errors, deadlines and hang-ups in any order | "ready" is only said of what was shown to be so, and something is said |
| Viewer | `client/app.ts`, `display-*.ts` | session, attempts, retry timer, layout | connect, disconnect, resize, leave | attempts that overlap | one live session while it is wanted, none after |
| Viewer enhancement | `client/enhancement/` | GPU device, load, dirty patches, overlay | start, change, damage, render | loads that are overtaken, damage during a batch | the overlay never shows old pixels |
| Probes and trials | `scripts/render-pilot/`, `scripts/runtime-test/`, `scripts/mcp-baseline-*.mjs`, ... | channels with calls, recordings, disposable containers, samples | call, record, run, compare, clean up | failures half-way, late answers, pictures that change | a measurement is of what it says, nothing is left behind |
| Qualification programs | `scripts/check-{display-controls,scroll-integrity}.mjs`, `benchmark-capture.mjs`, `test-compose.mjs` | the fixture tab, commands in the container, a checkpoint's pictures, inputs and their answers, a Compose project | make, use and close the tab; look and compare; send, wait, sample; start, check, clean up | a command that is given up goes on in the container; pictures move between two looks; an answer of an earlier input | a check that passes has closed its tab; equal pictures were really shown; a latency is its own input's; nothing of the project is left |
| Runtime scripts | `runtime/*.sh` | child processes, memory limits | start, watch | order of death and restart | a failed part restarts the whole |
| Workflow learning | `hermes/workflow_learning` | recorded lessons | record, list | little | - |
| Others | `native/gpu-compact`, `native/chromium-damage`, `patches/`, `docs/`, build scripts | - | shaders, patches, images | - | - |

How they interact. An operator approves a run (`cli.py`); the service or the
command line takes the runner's file lock, the runner drives the shared tab
through the compact MCP service and reads the download directory; every step is
recorded by the journal before or after it as `runner.py` orders them. Pacing
sits between the runner and the tab. The X driver paints the tab's window; the
live encoder is its one lease client and sends tile batches and video over a
pipe to the gateway, which forwards acknowledgements and hints back. The viewer
asks the web server for a ticket, which the server gets from whichever gateway
runs, and opens its session with the gateway. The readiness checks and the
scripts look at all of it from outside.

## 2. Plan

| Step | Modules | State |
|---|---|---|
| 1 | `ReportArtifacts`, `RunJournal`, `WorkflowRunner`, abstract `SupervisedExport`, `WorkflowRunner_proofs` | done |
| 2 | `LeasePool`, proved in `Limits_proofs` | done |
| 3 | `PacingLedger`, `WorkflowPacer`, proved in `Limits_proofs` | done |
| 4 | `SerialExecutor`, `RequestLedger`, `SharedTab`, composed by `CompactMcp`; `CompactMcp_proofs` | done |
| 5 | `WorkflowService`, `WorkflowService_proofs` | done |
| 6 | `LiveTail`: the live encoder's two threads and its viewer, `LiveWatch`: its supervision; `LiveTail_proofs` of both | done |
| 7 | `PresentClock`, proved in `Limits_proofs` | done |
| 8 | `HttpSessions`, `BrowserTabs`, `Observations`, `RefKeys`, `CallShapes`, `TableReader`, `SharedFiles` | done |
| 9 | `GatewayControl`, `Readiness`, `ViewerSession`, `ViewerDisplay`, `Enhancement`, `PatchOverlay`; `Viewer_proofs` of the last four | done |
| 10 | `OwnedRuns`, `ProbeChannels`, `TraceRuns`, `Measurements`, `InputBarrier`, `Qualifications`; `Probes_proofs` of channels, barriers, qualifications and disposable runs, `LiveTail_proofs` of the recordings | done |
| 11 | proofs: `EvidenceIsKept` and the refinement of `SupervisedExport`, the encoder, the compact MCP service, the viewer; `Exchanges_proofs` of HTTP sessions, gateway, call shapes, shared files, tabs and readiness | done |
| 12 | `LeaseTiles` (rectangles to tiles against a reference), the runtime scripts' watchdogs | later |

Composition: `WorkflowRunner` extends `RunJournal`, which extends
`ReportArtifacts`; `CompactMcp` extends `SerialExecutor`, `RequestLedger` and
`SharedTab`. `WorkflowService` sees a run as the two writes of its row that
`WorkflowRunner` has in detail; `LiveTail` counts the leases that `LeasePool`
hands out; `WorkflowPacer` sees `PacingLedger` as the time until its site is due;
`HttpSessions` has operations that end at any time, which `CompactMcp` has in
detail. `MCParts` and `MCProgress` put parts that share no state side by side: in
each behaviour one of them, the `focus`, moves. The other `MC` modules give one
component its small instance.

Every module that has proofs declares no recursive operator; recursion over
requests, polls and pixels is in the steps themselves.

## 3. What the modules say and how they correspond to the code

### 3.1 `ReportArtifacts`, `RunJournal`, `WorkflowRunner`, `SupervisedExport`

`RunJournal` has one row per run, `state` and `evidence`, and one action for each
transaction of `journal.py`: `Approve`, `BeginRow`, `CheckpointRow`, `Cancel`,
`AbandonRow`. A transaction is atomic because SQLite makes it so; reading a row
and writing it are different transactions of the runner, hence different actions
(`ReadRow`, `WriteRow`). `Merged` is the merge of evidence of `checkpoint`.

`WorkflowRunner` has, for each worker process, a program counter whose values are
the steps of `execute` between two effects: take the fence (`Start`), begin,
check the cancellation, checkpoint the intent, navigate, look, snapshot, export,
poll the directory, observe, check again, promote. `StepRaises` is the exception
that any of them may end in, and `FailRow`/`GiveUp` the handler, whose own
checkpoint may fail as well. `Crash` ends a process between any two steps and the
operating system drops its lock. The browser is outside: an export that was sent
may be delivered at any later time, or never, and a completed file may be replaced
under the verifier (`Rewrite`). Ghost variables count the exports that were sent,
the inputs after a cancellation and the file the browser reported.

`ReportArtifacts` are the pure parts of `artifacts.py` on an abstract directory: a
file is its identity and whether its rows are right. Names, sizes and rows of the
CSV are reduced to that bit.

`SupervisedExport` is the promise to the operator; `KeepsPromise` says that the
runner implements it under the mapping of a row's state to what a status shows
(an unsettled row is "running" or "uncertain") and of the ghost counter to
"exported".

### 3.2 `LeasePool`

One action for each request and callback of the X server, which has one thread:
`Paint` (damage), `Resize`, `Acquire`, `AcquireFails` (the copy or the export fails
after the slot was taken), `Release`, `Gone` (the client's connection ends). A tile's
pixel is the number of the paint that set it last, so a stale tile is a difference
of numbers. The numbers of leases and generations stop at a bound as they stop at
`u32::MAX` in the code.

### 3.3 `PacingLedger`, `WorkflowPacer`

`Reserve` and `Complete` of `pacing_ledger.py`, each one transaction with the clock
read inside it. The clock may say anything at every call: it can be set back. Any
policy of the accepted ranges may be used at every call, since a reviewed policy
can be replaced between two runs. A history of admissions and completions states
the promises.

`WorkflowPacer` is the loop of `pacing.py`: `BeginAdmit` takes what is left of the run's
budget, `CheckWait` looks for a cancellation, the deadline and the bound of 102 rounds,
`ReserveNow` asks the ledger, `Weigh` decides whether the wait fits, `Nap` sleeps a
slice, which may be late, `WakeUp` counts what it took. The ledger is the number `dueIn`,
which other runs (`OthersWrite`) and the wall clock (`WallIsSet`) change as they like. A
refusal's `retryAfterMs` is an estimate: another policy may open a window earlier.

### 3.4 `SerialExecutor`, `RequestLedger`, `SharedTab`, `CompactMcp`

`CompactMcp` has a record per call of the HTTP server with the await it is at. An
action is the code between two awaits; JavaScript runs it alone. `SerialExecutor` is
the queue and the call that runs: the queue is each call's place in it, since what leaves
it is a call of any place, and the others move up; `RequestLedger` the numbered requests of each
session with their outcomes, of which only the newest are kept; `SharedTab` the
document, its mutation count, dialogs and popups.

A call that looks takes a view (`Snapped`, `Looked`). A call that acts checks the
view it was chosen from (`Usable`), then each step is guarded, aimed and issued
(`Guarded`, `Issue`). An input is a number of browser operations (`Parts`); a dialog
may suspend it between any two, the call is answered, and the rest is in the browser
until the dialog is closed (`Dialog`, `Return`). A dialog step closes a dialog and
waits for the suspended input (`Accepted`, `Closed`, `Settled`, `NextModal`). A flow is
a series of stages, each an observation and an action (`Stage`, `Found`). The page
navigates, shows dialogs and opens tabs at any time (`Site`); a person may close a
dialog.

Left out, because they change nothing: refusals given at once (bad arguments,
numbers that are used up, another session's reservation). Also left out: the `mouse.up`
of an interrupted drag and the end of the executor itself. One tab stays open here; the
`new` and `close` steps and the registry are in `BrowserTabs` (3.7).

### 3.5 `WorkflowService`

Callers are threads of the agent's process, the worker is the service's thread.
`lock` is `_lock`; a critical section of a caller is as many steps as it has calls
that can block or fail (`Admit`, `Start`, `Started`, `Submit`; `Peek`, `ReadRow`,
`Reply`), the worker's own critical sections are single steps. `inbox` holds what was
posted with `call_soon_threadsafe` or put into the queue of one. The thread can die at
each await (`Raise`, `Die`): releasing the idle connection may fail, and so may what
runs outside of a job. Abstracted: the cache of results keeps only whether a result is
an error and never evicts (32 in the code); the flag `failed` is set with the end of the
thread.

### 3.6 `LiveTail`

Main thread: `Poll` (XDamage events), the commands `Ack`, `ResetCommand`,
`StaleAnswer` and `Hint`, `Repair` and `Timeout` (the tests after them), `Capture`,
`Acquire`, `SelectVideo`, `Send` (`live_capture`), `Eof` and `Join`. Video thread:
`NextFrame`, `OpenFails`, `WorkerLeases`, `Convert`, `Check`, `Write`, `Fail`. The mutex
`control` is held over several steps only by the worker that writes, so a step of the
main thread that takes it is one step with the guard `ControlIsFree`. `Changed` is the
decision of `tail-analyze.comp` whether a tile is sent. Pixels have two values; a tile
is sent or not, whichever code it is sent in, because cached and scrolled tiles are
exact copies. The viewer applies what it receives in order and acknowledges it, or
refuses it, leaves, or joins again. Times are the alternatives they decide between: a
hint is fresh or older than 700 ms, an ACK came or did not within 5 s; the 16 ms
between captures only delay. Two `unsigned` counters (serial, revision) are unbounded:
the code ends the process before the serial wraps, and a revision has 64 bits.

### 3.7 Beside the engine of the compact MCP service

`HttpSessions`: a request is admitted (`Admit`), its body read, given to a session
(`Create`, `Home`, `Handle`) and answered (`Respond`), and may be aborted at each await
(`Abort`, `AbandonRequest`). A session that ends drains its operations before its place
is given back (`Drain`, `Dispose`), and a sweep ends idle ones (`Age`, `ExpireIdle`).

`BrowserTabs`: the registry follows Chromium's events (`OpenPage`, `Breaks`); `ListTabs`
to `ListEnds` await one title after another while pages close. `Observations`: `Project`
is the projection of a snapshot to a page of lines, `Send` keeps a view and sends it whole
or as a splice, `Reproject` and `FollowCursor` go on with a kept state; `known` is what the
client puts together. `RefKeys`: the lines of a snapshot as sequences of marks, `Written`
as Playwright quotes them (external) and `Key`, `Reference`, `Name` as the code reads them.
`CallShapes`: a call is the set of its keys; `Parse` is the validation, `Reads` what the
code behind it needs. `TableReader`: pages and summaries of a table. `SharedFiles`:
`forwardDownload` and `SharedUploads.resolve` beside a host that makes, moves and writes
files.

### 3.8 The gateway and readiness

`GatewayControl` has the supervisor's loop (`Replace`, `Exit`, with `Signal` from the
certificate's rotation), and the web server's queue of bootstraps (`Bootstrap`, `Serve`,
then one action per request to the gateway). Gateways are numbered by their certificate.
`Readiness` has the gate, the doctor, `/healthz` and the graceful close as conversations of
which every answer may be a failure, a hang-up or nothing until a deadline.

### 3.9 The viewer

`ViewerSession` is `app.ts`: attempts with their generation (`Attach`, `Fetched`, ...),
the retry timer, the buttons, the unload. `ViewerDisplay` is the display controls over the
SDK's idea of the capture size, with the layout's arithmetic in whole pixels. `Enhancement`
is the controller with loads that overlap (`LoadStep`), `PatchOverlay` a run with its grid
of patches, timer, frames and the one patch in the GPU.

### 3.10 The display's clock and the encoder's supervisor

`PresentClock`: `QueueVblank`, `AbortVblank` and `GetTime` may come between the events of
a delivery (`TimerRuns`, `PopDue`, `EndDelivery`), which keeps its one reading of the clock.
`LiveWatch`: the listener (`Fork`, `AcceptsHealth`), the encoder's loop as far as it pulses
(`LoopsRound`, `Hangs`), and the supervisor (`Reaps`, `TimesOut`, `Reads`, `SendsKill`).

### 3.11 The scripts

`OwnedRuns`: disposable containers and the baseline's browser, with failures and signals at
every command; the record of the containers is a set, since the plan makes each once and in
order (`Rank`), and the cleanup takes the latest first (`Latest`). `ProbeChannels`: calls over five kinds of channel, with answers that are
late, nobody's or never. `TraceRuns`: the two programs that record a trace.
`Measurements`: summaries of a trace, checkpoints, samples, the comparison of pictures and
the timing of one key, each over every short input. `InputBarrier`: the page's barrier of
input and the one click.

`Qualifications` has four programs that qualify a runtime. The fixture tab: the host's script
is a step (`check.at`) that waits for at most one command in the container (`AskCommand`,
`HearCommand`, `GiveUpCommand`); a command connects, makes or finds the target, attaches,
checks the token and acts (`ConnectCommand` to `ActOnTab`), whatever became of the host
meanwhile, and only `create` undoes its tab when it fails (`UndoCreate`). A checkpoint:
look, size, grab, look, grab (`FirstLook` to `GrabAgain`), then the judgement, while the
display moves (`X11Moves`); `moves` and `truth` are its history. The capture benchmark: an input is
asked, its repaint takes the colour of its number, and tiles come in batches over a wire
(`SendInput`, `RepaintMarker`, `HostSends`, `TakeMessage`). The Compose project: containers, network and
volume are made, checked and removed by label (`CleanThing`), beside a daemon that goes on with
a command that timed out (`DaemonGoesOn`). What the views and requests in between assert holds or
throws. Left out: the two signals of the host's process, what a `catch` logs, and the
geometry that a failed check records. After a failed or abandoned run something may be left, which
the code knows too: only its exit status says so; the scroll check writes "passed" before its
cleanup.

## 4. What is checked

| Run | Instance | Shows |
|---|---|---|
| `workflow_runner` | 2 processes, 2 runs, crashes and storage failures, 1 poll after the first; a file may be rewritten once, and is followed from there while a worker looks at it | an approval exports at most once, its intent and baseline are durable first, one run is unresolved at a time (`RunsAreSafe`); a cancellation lets at most the one input go that had passed its check, and a report is never credited to another run (`RowsAreTrue`); recorded evidence is never lost (`EvidenceIsKept`); all of it is the operator's promise (`KeepsPromise`) |
| `workflow_cancel` | 1 process, 1 run, no faults | *violated*: see section 7 |
| `parts` | 28 small instances side by side, without fairness | the table below |
| `progress` | 7 small instances side by side, with fairness | the second table below |
| `compact_calls` | 3 calls, 2 request numbers, 1 kept record, a queue of one, one dialog | a request never acts again after its outcome (`OutcomeIsFinal`), an aborted call is silent (`AbortedIsSilent`), every call is answered (`CallsAreAnswered`) |
| `compact_dialogs` | 2 calls, 3 requests, inputs of two parts, two dialogs | two inputs are never in the browser at once, and closing a dialog does not forget the next (`DeskIsSound`) |
| `compact_flows` | 2 calls, flows of 2 stages of 2 steps, 2 documents, a dialog and a popup | an input is issued in the very epoch that was observed (`InputsAreFresh`) |
| `service` | 2 callers, 2 runs, 2 jobs, a thread that is up in time and may die | one job at a time, and `active` is true (`ServiceIsSound`); results are final and status is coherent (`AnswersAreSound`); jobs are answered, close ends the thread, no call hangs (`NobodyHangs`) |
| `service_start` | the same with a thread that is late | *violated*: see section 7 |
| `live` | 3 pixels in 2 tiles, a region that cuts a tile, a pipe of 2, 3 outside events | three leases suffice and none is left, tiles are exact outside the video (`LiveIsExact`), video never passes its revocation (`UnitsFit`), the picture converges (`SettledConverges`) |
| `live_repair` | the same with 2 events | *violated*: see section 7 |
| `viewer_reconnects` | one page, 4 attempts | *violated*: see section 7 |

`parts`, by the focus of a behaviour:

| Part | Property | Shows |
|---|---|---|
| slot pool: 2 slots, 2 clients, several sizes, numbers that run out | `PoolIsSound`, `LeasedIsFrozen` | clean tiles are current, held leases match their slots, none leaks, a leased image is frozen |
| present clock: 3 events, a queue of 2, a rate that does not divide the second | `VblanksAreTimely` | no event is early, none is left without a timer, whatever a callback of a delivery queues or aborts, and frames never count back |
| ledger: a strict and a loose policy for one site and one for another, capacity of one site, clocks that go both ways | `LedgerIsSound` | rows stay valid for every policy; gaps, budgets and windows are kept |
| waits of a run: a budget of 3, slices of 2, a sleep that is 1 late | `WaitsAreBounded` | what a run has slept is within its budget, but for the last sleep's lateness; a cancelled run sleeps one slice at the most; the cap of rounds is for broken clocks only |
| tabs: 3 pages, a limit of 2 | `TabsAreTrue` | the registry has every open page once; a list shows what is open when it is sent; the default moves only when it is gone |
| views: small snapshots, 2 kept states | `PagesAreRead` | what the client puts together from pages, splices and cursors is what the server projects |
| files: 2 downloads for one name, a host that changes the directory | `FilesAreWhole` | nothing is overwritten, what appears is whole and appears once, an upload is one version of one file in the directory |
| call shapes: up to 4 keys | `AcceptedIsServable` | what passes the validation has what the code behind it reads, and never two meanings |
| tables, texts; lines of a snapshot, names of up to 3 marks | `PagesAreRead` | pages in a row give each row and mark once, sums are exact or refused; roles, names and references are those the page has, whatever its texts look like |
| viewer: 4 attempts that overlap | `ViewerIsSound` | one live session while one is wanted, none after; a late attempt never takes the page over |
| display: 2 viewports and densities, 3 authorities | `DisplayIsCurrent` | the session knows the size this viewer wants now, also while another owns the capture; the automatic size keeps its limits; a locked control keeps the person's choice |
| enhancement: 2 loads, 2 canvases | `EnhancementIsSound` | one load owns a device, of the present choice and canvas, and the others release theirs; whoever may have the enhancement gets it |
| overlay: 6 by 3 pixels in patches of 4, 3 damages | `OverlayIsSound` | what the overlay shows of a patch was computed from the pixels that are there now; no damaged patch is forgotten |
| disposable runs and the baseline session, failures at each command | `OwnedIsClean` | nothing of its own is left, unless a command failed that had its effect or the cleanup failed; nobody else's container or volume is touched; one browser per profile |
| five kinds of measurement over every short input | `MeasuresAreTrue` | counts and times belong to the records they are said of; pictures that are called equal are |
| barriers of 2 sessions, the one click | `BarriersAreExact` | a barrier passes in its own session after all input before it, and leaves nothing on the page; the click is the only one, and a person's |
| fixture tab of both display checks; a checkpoint of 2 attempts on displays of 1 or 2 pixels; 3 inputs with 3 messages on the wire; a Compose project | `QualificationsAreSound` | a check that passed made, used and closed its tab; a checkpoint that passed compared what was shown at one time; a latency is of its own input; a project that passed is gone, and what bears no label of it is never touched |

`progress`, in the same way:

| Part | Property | Shows |
|---|---|---|
| runner: 1 worker, 1 run, a file rewritten twice, no faults | `VerifiedWasObserved`, `WorkersSettle` | what is verified is what was seen completed; the fence is released, a run that was begun settles |
| HTTP sessions: 3 requests, 2 sessions, place for one | `SessionsHold` | places are those of sessions that live or drain; a request is answered or aborted and its place freed; idle sessions are swept |
| gateway: 2 viewers, 3 gateways, 2 failures | `GatewaysHold` | a gateway has one session of its viewers, and no ticket is asked for a session of another gateway; every bootstrap is answered; a rotation is served by a new gateway |
| readiness: every program, every answer of a small set | `ChecksAreTrue` | a verdict is said once, "ready" is never said of what was not shown, every check ends |
| probes: a channel of each kind, 4 calls | `ProbesHold` | a call has one end, an answer is not given to another call, and no call is left waiting |
| recordings: one of each kind, 2 chunks | `TracesAreClean` | a recording that ends leaves nothing that traces, and every recording ends |
| supervision: a silence of 4, 2 forks | `EncodersAreWatched` | a silent encoder is replaced, one is killed for real silence only, nobody is told that all is well once it is silent, and the listener that gives up leaves no child |

Parts that share no state cannot disturb each other, so a behaviour in which one of
them moves shows as much as their product would, at the sum of their sizes instead
of the product.

Each property has a mutant at least, an operator defined next to the one it stands for
and marked "Mutant of", with which the run finds the property violated. A property that
is a conjunction of several parts has a mutant for each of the parts that are its point.
So each bound is large enough for the property to be at stake.

Why the bounds are enough. *Runner*: a defect needs two processes and at most two
runs (one that is left unresolved or abandoned, one that follows); one more look at
the directory is the loop's only repetition. *Leases*: the second slot and second
client stand for "another one"; the counters end inside the bound, so exhaustion is
reached. *Ledger, waits, clock*: window, budget, cooldown, change of policy, a clock that
is set back, a late sleep and a callback that queues are all within the instance; the
proofs cover the rest. *Compact MCP*: three calls are one that runs, one that waits and
one that shares; three requests are an input that is suspended, the dialog step, and an
input beside them. Sessions share nothing but the tab and the queue, and another
session's input changes the epoch just as a call of the same session does: one session
with several calls is used. *Tabs, sessions, files*: one more than the limit is there, so
that the limit is met. *Views*: two kept states and three views evict a base that a client
still has. *Lines*: three marks hold a quote, what stands between quotes, and what looks
like a reference. *Service*: the second job meets what the first left behind. *Encoder*: a
stale answer, a failing video and a repaint are each within three events; a pipe of two
holds a batch and a unit in either order. *Viewer, enhancement*: an attempt or load, the one
that overtakes it and one after that. *Overlay*: a border between two patches lies in the
picture, with a halo that reaches over it. *Probes*: the greeting, the last command, and two calls
whose answers may be exchanged. *Qualifications*: a picture may be cut, grow or change between two looks; a third
input meets the answers of the two before it. *Supervision*: the second fork follows a kill.

`CHECK_DEADLOCK FALSE` is given where the bounds or an end stop the model: parts that are
done (`parts`, `progress`, `viewer_reconnects`), requests used up and sessions closed (the
compact runs), a closed service, an encoder that has ended. The runner's runs check
deadlock.

Fairness. *Runner*: weak fairness of a worker's steps; a call has a deadline, so a
worker always goes on, by success or exception. *Compact MCP*: weak fairness of the code
between two awaits and of browser operations, which return or time out; a suspended one
returns when its dialog is gone. *Service*: strong fairness of each thread's steps, since
a step that needs the lock is enabled only while the lock is free, and the other thread
takes it again and again. *Encoder*: strong fairness of the main thread for the same
reason, weak fairness of the video thread and of a viewer that reads its pipe. *HTTP
sessions*: weak fairness of a handler and of the abort by its deadline, of the cleanup and
the sweep; operations and factories owe nothing. *Gateway*: weak fairness of the supervisor
and of the server's queue, and a gateway that is told to end ends. *Readiness*: the
check's own steps and its deadlines. *Probes*: each call's timer, and nothing else.
*Recordings*: the program's own steps, its timers, and an observer that exits once its input
has ended or it is killed. *Supervision*: time passes, the watch goes on, an encoder that does not
hang goes round its loop, and the kernel ends what it is told to kill. Nothing is owed by
the operator, clients, the page, the person at the browser, hints, or viewers that leave.

## 5. What is proved

The theorems hold for every value of the constants that satisfies the assumptions of
its module: any number of processes, runs, slots, policies, callers, events, and any bound.

| Module | Theorems | Inductive invariant |
|---|---|---|
| `WorkflowRunner_proofs` | `TypeCorrect`, `ExportsOnce`, `IntentFirst`, `CheckpointsAreFresh`, `OneAtATime`, `SafeRuns` | `IInv`: the row a worker works on is at every step in a state that the intent of that step committed (`LocationOK`), only the fence's holder is busy (`FenceOK`), a row before its intent has no baseline and no export (`RowsOK`). At most one export does not follow from the counter alone: it needs that a worker before its click holds a row that is `exporting` and was not exported |
| | `RowsTrue`, `VerifiedObserved`, `EvidenceKept`, `PromiseKept` | `IInv /\ More`: a file is of a run that was exported (`FilesOK`), one input at most follows a cancellation, and a worker before its input has sent none (`LateOK`); the file that was observed lies between the two readings of it, and is both of them once they agree (`TracedOK`, `ProvenOK`); without an exported run that was abandoned, a file that is new to a run's baseline is its own (`OwnOK`). `PromiseKept` is the refinement: under the mapping of `KeepsPromise` every step of a worker, a crash or the browser is a step of `SupervisedExport` or none |
| `CompactMcp_proofs` | `SoundDesk`, `FreshInputs`, `SilentAborted`, `FinalOutcome` | `IInv`: who is outside the queue's places runs, and has a number of its own that no settled request has (`Owned`, `Apart`, `Known`); a step that is about to act has seen the tab as it is, unless a dialog came, and none acts while an input is suspended (`Fits`); what a dialog suspended saw the tab before that dialog (`Aside`); the server holds each dialog that is shown. The three action properties follow from `IInv` by one lemma, `Inputs`, on which steps issue an input |
| `LiveTail_proofs` | `TypeCorrect`, `LeasesSuffice`, `UnitsAreAnnounced`, `ExactPicture`, `LiveExact` | `Core`: which images the main thread has in which phase, and when each thread ends (`Phases`); every image is one lease (`Counted`); a batch is a difference between snapshots of one screen (`SameScreen`); what an authorization's revision stands for, and that the worker's copy is worth the same while the revision is (`Authority`). `Wire`, for the picture: a batch under way is full, or the first there and fits what the viewer shows (`Sends`), an answer that will be accepted is that of a viewer that has the batch (`Answered`), and so is what the next difference is to (`Based`) |
| (supervision) | `TrueSilence` | what the watch counts is the silence of its encoder, or a pulse waits in the pipe that ended it in this tick (`SilenceFits`): only a round of the loop pulses, and no tick passes over a pulse |
| (recordings) | `WholeTraces` | an observer that is up is held, or is about to be, and one that has ended well stays as it is (`ObserverFits`); a trace that is read is complete, and there is something left of it until its end was read (`ReadFits`); a link that is gone has no recording and no stream (`LinkFits`) |
| `Limits_proofs` (pool) | `PoolTypeCorrect`, `NoStaleTile`, `HoldersCanRelease`, `NoLeak`, `Frozen`, `PoolSound` | the checked invariants together are inductive |
| (clock) | `TimelyVblanks` | types, no early event, and a timer no later than the first event that is due: what is checked is inductive by itself. The lemmas are about quotients of the clock: time to counter and back never gains a frame |
| (ledger) | `LedgerTypeCorrect`, `RowsAreValid`, `GapsKept`, `BudgetKept`, `WindowsApart`, `LedgerSound` | the row summarises its site's history: last time, cooldown and window cover every event (`RowCovers`), the count is that of the window's admissions (`RowCounts`) |
| (waits) | `BoundedWaits` | what is left to the deadline and what was waited make up the budget (`Budgeted`), what was counted is what was slept, but for the slice that runs (`Counted`), a run that is alone sleeps whole slices but the last (`Steady`), so that the cap of rounds is never what stops it |
| `WorkflowService_proofs` | `TypeCorrect`, `OneJobAtATime`, `OneResult`, `CoherentStatus`, `ActiveSettles`, `SoundService`, `SoundAnswers` | who is inside the lock at which step (`Inside`), a job in hand only while one works on it (`InHand`), an unresolved future for the active job, nothing behind the shutdown (`Ending`). `ActiveSettles` assumes that the thread starts in time, and adds `Timely` |
| `Viewer_proofs` | `SoundViewer` | attempts beyond the present one have nothing, the session held is the present attempt's (`HeldIsPresent`); a person who watches is a page that wants a session, and an end of the present session started the timer (`WishKept`) |
| | `SoundDisplay` | what the controls count as told is what the session has, or nothing (`ControlIs`), so a frame that tells only what changed leaves it current. `PreferredIs`, with the arithmetic of the automatic size: two sides that each keep the budget for the wish's aspect keep it together (`SidesKeepBudget`) |
| | `SoundEnhancement` | a device belongs to a current load, or to one that is built and about to be asked whether it is (`LoadFits`), and one load at most is current (`OneCurrent`) |
| | `SoundOverlay` | a patch in flight was computed from the present pixels, or is dirty again and newer (`JobIsKnown`). `HitsAreInvalidated`: damage that a patch's crop reads, halo included, is taken to that patch; `ComputedIs`: every layer of the network reads what the layer before it wrote |
| `Exchanges_proofs` (HTTP) | `SoundSessions`, `RefusedUndone` | which requests can have a session and an operation at each step of their handler (`RequestFits`), a session counts its holders and its engine is settled before its place is given up (`SessionFits`). Every end of a handler is one answer of `Respond`, that knows what became of the operation (`HandlerAnswers`) |
| (gateway) | `OneSession`, `ToldExits` | a supervisor that waits for a child it did not tell to end has no rotation due (`SupervisorFits`); the admin works with the token it has read, and creates a session only where it found none (`AdminFits`) |
| (call shapes) | `ServableCalls` | what was accepted is servable: by the table of each tool, every key that is read is there, and the ranges at the door are those behind it (`NumbersFit`) |
| (shared files) | `WholeFiles` | a file of the directory is a download's exactly if that download is linked, under the name it chose (`DownloadFits`); what was read of an upload lies between the version looked at first and the present one, so that the comparison at the end leaves one (`UploadFits`) |
| (tabs) | `TrueTabs` | the default is a tab as long as its page is open, and the pages that met a full registry were born (`DefaultFits`); a title that is gone was a page's that is closed for good, so that a list leaves out nothing that is open (`ListFits`) |
| (readiness) | `EarnedVerdicts` | what was answered so far is what the places passed stand for: a report without a flaw behind the browser's answer, as many bytes as were counted (`AnswersFit`), each part up once that was passed without a remark (`PartsFit`). The flaw that is named is the first one found, and none is found only if none is there (`FirstFlawIs`) |
| `Probes_proofs` (channels) | `SoundProbes` | nobody waits before a channel is open, after its failure is known or when it is over, and those who wait are within its limit (`WaitersFit`); a warm worker owes an answer to the one who waits and to nobody else (`WorkerFits`), which is why an answer without a name still is the right one; the owner is gone before the browser is closed (`BehindOwner`) |
| (barriers) | `ExactBarriers` | an observer that is in front waits, one that is not is behind another program's (`ChainFits`); the marker is that of the one that waits (`MarkerFits`); along the wire, what will be dispatched before a barrier's ping is at least what the barrier waits for (`WireFits`, by the running count `Tally`) |
| (qualifications) | `SoundQualifications` | who is asked, by the host's step: while nothing failed nobody else is under way (`CommandsFit`), the tab is made before all else and nobody makes it again (`CreatedFirst`), and what lies behind each step (`StepsBehind`). A checkpoint's first picture is the display's of the second look until the display moves, and `moves` counts that (`LookFits`). A sample that was seen is the marker of the latest input, because the colours of 240 inputs differ (`ColoursDiffer`, `SamplesFit`); what the cleanup has passed is gone, and no daemon goes on (`ThingsFit`) |
| (disposable runs) | `CleanRuns` | while nothing odd happened the run's record knows exactly the containers, volumes and network it has (`NothingLost`); the volumes come before the containers that mount them and go behind them (`VolumesFit`), so that a cleanup that went through leaves nothing; the baseline's session has its browser's profile only between the steps that make and delete it (`BaselineInv`) |

Each proof has one lemma per action. The assumptions are those of the modules (`...Assumption`),
that TLC evaluates in the runs: a compact MCP service has a session and a kind of call, a
display's least sides are positive and within its greatest ones, damage has an extent, a probe's channel may have a waiter.

Some checked properties join an invariant and what must eventually happen. Of these, `ChecksAreTrue`,
`TracesAreClean` and `EncodersAreWatched`, the theorems state the invariant (`VerdictIsTrue`, `TraceIsWhole`,
`SilenceIsReal`). Only model-checked: liveness, which is beyond the prover; and what pages, tables, lines and
measurements give for every input (`PagesAreRead`, `ClientsSeeTrue`, `MeasuresAreTrue`), which are
properties of recursions over data, and stay with the bounded inputs of the runs.

## 6. What is not modelled

- Geometry, RandR and the driver's pixmaps: the X server's interface, without state that
  outlives a call.
- Rectangles and tiles as arithmetic (`lease.rs`): a tile is an element of a set.
- Catalog, contracts, command line, learning: sequential, without shared state.
- The runtime's shell scripts: children and their order of death, planned (section 2).
- Shaders, codecs and Chromium's patches: data transformations; `LiveTail` takes from
  `tail-analyze.comp` what decides whether a tile is sent.
- The server's static files, metrics and classes of errors; texts and headers everywhere.
- The viewer's SDK and the agent's MCP client: external. The encoder's protocol, as a viewer
  must answer it, is in `LiveTail`.
- What a line of a snapshot does with case, numbers and YAML's other quotes: `RefKeys` has
  the marks that structure a line.
- A dialog that a person closes in the browser: the server is not told (`tab-state.mjs:101`)
  and refuses input until a dialog step succeeds. What an accept of a dialog that is gone does
  is decided by the browser library; the model lets it fail.
- Samples of the baseline that repeat a sequence: `StockInputSummary.pair` would give one
  record to both. The scripts number them.

## 7. Where code and documentation disagree

- **Cancellation after the last check** (`workflow_cancel`). `docs/WORKFLOW_EXECUTION.md:107`
  says that a cancellation recorded after the export intent leaves the run `uncertain` until a
  read-only reconciliation. One that is recorded between the last check of `_verify` and its
  checkpoint ends as `verified` in the same run.
- **A worker thread that starts late** (`service_start`). If the thread needs more than the
  5 s that `_start` waits, the next `execute` marks a job active and then fails to post it: no
  one has it, every other run is refused as busy, and `status` says `active` for good.
- **A repair that an ACK takes away** (`live_repair`). If the encoder fails (or the hint runs
  out) while the main thread waits for an ACK, the ACK withdraws the region first, and the tests
  that ask for the repair look at the region: the viewer keeps old video there until other
  damage. `SettledConverges` is the property that does hold: it supposes that the region chosen
  and the region acknowledged come to agree.
- **A page that leaves and stays** (`viewer_reconnects`). `docs/GPU_LIVE_TEST.md:56` says that
  the viewer reconnects automatically. Its page has a link to an attachment
  (`client/index.html:34`, `server/main.mjs:69`); following it raises `beforeunload`
  (`client/app.ts:98`), which ends the session for good, and the page stays, disconnected.

Smaller things met on the way, which no run is about:

- `since: ''` passes the schema and is refused by the observation; `state: ''` counts as absent.
- A canvas that grows beyond Full HD between the end of a load and the next frame makes the
  enhancement's failure final. A tile that is damaged while the video's 750 ms timer is pending
  waits for that timer.
- Two agents that ask at once can close the last tab (`browser.mjs:106`; `docs/HERMES.md:198`
  and `docs/COMPACT_MCP.md:259` say it stays).
- `process.once` of the disposable test runtime: a second interrupt during the cleanup ends it.
- `ViewerPipelineMetrics` replaces the previous record before it looks at the clock, so what it
  refuses is still what the next is compared with.
- A recording whose `Tracing.start` times out is stopped by the disconnect alone.
- `WorkflowWarmDriver` gives an answer to whoever waits: after a timeout a later command would
  get the earlier one's. Its callers stop at the first failure.
- An encoder that goes on exactly at the deadline is still killed, and one that the kernel
  cannot end is waited for.
- The ledger's `retryAfterMs` is an estimate, as `docs/WORKFLOW_PACING.md:112-115` says.
