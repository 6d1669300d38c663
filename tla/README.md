# VeriSTC in TLA+

VeriSTC is a tool chain for IEC 61131-3 Structured Text in safety systems: a
compiler proved in Coq (`veri-stc`), a run-time system in C (`veri-runtime`)
and an engineering tool (`veri-ide`). This directory holds TLA+ models of the
parts whose correctness depends on the order in which things happen, the TLC
configurations that check them on small instances, and TLAPS proofs of the
properties that matter most, for all values of the constants.

`PROJECT.json` is the index: components, runs, the map from definitions to
source lines, mutants, findings, hazards and theorems.

## 1. Inventory

### Run-time system (`veri-runtime`)

| Component | State | Operations | Interacts with |
|---|---|---|---|
| SafeASM interpreter (`core/safeasm_interp.c`) | value and frame stacks, linear memory, counters | `vm_init`, `vm_rebind`, `vm_run` | called by every host |
| loader (`core/loader.c`) | none: fills a `SasmModule` | `sasm_load`, `sasm_validate` | called by the download manager and the runners |
| download manager (`hotstandby/download.c`) | two version slots, active/pending/previous, flags, version counter | stage, prepare, commit, apply, rollback | agent; binds the VM to a slot |
| frame protocol (`hotstandby/download_wire.c`) | `DlReceiver`: anchored length, next sequence number, bytes so far, sticky error | `dl_tx_image`, `dl_rx_pump`, `dl_rx_finish` | agent on one side, the IDE's deploy service on the other |
| agent (`agent/agent_main.c`) | scan loop: cycle, health window, pending switch, service flag, signal flag | boundary, scan, serve, end | download manager, frame protocol, interpreter; status frames to the IDE |
| RT-Thread port (`rtos/rtthread/vm_rtthread.c`) | three threads, three semaphores, statistics | init, start, stop, thread bodies | interpreter, I/O mapping |
| hot standby (`hotstandby/state_machine.c`, `sync.c`, `snapshot.c`) | per node: state, `is_master`, counters, dirty pages, snapshot buffer; a shared memory of two areas | `hs_run_cycle`, `hs_sync_cycle`, `hs_heartbeat_*`, `hs_snapshot_*`, `hs_handle_event` | interpreter; the other node |
| I/O mapping (`io/io_mapping.c`) | channels with values and a latched fault | read all, write all, cycle, reset | interpreter, RT-Thread port, simulator |
| simulator (`sim/`) | plant signals, stimulus table, watch table | one cycle: force, read, scan, force, write | interpreter, I/O mapping |
| runner and image tools (`core/svm.c`, `sasm_dump.c`, `sasm_info.c`), HMAC | none between calls | | |

### Engineering tool (`veri-ide`), the pages

| Component | State | Operations | Interacts with |
|---|---|---|---|
| graph editor page (`web/src/pages/GraphEditorPage.tsx`, `components/graph/PageTabs`, `SimPanel`, `CheckerPanel`, `AnalysisPanel`) | open page, unsaved mark, debounce timers, results with an out-of-date mark, replayed cycle | edit, autosave, select, jump, add, close and rename a page; analyse, check, simulate, replay | page store, analysis and simulation of the back end |
| function-chart sheet (`components/graph/Sheet.tsx`, `types.ts`, `Inspector.tsx`) | the document, the selection, two pointer gestures | drop, add, wire, move, rename, delete | the graph editor page |
| device page (`pages/DevicePage.tsx`, `components/device/*`) | selected station, its rows, the picked cards | points, modules and stations one by one and in batches; a refresh of three calls | device models; asks the chart pages which points they bind |
| library page and block editor (`pages/LibraryPage.tsx`, `components/library/*`) | block list, the block in the editor, undo history, stimulus grid and its run | list, open, save, delete, clear, drop; edit, undo, redo; step and run | library store, block runner |
| launcher and project shell (`pages/HomePage.tsx`, `project/ProjectProvider.tsx`, `components/IdeShell.tsx`) | the project shown, the recent list, the dialogs | create, open, save, close, forget | project workspace |

### Engineering tool, the back end

| Component | State | What is hard about it |
|---|---|---|
| project workspace (`backend/project`) | one device model, set of pages and block store for the process; `_CURRENT`; `recent.json` | handlers run on a pool of threads without a lock; an open that fails half-way |
| page store, device configuration, library service | pages and their draw order; stations, modules, points; blocks | calls of one page served in any order |
| deploy service (`backend/deploy`) | one deployment: stage, frames seen | timeouts against an agent that goes on running |
| collaboration | documents, locks with expiry, sessions, sockets | handlers that suspend in the middle of a broadcast; reconnects |
| block registry | content store, lock file | several files changed one after the other |
| desktop shell (`src-tauri`) | the child process | the supervising thread against the shell's exit |
| monitor, code generation, build, simulation service, HTTP and LSP entry points | in-memory tables, text | sequential |

The compiler is a batch program with a machine-checked proof of semantic
preservation; nothing here repeats it.

### What makes each part correct, and where it is hard

* **Program on the target.** The VM executes only an accepted image, the active
  one, from a cold start. A program that fails while on trial is replaced by
  exactly the one before it. Hard: staging, refusal, switch, rollback and
  signals in any order; counters that wrap.
* **Transfer.** An image arrives whole or is refused for good. Hard: lost,
  repeated, swapped and damaged frames; a second transfer on the same stream.
* **Deployment.** What the user is told is what the target runs. Hard: the
  timeout fires while the agent goes on.
* **Scan cycle.** Read, scan, write, never overlapping. Hard: three threads and
  two semaphores, stop and start, a watchdog that re-initialises the VM.
* **Redundancy.** Never two masters, never a torn snapshot, a silent master is
  noticed. Hard: both nodes access one memory without a lock, either may lose
  power between two words.
* **The engineer's work.** What is on the page reaches the store, under the
  right name, and a page without the unsaved mark is the stored one. Hard:
  every handler is a chain of calls with other handlers between them, timers
  that the next render cancels, answers that come late, values captured by a
  render that is over.
* **The chart.** Wires end on pins, an input has one driver, names are unique.
  Hard: pointer gestures that outlive the document they began on.
* **The open project.** A folder holds its own project's data and nothing
  else. Hard: process-wide models replaced one after the other.

`hazards` in `PROJECT.json` lists each of these at its source line with the
properties that would catch it. A `note` says which behaviours a property
excuses because the code really shows them.

## 2. Modules

```
 ProgramSwitch (abstract)          ScanCycle (abstract)
      ^ implemented by                  ^ implemented by
 Deploy --EXTENDS--> Agent --EXTENDS--> DownloadManager      Platform
                       :                                     HotStandby
                       : verdict of the stream
                     DownloadWire  <--  MCDownloadWire

 GraphEditor        GraphRuns        FcSheet <-- MCFcSheet
 Device             Library --EXTENDS--> BlockEditor        Workspace
```

Each `X_proofs` module extends `X` and TLAPS and holds only proofs; those of the
download manager and the agent are in `Deploy_proofs`, those of the block editor
in `Library_proofs`, those of the RT-Thread port in `HotStandby_proofs`, those of
the sheet and of the results (FcSheet and GraphRuns) in `Chart_proofs`. The parts
of an inductive invariant are commented one by one; most stand at the end of the
module they are about, so that they can be model-checked as well as proved, those
of Device, GraphRuns and the sheet of GraphEditor at the head of the proofs. Operators
whose comment begins "Mutant of ..." are deliberate errors; no specification
uses them. They exist so that every checked property can be shown to fail when
the code is wrong in a plausible way.

### DownloadManager — `hotstandby/download.c`

A slot's contents are an image, `NoImage` or `Torn` (what a failed
`sasm_load` leaves). What loader and validator say of an image is membership of
`Loadable` and `Valid`. `LoadRaw` is `dl_slot_load_raw`, `LoadImage` is
`dl_manager_load_image`, `ManagerInit`, `StageImage`, `PrepareDownload`,
`CommitSwitch`, `ApplySwitch` and `Rollback` are the entry points of the same
name; `CommitRejected` and `DetachedRollback` are their early returns and the
rollback without a VM. `VmInit`, `VmRun` and `VmRebind` come from
`safeasm_interp.c`. `vm_image`, `before` and `rolled_back` are history
variables. `Calls` says which entry points the host uses: the full-image path
of the agent (`"full"`), the patch path, and rollbacks with no VM attached.

### DownloadWire — `hotstandby/download_wire.c`

`SendFrame` is one turn of `dl_tx_image`, `Pump` with its helpers is
`dl_rx_pump` and `dl_rx_absorb` with the tests in the order of the code,
`Finish` is `dl_rx_finish`. The stream loses, repeats, swaps and damages frames
and lets a peer's ACK or ERR in. Bytes of an image are positions in a
sequence, so a slice written at the wrong offset is visible. A damaged frame is
reduced to the first test it fails; CRC32 and HMAC are not computed. A sender
may abort and start another transfer on the same stream. `MCDownloadWire` gives
the images. `WireInv` is its inductive invariant.

### Agent — `agent/agent_main.c`

Extends `DownloadManager`: every action of the loop conjoins the manager's
action with what the loop does around it, so a scan of the agent *is* a
`VmRun` and its rollback *is* a `Rollback`. The labels of `pc` are the points
of the loop body: the boundary (stop request, pending switch, cycle limit), the
scan with the health window, the download service. `cycle`, `health_left` and
the three options are `uint32_t`: they wrap at `CycleMod`, and every
combination of options is an initial state. Status frames are the set
`events`. The stream's verdict is an input (an image, or `NoImage` for a
refused stream): that is what `DownloadWire` is about.

### ProgramSwitch

What `spec/download-spec.md` promises, with no slots, versions or cycles. The
agent is shown to implement it with `running` the module in the VM's slot,
`fallback` the image from before the switch while the window is open, and
`taken` the number of switches.

### Deploy — `veri-ide/.../deploy/service.py`

Generating the frames, the agent as a subprocess, the timeouts (which kill a
direct child, but only the shell of a remote one), a broken pipe, and the
verdict computed from the status frames (`Judgement`). It extends `Agent`, so
its run explores the whole agent and checks the agent's properties as well.
`DeployInv` says what the service's picture of the agent owes to the agent.

### Platform — `rtos/rtthread/vm_rtthread.c`

One label per blocking point of each thread. Reading inputs, the scan, writing
outputs and the watchdog's re-initialisation have a beginning and an end, so
that they can overlap. Any subset of the threads may have failed to be created.
`ScanCycle` is the abstract cycle; `Phase` is the refinement mapping.

### HotStandby — `hotstandby/state_machine.c`, `sync.c`, `snapshot.c`

Two nodes; each access to the shared memory (header, first and second part of
the payload, heartbeat, clearing) is a step. `HandleEvent` is the whole table
of `hs_handle_event`. A page holds the number of the scan that wrote it, so
that a mixture of two snapshots is visible; the CRC holds when both parts and
the length come from one snapshot. The two header words are written in one
step. Power loss, restart in the configured role, faults, switch requests,
dirty marks and direct calls of `hs_sync_cycle` and `hs_heartbeat_check` are
the host's. The repository has no host program for this part: the model
attaches the channel for both nodes with the offsets swapped for the second.

### The pages of the engineering tool

All of them are models of handlers that await. A handler is a *task* in a
slot: it is sent, the back end serves it, the page handles the answer, and a
handler of several calls moves its task from one to the next. The back end's
handlers are plain functions on a thread pool, so calls in flight are served in
any order. A call may also fail. Payloads carry only what tells them apart:
the edits they contain, the page, block or project they were made for.

**GraphEditor — `GraphEditorPage.tsx`, `graph/service.py`.** A document is the
set of edits applied to it, numbered as `patch` numbers revisions. `Arm` and
`Autosave` are the debounced save effect, `ServePut`, `ServeGet`, `ServeAdd`
and `ServeClose` the page store with its draw order; one action per handler of
the tab bar and one per answer. `raced` records that calls about one page
overlapped, a marked page was left, or a new page was given the id of a deleted
one that the sheet still shows. `SaveInv` and `OrderInv` are what makes
`CleanIsSaved` and `OrderCompact` inductive.

**GraphRuns — the analyses, checks and simulations of the same page.** Results
with the revision they are of, the out-of-date marks, the busy flags, and the
replay timer over the cycles of a run.

**FcSheet — `Sheet.tsx`, `types.ts`, `Inspector.tsx`.** Blocks, constants, page
ports and wires; `grabPin`, `moveDraft`, `commitDraft` and `grabElement`,
`moveElement` are the two gestures, everything that reaches the document by key,
palette, inspector or an arriving page may happen during them. `pinMap`,
`uniqueId`, `deleteSelection` are the functions of the same name. Geometry is
reduced to a `look` that a move changes. JavaScript's `filter` is `Kept`, which
names the places that stay instead of recursing over the list; the run's module
checks it against `SelectSeq`.

**Device — `DevicePage.tsx` and its components, `device/service.py`.** Each
handler is a chain: question to the chart, writes point by point, three reads,
landing. Another engineer binds and unbinds chart pins meanwhile. `want` is
history: the last accepted value of each field.

**Library and BlockEditor — `LibraryPage.tsx`, `components/library/*`,
`library/service.py`.** BlockEditor is the mounted editor: fields, dirty mark,
undo history with its debounce, stimulus grid and run. Library is the page that
mounts it, the list, and the store. `HistoryInv` and `SimInv` are the editor's
parts of the inductive invariant `LibraryInv`.

**Workspace — `workspace.py`, `ProjectProvider.tsx`, `HomePage.tsx`,
`IdeShell.tsx`.** `open_workspace` is five steps (device, graph, library,
current, recent), `save_workspace` four; threads interleave between them. Data
carries the project it was made for. `WorkspaceInv` is its inductive invariant.

## 3. Runs

Every property of a passing run has a mutant of the code model that breaks it
under the same configuration.

| Run | Module | Shows | Bounds |
|---|---|---|---|
| `slots_patch` | DownloadManager | any order of staging, refused images, patch entry points, switches, attached and detached rollbacks keeps a usable active slot, and a withdrawn version never comes back | four images (two good, one that loads but does not validate, one that does not load), five versions: every slot is reused at least twice |
| `wire` | MCDownloadWire | whole image or refusal; every slice in place and a fault-free stream arrives; a verdict always comes | payload 1, images up to 3 bytes (first, middle and last frame differ), 2 faults, 1 restart |
| `deploy` | Deploy | the agent keeps the manager's invariant, implements `ProgramSwitch`, and survives a fault inside the window; stop, planned end, download and switch all happen; the reported outcome is true of the target, and a report always comes | images as above and a faulty one, counters modulo 4: windows of 0 to 3 scans against every download cycle and run length, wrapping included |
| `platform` | Platform | the semaphores implement `ScanCycle`; one holder of the scan; cycles go on; a stop quiesces | three starts, counters modulo 3, ticks 0, 7, 100 and 130 around a period of 100 |
| `hotstandby` | HotStandby | never two acting masters, no torn snapshot in the secondary, silence is noticed and a switch ends | two always-synchronised pages in different parts of the copy, two dirty pages (one fits the buffer but not the channel, both overflow the buffer), two scans, two host or power events, thresholds 2 |
| `hotstandby_takeover` | HotStandby | **finding**: the standby never becomes master | as above |
| `graph_editor` | GraphEditor | an edit never lands on another page; a page without the mark is the stored one; the draw order has no gap; an edit that stays reaches the store | three pages, two edits, two calls in flight, two handlers, one failure: a rename or close of one page against an edit, a save and a switch on another |
| `graph_runs` | GraphRuns | a fresh result is of this chart; the replayed cycle exists; an edit is analysed | two edits, two calls in flight, runs of one or two cycles, two runs: a shorter run replaces a longer one |
| `fc_sheet` | MCFcSheet | wires end on pins; one driver per input; unique names; a drag moves what was grabbed | three edits on a page with a constant that drives two inputs, a block whose type the library lost and two ports: enough to free a name and take it again, to re-drive an input, to add under a drag, and to rename a port to the name of one that was deleted under a gesture |
| `device` | Device | bound points stay live; a page at rest is fresh; one field's edit keeps the other's; refreshing ends | two stations, two modules, two handlers in flight, one failure |
| `library` | Library | undo follows the fields and stays in its block; a run is of the grid beside it; the list is the stored one; a clean editor shows what is stored | three blocks, two libraries, two edits, a history of two, grids of three cycles against two script records, four acts, one failure |
| `workspace` | Workspace | folders hold their own project's data; save and open are whole; the shell shows the back end's project | two projects, two pages, two calls at once, four calls, one failure: open, edit, close and open the other one |

Why small bounds are enough here: slots and nodes are two in the code as well.
The counters are only compared with one another or with a threshold, and the
bounds leave room for below, at and above each. `LostMax` is 3 in the code and
2 in the run: one loss below the threshold and one at it. Two scans are what a
torn snapshot needs (parts of two). The hazards of the pages are between a
handler and one other; two slots give every pair of them at every pair of
points, and the call bounds leave room for what must come before and after.
`MaxVersion`, `MaxFaults`, `MaxRestarts`, `MaxStarts`, `MaxScans`, `MaxHost`,
`MaxEdits`, `MaxPatches`, `MaxCalls`, `MaxActs`, `MaxRuns` and `MaxSlots` are bounds of the
model; the proofs do not depend on their values.

`CHECK_DEADLOCK FALSE` is set where the system really may stop: the version
bound (`slots_patch`), a transfer that has ended (`wire`), a platform that is
not started or was stopped, two nodes that have both failed, an engineer who
does nothing more. The deployment has an explicit final stutter and the device
page's filter can always be toggled: both are checked for deadlock.

### What the properties excuse

Some properties of the pages hold only outside certain overlaps. The history
variables `raced`, `matched`, `blame`, `bounced`, `unasked`, `dropped`,
`listRaced`, `openRaced`, `swapped`, `mixed`, `half` and `behind` say exactly
when, and the comment of the property names the case. Each excuse is behaviour
of the code; the state space contains it, and without the excuse TLC shows it:

* two saves of one page in flight may be served in either order, and the older
  document stays although the mark is gone; a save served after the page's
  deletion brings the page back;
* the open page is closed, the load of the next one fails, and `add_page` gives
  the freed id to an empty page: the sheet shows the deleted page, unmarked,
  under the id of the new one;
* the answer of an analysis or a simulation of an older chart removes the
  out-of-date mark ("an edit retires the run", `GraphEditorPage.tsx` 304), and the
  page shows it as fresh until the next edit;
* a wire gesture joins the pins captured when it began; a port is moved by the
  index it was grabbed at; the driver of an input is looked up when a wire is
  released, so two wires meet when a port is given a name that another port has,
  or that only a wire of a deleted port has left;
* the device page asks the chart before it disables or deletes points
  ("device-side destructive actions must not silently break those pins",
  `DevicePage.tsx` 50), but not in `onRemoveModule` and `onRemoveStation`, and
  the answer may be out of date when the write is made;
* two refreshes of the device page for different stations select each other's
  station in turn for as long as nothing else happens;
* a save after an open that failed at the pages writes the other project's
  stations into the current folder; calls that overlap an open reach whichever
  models are there.

### Fairness

* `wire`: the sender's loop, the pump loop and `dl_rx_finish` go on; they are
  plain loops. Nothing is assumed of the stream's faults.
* `deploy`: the service reaches its timeout or its report; `subprocess.run` has
  a timeout. The agent's loop is one thread that never blocks and goes on while
  its process lives. Its start-up and signals owe nothing.
* `platform`: weak fairness of each thread. RT-Thread runs every ready thread,
  and the two threads above the watchdog block or sleep in every cycle. Nothing
  makes the application call start or stop.
* `hotstandby`: each powered node calls `hs_run_cycle` again and ends the call.
  The host, power losses and restarts owe nothing. `SilenceNoticed` is
  therefore stated for a peer that stays silent for good.
* The pages: a call that was sent is answered (`fetch` resolves or rejects), the
  browser runs the handler of every answer, and a timer that is armed and not
  cancelled goes off. Nothing makes the engineer act.

## 4. Finding, and other disagreements

| Run | The code | The text it disagrees with |
|---|---|---|
| `hotstandby_takeover` | nothing sets `is_master`; a switch ends in STANDBY | `state_machine.c`: three losses carry out the standby-to-master switch |

Further places where the code and its texts differ, met while modelling. They
are visible in the modules but have no run of their own:

* `download.c` 518: staging a second image after a switch reuses the rollback
  slot, so a rollback need not "switch back to the slot that was last in
  effect". The agent is safe, its service is open once: `RollbackIsExact`.
* `agent_main.c` 504: a scan that fails after the window ends with
  `cycle_error` although a program to roll back to is there;
  `spec/download-spec.md` 143 says there is none.
* `vm_rtthread.c` 528: a start after a stop runs no cycle, because threads that
  have ended are not created again; 418: the watchdog may clear the error of a
  scan that failed meanwhile; 354: the period is kept only at 1000 ticks/s.
* `sync.c` 169: a heartbeat sent in the same cycle overwrites the header of the
  snapshot just sent; `snapshot.c` 270: a snapshot larger than the buffer is
  refused before `hs_sync_send` counts the failure.

## 5. Proofs

`tlapm X_proofs.tla` checks them. The only assumptions are those named in the
modules that declare the constants (`ImagesAssumption`, `BoundAssumption`,
`AgentAssumption`, `WireAssumption`, `PlatformAssumption`, `StandbyAssumption`,
`GraphAssumption`, `WorkspaceAssumption`, `EditorAssumption`,
`LibraryAssumption`, `DeviceAssumption`, `SheetAssumption`), which TLC evaluates in
every run, and, where a theorem says so, `FullPath`: the host uses the full-image
entry points only; and `StoredSoundly`: the pages the back end answers with have
unique names, wires on pins and one driver per input, as `graph/service.py` 11
says of names. A page that was stored otherwise stays so until it is repaired;
the run's page satisfies the hypothesis.

**Deploy_proofs, the manager.** `TypeCorrect` holds for any calls. So does
`AnyPathInvariant`: whichever entry points the host mixes, pending is the other
slot, version numbers are fresh, and what is staged has a version no slot had
(`StagedFresh`, without which a rollback could withdraw the number it returns
to). It gives `ActiveAlwaysUsable`, `WithdrawnStaysOut` and, by steps,
`ActiveSlotNeverRewritten`, for the patch path too. The inductive
invariant `DMInv` of the full path has five parts. `SlotsConsistent`: pending
is the other slot and, after a switch, the previous one. `ValidIsAccepted`:
what is marked valid passed both gates. `VersionsBelowNext`: version numbers
are fresh, and withdrawn ones are not valid. `VmRunsActive` and `ColdStart`
are what is wanted; they are not inductive without the first three, because a
switch binds the VM to a slot that was filled several calls earlier. From
`DMInv` follows `RunningImageSafe`. It does not hold on the patch path, where a
slot is valid that no loader has seen.

**Deploy_proofs, the agent.** `AgentDrivesManager`: every step of the agent is a step of
the manager or leaves it alone, so the theorems above hold under the agent.
`LoopInvariant`: `LoopInv` is `OneDownload` (the service is open once, so there
is one switch and one rollback), `Landing` (while a switch stands, the previous
slot is valid and holds the first image), `Bound` (what the VM runs at each
point of the loop) and `Window` (scans left and scans done add up). From it:
`WindowIsSurvived`, `RefusalIsHarmless`, `WindowIsExact`, `SwitchIsReady`,
`RollbackIsExact` and the refinement `AgentImplementsSwitch`, for any images
and any counter width. `DeployRunsAgent`: every step of the deployment is a
step of the agent or leaves it alone, so all of this holds of a deployed target
(`DeploySwitchesAsPromised`). `UserIsToldTheTruth` is `OutcomeTruthful` for
every timeout and broken pipe. Its invariant `DeployInv` has two parts:
`Delivered` (a switch that is pending or stands is to the image that was sent,
and the agent has written a switch or rollback frame exactly when it did one)
and `Judged` (a verdict other than an error is the judgement of a run that is
over). Together with `LoopInv` the frames then tell what the target runs.

**DownloadWire_proofs.** `WholeImageOrNone` and `TransferIsSound` for any
images, payload size, number of faults and transfers. No induction over the
image is needed. The receiver appends slices and counts frames, and `RxOK`
relates the two: the bytes are in place *if* none is missing (`NoGap`: there are
`next_seq` full slices, or as many bytes as announced). An accepted ACK makes a
gap; a gap is never closed, because a later slice adds at most `MaxPayload`
bytes per counted frame; a complete image has none. `LinkOK` says every data
frame in the stream is a slice of some image, `Single` that with one transfer
it is of that image (one that was given up has not sent its last frame), and
`Undisturbed` that without a fault stream and receiver make up what was sent.

**HotStandby_proofs, the RT-Thread port.** `HandOver` is inductive with the types: exactly one of the
I/O thread, `io_sem`, the VM thread and `vm_sem` holds the scan. From it
`ScanIsExclusive` and the refinement `ScanCycleImplemented`, for any number of
starts and stops and any subset of the threads.

**HotStandby_proofs, the pair.** `StandbyInvariant` adds to the types that only the
primary ever has `is_master`, which gives `OneActingMaster`, and
`WholeScans`: every snapshot in a buffer or in the shared memory was taken of
one whole scan, although the two parts of a buffer may be of different ones.
The CRC makes the two parts equal, which gives `SnapshotsAreWhole`. The
primary's own memory is not part of it: a scan that fails half-way leaves it
mixed, and then no snapshot is taken.

**GraphEditor_proofs.** `EditsStayOnTheirPage`: an edit is never found on
another page than its own, for any number of pages, edits, calls in flight and
failures. `PagesSeparate` is not inductive: a save, a rename or a load puts on
the sheet or into the store what left one of them several steps earlier. The
invariant therefore adds `InFlightSeparate`, that the armed timer and every
task carry only edits of the page they name and name a page at all; it holds
because edits only ever grow a page's history and every answer keeps the page
of its call. With the types it is inductive, one lemma per action.
`DrawOrderCompact`: the invariant `OrderInv` says that no index is beyond the
number of pages, none is missing and none is there twice; the proof counts the
pages an add or a close leaves.
`CleanPageIsStored`: `CleanIsSaved` says nothing of calls in flight, so
`SaveInv` says it for each: an armed timer holds the sheet as it is
(`TimerCurrent`); unless `raced`, each page has one call at most (`NoOverlap`),
what was read is still what is stored (`ReadsFresh`), an autosave carries the
sheet or a later edit keeps the mark (`SavesSheet`), and while the sheet differs
from the store it is marked and the answer that could clear the mark has not
come (`DiffersMarked`). The proof did not go through for the property as it was
stated first: closing the open page, a failed load and a new page with the
freed id leave an unmarked sheet that is not stored. Three handlers are needed
for that, and the run has two. The case is now part of `raced`, and the property
no longer excuses loads and closes in general.

**Workspace_proofs.** For any projects, pages, threads and failures.
`FoldersKeepTheirOwn` and `SavedWholly` need to know what every thread is about
to write. `WorkspaceInv` says that calls which clash are not under way together
unless `mixed` (`NoClash`), that folders hold their own data and the library is
in step with its folder, that memory belongs to the current project and is what
its folder has while no open or close is half done (`AtPeace`), and what each
call relies on at each of its steps (`Relies`). `ShellIsAMirror` rests on
`Alone` and `Mirrored`: a handler that was never in flight with another is told
what is there, and until one has changed it the shell shows it.

**Chart_proofs, the results.** `FreshRunsMatch` and `ReplayInRange`: no result passes
for fresh after an edit it does not know of (but for the excused late answer),
and the replayed cycle exists, for any number of edits, calls and cycles. The
two are inductive together with the types of calls and results: the length of a
run is what its call carried.

**Chart_proofs, the sheet.** For any block library, palette, stored pages and
any number of elements, wires and edits. `NamesUnique` rests on `UniqueIdFresh`:
of one more numbered names than there are elements one is free, and `uniqueId`
takes the least; that names are apart is counted only at the end
(`NamesCounted`). `WiresAnchored` and `OneDriver` are not inductive: a wire that
is released now joins the pins captured when the gesture began. `SheetInv` adds
`NamesApart`, `DraftJoins` (the captured pins are pins of the page unless
something was deleted, renamed or loaded under the gesture, and join an output
to an input) and `DragInPlace` (a grabbed port is still at its index). One lemma per
action; `Covers` says what a step must keep of the pins for the wires to stay
anchored. The theorems are `WiresStayAnchored`, `InputsSingleDriven`,
`NamesStayUnique`, and by steps `MovesOnlyGrabbed`. The proof of `OneDriver`
failed as it was stated first: a port is deleted under a wire gesture, the wire
is released onto it all the same, and another port is renamed to the name that
only this wire has left, which may have a driver already. TLC finds it on a page
with two ports; the case is recorded as "crossed" and excused. It also showed
that `MovesGrabbed` needs no hypothesis that the grabbed element is still there.

**Library_proofs.** For any number of blocks, edits, acts, calls in flight and
failures. `UndoStandsOnFields` follows from `HistoryInv`: the position is in the
history, which is not too long, and `PushedHistory` says what `pushSnapshot`
leaves of it in either branch. `RunIsOfTheGrid` rests on a lemma about the two
functions at the ends of a run: `StimulusDrives`, for any grid and any number of
cycles what the runner drives from `buildStimulus` is the grid (the latest
script record before a cycle exists, and the input has not changed since);
`SimInv` keeps grid, call and result together. The three properties of the page
say nothing of calls in flight, so `LibraryInv` does: `Versions` (the stamp tells
a block's versions apart, and nothing in flight is newer than the store), `Solo`
(what the marks of overlap say of the calls), `Arrives` and `Fetched` (a block or
list that nobody else changes arrives as it is stored), `Shows` and `Lists` (what
the editor and the page show, and what the one call that may change it will make
of it), `MadeFor` and `Given` (which block everything was made for, and that ids
are never given twice). It is proved by one lemma per kind of step: a call is
sent, comes back without or with a change of the store, its answer is handled.
From it `ListIsTheStore`, `CleanEditorIsStored` and `UndoKeepsToBlock`.

**Device_proofs.** For any number of stations, modules, handlers, acts and
failures. None of the three properties says what a handler in flight is about to
do, so `DeviceInv` does. `BoundPointsLive` needs `AsksFirst`: what is left to
disable or to delete was asked about while it was free, or the ask is on record as
failed or overtaken. `RestingPageIsFresh` and `AcceptedEditsKept` need what a
handler may count on while no second one is in flight (`Alone`, until `raced`):
`Steadies` says that the page is fresh when it asks and when it is about to write
a module, that the rows a save carries are up to date, that the handler of a new
station keeps to the station that is selected, and that what a refresh has read so
far is what is stored; `Quiet` is the fresh page once it is over. One lemma per
action; what an action may do to the other handlers is in three frames
(`StartTask`, `PutTask`, `StoreChanged`).

**Only model-checked.** The liveness properties: `Verdict`, `LoopProgress`,
`EventuallyReported`, `PlatformLive`, `SilenceNoticed`, `StandbyTakesOver`,
`EditSettles`, `AnalysisSettles` and `ComesToRest`. Fairness and ENABLED are out
of TLAPS's reach. Every other property of every run is a theorem.

## 6. Not modelled, and why

* Instructions, stacks and memory checks of the interpreter, section parsing of
  the loader: planned below.
* `compute_diff` and `apply_patch` of the download manager: a byte diff whose
  result nothing uses.
* CRC32, HMAC-SHA256, byte layout of frames and snapshots: only whether a check
  holds is used. Key files of the deploy service: plain file access.
* The `VM_Interface` wrappers of the RT-Thread port: one call each.
* The compiler: proved in Coq.
* Layout and wording of the pages: routing of wires, zoom, sizes, colours,
  translations, key bindings; the monitor, waveform and download pages, which
  show one answer at a time.
* Import and export of block files, the list of recent blocks, version control
  of a project, the static checker and the composition of a program: pure
  functions or plain file access.
* Code generation, build, monitor, HTTP and LSP entry points: sequential, text
  or routing.

## 7. Plan

Modules, most important first:

1. **IOMapping**: channels with latched faults, saturation at the safety
   limits, addresses of a small width that wraps; the cycle refines
   `ScanCycle`.
2. **Collaboration**: locks with expiry and the WebSocket hub with suspension
   points. One holder of a document; a reconnected user stays connected.
3. **Force**: the stimulus table and the simulator's cycle; the insertion sort
   against a reference definition.
4. **Sidecar**: the desktop shell's supervising thread and exit.
5. **Interp**: stacks and frames over scans, with `vm_run` emptying one of the
   two stacks.
6. **Registry, BlockFiles**: an end of the process between two files.

Theorems: the safety part of liveness, that every step of a handler, a transfer
or a pass of the agent's loop lowers what is left of it (`Verdict`,
`LoopProgress`, `ComesToRest`), and for each module above its invariant with it.
