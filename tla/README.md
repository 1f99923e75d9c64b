# TLA+ models of Luma

Luma (`luma-wm`) is a Wayland desktop in Rust on Smithay: a compositor with
tiling, workspaces, session lock, screen capture and recording, a control
socket, a recording engine, a game-capture muxer and two shells. This
directory models the parts in which state, callbacks, threads and other
processes meet, checks them with TLC on small instances, and proves the most
important of their properties with TLAPS for every value of the constants.

Paths are relative to `src/`; `C/` is `crates/compositor/src/`, `N/` is
`crates/shell-sctk/src/`, `G/` is `crates/shell/src/`. `PROJECT.json` maps every
definition to its source lines.

## 1. The system

| Part | State it keeps | Operations | Meets |
|---|---|---|---|
| Session lock (`C/lock.rs`, parts of `C/udev.rs`) | `locked`, `generation`, `confirmation`; a `LockOutput` per output | lock, unlock, lock surfaces, `lock_presented` | KMS flips, hotplug, VT switches, recorder, capture |
| Recorder control (`C/recorder.rs`, `recorder` commands in `C/policy.rs`, boost in `C/state.rs`) | engine and launcher handles, pipe, state, boost timer, capture override | start, stop, pause, poll, abort | engine processes, lock, capture |
| Capture sessions (`C/state.rs`, `C/capture.rs`) | sessions, pending frames, generations | new session, frame, abort, boost tick, redraw, commit | engine, other clients, lock |
| Workspace policy (`C/policy.rs`, `C/shell/xdg.rs`) | windows, workspace per output, focus, space | workspace, send, scratchpad, focus, move, `maintain_desktop` | hotplug, clients, rules |
| Control socket (`C/ipc.rs`, `crates/control`) | socket, handler threads, command channel, snapshot, subscribers | serve, command, subscribe, publish | event loop, shells, `wmctl` |
| Settings (`crates/core/src/lib.rs`) | configuration, overlay file of the recorder | load, validate, reload, persist | file watcher, recorder panel |
| Layout (`crates/core/src/lib.rs`, `C/policy.rs`) | ratio, monocle, floating rect | `tile`, `floating_rect`, directional focus | outputs, policy |
| Service supervision (`C/policy.rs`) | children, services, attempts | spawn, supervise, end | shells, portals |
| Screencopy (`C/screencopy.rs`) | waiting frames | copy, copy with damage | redraw, lock, unplug |
| Outputs (`C/udev.rs`) | connectors, `SurfaceData`, modes, leases, frames in flight, timers | scan, mode change, lease, flip, repaint | kernel, cables, VT |
| Animations (`C/policy.rs`, `C/transitions.rs`) | openings, movements, closing images, one timer | begin, tick, finish | policy, redraw |
| Input (`C/input_handler.rs`, `C/focus.rs`, `C/shell/grabs.rs`) | pressed and suppressed keys, tap, focuses, constraints, grabs | keys, buttons, motion, touch, tablet, grab | clients, layers, lock |
| Recorder engine (`crates/recorder`) | command queue, buffer pool, time line, pipeline | start, frame, pause, stop, finalise | compositor, GStreamer |
| Game capture (`crates/game-capture-*`) | stream, queue, FFmpeg child, file | authenticate, packet, write, finalise | hooks, FFmpeg |
| SCTK shell (`N/main.rs`) | rows, tray items, menu, panel cursors, labels, wallpaper, surfaces | event loop handlers and monitor threads | D-Bus, control socket, Wayland |
| GTK shell (`G/`) | tray registry, media position, volume, networks, pairings | callbacks of one main loop | D-Bus, child processes, NetworkManager, BlueZ |
| Nested backends, native hooks, tools | – | – | see *Not modelled* |

The compositor's state belongs to one thread, the calloop event loop; the
shells have a main loop each, and threads that only talk to it. The hard
behaviours come from what surrounds these loops:

* **Callbacks.** Page flips are reported later than the frames were drawn and
  may concern an output or a lock that is gone; a client acknowledges a
  configure that is no longer current; a reply arrives for a page, a player or a
  pairing that was left.
* **Processes.** Engines, launchers, shells and applications die at any moment,
  including between the decision to stop them and the write to their pipe.
* **Several handlers in one turn.** Commands, requests and hotplug leave the
  policy unrepaired until `maintain_desktop` at the end of the turn.
* **Threads.** Connections of the control socket, the engine's four threads, the
  muxer's writer, the shells' monitors: channels with bounds and time limits.
* **Identity by order or index.** The recorder's session is "the next one"; a
  cursor is an index into a list that changes.
* **The disk.** A setting is written, synced and renamed; a crash may fall
  between.

What makes each part correct is stated with the runs in section 3.

## 2. Modules

Each component has a module with its state, `Init`, one action per handler or
step, `Next`, and its properties. Operators named `Mut...` are slips of the
definition that follows them; no specification uses them, they show that the
properties can fail.

| Module | Models |
|---|---|
| `LockPromise` | what locking promises a locker (abstract specification) |
| `SessionLock` | `C/lock.rs` and the frames it depends on; refines `LockPromise` |
| `RecorderControl` | `RecorderController`, its commands, boost, aborts |
| `CaptureSessions` | capture sessions, composed with `RecorderControl` (which it EXTENDS) |
| `RecorderEngine` | the recording engine: reader, main, encoder and pipeline threads |
| `GameMuxer` | the muxer of a game capture: hook, packets, writer, FFmpeg, file |
| `Workspaces` | workspace policy and `maintain_desktop` |
| `Layout` | tiles, floating rect, their commands, directional focus |
| `Settings` | configuration, overlay, reload, crash between the steps of a write |
| `Screencopy` | frames of the older copy protocol and their buffers |
| `Supervisor` | applications and services of the session |
| `Ipc` | connection threads, commands, snapshot, subscribers |
| `IpcSocket` | taking over the socket at start-up |
| `Devices` | connectors, modes, HDR state, leases, GPU and seat |
| `RenderLoop` | what makes one output repaint, failed renders included |
| `Scene` | animations and their timer |
| `Keys`, `Pointing`, `Grabs` | keyboard; pointer, touch, tablet and focus; interactive moves and resizes |
| `ShellNotifications`, `ShellTray`, `TrayMenu`, `RecorderPanel`, `ShellMonitors`, `VideoWallpaper`, `ShellLauncher`, `ShellSurfaces` | the SCTK shell |
| `TrayWatcher`, `MediaPosition`, `AudioControl`, `WifiPanel`, `Pairing` | the GTK shell |
| `Retain` | `Vec::retain` as a recursive function, with the facts about it that proofs use |
| `MCSessionLock` | one component on a small instance |
| `MCClients`, `MCRecording`, `MCDesktop`, `MCProgress`, `MCShell` | several components side by side |
| `ClientsProofs`, `RecordingProofs`, `DesktopProofs`, `ProgressProofs`, `ShellProofs` | the theorems about these five, the first two also those about what they compose (the lock, the capture sessions) |
| `LabelProofs`, `WifiProofs` | the labels, position, volume and networks of the shells, and the theorem `LabelsSettle` comes from; the notifications |

**Side by side.** The last five modules put components into one instance whose
variable `part` is chosen in the initial state: a behaviour runs one component,
the others keep a fixed initial value. These components share no variable in the
code, or only one that the component's module already treats as free input (a
lock request, a VT switch, a config change), so an interleaving of two of them
adds no behaviour to either. Their fairness and properties are those of the
component's module, guarded by the part. Where components do share state they
are composed for real: `CaptureSessions` extends `RecorderControl`, the lock
carries its own frame pipeline.

### Compositor

`SessionLock`. Per output the KMS pipeline (`pending` frame, `queued` frame
behind it, what the `screen` scans out), its `damage` and `repaint` timer; the
queue of `idle` callbacks; the lock objects of the `client`s. A frame is
abstracted to what it shows: the desktop (0) or the lock generation it was
tagged with in `render_surface`. Presentations saturate at two, the only values
the code tells apart. An unplugged output's callbacks keep the old `Output`
object, here `Gone`; `ActivateSession` may lose any frame in flight.

`RecorderControl`. Processes are numbered in the order they start; `life` says
whether one runs, was told to stop or is dead. Handlers are modelled whole: a
refused `recorder start` still runs the lines that changed the capture source
(`StartRefused`), a stop may find the pipe broken (`StopBroken`), `Lock` and
`PauseSession` abort. A region capture is one of `Sources`.

`CaptureSessions`. Sessions by owner (an engine or another client): `tag` is the
`recorder` mark, `fresh` the sessions whose `last_generation` is not the current
one, `pending` the queue; `delivered` holds the frames completed in the last
step and what they show.

`Workspaces`. `windows` is `desktop.windows` in order, `shows` the workspace of
each output, `placed` the windows that are elements of the space. `Maintained`
is what `maintain_desktop` computes. Handlers leave `settled` false; assertions
of the code that fail are recorded in `panicked`.

`Layout`. The arithmetic of the code on integers, for every area, gap, ratio and
number of tiles of the instance; the commands that change them are its actions.

`Settings`. A file is absent, bad, torn, or a record of its `[recorder]` section
and the rest. A write of the overlay has three steps on the disk and the
compositor may die between any two.

`Screencopy`. A frame's buffer is with the client, held or released; `waiting` is
the bounded queue served by the redraw.

`Supervisor`. Applications and services by start number; `attempts` counts the
starts of a service, limited to three.

`Devices`. `cable` is the physical truth, `scanned` what the last scan found,
`surface` the `SurfaceData`; the kernel may refuse a mode or an HDR property.
`RenderLoop` follows one output through redraw passes, flips, throttled vblanks,
repaint timers, and the timers that try a failed render again; timers whose
token was dropped or overwritten go on as `orphans` and `loose`. `Scene` keeps
for each window the time its opening and movement have left.

`Keys` models a key event as `keyboard_key_to_action` filters it. `Pointing`
covers surfaces with sets of spots; one turn handles any number of events, then
maintenance corrects the focus (`settled`). `Grabs` carries the configures on
their way to a client in `wire`, acknowledged and committed in any rhythm.

`Ipc`. The desktop's state is a version number; `Run`, the publication and
`Reply` are the loop's steps for a command, `GiveUp` the two-second time limit,
which may fall before the command runs. `IpcSocket` has one action per system
call of the first half of `serve`.

### Recording processes

`RecorderEngine`. Time is counted in frame intervals. `shot` is the capture under
way, `spare` the free buffers, `backlog` the channel to the encoder worker,
`pushing` what the worker is doing, `releases` the buffers whose notification is
on its way. `GameMuxer`: the hook sends packets in any order the protocol can
express (`wire`), `handed` is the bounded channel to the writer, `output` the
file.

### Shells

Threads are modelled step by step: what a thread read and has not yet sent is
state (`reading`, `fetches`, `lister`, `refresher`), and so are the channels
(`inbox`, `outbox`, `trayQueue`, `mail`, `calls`). `ShellMonitors` is one module
for five monitors of the same form, told apart by `service`. D-Bus, BlueZ,
NetworkManager, `pactl` and players are external: they answer late, fail or restart. Some
properties except a change that the code by its design does not see; each such
exception is a history variable that says when it applies (`overtaken`,
`crossed`, `missed`, `evicted`, `overlap`, `unseenLevel`, `stale`).

## 3. Runs

| Run | Instance | What it checks |
|---|---|---|
| `lock_safety` | 2 outputs, 2 lockers, 2 generations, 1 hotplug, 1 VT switch; symmetric | every mapped output is covered while locked, counted frames are on screen, `locked` is told only when no output shows the desktop; `LockInv`, with `UnlockUncovers`; refinement of `LockPromise` |
| `clients` | lock: 2 outputs, 1 locker, 1 hotplug; socket: 2 commands, 1 subscriber, 2 threads, queue of 1 | `ClientsSound` (an unlocked session is uncovered, replies are fresh, connections are counted); an accepted lock is confirmed, an unlock brings the desktop back, a subscriber catches up, a hang-up gives its place back |
| `recording` | recorder: 3 processes, 3 sources, 2 locks; engine: 2 buffers, 2 orders, 1 mishap; muxer: 5 packets, queue of 1 | `RecInv`, `LockedMeansStopped`, `RecordingSound` (pause agrees, no buffer is drawn into while read, the time line adds up, the file is what was reported); `DeathNoticed`, `StopEnds` (an engine told to stop ends, by itself or by the kill), `EndsWithItsHook` |
| `capture` | 2 engines, 1 other client, 3 sessions, queue of 2 | `CaptureSound`, `HiddenCapturesNothing`, `NoRepeats`, `StaticScreenRecorded` |
| `desktop` | workspaces: 2 outputs, 2 workspaces, 2 windows, one with a rule; layout: up to 4 tiles over 20 areas; settings: 3 edits, 2 sets, 1 crash; screencopy: 3 frames, queue of 1; socket: 3 compositors; keys: 2 letters, 2 chords; pointing: 2 windows, 2 layers, 2 spots; grabs: 1 window, 2 configures in flight | `WorkspacesSound`, `LayoutRight`, `ServicesSound`, `OwnsSocket`, `GrabsSound`, `WorkspacesExchanged`, `HiddenNeverCopied`, `TapOpensLauncher`, `ClickAgrees` |
| `progress` | 2 services with 3 starts; 2 windows, 2 places; 1 output with 3 changes, 2 faults, 2 switches; 3 connectors, one a headset, 3 mode lists; 2 pairings of 1 device, 2 restarts of BlueZ | `DesktopSound`, `PairingSound`, `ServiceComesBack`, `BecomesIdle`, `ScreenSettles`, `PairingEnds` |
| `shell` | the thirteen shell parts with two of everything that can meet (the cfg) | `NotificationsSound`, `TrayShown`, `PanelsSound`, `LabelsSettle`, `SurfacesSound` |
| `recorder_source` | 1 window recording | violation: `SourceStays` |
| `recorder_stop` | 1 recording | violation: `ActiveStateHasProcess` |
| `capture_source` | 1 engine, 1 other client | violation: `EngineShowsSource` |
| `workspaces_fullscreen` | as in `desktop` | violation: `FullscreenFindsWindow` |
| `socket_race` | 2 compositors starting together | violation: `OwnsSocket` |

The names ending in `Sound`, `Right`, `Shown` and `Settle` are conjunctions,
defined in the MC modules, of the type invariants of their parts and of:

* `ClientsSound`: `UnlockUncovers`; `IpcInv` (`LiveCounts`, `ReplyIsFresh`, a command
  is in one place).
* `RecordingSound`: `PauseInv`; `PoolSound`, `TimelineAddsUp`, `EngineInv` (every
  buffer is in one place, every release has somebody who looks at it); `MuxerInv`
  (`FileIsHonest`, the units received are written or on their way).
* `CaptureSound`: `PendingHasSession`, `FirstFrameIsNew`.
* `WorkspacesSound`: `NoWindowLost`, `FocusShown`, `MaintainStable` (a second
  maintenance changes nothing), with their invariant `WsInv`.
* `LayoutRight`: a floating window is inside its area, tiles are inside and
  apart, directional focus reaches every tile from every other.
* `ServicesSound`: `SettingsInv` (an accepted setting survives a crash, a settled
  compositor has what the file says), `CopyInv` (`BuffersComeBack`), `SocketInv`.
* `GrabsSound`: `GrabsInv` (`GrabIsResizing`); `KeysInv` (an unused tap is clean);
  `PointingInv` (when a turn ends the pointer's focus is what is under it).
* `DesktopSound`: `NothingOutlives`, `SceneSound`, `ChangeRemembered`,
  `NoPhantoms`, `ModeAsRequested`. `PairingSound`: `LinksReleased`,
  `AnswersTheQuestion`. Each comes with the invariant it is proved from (`SceneInv`,
  `LoopInv`, `PairingInv`, ...).
* `NotificationsSound`: `Accounted`, `TimedRows`, `PanelMatchesRows`, `DismissalsTold`.
  `TrayShown`: `TrayAgrees`; `RowsAreThePage`; `ListedIsOwned`, `SignalsAgree`.
  `PanelsSound`: `ReadyMeansStartable`; `SettingsEdited`. `LabelsSettle`:
  `LabelsCatchUp`; `SettlesOnPosition`; `ShownIsTrue`, `LastChoiceKept`;
  `NetworksShown`, `ConnectionIsTrue`. All come with their invariants.
  `SurfacesSound`: `NoLostRedraw`, `ArmedOnThePage`; `OneDecoder`;
  `SelectionOnResult`.

**Bounds, and why they are enough.** Two outputs are needed for one to be ready
before the other and for workspaces to be exchanged; two lock generations for a
late callback of an earlier lock; one hotplug and one VT switch interleave with
everything else, and two of a kind only repeat. Two engine processes let a
stopped engine meet its successor; the third is a launcher among them. Queues
(32 frames, 8 snapshots, 32 threads, the engine's pool, the muxer's channel) are
constants set to the smallest value that the run exceeds. In the shells two items
that overtake each other are the hazard, so two (three events or fetches where
one must be under way while two more come) suffice. The layout's areas hold the
degenerate ones, 0, smaller than the gap, smaller than the tiles, and ordinary
ones. Counters that would not end (commits, edits, restarts) have a bound, named
`Max...`, in the guard of the action that raises them; in the runs with liveness
the users and clients therefore stop at some time, which is when "in the end" is
asked.

Deadlock checking is off in every run: the systems may stop when their bounds are
used up, and an idle desktop does nothing.

**Fairness**, and why the code justifies it:

* `SessionLock`: the redraw pass follows every dispatch of the main loop,
  whatever else the dispatch did, hence strong fairness; idle callbacks, flips
  of submitted frames and repaint timers of an active session come (weak).
* `RecorderControl`: while the boost timer is installed it wakes the loop, and
  `maintain_desktop` polls; the detached waiter kills a stopped process after 20 s.
  Without the boost nothing wakes the loop, and nothing is assumed.
* `CaptureSessions`: the boost timer fires again.
* `RecorderEngine`: the reader, main and encoder threads run. The compositor and
  the pipeline owe nothing, and three waits of the engine are theirs to end, none
  with a limit (`Held`): the requests at the start and `blocking_dispatch` for a
  frame (`crates/recorder/src/main.rs:1160`), which a line on stdin does not wake and
  which a static screen need not answer, since a stop removes the boost timer
  (`C/state.rs:947`);
  the push into a full pipeline; and the end of the stream, before whose limit of
  ten seconds the audio threads are joined without one. So `Dispatch`, `StartUp`,
  `Drain` and `Finalize` have no fairness. What ends such a wait is the kill of
  `wait_detached` (`C/recorder.rs:702`) twenty seconds after the stop, and the file
  may then be cut. `Held /\ Killed` asks for it only where the engine stays held;
  the code kills every engine that lives so long. With the pool's buffers all in
  a pipeline that keeps them the main thread does not wait: it reads commands.
* `GameMuxer`: its two threads run, and FFmpeg ends once its input is closed. The
  hook is free.
* `Ipc`: a subscriber's thread runs, since `recv_timeout` returns after two
  seconds at the latest.
* `Supervisor`: the timer's callback arms it again. `Scene`: every turn ends in
  maintenance, timers fire, time passes between turns (strong, since a change
  may come first). `RenderLoop`: calloop dispatches what is ready, a flip of a
  working device completes, a seat that was taken is noticed.
* `Pairing`: the calls of a pairing return, by their time limit if need be. BlueZ
  and the user are free.

No client, user, cable or external service is assumed to act.

## 4. Findings

Each is a run that expects a violation.

* `recorder_source`: a refused second start resets the capture source of the
  window recording that runs, which then records the whole output.
* `recorder_stop`: a stop that meets a dead engine leaves the state active with
  nothing behind it; the panel then offers stop, which cannot work.
* `capture_source`: a capture client that opens a session between `recorder
  start` and the engine's own session takes the recorder's mark.
* `workspaces_fullscreen`: a fullscreen request naming an output from a window
  that is not in the space fails an `unwrap`.
* `socket_race`: two compositors starting over a stale socket: one unlinks the
  live socket of the other.

Observed while reading, and not kept as runs because no text of the repository
promises otherwise:

* `focus ID` keeps an index across `maintain_desktop` (`C/policy.rs:1075`).
* Output files are named by the second (`C/recorder.rs:67`).
* A redraw pass completes commit-driven frames without a commit
  (`C/state.rs:957`).
* Readiness of a lock is not looked at again when the last unready output is
  unplugged (`C/lock.rs:204`).
* A resize from the top or left edge of a window that a workspace switch took
  out of the space reaches the `unwrap` at `C/shell/grabs.rs:642`.
* Suppressed releases are remembered by key symbol, which Shift changes
  (`C/input_handler.rs:264`).
* A throttle timer outlives its output (`C/udev.rs:2279`), and a repaint timer of
  an unplugged output clears the token of its successor.
* `1_000_000 / output_refresh` panics for a mode that reports 0
  (`C/udev.rs:2651`).
* A locker whose request was denied may still ask for lock surfaces, and one made
  for an unlocked session covers its output (`C/lock.rs:163`).

One more disagrees with a text. It is not kept as a run, since it is not a matter of
steps: in `ShellLauncher` the list is the constant `SnapshotWindows`. `README.md:264`
says "`@` results update as windows change". The GTK launcher does so
(`G/main.rs:617`); the SCTK launcher is the one process that does not subscribe to
snapshots (`N/main.rs:1784`), so its list of windows stays empty.

## 5. Proofs

Theorems hold for every value of the constants: any outputs, clients, processes,
windows and queues, any bounds. They rest on the named assumptions of the modules
(`LockAssumption`, `RecorderAssumption`, `SettingsAssumption`, ...), which say
that bounds are naturals, that the sets that must be finite are, and that special
values are not members of the sets they complement; TLC evaluates them in the
runs. Those with a hypothesis of their own name it, and so does the text below.

A composed module (`MCClients`, `MCRecording`, `MCDesktop`, `MCProgress`,
`MCShell`) is proved part by part: each part has an inductive invariant, a step of the whole is a step or a
stutter of every part, and the property is the conjunction over the parts. The
invariants are definitions of the components (`LockInv`, `IpcInv`, `MuxerInv`,
...), so that the runs check them as well as what they imply. Where two
compositions name a part through an instance, a lemma such as `EngineInvParts`
states the invariant once more in smaller pieces and proves the two equivalent.

| Theorem | Property | Inductive invariant |
|---|---|---|
| `LockInvariant`, `ConfirmedHidden`, `CountedOnScreen`, `LockCovers`, `PromiseKept` | of `lock_safety`, the refinement included | `LockInv` |
| `ClientsInvariant` | `ClientsSound` | `LockInv`, `IpcInv` |
| `RecInvariant`, `LockStopsRecording`, `BoostOwned`, `RecorderUnique` | of `recording` | `RecInv` |
| `CaptureIsSound`, `HiddenIsNotCaptured`, `NothingIsRepeated`, `RecorderSurvivesSessions` | of `capture`, and `RecInv` | `CapInv` |
| `RecordingIsSound` | `RecordingSound` | `RecInv` with `PauseInv`; `EngineInv`; `MuxerInv` |
| `SocketInvariant`, `SocketExclusive` | `OwnsSocket` | `SocketInv` |
| `ServicesAreSound` | `ServicesSound` | `SettingsInv`, `CopyInv`, `SocketInv` |
| `GrabsAreSound` | `GrabsSound` | `GrabsInv`, `KeysInv`, `PointingInv` |
| `HiddenIsNotCopied`, `LauncherIsTapped`, `ClickHasOneAddressee` | the action properties of `desktop` | `CopyInv`; `KeysInv`; `PointingInv` |
| `WorkspacesAreSound`, `SpacesStayApart` | `WorkspacesSound`; `WorkspacesExchanged` | `WsInv` |
| `FloatStaysInside` | `FloatInside`, a part of `LayoutRight` | `FloatInv` |
| `DesktopStaysSound` | `DesktopSound` | `SupervisorInv`, `SceneInv`, `LoopInv`, `DevicesInv` |
| `PairingStaysSound` | `PairingSound` | `PairingInv` |
| `SurfacesStaySound` | `SurfacesSound` | `SurfacesInv`, `WallInv`, `LauncherInv` |
| `PanelsStaySound` | `PanelsSound` | `PanelInv`, `PanelSettingsInv` |
| `TrayStaysShown` | `TrayShown` | `TrayInv`, `MenuInv`, `WatcherInv` |
| `LabelsStaySettled` | `LabelsSettle` | `MonitorsInv`, `PositionInv`, `AudioInv`, `WifiInv` |
| `NotificationsStaySound` | `NotificationsSound` | `NoticesInv` |

**SessionLock.** `ConfirmedMeansHidden` is not inductive: a desktop frame still
pending or queued, or the late callback of one, breaks it one step later.
`LockInv` therefore follows the pipeline: no frame, callback or `LockOutput`
carries a generation not yet started; unplugged outputs hold no frames; behind a
frame of the current lock nothing older is pending or queued (`FlipsInOrder`); a
callback of the current lock reports a frame that is on screen
(`CallbacksAreOnScreen`); after the confirmation the whole pipeline is clean
(`ConfirmedMeansClean`). From it follow the invariants, and `PromiseKept`, that
every step is a step or a stutter of `LockPromise`.

**Clients.** `ClientsInvariant` has no hypothesis. A client whose request was denied
may still create lock surfaces, and `new_surface` does not look whether the session
is locked; the history variable `strays` collects the outputs of an unlocked session
that such a surface covers. `UnlockUncovers`, a part of `LockInv`, says that nothing
else does: an unlock resets every output, one plugged in or remembered as `Gone`
included, and no surface of the client that held the lock comes after it. It takes two
clients, one denied while the other's lock is unlocked, or a denial during a VT switch,
so this is explored in `lock_safety`; the one client of `clients` is denied only while a
lock it gave up still holds, and the exception that `DesktopReturns` makes for `strays`
does not occur there. On the control
socket `ReplyIsFresh` speaks of responses that were given; a step before,
the result waits in the reply channel, and before that in the loop's hands.
`RunBefore` says of each of these places that a success has run, and `OnePlace`
that a command is in one of them only and once in the queue. `LiveCounts` needs
that the set it counts is finite, a fact no bound implies and every step keeps.

**RecorderControl.** `RecInv` adds `HandlesOK` (handles are of started processes
of the right kind, the pipe is held exactly with the engine) to
`LockedMeansStopped`, `BoostHasEngine` and `OneRecorder`; each needs
the others: a lock stops the boost only because the boost has an engine that is
aborted. `PauseInv` adds to `PauseAgrees` that a process not yet started has not
been paused, else the next start would find a paused engine shown as recording.

**CaptureSessions.** `CapInv` joins `RecInv` with the three properties of the run.
`FirstFrameIsNew` is what makes `NoRepeats` inductive: the first frame of a client
is completed at once, whatever changed, and is new only because nobody has marked
the session's generation as seen.

**RecorderEngine.** The pool's bookkeeping is spread over five places: spare
list, shot, backlog, the push in hand and the releases of the pipeline.
`PlacesInv` says that each buffer is in exactly one; `ReleasesInv` that a release
which is not yet retired belongs to the push in hand, so the last thread that
looks at it sees the flag and nobody returns the buffer twice; `TimelineInv` that
a push starts where the time line ends and that no pause began before the time
the pauses add up to. `PoolIsWhole` counts, so it follows through the
cardinalities of sets of one or no index (`CountOfOne`). The references held by the
pipeline are a sum over the buffers, a recursive function; `PartOfFlight` shows by
induction on the naturals that it is no less than any of its terms.

**GameMuxer.** `FileIsHonest` speaks of the end. `MuxerInv` accounts for the units
on the way there (`muxed` and those undelivered make up `received`), says that
"finish" is the last thing handed over, and ties the stages of reader, writer and
FFmpeg together, so that an indexed file is one whose writer saw all of them.

**Settings, Screencopy.** `SettingsInv` adds `WrittenIsWhole`: what is about to be
renamed is complete. `CopyInv` adds to `BuffersComeBack` that the queue holds only
frames there are and that an unused frame's buffer is unused.

**IpcSocket.** When starts do not overlap (`~Overlap`, the hypothesis of
`SocketInvariant`, `SocketExclusive` and `ServicesAreSound`), a compositor that is
about to unlink or bind is alone, so what it learned from connecting is still
true; `OwnsSocket` follows. With overlap it is false, as `socket_race`
shows.

**Keys, Pointing, Grabs.** `KeysInv` says that a tap still pending and not used up
has been clean since the press. `PointingInv` says that when a turn has ended the
pointer's focus is what is under it; `TestsAgree` then compares the two hit tests
of the code, which look at overlay and top layers, windows and lower layers in
different functions. `GrabsInv` adds to `GrabIsResizing` what the configures under
way say: while the final acknowledgement is awaited, none that was sent since the
release is of the resize, and when only the commit is awaited none is at all. A window that two devices resize at once is
excepted (`shared`): there the code does lose the state.

**Workspaces.** What maintain_desktop repairs, handlers may break, so between two runs
of it only `WsTypeOK` and `Adopted` hold: a window that lives is managed or still in
the space, and no two have the same id. That is all `MaintainStep` works from:
`AssignedFacts` (every output of the space gets a workspace, those that had one keep
it), `KeptFacts`, `AdoptedFacts` and `OnScreenLaw` say what each part of a run leaves,
and `AtRest` collects it. `StableAtRest` shows that such a state is a fixed point,
so `MaintainStable` need not be carried through the steps. `SpacesStayApart`
assumes a finite set of outputs, no larger than the number of workspaces a new output
may get: the code gives workspace 1 to an output too many (`unwrap_or(1)`). By the
pigeonhole principle (`FewerThanSpaces`) a new output then finds a free one.

**Layout.** floating_rect repairs any rect for any area, so the invariant needs
nothing but the types of what it is given; the lemma behind it,
`FloatingRectFits`, also shows that every clamp has its limits in order and
so does not panic. `LayoutAssumption` says that sizes are integers, of any sign.

**Supervisor.** `NothingOutlives` is inductive: its third part, that whatever is alive
or a zombie is held by `Desktop`, is what the other two need.

**Scene.** `SceneSound` speaks of the moments between two turns, so a turn may start
from windows and images it says nothing about. `ImagesOfTheGone` holds throughout: a
window outside the Space has nothing to move, and an image of a closed window belongs
to one that has not come back. A turn that ends on a hidden desktop then finds nothing
left to animate in the windows it does not visit.

**RenderLoop.** `ChangeRemembered` is not inductive: a throttled vblank takes the
repaint timer away. `FlightRemembered` says that while a flip is outstanding the timer
is never all there is.

**Devices.** `DevicesInv` is the two properties with the types. What they rest on is
`OneMode`: `select_output_mode` has one result for any list of modes, and one that is
near enough. `ConfiguredWell` and `SetUpWell` carry that through the three ways a mode
is chosen, refusals of the kernel included.

**Pairing.** `TaskFollows` relates the task of a pairing, which may outlive it, to the
pairing that is held: an active one has its connection from the registration of the
agent on, so the end of a request that failed finds a connection to close.

**VideoWallpaper, ShellSurfaces, ShellLauncher.** `OneDecoder` counts the decoders of
the current generation; `WallInv` adds that no decoder is of a later generation, so
the next start finds none of its own. `NoLostRedraw` and `SelectionOnResult` are
inductive with the types; what they need is, for surfaces, that every event marks
what it made old (`SurfacesStep`), and for the launcher that a list cut to the most
results it shows is no longer than that.

**RecorderPanel.** `RejectedOnlyInOverlap` speaks of the first command of each
thread. `OneAccepted` says what is behind it: what the compositor holds is
allowed, and while no two threads overlap the one that sends has only commands left
that were accepted, one after the other, for what is held. `EditKeepsItsRow` excepts
a click, which moves the edit and not the row.

**ShellTray.** `TrayAgrees` speaks of an application about which nothing is on its
way. `LastWordListed` says the same of every moment between: the last event in the
queue about an application, or what the bar shows of it if there is none, is what
the watcher's list says, unless a thread was overtaken. `ListedIsWatched` and
`OwnerFollowed` say that a listed application has one thread that follows its owner,
and that this owner is there or its loss has been signalled.

**TrayMenu.** `RowsAreThePage` is inductive with the types: a reply that is awaited
names the page at the end of the path, and each way to change the path empties the
rows.

**TrayWatcher.** `ListedIsOwned` excepts an owner of whom some change is on its way.
`ListedIsWarned` says more: a change that takes the entry along. An answer of the
bus is old when it is handled; `AnswersHold` says that it was true when it was given,
so that whatever took the name since then comes behind it in the mail, where it
finds the entry listed. `Numbered` keeps the request numbers apart.

**ShellMonitors.** `LabelsCatchUp` speaks of a monitor at rest. `SentIsCurrent` says
of every moment that the last reading sent is the service as it is, unless somebody
is due to send that. `ReadIsCurrent` says the same of a reading still held by a
thread that no other sent ahead of, and `NewIsNoted` that an object without a thread
has been signalled to the main one, so that its changes cannot go unheard for long.

**MediaPosition.** `SettlesOnPosition` needs that an old position on the screen has
its correction on the way (`PositionIsDue`), and that what is still in the mail about
an older jump has news of the last one behind it (`OldIsFollowed`). Whether an answer
to a seek counts as such news depends on the owner the panel will know when it comes
to it, hence the condition on what lies ahead. `OneAnswer` ties the flags to exactly
one call or answer each, and `OwnersTrack` says which player a seek was asked of.

**AudioControl.** `ShownIsTrue` holds because what a flag remembers is under way
(`FlagsUnderWay`), so that each of level and default device is shown, has been read
or will be read again (`LevelIsDue`, `SinkIsDue`). `LastChoiceKept` is inductive once
an idle writer is known to owe nothing.

**WifiPanel.** Three layers. `OwnerIsTold` and `RadioIsTold` follow the cached state
of the proxy: an old value, shown or in the mail, has a newer signal behind it.
`ListIsDue` and `ButtonsAreDue` say that an open panel shows what there is, will read
it again, or is about to be given an answer that is true; `AnswersCome` counts, so no
flag waits for an answer that is not coming. `ClaimsAreTrue` says of each message
about a connection that it is true or is followed by the truth or by the end of the
service, which is what `progress` needs when numbers are given out again after a
restart. A signal goes to the end of the mail and a handler takes its head, so both
are a matter of what comes after what (`Some`, `Fol` and the lemmas about them).

**ShellNotifications.** `Accounted` is not inductive alone: a dismissal in the queue
removes whatever row carries its id when it is handled, also one that replaced the
dismissed row meanwhile. `DismissalsTold` says why nobody is left without a word even
then: the id a click dismissed is still in the channel back, its client has been
told, or a notification of that id comes behind the dismissal. `NoticesLaw` restates
the invariant over positions, `EventTaken` and `EventHandled` treat the head of the
queue for all handlers, and `RowsReported` what is sent back for a set of rows,
whatever the order.

**Lemmas about operators.** `Retain` defines `Vec::retain` as a recursive function,
because what `SelectSeq` does with its operator parameter is closed to the
provers. `RetainDef` unfolds it by induction (`SetInduction`, stated about a set of
naturals and not a predicate), `RetainFacts` says which elements are kept and that none is
repeated that was not, `RetainAll` that a filter all pass changes nothing. The loop
over the outputs in `Assigned` is a recursive function unfolded in the same way.

**Only model-checked**, and why:

* Every liveness property, and whatever speaks of `ENABLED`: out of the prover's
  reach under fairness.
* `TilesFit` and `FocusReaches` in `LayoutRight`: the sum of the cells' heights
  divides and multiplies variables, and reachability is a recursion over tiles.

## 6. Not modelled

* **Pixels**: shaders, blur, easing, cursor images, drawing and hit testing of
  the shells – floating point and GPU state.
* **Native capture layers** (`native/`): behaviour of GL, Vulkan and NVENC
  drivers that the source does not define; several are prototypes.
* **Nested backends** (`C/winit.rs`, `C/x11.rs`): development only, without
  lock; their loops do what `C/udev.rs` does with one output.
* **Parsing** (TOML, JSON, packet framing): done by libraries or byte by byte;
  in the models an input is valid, bad or torn.
* **Media list, GTK tray icons and notifications** (`G/media.rs`, `G/tray.rs`,
  `G/notifications.rs`): callbacks of the same form as
  the modelled ones, several replaced by the SCTK shell.
* **Tools and packages**: scripts without state of the running system.
* Inside modelled parts: replay saving and statistics of recordings, buffer
  validation and cropping of captures, maximize, minimise and performance modes,
  VRR, cursor planes and copies between GPUs, popups, X11 windows, drag and
  drop, gestures, libei's translation of events, the engine's audio and codecs.

`PROJECT.json` lists every component with its status and reason.

## 7. Plan

1. An abstract specification of a recording that `RecorderEngine` and
   `RecorderControl` both refine.
2. `TilesFit` and `FocusReaches` for any number of tiles, from bounds on the sums of
   the cells' sizes that avoid division.
