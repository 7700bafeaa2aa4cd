# A TLA+ model of xdg-desktop-portal-generic

This directory models the portal backend in `src/` in TLA+, checks the models
with TLC on small instances, and proves some of their properties with TLAPS for
every value of the constants. Paths below are relative to the crate
(`session/manager.rs` is `src/src/session/manager.rs`); `PROJECT.json` maps
each definition to the lines it stands for.

## The system

The portal is one process with several threads:

| thread | runs |
|---|---|
| tokio runtime | every D-Bus method call as a task; the disconnect monitor, the periodic cleanup, the InputCapture activation bridge, the clipboard signal bridge, the output and settings monitors (`lib.rs`) |
| Wayland event loop | dispatch of compositor events, capture and InputCapture commands from channels (`wayland/mod.rs`) |
| PipeWire thread | streams and their buffers, commands with reply channels (`pipewire/mod.rs`) |
| data-control worker | the clipboard's Wayland connection (`crates/lamco-data-control`) |

Shared state is behind tokio mutexes (session manager, input backend, capture
backend, clipboard backend) and `std` mutexes (state shared with the Wayland
thread, data-control state). Threads talk over unbounded channels.

### Inventory

**Session registry** (`session/manager.rs`, `session/state.rs`).
State: the sessions by object path, a count of sessions per application, and
for each session its owner, life cycle state, selections, EIS flag, InputCapture
fields and timestamps. Operations: create (with a limit per application),
validate, close one, close an application's, close a sender's, clean up stale
ones; on a session: select devices or sources, start, connect to EIS, enable
InputCapture, begin and end an activation, replace barriers. Hard: the counter
and the map must agree through five ways of removal; the idle cleanup depends
on timestamps. Correct when: counts are exact, the limit bounds the sessions,
a session only moves forward, nobody's disconnection costs another client.

**D-Bus handlers** (`dbus/session.rs`, `dbus/request.rs`,
`dbus/remote_desktop.rs`, `dbus/screencast.rs`). They keep no state but the
objects on the bus; they take the session manager's mutex, and within or after
that hold the backends'. Hard: what happens between two holds, an early return
after something was acquired, closing by another path than `Session.Close`.
Correct when: whatever a session acquired is released with it, once, and calls
return.

**Capture backends and PipeWire** (`services/capture/*`, `pipewire/*`). State:
`active_streams` by node id, the PipeWire thread's streams by node id, the
thread's stream objects. Hard: two tables on two threads, node ids that PipeWire
reuses, partial failure of a start with several sources.

**Frame capture** (`wayland/ext_capture.rs`, `wayland/screencopy.rs`,
`dbus/screenshot.rs`). A state machine per capture: constraints, buffer, frame
requested, ready or failed, paced; a handshake that can time out, stops and
failures in any state. Hard: answers that come after the capture was given up,
retries of what cannot succeed, a screenshot whose caller waits without a time
limit. Correct when: the protocol's rules are kept, no damage is lost, no frame
of one output is taken for another's, and every screenshot is answered.

**Input backends** (`services/input/*`). EIS: a context per session, an event
loop per context (handshake, negotiation, active), frames of events staged until
committed, emulation towards an InputCapture client. wlr: virtual devices, a
pool of dynamic keysyms that recompiles the keymap. uinput: a device file. Hard:
the pool and the modifiers are one for all the sessions, and events are resolved
when they are staged and injected when the frame is. Correct when: a client
types what it asked for, no key stays down, every keyboard has the keymap its
codes refer to.

**InputCapture** (`dbus/input_capture.rs`, `wayland/input_capture.rs`, the
bridge in `lib.rs`). State: enabled flag, activation id and counter and barriers
in the session; barrier surfaces with their pointer locks on the Wayland thread;
the EIS context. Operations: the D-Bus calls, the commands to the Wayland
thread, the compositor's events, the bridge that turns them into signals. Hard:
four actors and two channels, and each handler changes the session before and
outside the section that sends the command. Correct when: surfaces belong to
enabled sessions, one `Deactivated` ends one activation, a client told it has
the pointer has it, a locked pointer has somebody to release it.

**Clipboard** (`dbus/clipboard.rs`, `services/clipboard/*`,
`crates/lamco-data-control`). State: the current and pending offers, the own
source and its cached data, pending transfers by serial, pending writes by
serial. Hard: own and foreign selections, delayed rendering, replaced sources, a
device or a worker that goes. Correct when: a paste gets what its selection
holds, and the client and the sessions know whose the selection is.

**Detection** (`services/*/detection.rs`): which backend, from what the
compositor offers and the user prefers. **Outputs** (`wayland/dispatch.rs`,
`monitor_output_changes`, `services/input/wlr_backend.rs`): hot-plug, zones, zone
sets, the extent of absolute motion. Hard: everyone works from a copy of the
outputs taken at another time. Correct when: what is published was true, what is
stale is refreshed or its holder is told, and barriers and pointer land where
they were asked to be. **Settings, health**: cached desktop settings, reporting.


## The modules

    SessionRegistry <--implements-- SessionManager <--extends-- PortalResources
    MimeMatch       <--extends-- DataControl  <--extends-- ClipboardPortal
    FrameCapture    <--extends-- CapturePipeline
    LayoutGeometry, ProtocolSelection <--extends-- WaylandOutputs
    EisWire         <--extends-- InputInjection --implements--> PrivateKeyboards
    InputCapture

    SessionManagerProofs <-- PortalResourcesProofs
    QueueLemmas <-- InputCaptureProofs, ClipboardProofs, CapturePipelineProofs,
                    WaylandOutputsProofs, InputInjectionProofs
    MC*: instances for TLC

An action is a handler, or the part of one between two points where it waits,
releases a lock or sends to another thread. `Init` is what the constructors
leave behind. Names are the code's where it has one.

**SessionManager**. Variables `sessions`, `appCount` (the two maps) and `age`
(the two timestamps, in ticks). One action per method of the registry and per
transition of a session; every method runs under one mutex, so it is one step.
A handle that is not in the map has the value `None`, a count that is not in
the map is 0: the code removes an entry when its count gets to 0 and reads a
missing one as 0. `CloseAppSessions` drops the application's entry as the code
does, whatever its value, and is no special case of the other removals.
`Session::close` sets `Closed` on a session already out of the map, so `Closed`
is no value of a session in the map.

**SessionRegistry**. What the registry promises, without counters: an owner per
handle, admission by the number of sessions the application really has, and
release of any set. `SessionManager` implements it (`RegistrySpec`).

**PortalResources** extends SessionManager with what sessions hold elsewhere
and with the handlers. The session manager's mutex is a variable because
handlers hold it over awaits; a section that takes it and gives it back without
waiting is one step (`LockedSection`). The mutexes of the backends are held for
one uninterrupted section each, so they need no variable. `job` is what each
task is doing: a handler is split where it waits or releases a lock. The
disconnect monitor reads its signals (`NameOwnerChanged`) and does nothing, see
below. The handle of a new session is the frontend's choice: the portal compares
it with those of live sessions only, so that a handle whose object is still being
removed is accepted; `Unused` says that a frontend takes a fresh one, and the
fault `handle_reuse` that it does not.

| state | code |
|---|---|
| `own` | `Session::streams` |
| `active` | `active_streams` of the capture backend |
| `pw` | the PipeWire thread's streams; the model remembers for whom they were made |
| `eis` | sessions with a context in the input backend |
| `object` | `SessionInterface` objects on the bus |
| `lost` | NameOwnerChanged signals not read yet |

**InputCapture**. The sessions (started, with devices), the calls under way, the
command channel, the surfaces and locks, the event channel, the bridge task, the
EIS contexts, and what the client was told. A handler's section under the mutex
is one step; the command it sends afterwards (`SendCommand`) and the signals it
emits (`EmitSignals`) are steps of their own. `process_events`, which completes
an EIS handshake, is called by an embedding application and has no caller in
the repository; `Handshake` stands for it.

**DataControl** is the clipboard client: the worker thread's `State` (`source`,
`data`, `held`, `serial`, `pending`, `current`, `device`), what it shares with
its handle (`own_live`, `types`, `registered`), the command channel, the events
of the Wayland connection, and the compositor with the other clients. A
selection is known by its source: from 1 up the client's own, below 0 those of
others. A request takes effect in the compositor when it is made and its events
wait in `wire`; the worker learns of the compositor only by these. A paste is a
pipe: where it was asked for (`sel`), where it is now, and whose data it got.
**MimeMatch** is the choice of a type among those offered. **ClipboardPortal**
puts the D-Bus interface on top: the sessions, the bridge that signals
`SelectionOwnerChanged`, and what each session heard last. The consumer of the
crate is either the portal, which registers for changes only, or a program that
uses the client directly with delayed rendering; `Init` chooses.

**FrameCapture** is the map of active captures on the Wayland thread, for both
protocols, with the compositor as environment. A capture's record has the fields
of `ActiveCapture`, as far as control depends on them: constraints seen, the
buffer and what it was made for, a frame pending, live frame objects, copies
requested, due and late (the two facts of time), damage, and retries. Handlers
of one event are functions of that record, since both protocols and both kinds
of capture share them. `dirty`, `told` and `picture` are on the other side: what
changed on an output since the last completed frame, what the consumer was told,
and what it now draws. **CapturePipeline** adds the threads before and after:
the capture backend that creates a PipeWire stream and then starts a capture,
the two command channels, the PipeWire thread, and the Screenshot call with its
oneshot reply.

**InputInjection**: EIS clients and Notify calls on one side, a virtual keyboard
per session on the other. `pool`, `keymap` and `down` are the pool of dynamic
keysyms, the compiled keymap and the modifier state, one for all sessions;
`pending` are the staged events of a frame. An event carries what its client
asked for, which the program does not have: on delivery the model compares it
with what the compositor makes of the key under the keymap of that keyboard, and
collects what differs in `wrong`. **EisWire** are two pure conversions: scroll
deltas to wheel clicks and texts to the pieces `ei_text.utf8` can carry.

**PrivateKeyboards** says what injection promises without keymaps, keycodes, a
pool or modifiers: a session has a keyboard to itself, with keysyms down on it,
and a list of what its client asked for since the last frame. InputInjection
implements it (`KeyboardsPrivate`): what a keyboard types is read off the keys it
holds and its own copy of the keymap (`Typing`), what waits is the staged events
without their keycodes (`Waiting`). A splice for one session is then no step of
any other, and a keysym's key may change its code only where nobody can see it.

**WaylandOutputs** follows the outputs: the compositor's layout (`real`), its
events (`wire`), the event loop's copy (`outputs`), the shared copy with the
number of the zone set (`shared`), the output monitor's and the capture
backend's copies (`monitor`, `known`), the zones of each InputCapture client
(`view`), and the mappings of the virtual pointer. A turn of the event loop reads
one group of events. **LayoutGeometry** is the arithmetic of barriers' strips and
of absolute motion, **ProtocolSelection** what the portal makes of the globals
that are advertised; both are functions, used by the actions and by the
properties.

### Operators called variants

Next to some definitions there is another with the same parameters and a
mistake that its code could have (a dropped guard, an off-by-one, a forgotten
release). No specification uses them; each shows that some property would tell.

## The runs

`CHECK_DEADLOCK FALSE` is set where the system may come to rest: every client
has left, or a bounded number of activations, copies or faults is used up.
Symmetry is used for safety only.

| run | instance | shows |
|---|---|---|
| `SessionManager` | 2 handles, 2 senders, 2 applications, limit 1 | `RegistrySound`: counts are exact, the limit bounds, a started session has a selection; `StepsSound`: a session only moves forward, a removal takes what it is for and no more; `RegistrySpec`; `SlotReclaimed`: a forgotten session gives its slot back |
| `PortalResources_faults` | 2 handles, 2 applications with a limit of 1, 2 tasks, 2 streams, every fault but ids that come back | `HandlersUndisturbed`: a session does not change under the handler that waits and keeps its context; `StreamsServed`: its streams are there and its own |
| `PortalResources_liveness` | 2 handles, 2 senders, 2 tasks, 1 stream, node ids that come back | `NothingLeaked`; `ObjectTracksSession`: bus objects follow sessions; `CallsReturn`; `ClosedIsReleased`: what a closed session held is released |
| `PortalResources_disconnect` | 1 session, the idle cleanup | violates `DisconnectCleansUp`, see below |
| `PortalResources_rd_connect` | one more call | violates `CallsReturn`, see below |
| `InputCapture_safety` | 1 session, 2 barriers, a client that waits for its answers | `ScreenAgrees`, `CaptureAgrees`, `SignalsInOrder`, `ClosedFreesScreen`: session, screen and client agree on surfaces, locks and barriers; signals are in order; the surfaces of a closed session go |
| `InputCapture_races` | 2 calls at a time, every fault | `EndedOnce`: one Deactivated for an activation |
| `Clipboard_safety` | 2 copies, 2 own selections, 2 pastes, 2 queued commands | `PastesServed`: a paste is answered with the data of the selection it was made on, and none is lost; `AgreesWithCompositor`; `OwnerKnown`; `MatchIsNearest` |
| `Capture_safety` | 1 output, 1 stream, 1 screenshot, 2 regions, 2 formats, each protocol, paced or not | `NoProtocolError`, `NothingMissed` (no change is missing from the damage a consumer is told), `CapturesAccounted` |
| `Capture_liveness` | 1 region, 1 format, ext and wlr versions 2 and 3 | `ScreenshotAnswered`, `ChangesReachConsumer` |
| `Input_safety` | 2 sessions, 3 keysyms for a pool of 2 | `InjectedAsAsked`: each press types its keysym, with its own modifiers, in whole frames, and no key stays down; `KeymapsCurrent`; `WireExact`; `KeyboardsPrivate`: the sessions on shared XKB data type as if each had a keyboard to itself |
| `Outputs_safety` | 2 outputs of 3 places, 1 move; all protocols, none for capture, no virtual input | `ZonesSound`, `GeometryHolds`, `AcceptedOnCurrent`, `StaleIsTold`, `SourcesSettle` |

Several of these are conjunctions of named parts, each with a comment of its own
at its definition.

### Bounds

*SessionManager*: two senders and two applications are enough for a sender with
sessions of both and an application with sessions of both; a limit of one is met
by the second session. Its safety is proved in general, so the instance is as
small as its liveness needs. `MaxAge` is one tick past the longest idle time,
where ages stop mattering.

*PortalResources*: two tasks cover every pair of handlers, beside the requests'
closes and the cleanup, which are one step each; two handles with a limit of two
(`_liveness`) let one session end while another is made, and a limit of one
(`_faults`) is met; two node ids let a session have two streams, one lets it come
back. The safety checked there is proved for any numbers, so the instance of the
liveness run serves for it. Ages play no role but for the cleanup, so `MaxIdle` is
0: any session may be stale after a tick.

*InputCapture*: `MaxId` bounds the activations of a session at two, so that one
can be confused with the next; `MaxQueue` bounds channels that have no bound in
the code and is above the number of calls under way in all but
`InputCapture_races`, which has a full channel as well. Only one pointer is
locked at a time, as on one seat.

*Clipboard*: two selections of each kind let a selection be replaced by one of
the other kind and by one of its own; two pastes let one wait while the other is
asked for; two types with one base make the cache's look-up by base differ from
that by type. `MatchIsNearest` is checked for every list of up to three types, and
proved for any list.

*Capture*: two regions tell damage that is lost from damage that is merged
(`MaxBoxes` of 1 makes the list of boxes overflow), two formats tell the
preferred format from another. One of the faults happens in a behaviour
(`MaxMishaps`); the retries after it are not bounded.

*Input*: three keysyms for two slots make the pool evict; two staged events let
other sessions' splices and injections fall between the staging of a press and
its frame, and hold a character of a text; a key held lets a release be resolved
after it; three contexts let one session be opened again beside another that
never closed. `WireExact` is checked for every sequence
of four deltas, among them ones that are no multiple of a click, that change
direction, and that are larger than two clicks; texts are of up to five
characters of one to four bytes. It depends on no state.

*Outputs*: two names let an output come, go and be replaced; the places are to
the left of and above the origin, so that coordinates are negative and the
layout does not begin at zero. Barriers are tried along each edge and along
either half of it. A read of the socket delivers whole groups of
events unless the fault `split_read` is given.

### Fairness

*SessionManager*: time passes and the cleanup, a tokio interval, runs on.
*PortalResources*: tokio runs every task that can run and its mutex is a queue,
so a task that waits for it again and again gets it (strong fairness per task
and for the cleanup); the monitor reads its signals and time passes; the clients
owe nothing. *InputCapture*: the
Wayland thread, the bridge and the handlers of the calls run on; client and
compositor owe nothing. The strong fairness of a handler is due to the bound on
the channels only. *Capture*: the two threads keep running their loops, time
passes, and the compositor answers what it was asked, except that in a handshake
it may be silent (the time limit is for that); it fails the frames of an output
that is gone. *Outputs*: the event loop and the monitor keep running, and the
compositor answers a bind. *Clipboard* and *InputInjection* state safety only.

## What the code does otherwise than it says

`PortalResources_rd_connect` checks `CallsReturn` with calls of
`RemoteDesktop.ConnectToEIS`, and TLC gives the trace: the method waits for the
mutex it holds (`dbus/remote_desktop.rs:454`), and every later call with it.

`PortalResources_disconnect` checks `DisconnectCleansUp`. The disconnect monitor
compares the new owner of a `NameOwnerChanged` with `Some("")` (`lib.rs:430`), but
zbus gives the empty owner of a name that is gone as `None`: the branch behind it
(`lib.rs:431-486`) is never taken, though `lib.rs:395` says that the task cleans up
the sessions of clients that disconnect. With the idle cleanup running, the
session leaves the registry in the end, and its EIS context, its streams and its
object on the bus stay for good. That branch is the only caller of
`close_sender_sessions`, which `SessionManager` models as the method of the
registry it is.

`OriginExact` is defined in WaylandOutputs and checked in no run: `origin` is
documented as the exact corner of a barrier's surface, from the same arithmetic as
its anchor and margin (`wayland/input_capture.rs:173`). The margin is (0, 0, 0, 0)
for every barrier (`:249`, `:270`), so the surface of a barrier that starts further
along the edge lies at the corner of the zone, while `origin`, from which the
cursor position of `Activated` is computed (`:658`), says where the barrier starts:
TLC violates it in a few states of `Outputs_safety`. `StripOnBarrier` in that run
therefore asks for the place only of barriers that start where the edge does.

Near it: a barrier on the seam of two outputs goes to the first that fits, as
"either output works" (`:221`), which holds of outputs of equal extent only; and
a barrier given from its far end (`x1` above `x2`) passes the test with `min` and
`max` (`:203`) and gets a width of 0 (`:240`).

The other members of `Faults` are things that the code permits or that can
happen around it, and that break a property of the passing runs, or one that
is defined and checked in no run. Add the fault to the `.cfg` and TLC finds:

| fault | property | what happens |
|---|---|---|
| `request_close` | `NothingLeaked`, `ObjectTracksSession` | `Request.Close` closes the session in the registry and releases nothing |
| `stale_cleanup` | `NothingLeaked`, `ObjectTracksSession` | the periodic cleanup drops the list of sessions to release |
| `second_start`, `stream_failure` | `NothingLeaked` | a Start that fails keeps the streams it made |
| `node_id_reuse` | `StreamsServed` | a teardown destroys the stream of another session that has its old node id |
| `handle_reuse` | `HandlersUndisturbed`, `ObjectTracksSession` | a session is made with the handle of one that is being torn down, and the teardown takes its context or its object |
| `end_meets_start` | `SignalsInOrder`, `CaptureAgrees` | Deactivated before the Activated of the same activation; an activation of a capture that is over |
| `enable_twice` | `SurfacesOfEnabled` | a second Enable loses the surfaces of the first |
| `set_while_enabled` | `BarriersCurrent` | new barriers do not replace those on the screen |
| `no_eis` | `PointerHasOwner` | an activation is rolled back and the pointer stays locked |
| `surface_closed` | `ToldHasPointer` | a lock goes with its surface and nobody is told |
| `Slot = {1, 2}` | `SurfacesOfEnabled` | a Disable overtakes the command of an Enable of the same session, and the surfaces stay |
| `update_pending` | `NoProtocolError` | new constraints while a frame is pending make a second frame in the session, which `ext_capture.rs:14` says never happens |
| `slow_handshake` | `NoProtocolError` | the pump asks for a frame before the constraints are complete |
| `shared_damage` | `NothingMissed` | a compositor that counts damage per screencopy manager tells one capture what another missed |
| `no_format` | `OneShotsEnd`, `ScreenshotAnswered` | a screenshot with no usable format keeps its capture after the error (ext), or is never answered (wlr) |
| `no_memory` | `ScreenshotAnswered` | a screenshot whose buffer cannot be allocated is neither answered nor ended |
| `id_reuse` | `FramesOfOwnOutput` | a queued frame goes to the new stream that has its node id |
| `selection_first` | `ForeignCopyReported` | a foreign copy that offers the types of the own selection, and is reported before that is cancelled, is taken for its echo |
| `late_update` | `AnsweredFromItsSelection` | `update_data` caches the data of an earlier selection for the one that is there |
| `rebind` | `TypedAsAsked`, `ModifiersOwn`, `NoKeyStuck` | a slot of the pool is given away between the staging of a key and its frame, or while it is held, and the keyboard's state starts anew with the keymap |
| `shared_mods` | `ModifiersOwn` | one session's Ctrl is in the modifiers sent for another's key |
| `shifted` | `TypedAsAsked` | a keysym of the second level is typed without its modifier |
| `compile` | `TypedAsAsked`, `NoKeyStuck`, `KeymapsCurrent` | the keymap does not compile and the pool keeps the keysym |
| `upload` | `TypedAsAsked`, `KeymapsCurrent`, `KeyboardsPrivate` | the upload of a spliced keymap to one keyboard fails and is skipped (`services/input/wlr_backend.rs:1157`); the keyboard keeps its old keymap and the keysym is sent all the same |
| `touch` | `FramesWhole`, `ModifiersOwn`, `NoKeyStuck` | a touch event fails its batch in the middle of a frame |
| `split_read` | `ZonesWereReal` | a new size is published at the old position |
| `rotate`, `early_plug`, `scaled` | `QuietZones` | the position of `wl_output.geometry` replaces the logical one; an output that is plugged in during the first roundtrip is not bound; the mode's pixels are taken for logical ones |
| `swap`, `early_unplug` | `SourcesSettle` | the monitor compares the number of outputs (`lib.rs:649`) and misses the change |
| `share_some` | `PointerLandsWithSome` | the layout is that of the streams of the last Start, while the virtual pointer's extent is that of all outputs |

Three properties of the clipboard say what a comment of the code says, and do
not hold. `SelectionReadServed`: `SelectionRead` of a foreign selection returns
an empty pipe for a type nobody fetched (`services/clipboard/backend.rs:69` says
data is fetched on demand). `ClearsOnlyOwn`: a `clear_selection` on its way
clears a foreign copy that overtakes it. `SetterNotMisled`: a session that set
the selection may hear of a foreign owner later than of its own success.

`EmulationStops` of InputCapture does not hold either: Disable and Release end
the activation and not the emulation that the bridge started on the client's EIS
connection (`dbus/input_capture.rs:795`, `:855`).

Some facts need no run. `Session::touch` has no caller, so the idle cleanup
takes sessions in use (`session/state.rs:201`). The portal registers
`on_selection_changed` only (`lib.rs:301`): no `SelectionTransfer` is ever
raised, `SelectionWrite` and `SelectionWriteDone` find nothing to do, and a
paste of a portal's selection gets an end of file. `process_events` of the EIS
bridge has no caller. The pool of keysyms, documented as least recently used
(`services/input/wlr_backend.rs:128`), is first in, first out: the fast path
(`:1104`) searches the keymap with the pool spliced in, so that a keysym that has a
slot never gets to `resolve`, and `touch` (`:163`) runs only after a keymap that did
not compile. A keysym in constant use loses its slot all the same. The event loop
chooses its capture protocol from what it bound, not from the user's preference
(`wayland/mod.rs:910`; `force_wlr_screencopy`, which could change that, is never
set). The backend made where no capture protocol can be used "reports no sources"
(`services/capture/mod.rs:194`), until the monitor's first tick hands it the
outputs: `NoneOffered`, which no run checks, is violated in `Outputs_safety`. A
Start with such a source makes a PipeWire stream that no capture ever feeds.
Nothing bounds the table of pastes that wait for their data, or their time
(`crates/lamco-data-control/src/state.rs:417`).

## The proofs

`SessionManagerProofs` proves, for any sets of handles, senders and
applications, finite or not, and from the assumptions that `SessionManager`
names (`None` is no session, the limit and the times are natural numbers):

- `TypeCorrect`, `RegistryHolds`: the invariants `TypeOK` and `RegistrySound`;
- `StepsHold`: the action property `StepsSound`;
- `ImplementsRegistry`: the refinement of `SessionRegistry`.

The inductive invariant `IInv` has three parts: the types, exact counts, and
that the sessions in the map are finitely many. The limit is not inductive
alone: an application's sessions stay within it because the counter does and the
counter is exact. The counter's type needs the guard of `CreateSession`, and that
the subtraction never saturates. Exactness needs that a removal takes from each
count the number of its own sessions removed (`RemoveExact`), which is a fact
about cardinalities of finite sets: hence the third part, which holds because
each creation adds one session to none. `ImplementsRegistry` maps every step to
an admission, a release or a stutter.

`PortalResourcesProofs` proves, for any tasks, clients and streams and for every
set of faults (so also with what the table above lists):

- `HandlersImplementRegistry`: every behaviour of the handlers and the cleanup
  is one of the registry, so each theorem above holds of it; `ResCountsExact` is
  one such;
- `ResTypeCorrect` and `LookUpStaysTrue`: the invariant `ResTypeOK`, and that part
  of `HandlersUndisturbed` which says that what a handler looked up stays true;

and `HandlersHold`, the whole of `HandlersUndisturbed`, without `handle_reuse`.

Its inductive invariant `RInv` adds to `IInv` and the types what a task may have
in hand (`JobInv`): a task that is not idle has a handle and, where the frontend
makes a fresh handle for each session, what is being torn down has left the
registry, and a handle about to be created is in nobody else's hands. The last two
are why a teardown, which does not take the mutex, never meets a session in use:
the portal itself only asks whether the handle is in the map
(`session/manager.rs:105`), and takes one again whose session is still being torn
down.
`StableUnderLock` rests on the mutex alone: a section that changes a session
finds it free, so no other task is waiting with it.

Its second part proves what the two runs show of resources, each theorem from the
absence of just the faults that break it:

- `StreamsHold` (`StreamsServed`), without `node_id_reuse`: a session's streams are
  served and are nobody else's. Added to `RInv` are that a stream of a live session
  or of a Start under way is held by no other task (`Served`), and that node ids in
  use or in hand have been given out before, so that a Start gets new ones
  (`IdsSpent`);
- `NothingIsLeaked` (`NothingLeaked`), without `request_close`, `stale_cleanup`,
  `second_start` and `stream_failure`: a context or a stream is that of a live
  session or in the hands of a task that will release it (`Releasable`). Added is
  that a session that can be started has no streams yet (`StartsFresh`). No
  disconnect plays a part: the session of a client that left is live until
  somebody closes it;
- `ObjectsTrackSessions` (`ObjectTracksSession`), without `request_close`,
  `stale_cleanup` and `handle_reuse`.

That the hypotheses on `Faults` are needed is what the table of faults shows.

`QueueLemmas` has what the next five modules need of sequences: what is left of a
queue when its head is taken, what a sequence appended to it changes, how a queue
falls into groups. A fact of a function on sequences that is defined by recursion
is proved with a set in the place of the predicate: `Induct` says that a set of
numbers that has 0 and the successor of each member has all of Nat, from the
well-foundedness of Nat; `StepByStep`, that there is a function with the two
equations of such a definition, and `ChainsAgree`, that there is no other.

`InputCaptureProofs` is about any sessions, barriers and call slots:

- `CaptureTypes` (`TypeOK`) and `CaptureEndedOnce` (`EndedOnce`) hold with every
  fault and any number of calls of a session at a time. `TInv` adds to the types
  that the ids left suffice for the activations on their way. `EInv` says that an
  activation's id is with one of those that may end it: the session, a call that
  took it, the bridge, or those ended; so each id is announced ended by whoever
  took it from the session, and nobody else has it then;
- `CaptureSignalsInOrder` needs the absence of `end_meets_start`;
- `CaptureSurfacesOfEnabled` and `CaptureScreenAgrees` need a client that waits
  for its answers (`OneCall`) and does not enable a session twice; the second
  also that barriers are set only while not enabled. `SInv` says that what the
  channel lays out and clears last, for each session, is what `enabled` says;
- `CaptureHolds` (`CaptureAgrees`) needs `OneCall` and the absence of the four
  faults that break it (`Calm`). `CInv` says that the pointer is
  locked exactly while the session's capture is open, by one barrier (`Locks`);
  that a capture that is being ended cannot be opened again and has its end in
  the channel (`Quiet`); and that the client knows the session's activation until
  the bridge, or the call that ended it, comes to tell it (`Told`).

`ClipboardProofs` is about any consumers, selections, types and pastes:

- with every fault: `ClipboardTypes` (`PortalTypeOK`), `ClipboardPastesAccounted`
  and `ClipboardAgrees` (`AgreesWithCompositor`). `PInv` says that a paste is in
  one place only, the connection, the command queue or the worker's list. `AInv`
  says that the source is the selection or its end is on the connection, that an
  offer comes before the report that names it, and that the last report is the
  selection's;
- `ClipboardPastesServed` (`PastesServed`) without `late_update`. `DInv` says that
  data on its way in the command queue finds, once its turn comes, the source it
  was made for, because the queue keeps the order of the consumer's selections;
- `ClipboardOwnerKnown` (`OwnerKnown`) without `selection_first`. `FInv` says that
  the own source is known to be cancelled before the foreign selection is read,
  so that the test for an echo of the own selection never drops it;
- `MatchIsNearestHolds` (`MatchIsNearest`), which is about no state: the lemma
  `Nearest` is for offers of any number, and has that text with its charset
  stripped or added comes before text with another charset.

`CapturePipelineProofs` is about any streams, shots, outputs, formats and limit on
the damage boxes, and either protocol:

- with every fault: `PipelineTypeCorrect` (`TypeOK`), with the invariant that each
  capture's record is one that the handlers can make (`AllSound`), and
  `CaptureBelongsToStream`, whose invariant `StopsFollow` says that behind the
  starts of a stream the backend no longer has there is a stop in the channel;
- `PipelineKeepsProtocol` (`NoProtocolError`) without `slow_handshake` and
  `update_pending`: a frame object is live only while a frame is pending;
- `PipelineMissesNothing` (`NothingMissed`) without `shared_damage`: `Told` says
  that a region that changed since the consumer drew it is in the damage not yet
  reported to the capture's stream;
- `CapturesAreAccounted` (`CapturesAccounted`) without `no_format` and `no_memory`.

`WaylandOutputsProofs` is about any clients, places, layouts and numbers of
outputs:

- `AcceptedOnCurrentHolds` (`AcceptedOnCurrent`), with every fault. The invariant
  `ViewInv` says that a client's number is not ahead of the portal's, and that with
  the same number come the same zones; it is kept because the number grows
  whenever the zones are not those of before;
- `OutputsTypeCorrect` (`TypeOK`), with every fault. The invariant `OTypes` says
  besides that an output is announced once and bound once, so that no list has it
  twice;
- `QuietZonesHold` (`QuietZones`). The invariant `Caught` looks ahead: the outputs
  with all the events on the wire applied to them are those there are, each at its
  place, whatever the events were read with;
- `ZonesWereRealHolds` (`ZonesWereReal`). The invariant `WasReal` says that the
  wire falls into whole groups, one per change of an output, each from one
  rectangle to another that the output has had, and that an output half changed is
  not published. This is why a read that cuts a group must be excluded here and
  need not be in `QuietZonesHold`;
- `GeometryOfAnyLayout`, with every fault: a barrier's strip is along the barrier,
  and a point of a stream is the same point over D-Bus and over EIS; with all
  outputs shared the pointer lands on it to a pixel, while the layout is no wider
  and no higher than the extent of absolute motion, 10000
  (`services/input/wlr_backend.rs:765`); on a larger one a step of the extent is
  more than a pixel. `GeometryHoldsWithinReach` (`GeometryHolds`) is the
  same for places that are all within that reach of each other. The invariant
  `Shown` adds to `OTypes` that what is published, known and mapped has a size, so
  that no division is by zero;
- `ZonesSoundHold` (`ZonesSound`) from `QuietZonesHold` and `ZonesWereRealHolds`.

Their hypotheses are needed too. With one fault at a time TLC violates `QuietZones`
by `rotate`, `early_plug` and `scaled`, and `ZonesWereReal` by `rotate`,
`split_read` and `scaled`. A rectangle without a size is not published
(`dispatch.rs:229`), hence the hypothesis that places are visible. With all other
faults the invariants of these proofs were checked first, as was every invariant
above.

`InputInjectionProofs` is about any sessions, layout, pool and texts:

- `InjectionTypes` (`TypeOK`), with every fault. `TInv` adds that the pool's order
  has every slot once and that no keysym has two slots;
- `PoolStaysSound` (`PoolSound`), the part of `KeymapsCurrent` that is about the
  pool alone, with every fault;
- `KeymapsStayCurrent` (`KeymapsCurrent`) without `compile` and `upload`, the two
  failures after which the code goes on with a keymap behind the pool: `KInv` says
  that the pool, the keymap and every keyboard's copy agree;
- `InjectionIsAsked` (`InjectedAsAsked`) without faults, and with `shared_mods`
  alone `OnlyModifiersAreShared`: what is pressed is still the key asked for, and
  no key stays down. The invariant `NInv` says, per session (`Served`), that what is
  staged types what was asked under the keymap of now, and that the staged events,
  applied in turn to the keys held on the keyboard, each press a key that is up or
  release one that is down, and end at the keys of what the client holds
  (`Toggles`); and, without `shared_mods`, that a modifier is counted once while a
  keyboard holds it (`Counted`). A keysym is held on one key. A splice that takes no
  slot in use keeps all this. What the proof found is the case of a text: a splice
  for one character may take the slot of another of the same text, and may even
  end with the keymap it began with; then nothing was spliced, as the text
  still fits (`FitsPool`);
- `KeyboardsArePrivate` (`KeyboardsPrivate`), without faults or with `shared_mods`
  alone: the refinement of `PrivateKeyboards`, whose every action is taken for what
  the code does. Its heart is `FrameLeaves`: the keys a batch leaves held, seen
  through the keymap of the frame, are the keysyms that the requests leave down,
  seen without keys (`Left`: of the requests of one keysym the last counts). It
  needs of `NInv` that each staged key still means what was asked, and that a
  keysym is on one key. That a splice is not seen is `UploadSeen`, that a text
  waits as its keystrokes, whichever slots its characters got, `TextWants`;
- `WireExactHolds` (`WireExact`): the scroll accumulator for deltas of any number
  and size, `chunk_utf8` for texts of any length and any limit. Both are loops,
  written as functions on the turns taken, with a loop invariant each: clicks sent
  and remainder make up what came (`ScrollIsConserved`); the pieces cut off, with
  what is left, make up the text, and none would have held what follows it
  (`CutRight`).

The theorems on what is typed suppose `OneKeyEach`: no two keys of the base layout
have the same first keysym. Else a client may press a keysym by one key and release
it by the other. Each fault alone makes TLC violate `InjectedAsAsked`; each but
`shared_mods` violates `KeyboardsPrivate`; `rebind`, `compile` and `touch` violate
`NoKeyStuck`, and with `shifted` the run passes for it, which the theorem does not
cover.

### Model-checked only

Liveness under fairness, and ENABLED, are out of the prover's reach and stay with
TLC: `SlotReclaimed`, `CallsReturn`, `ClosedIsReleased`, `ClosedFreesScreen`,
`ScreenshotAnswered`, `ChangesReachConsumer`, `StaleIsTold` and `SourcesSettle`.
Every other property of a passing run is a theorem, under the hypotheses given
with it above.

## What is not modelled

- **uinput**: a writer to a device file, with no state but a set of contexts.
- **Settings**, **health**: nothing else depends on them; metrics are averages of
  floating-point numbers.
- **Pixels**: conversion, PNG encoding, buffer mapping and the copy into PipeWire
  buffers. A picture is, per region, current or not.
- **D-Bus values**, restore data, tokens and the wording of errors.
- **Global binding**, seats, the grabbed keyboard and text input of InputCapture,
  relative motion, cursor sessions, format negotiation of PipeWire.
- **SelectionWrite** and **SelectionWriteDone**: they change nothing as the
  portal is wired, see above.
- **Integer overflow** of the scroll accumulator: the remainder is a wire value
  and a client would have to send deltas near 2^31. The remainder is proved to be
  less than a click, so the sum overflows for no delta smaller by that.

- **A failed `create_keyboard`** (`services/input/wlr_backend.rs:555`): a session
  without a keyboard, whose key events the backend drops (`:879`).
- **Sources gone stale**: SelectSources and Start of a ScreenCast session are one
  step of WaylandOutputs, so that an output that goes in between is not.
- **The time limit of a handshake during a renegotiation**: `created_at` is not
  set anew (`wayland/ext_capture.rs:689`), so the limit may stop a stream that has
  long been running. `ChangesReachConsumer` speaks of live streams only, and
  such a stream is no longer one.
- **Wrap-around** of the number of the zone set, after 2^32 changes of outputs.

Still open: the composition of PortalResources and InputCapture, for the surfaces of
sessions closed by `Request.Close` or by the cleanup.
