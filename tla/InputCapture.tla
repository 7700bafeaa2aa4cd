---------------------------- MODULE InputCapture ----------------------------
(***************************************************************************)
(* InputCapture from the D-Bus calls to the compositor and back            *)
(* (src/src/dbus/input_capture.rs, src/src/wayland/input_capture.rs,       *)
(* src/src/wayland/mod.rs, the activation bridge of src/src/lib.rs).       *)
(*                                                                         *)
(*   client --calls--> handlers --cmds--> Wayland thread <--> compositor   *)
(*   client <--signals-- bridge task <--evs--                              *)
(*                                                                         *)
(* A handler changes its session under the session manager's mutex, gives  *)
(* the mutex back, and only then sends its command and emits its signals;  *)
(* the bridge does the same with the input backend in between. Each of     *)
(* those sections is a step. Sessions are started and have their devices.  *)
(* The keyboard, the text input and the motion samples are left out: they  *)
(* ride on the lock and change no state modelled here.                     *)
(***************************************************************************)
EXTENDS Integers, Sequences, FiniteSets

CONSTANTS
  Session,    \* handles of InputCapture sessions
  Barrier,    \* barrier ids
  Slot,       \* calls of one session that may be under way at once
  None,
  MaxId,      \* bound: activations of one session
  MaxQueue,   \* bound: commands, and events, waiting in a channel
  Faults      \* what a client or the compositor may do: a subset of AllFaults

AllFaults ==
  {"end_meets_start", \* a call ends a session's capture while a barrier of it fires
   "enable_twice",    \* Enable of a session that is enabled
   "set_while_enabled", \* SetPointerBarriers of a session that is enabled
   "surface_closed",  \* the compositor closes a surface, its output being gone
   "no_eis"}          \* a barrier fires and the client has no EIS connection

Id == 0..(MaxId - 1)
Lock == {"none", "up", "locking", "locked"}

Call == [op : {"idle", "enable", "disable", "release", "close"},
         step : {"send", "emit"},
         id : Id \cup {None},
         bars : SUBSET Barrier]

Command == [kind : {"create", "destroy", "release"}, h : Session, bars : SUBSET Barrier]
Event == [kind : {"activated", "deactivated"}, h : Session]

Bridge == [pc : {"idle", "begun", "failed", "emit_activated", "ended", "emit_deactivated"},
           h : Session \cup {None}, id : Id \cup {None}]

ASSUME CaptureAssumption ==
  /\ None \notin Session \cup Id
  /\ MaxId \in Nat \ {0} /\ MaxQueue \in Nat \ {0}
  /\ Faults \subseteq AllFaults

VARIABLES
  live,      \* sessions in the registry
  enabled,   \* input_capture_enabled
  act,       \* input_capture_activation_id
  nextId,    \* input_capture_next_activation_id
  barriers,  \* input_capture_barriers
  call,      \* the calls under way
  cmds,      \* the channel to the Wayland thread
  surf,      \* its barrier surfaces, and how far the lock of each is
  orphan,    \* surfaces that lost their entry in its map, still on the screen
  evs,       \* the channel to the bridge task
  bridge,    \* what the bridge task is doing
  ctx,       \* EIS contexts: none, in their handshake, receiving
  usesEis,   \* Session::uses_eis
  emulating, \* sessions whose client was told start_emulating last
  seen,      \* the activation the client knows of, by the signals it got
  ended      \* activation ids it got a Deactivated for

sesVars == <<live, enabled, act, nextId, barriers>>
wlVars == <<surf, orphan>>
eisVars == <<ctx, usesEis, emulating>>
sigVars == <<seen, ended>>
vars == <<sesVars, call, cmds, wlVars, evs, bridge, eisVars, sigVars>>

NoCall == [op |-> "idle", step |-> "send", id |-> None, bars |-> {}]
Resting == [pc |-> "idle", h |-> None, id |-> None]

Send(kind, h, bars) == cmds' = Append(cmds, [kind |-> kind, h |-> h, bars |-> bars])
Report(kind, h) == evs' = Append(evs, [kind |-> kind, h |-> h])

(* An activation the client has not been told of is on its way. *)
Coming(h) ==
  \/ \E b \in Barrier : surf[h][b] \in {"locking", "locked"} /\ act[h] = None
  \/ \E i \in DOMAIN evs : evs[i].h = h
  \/ bridge.h = h

(* A call that ends a capture, or its command, is on its way. *)
Ending(h) ==
  \/ \E c \in Slot : call[h][c].op \in {"disable", "release", "close"}
  \/ \E i \in DOMAIN cmds : cmds[i].h = h /\ cmds[i].kind # "create"

MayEnd(h) == "end_meets_start" \in Faults \/ ~Coming(h)
MayStart(h) == "end_meets_start" \in Faults \/ ~Ending(h)

-----------------------------------------------------------------------------
(* The handlers' sections under the mutex.                                 *)
Begin(h, c, op, id, bars) ==
  /\ h \in live /\ call[h][c] = NoCall
  /\ call' = [call EXCEPT ![h][c] = [op |-> op, step |-> "send", id |-> id, bars |-> bars]]
  /\ UNCHANGED <<cmds, wlVars, evs, bridge, eisVars, sigVars>>

SetPointerBarriers(h, bars) ==
  /\ h \in live
  /\ h \notin enabled \/ "set_while_enabled" \in Faults
  /\ barriers' = [barriers EXCEPT ![h] = bars]
  /\ UNCHANGED <<live, enabled, act, nextId, call, cmds, wlVars, evs, bridge, eisVars, sigVars>>

Enable(h, c) ==
  /\ h \notin enabled \/ "enable_twice" \in Faults
  /\ usesEis[h] \/ "no_eis" \in Faults
  /\ Begin(h, c, "enable", None, barriers[h])
  /\ enabled' = enabled \cup {h}
  /\ UNCHANGED <<live, act, nextId, barriers>>

(* Variant: the activation id is read and left in the session. *)
DisablePeeks(h, c) ==
  /\ MayEnd(h)
  /\ Begin(h, c, "disable", act[h], {})
  /\ enabled' = enabled \ {h}
  /\ UNCHANGED <<live, act, nextId, barriers>>

(* Disable is accepted of a session that is not enabled as well.           *)
Disable(h, c) ==
  /\ MayEnd(h)
  /\ Begin(h, c, "disable", act[h], {})
  /\ act' = [act EXCEPT ![h] = None]
  /\ enabled' = enabled \ {h}
  /\ UNCHANGED <<live, nextId, barriers>>

Release(h, c) ==
  /\ MayEnd(h)
  /\ Begin(h, c, "release", act[h], {})
  /\ act' = [act EXCEPT ![h] = None]
  /\ UNCHANGED <<live, enabled, nextId, barriers>>

(* Variant: only the registry forgets the session.                         *)
CloseStaysEnabled(h, c) ==
  /\ MayEnd(h)
  /\ Begin(h, c, "close", None, {})
  /\ live' = live \ {h}
  /\ act' = [act EXCEPT ![h] = None]
  /\ UNCHANGED <<enabled, nextId, barriers>>

Close(h, c) ==
  /\ MayEnd(h)
  /\ Begin(h, c, "close", None, {})
  /\ live' = live \ {h}
  /\ enabled' = enabled \ {h}
  /\ act' = [act EXCEPT ![h] = None]
  /\ UNCHANGED <<nextId, barriers>>

(* What follows: the command, then the signals.                            *)
(* Variants: Disable, or Close, that leaves the surfaces where they are.   *)
EndCommandDisableReleases(op) == IF op = "close" THEN "destroy" ELSE "release"
EndCommandCloseReleases(op) == IF op = "disable" THEN "destroy" ELSE "release"
EndCommand(op) == IF op \in {"disable", "close"} THEN "destroy" ELSE "release"

SendCommand(h, c) ==
  LET k == call[h][c]
  IN  /\ k.step = "send" /\ Len(cmds) < MaxQueue
      /\ \/ k.op = "enable" /\ k.bars # {} /\ Send("create", h, k.bars)
         \/ k.op = "enable" /\ k.bars = {} /\ UNCHANGED cmds
         \/ k.op \in {"disable", "close", "release"} /\ Send(EndCommand(k.op), h, {})
      /\ call' = [call EXCEPT ![h][c] =
                    IF k.op \in {"disable", "release"} THEN [k EXCEPT !.step = "emit"] ELSE NoCall]
      /\ IF k.op = "close"                \* destroy_context, before the command
           THEN /\ ctx' = [ctx EXCEPT ![h] = "none"]
                /\ emulating' = emulating \ {h}
           ELSE UNCHANGED <<ctx, emulating>>
      /\ UNCHANGED <<sesVars, wlVars, evs, bridge, usesEis, sigVars>>

Deactivated(h, id) ==
  /\ seen' = [seen EXCEPT ![h] = None]
  /\ ended' = [ended EXCEPT ![h] = @ \cup {id}]

EmitSignals(h, c) ==
  LET k == call[h][c]
  IN  /\ k.step = "emit"
      /\ IF k.id # None THEN Deactivated(h, k.id) ELSE UNCHANGED sigVars
      /\ call' = [call EXCEPT ![h][c] = NoCall]
      /\ UNCHANGED <<sesVars, cmds, wlVars, evs, bridge, eisVars>>

-----------------------------------------------------------------------------
(* The EIS connection of a session.                                        *)
ConnectToEis(h) ==
  /\ h \in live /\ ~usesEis[h] /\ ctx[h] = "none"
  /\ ctx' = [ctx EXCEPT ![h] = "handshake"]
  /\ usesEis' = [usesEis EXCEPT ![h] = TRUE]
  /\ UNCHANGED <<sesVars, call, cmds, wlVars, evs, bridge, emulating, sigVars>>

(* process_events, which an embedding application calls: the portal itself *)
(* has no caller for it.                                                   *)
Handshake(h) ==
  /\ ctx[h] = "handshake"
  /\ ctx' = [ctx EXCEPT ![h] = "receiver"]
  /\ UNCHANGED <<sesVars, call, cmds, wlVars, evs, bridge, usesEis, emulating, sigVars>>

(* The client hangs up. uses_eis stays set: it cannot connect again. *)
HangUp(h) ==
  /\ "no_eis" \in Faults
  /\ ctx[h] # "none"
  /\ ctx' = [ctx EXCEPT ![h] = "none"]
  /\ emulating' = emulating \ {h}
  /\ UNCHANGED <<sesVars, call, cmds, wlVars, evs, bridge, usesEis, sigVars>>

-----------------------------------------------------------------------------
(* The Wayland thread: commands from the handlers...                       *)
LockedOnes == {k \in Session \X Barrier : surf[k[1]][k[2]] = "locked"}

(* destroy_lock_objects_mut, on every surface of a session.                *)
Unlock(h) == [b \in Barrier |-> IF surf[h][b] = "none" THEN "none" ELSE "up"]

(* A barrier that fits no output known here is skipped. An entry there is  *)
(* for the same barrier is overwritten.                                    *)
CreateBarrierSurfaces(h, bars) ==
  \E mapped \in SUBSET bars :
    /\ surf' = [surf EXCEPT ![h] = [b \in Barrier |-> IF b \in mapped THEN "up" ELSE @[b]]]
    /\ orphan' = orphan \cup {<<h, b>> : b \in {x \in mapped : surf[h][x] # "none"}}

DestroySession(h) ==
  /\ surf' = [surf EXCEPT ![h] = [b \in Barrier |-> "none"]]
  /\ UNCHANGED orphan

ReleaseActiveLocks(h) ==
  /\ surf' = [surf EXCEPT ![h] = Unlock(h)]
  /\ UNCHANGED orphan

RunCommand ==
  LET k == Head(cmds)
  IN  /\ cmds # <<>>
      /\ cmds' = Tail(cmds)
      /\ \/ k.kind = "create" /\ CreateBarrierSurfaces(k.h, k.bars)
         \/ k.kind = "destroy" /\ DestroySession(k.h)
         \/ k.kind = "release" /\ ReleaseActiveLocks(k.h)
      /\ UNCHANGED <<sesVars, call, evs, bridge, eisVars, sigVars>>

(* ...and events from the compositor, which locks one pointer at a time.   *)
LockStep(h, b, from, to) ==
  /\ surf[h][b] \in from
  /\ surf' = [surf EXCEPT ![h][b] = to]
  /\ UNCHANGED <<sesVars, call, cmds, orphan, bridge, eisVars, sigVars>>

PointerEnter(h, b) == LockedOnes = {} /\ LockStep(h, b, {"up"}, "locking") /\ UNCHANGED evs
PointerLeave(h, b) == LockStep(h, b, {"locking"}, "up") /\ UNCHANGED evs

Locked(h, b) ==
  /\ LockedOnes = {} /\ MayStart(h) /\ Len(evs) < MaxQueue
  /\ nextId[h] + Cardinality({i \in DOMAIN evs : evs[i].h = h}) < MaxId
  /\ ctx[h] = "receiver" \/ "no_eis" \in Faults
  /\ LockStep(h, b, {"locking"}, "locked")
  /\ Report("activated", h)

(* Variant: the objects go and nobody is told. *)
UnlockedSilently(h, b) == LockStep(h, b, {"locked"}, "up") /\ UNCHANGED evs

Unlocked(h, b) ==
  /\ Len(evs) < MaxQueue
  /\ LockStep(h, b, {"locked"}, "up")
  /\ Report("deactivated", h)

SurfaceClosed(h, b) ==
  /\ "surface_closed" \in Faults
  /\ LockStep(h, b, {"up", "locking", "locked"}, "none")
  /\ UNCHANGED evs

-----------------------------------------------------------------------------
(* The bridge task.                                                        *)
Bridging(pc, h, id) == bridge' = [pc |-> pc, h |-> h, id |-> id]

(* The counter of begin_input_capture_activation. Variant: it stands still. *)
BumpedNever(n) == n
Bumped(n) == n + 1

TakeActivated ==
  LET h == Head(evs).h
  IN  /\ bridge = Resting /\ evs # <<>> /\ Head(evs).kind = "activated"
      /\ evs' = Tail(evs)
      /\ \/ /\ h \in live
            /\ act' = [act EXCEPT ![h] = nextId[h]]
            /\ nextId' = [nextId EXCEPT ![h] = Bumped(@)]
            /\ Bridging("begun", h, nextId[h])
         \/ h \notin live /\ UNCHANGED <<act, nextId, bridge>>
      /\ UNCHANGED <<live, enabled, barriers, call, cmds, wlVars, eisVars, sigVars>>

StartCapture ==
  LET h == bridge.h
  IN  /\ bridge.pc = "begun"
      /\ \/ /\ ctx[h] = "receiver"
            /\ emulating' = emulating \cup {h}
            /\ Bridging("emit_activated", h, bridge.id)
         \/ /\ ctx[h] # "receiver"
            /\ Bridging("failed", h, bridge.id)
            /\ UNCHANGED emulating
      /\ UNCHANGED <<sesVars, call, cmds, wlVars, evs, ctx, usesEis, sigVars>>

RollBack ==
  LET h == bridge.h
  IN  /\ bridge.pc = "failed"
      /\ act' = [act EXCEPT ![h] = None]
      /\ bridge' = Resting
      /\ UNCHANGED <<live, enabled, nextId, barriers, call, cmds, wlVars, evs, eisVars, sigVars>>

EmitActivated ==
  /\ bridge.pc = "emit_activated"
  /\ seen' = [seen EXCEPT ![bridge.h] = bridge.id]
  /\ bridge' = Resting
  /\ UNCHANGED <<sesVars, call, cmds, wlVars, evs, eisVars, ended>>

(* No activation is open when a call has ended it: then nothing is left to *)
(* do.                                                                     *)
TakeDeactivated ==
  LET h == Head(evs).h
  IN  /\ bridge = Resting /\ evs # <<>> /\ Head(evs).kind = "deactivated"
      /\ evs' = Tail(evs)
      /\ \/ /\ h \in live /\ act[h] # None
            /\ act' = [act EXCEPT ![h] = None]
            /\ Bridging("ended", h, act[h])
         \/ /\ h \in live => act[h] = None
            /\ UNCHANGED <<act, bridge>>
      /\ UNCHANGED <<live, enabled, nextId, barriers, call, cmds, wlVars, eisVars, sigVars>>

StopCapture ==
  /\ bridge.pc = "ended"
  /\ emulating' = emulating \ {bridge.h}
  /\ Bridging("emit_deactivated", bridge.h, bridge.id)
  /\ UNCHANGED <<sesVars, call, cmds, wlVars, evs, ctx, usesEis, sigVars>>

EmitDeactivated ==
  /\ bridge.pc = "emit_deactivated"
  /\ Deactivated(bridge.h, bridge.id)
  /\ bridge' = Resting
  /\ UNCHANGED <<sesVars, call, cmds, wlVars, evs, eisVars>>

-----------------------------------------------------------------------------
Init ==
  /\ live = Session /\ enabled = {}
  /\ act = [h \in Session |-> None] /\ nextId = [h \in Session |-> 0]
  /\ barriers = [h \in Session |-> {}]
  /\ call = [h \in Session |-> [c \in Slot |-> NoCall]]
  /\ cmds = <<>> /\ evs = <<>>
  /\ surf = [h \in Session |-> [b \in Barrier |-> "none"]] /\ orphan = {}
  /\ bridge = Resting
  /\ ctx = [h \in Session |-> "none"] /\ usesEis = [h \in Session |-> FALSE]
  /\ emulating = {}
  /\ seen = [h \in Session |-> None] /\ ended = [h \in Session |-> {}]

ClientCall(h) ==
  \/ ConnectToEis(h)
  \/ \E bars \in SUBSET Barrier : SetPointerBarriers(h, bars)
  \/ \E c \in Slot : Enable(h, c) \/ Disable(h, c) \/ Release(h, c) \/ Close(h, c)

Handler(h) == \E c \in Slot : (call[h][c].op # "idle" /\ SendCommand(h, c)) \/ EmitSignals(h, c)

Compositor(h) ==
  \E b \in Barrier :
    PointerEnter(h, b) \/ PointerLeave(h, b) \/ Locked(h, b) \/ Unlocked(h, b) \/ SurfaceClosed(h, b)

BridgeTask ==
  \/ TakeActivated \/ StartCapture \/ RollBack \/ EmitActivated
  \/ TakeDeactivated \/ StopCapture \/ EmitDeactivated

Next ==
  \/ \E h \in Session :
       ClientCall(h) \/ Handler(h) \/ Compositor(h) \/ Handshake(h) \/ HangUp(h)
  \/ RunCommand
  \/ BridgeTask

Spec == Init /\ [][Next]_vars

(* The two threads and the tasks of the calls run on; the client and the   *)
(* compositor owe nothing. A call is fair strongly because a send to the   *)
(* real channels never waits: only the bound of the model makes it.        *)
FairSpec ==
  /\ Spec
  /\ WF_vars(RunCommand) /\ WF_vars(BridgeTask)
  /\ \A h \in Session : SF_vars(Handler(h))

-----------------------------------------------------------------------------
(* Types, and the bounds of the channels.                                  *)
TypeOK ==
  /\ live \subseteq Session /\ enabled \subseteq live
  /\ act \in [Session -> Id \cup {None}] /\ nextId \in [Session -> 0..MaxId]
  /\ barriers \in [Session -> SUBSET Barrier]
  /\ call \in [Session -> [Slot -> Call]]
  /\ cmds \in Seq(Command) /\ Len(cmds) <= MaxQueue
  /\ surf \in [Session -> [Barrier -> Lock]] /\ orphan \subseteq Session \X Barrier
  /\ evs \in Seq(Event) /\ Len(evs) <= MaxQueue
  /\ bridge \in Bridge
  /\ ctx \in [Session -> {"none", "handshake", "receiver"}]
  /\ usesEis \in [Session -> BOOLEAN] /\ emulating \subseteq Session
  /\ seen \in [Session -> Id \cup {None}] /\ ended \in [Session -> SUBSET Id]

(* Whoever takes an activation id out of its session is the one to tell    *)
(* the client of its end, and nobody else: two calls and the bridge may    *)
(* all come to end one activation, and one Deactivated is emitted.         *)
Enders(h, id) ==
  Cardinality({c \in Slot : call[h][c].id = id})
  + (IF bridge.h = h /\ bridge.id = id /\ bridge.pc \in {"ended", "emit_deactivated"} THEN 1 ELSE 0)
  + (IF act[h] = id THEN 1 ELSE 0)
  + (IF id \in ended[h] THEN 1 ELSE 0)

EndedOnce == \A h \in Session, id \in Id : Enders(h, id) <= 1

(* No activation is announced whose end was announced before.              *)
SignalsInOrder == \A h \in Session : seen[h] # None => seen[h] \notin ended[h]

(* What has been asked of the Wayland thread for a session.                *)
Asked(h, kind) ==
  \/ \E i \in DOMAIN cmds : cmds[i].h = h /\ cmds[i].kind = kind
  \/ \E c \in Slot : kind = "destroy" /\ call[h][c].op \in {"disable", "close"} /\ call[h][c].step = "send"

(* A surface that can lock the user's pointer is the surface of a session  *)
(* that is enabled, or its destruction is on its way.                      *)
SurfacesOfEnabled ==
  \A h \in Session, b \in Barrier :
    surf[h][b] # "none" \/ <<h, b>> \in orphan => h \in enabled \/ Asked(h, "destroy")

(* Nothing of a session is on its way anywhere.                            *)
Settled(h) ==
  /\ \A c \in Slot : call[h][c] = NoCall
  /\ \A i \in DOMAIN cmds : cmds[i].h # h
  /\ \A i \in DOMAIN evs : evs[i].h # h
  /\ bridge.h # h

HasLock(h) == \E b \in Barrier : surf[h][b] = "locked"

(* Once all is settled, a client that was told its capture is active has   *)
(* the pointer.                                                            *)
ToldHasPointer == \A h \in live : Settled(h) /\ seen[h] # None => HasLock(h)

(* Once all is settled, a locked pointer belongs to a session that has an  *)
(* activation and whose client knows it, so that somebody can release it.  *)
PointerHasOwner ==
  \A h \in Session : Settled(h) /\ HasLock(h) => h \in live /\ act[h] # None /\ seen[h] = act[h]

(* Once all is settled, the barriers that can fire are those of the last   *)
(* SetPointerBarriers.                                                     *)
BarriersCurrent ==
  \A h \in live : Settled(h) => {b \in Barrier : surf[h][b] # "none"} \subseteq barriers[h]

(* What is on the screen is what the enabled sessions asked for.           *)
ScreenAgrees == SurfacesOfEnabled /\ BarriersCurrent

(* Once all is settled, the pointer is a client's exactly while the client *)
(* was told so.                                                            *)
CaptureAgrees == ToldHasPointer /\ PointerHasOwner

(* Once all is settled, a client is sent emulated input only while it has  *)
(* an activation.                                                          *)
EmulationStops == \A h \in Session : Settled(h) /\ h \in emulating => act[h] # None

(* The barriers of a session that is closed go.                            *)
ClosedFreesScreen ==
  \A h \in Session :
    (h \notin live) ~> (\A b \in Barrier : surf[h][b] = "none" /\ <<h, b>> \notin orphan)

=============================================================================
