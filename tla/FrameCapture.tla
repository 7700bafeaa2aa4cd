---------------------------- MODULE FrameCapture ----------------------------
(***************************************************************************)
(* Frame capture on the Wayland thread: the map of active captures of      *)
(* wayland/screencopy.rs (wlr-screencopy, protocol versions 1 to 3) and of *)
(* wayland/ext_capture.rs (ext-image-copy-capture), the compositor that    *)
(* answers them, and the outputs that come and go.                         *)
(*                                                                         *)
(* Which protocol is used is settled when the globals are bound, so it is  *)
(* chosen in Init, as is whether a minimum frame interval paces requests.  *)
(* The handlers of one event are functions of the capture's record; the    *)
(* actions apply them to the map. Time is two facts per capture: that its  *)
(* next request is due and that its handshake has run out of time.         *)
(***************************************************************************)
EXTENDS Naturals, Sequences, FiniteSets

CONSTANTS
  Output,     \* wl_output globals
  Stream,     \* PipeWire node ids, the keys of continuous captures
  Shot,       \* screenshot ids, from the two id counters
  Region,     \* parts of an output a damage box can name
  Format,     \* wl_shm formats and sizes a buffer can have
  Preferred,  \* the format pick_format prefers
  Protocols,  \* the protocols Init chooses from
  Pacing,     \* the values of "a minimum frame interval is set" Init chooses from
  MaxBoxes,   \* MAX_DAMAGE_RECTS
  MaxMishaps, \* the most faults of one behaviour
  Faults,     \* what the compositor may do: a subset of AllFaults
  None

AllFaults ==
  {"failed",          \* a frame fails
   "resize",          \* a frame fails because the buffer constraints changed
   "update_pending",  \* new constraints arrive while a frame is pending
   "slow_handshake",  \* a frame interval ends before a handshake does
   "silent",          \* a handshake takes longer than its time limit
   "no_format",       \* the constraints name no usable format
   "no_memory",       \* a buffer cannot be allocated
   "shared_damage",   \* damage is counted per screencopy manager, not per capture
   "unplug",          \* an output is unplugged
   "id_reuse",        \* PipeWire gives a freed node id to a new stream
   "no_node",         \* PipeWire assigns no node id in time
   "pw_stop"}         \* the PipeWire thread ends

Id == Stream \cup Shot

(* ActiveCapture and ActiveExtCapture. `live` counts the frame objects     *)
(* that have not been destroyed, `copies` the copy() or capture() requests *)
(* of the latest one, which is inert when its output was released before.  *)
Captured ==
  [output : Output, oneshot : BOOLEAN, pending : BOOLEAN, live : Nat,
   copies : 0..2, inert : BOOLEAN, format : Format \cup {None},
   buffer : Format \cup {None}, formats : SUBSET Format, done : BOOLEAN,
   first : BOOLEAN, requested : BOOLEAN, boxes : SUBSET Region,
   due : BOOLEAN, late : BOOLEAN]

ASSUME CaptureAssumption ==
  /\ Stream \cap Shot = {} /\ None \notin Output \cup Format \cup Captured
  /\ Preferred \in Format
  /\ Protocols \subseteq {"ext", "v1", "v2", "v3"} /\ Pacing \subseteq BOOLEAN
  /\ MaxBoxes \in Nat /\ MaxMishaps \in Nat /\ Faults \subseteq AllFaults

VARIABLES
  protocol,  \* use_ext, or the version of the screencopy manager
  paced,     \* min_frame_interval is not zero
  plugged,   \* outputs the compositor has
  outputs,   \* WaylandState::outputs
  captures,  \* the map of active captures
  offer,     \* what the compositor accepts for a session, or for a frame
  owed,      \* sessions whose constraint events are still to be sent
  dirty,     \* regions changed since the compositor last completed a frame
  told,      \* regions the frame being copied was told are damaged
  picture,   \* what each stream's consumer knows of each region
  reply,     \* the reply channel of each screenshot
  mishaps    \* faults so far

capVars == <<captures, picture, reply>>
compVars == <<plugged, offer, owed, dirty, told>>
fixedVars == <<protocol, paced>>
frameVars == <<fixedVars, capVars, compVars, outputs, mishaps>>

Live == {i \in Id : captures[i] # None}

Mishap(f) == f \in Faults /\ mishaps < MaxMishaps /\ mishaps' = mishaps + 1

Fresh(o, oneshot) ==
  [output |-> o, oneshot |-> oneshot, pending |-> FALSE, live |-> 0,
   copies |-> 0, inert |-> FALSE, format |-> None, buffer |-> None,
   formats |-> {}, done |-> FALSE, first |-> TRUE, requested |-> FALSE,
   boxes |-> {}, due |-> ~paced \/ oneshot, late |-> FALSE]

(* A frame object is created; the previous one is not destroyed here. *)
NewFrame(c) ==
  [c EXCEPT !.pending = TRUE, !.live = @ + 1, !.copies = 0,
            !.inert = c.output \notin outputs]

(* Variant: the frame object is destroyed once more. *)
TakeFrameTwice(c) ==
  IF c.pending THEN [c EXCEPT !.pending = FALSE, !.live = @ - 2, !.copies = 0] ELSE c

(* The pending frame, if any, is destroyed. *)
TakeFrame(c) ==
  IF c.pending THEN [c EXCEPT !.pending = FALSE, !.live = @ - 1, !.copies = 0] ELSE c

Copy(c) == [c EXCEPT !.copies = @ + 1]

Put(i, c) == captures' = [captures EXCEPT ![i] = c]

(* The outcomes of ShmFrameBuffer::new for a capture that asks for f. *)
Allocated(c, f) ==
  {TRUE} \cup (IF "no_memory" \in Faults /\ c.buffer # f THEN {FALSE} ELSE {})

-----------------------------------------------------------------------------
(* wlr-screencopy. *)
wlr == protocol # "ext"
damage_available == protocol \in {"v2", "v3"}

wlr_start(o, oneshot) == NewFrame(Fresh(o, oneshot))

(* Variant: copy() is sent for every buffer event. *)
allocate_and_copy_again(c, ok) ==
  IF c.format = None \/ ~ok THEN c
  ELSE Copy([c EXCEPT !.buffer = c.format, !.boxes = {},
                      !.requested = damage_available /\ ~c.first /\ ~c.oneshot])

allocate_and_copy(c, ok) ==
  IF c.format = None \/ ~ok THEN c
  ELSE LET b == [c EXCEPT !.buffer = c.format]
           with_damage == damage_available /\ ~c.first /\ ~c.oneshot
       IN  IF c.copies > 0 THEN b    \* copy_sent
           ELSE Copy([b EXCEPT !.requested = with_damage, !.boxes = {}])

on_frame_buffer(c, f, ok) ==
  LET known == IF c.format = None THEN [c EXCEPT !.format = f] ELSE c
  IN  IF protocol = "v3" THEN known ELSE allocate_and_copy(known, ok)

on_frame_buffer_done(c, ok) == allocate_and_copy([c EXCEPT !.done = TRUE], ok)

(* Variant: the box past the limit, which stands for many, is dropped. *)
wlr_on_damage_drops(c, r) ==
  IF Cardinality(c.boxes) < MaxBoxes THEN [c EXCEPT !.boxes = @ \cup {r}] ELSE c

wlr_on_damage(c, r) ==
  IF Cardinality(c.boxes) <= MaxBoxes THEN [c EXCEPT !.boxes = @ \cup {r}] ELSE c

(* frame_damage: no boxes stand for the whole frame. *)
frame_damage(c) ==
  IF c.requested /\ Cardinality(c.boxes) <= MaxBoxes THEN c.boxes ELSE {}

wlr_issue(c) == [NewFrame(c) EXCEPT !.format = None, !.done = FALSE, !.due = ~paced]

-----------------------------------------------------------------------------
(* ext-image-copy-capture. *)
ext == protocol = "ext"

pick_format(c) ==
  IF c.formats = {} THEN None
  ELSE IF Preferred \in c.formats THEN Preferred
       ELSE CHOOSE f \in c.formats : TRUE

on_session_shm_format(c, F) == [c EXCEPT !.formats = @ \cup F]

(* allocate_and_capture: the records it may leave. A screenshot without a  *)
(* buffer is answered, and its capture stays.                              *)
allocate_and_capture(c, ok) ==
  LET f == pick_format(c)
  IN  IF f = None \/ ~ok THEN [c EXCEPT !.oneshot = FALSE]
      ELSE Copy([NewFrame(c) EXCEPT !.buffer = f])

on_session_done(c, ok) == allocate_and_capture([c EXCEPT !.done = TRUE], ok)

ext_issue(c) ==
  LET n == [NewFrame(c) EXCEPT !.due = ~paced]
  IN  IF c.buffer = None THEN n ELSE Copy(n)

(* on_frame_failed for reason buffer_constraints: wait for new ones. *)
on_constraints_failed(c) ==
  [TakeFrame(c) EXCEPT !.boxes = {}, !.formats = {}, !.done = FALSE, !.buffer = None]

-----------------------------------------------------------------------------
(* Both protocols. request_next_frame defers to the pump when pacing says  *)
(* the next request is not due.                                            *)
issue_next_frame(c) == IF wlr THEN wlr_issue(c) ELSE ext_issue(c)

request_next_frame(c) == IF c.due THEN issue_next_frame(c) ELSE c

(* Variant: the pump leaves a capture that was never answered alone. *)
DeferredOnceServed(c) == paced /\ ~c.pending /\ ~c.oneshot /\ c.due /\ ~c.first

(* The pump's filter, with the interval set. *)
Deferred(c) == paced /\ ~c.pending /\ ~c.oneshot /\ c.due

(* The compositor is done with the frame of i. *)
EndFrame(i) ==
  /\ told' = [told EXCEPT ![i] = {}]
  /\ offer' = IF wlr THEN [offer EXCEPT ![i] = {}] ELSE offer

Forget(i) ==
  /\ captures' = [captures EXCEPT ![i] = None]
  /\ owed' = owed \ {i}

Answer(i, r) == reply' = IF i \in Shot THEN [reply EXCEPT ![i] = r] ELSE reply

(* What a delivered frame tells its consumer: boxes D, or all of it. A     *)
(* region that changed and is not told is missed.                          *)
Deliver(i, D) ==
  picture' = IF i \in Stream
             THEN [picture EXCEPT ![i] =
                     [r \in Region |->
                        IF D = {} \/ r \in D THEN "current"
                        ELSE IF @[r] = "changed" THEN "missed" ELSE @[r]]]
             ELSE picture

-----------------------------------------------------------------------------
(* Commands, run by process_capture_commands. A session of the ext         *)
(* protocol first owes its constraint events.                              *)
Begin(i, o) ==
  /\ Put(i, IF wlr THEN wlr_start(o, i \in Shot) ELSE Fresh(o, i \in Shot))
  /\ owed' = IF ext THEN owed \cup {i} ELSE owed
  /\ dirty' = [dirty EXCEPT ![i] = Region]
  /\ told' = [told EXCEPT ![i] = {}]
  /\ \E F \in SUBSET Format :
       /\ IF wlr THEN F = {} ELSE F # {} \/ "no_format" \in Faults
       /\ offer' = [offer EXCEPT ![i] = F]
  /\ UNCHANGED <<fixedVars, plugged, outputs, mishaps>>

start_capture(i, o) ==
  \/ /\ o \in outputs
     /\ Begin(i, o)
     /\ picture' = [picture EXCEPT ![i] = [r \in Region |-> "changed"]]
     /\ UNCHANGED reply
  \/ o \notin outputs /\ UNCHANGED frameVars

start_screenshot(i, o) ==
  \/ /\ o \in outputs
     /\ Begin(i, o)
     /\ Answer(i, "held")
     /\ UNCHANGED picture
  \/ /\ o \notin outputs
     /\ Answer(i, "err")
     /\ UNCHANGED <<fixedVars, captures, picture, compVars, outputs, mishaps>>

stop_capture(i) ==
  /\ Forget(i)
  /\ UNCHANGED <<fixedVars, picture, reply, plugged, offer, dirty, told, outputs, mishaps>>

-----------------------------------------------------------------------------
(* Events of a screencopy frame. The compositor names the buffer it needs  *)
(* for each frame anew, on versions 1 and 2 possibly more than once.       *)
Awaiting(i) ==
  /\ i \in Live
  /\ captures[i].live > 0 /\ ~captures[i].inert /\ captures[i].output \in plugged

FrameBuffer(i) ==
  /\ wlr /\ Awaiting(i)
  /\ captures[i].copies < 2 /\ (protocol = "v3" => ~captures[i].done)
  /\ \E f \in Format :
       \E ok \in Allocated(captures[i], f) :
         /\ Put(i, on_frame_buffer(captures[i], f, ok))
         /\ offer' = [offer EXCEPT ![i] = @ \cup {f}]
  /\ UNCHANGED <<fixedVars, picture, reply, plugged, owed, dirty, told, outputs, mishaps>>

FrameBufferDone(i) ==
  /\ protocol = "v3" /\ Awaiting(i)
  /\ ~captures[i].done
  /\ captures[i].format # None \/ "no_format" \in Faults
  /\ \E ok \in Allocated(captures[i], captures[i].format) :
       Put(i, on_frame_buffer_done(captures[i], ok))
  /\ UNCHANGED <<fixedVars, picture, reply, compVars, outputs, mishaps>>

(* Events of an ext session. *)
SessionFormats(i) ==
  /\ ext /\ i \in Live /\ i \in owed
  /\ ~(offer[i] \subseteq captures[i].formats)
  /\ Put(i, on_session_shm_format(captures[i], offer[i]))
  /\ UNCHANGED <<fixedVars, picture, reply, compVars, outputs, mishaps>>

SessionDone(i) ==
  /\ ext /\ i \in Live /\ i \in owed
  /\ offer[i] \subseteq captures[i].formats
  /\ owed' = owed \ {i}
  /\ LET c == captures[i]
     IN  \E ok \in Allocated(c, pick_format(c)) :
           /\ Put(i, on_session_done(c, ok))
           /\ IF c.oneshot /\ ~on_session_done(c, ok).oneshot
              THEN Answer(i, "err") ELSE UNCHANGED reply
  /\ UNCHANGED <<fixedVars, picture, plugged, offer, dirty, told, outputs, mishaps>>

SessionStopped(i) ==
  /\ ext /\ i \in Live /\ captures[i].output \notin plugged
  /\ IF captures[i].oneshot THEN Answer(i, "err") ELSE UNCHANGED reply
  /\ Forget(i)
  /\ UNCHANGED <<fixedVars, picture, plugged, offer, dirty, told, outputs, mishaps>>

(* The compositor changes what it accepts and sends the new constraints    *)
(* while a frame is pending.                                               *)
ConstraintsUpdate(i) ==
  /\ ext /\ Mishap("update_pending")
  /\ Awaiting(i) /\ i \notin owed
  /\ \E F \in (SUBSET Format) \ {{}} : offer' = [offer EXCEPT ![i] = F]
  /\ owed' = owed \cup {i}
  /\ UNCHANGED <<fixedVars, capVars, plugged, dirty, told, outputs>>

-----------------------------------------------------------------------------
(* Events of a frame that was asked to copy. *)
Copying(i) == Awaiting(i) /\ captures[i].copies > 0

TellsDamage(i) == ext \/ captures[i].requested

FrameDamage(i, r) ==
  /\ Copying(i) /\ TellsDamage(i)
  /\ r \in dirty[i] \ told[i]
  /\ told' = [told EXCEPT ![i] = @ \cup {r}]
  /\ Put(i, IF wlr THEN wlr_on_damage(captures[i], r)
                   ELSE [captures[i] EXCEPT !.boxes = @ \cup {r}])
  /\ UNCHANGED <<fixedVars, picture, reply, plugged, offer, owed, dirty, outputs, mishaps>>

(* The compositor completes a frame once it has told all its damage. *)
Completes(i) ==
  /\ Copying(i)
  /\ ext => captures[i].buffer \in offer[i]
  /\ TellsDamage(i) => dirty[i] # {} /\ dirty[i] \subseteq told[i]

(* Whose damage record a completed frame of i clears. *)
Cleared(i) ==
  IF wlr /\ "shared_damage" \in Faults
  THEN {j \in Live : captures[j].output = captures[i].output}
  ELSE {i}

wlr_on_frame_ready(c) == [TakeFrame(c) EXCEPT !.first = FALSE, !.boxes = {}]
ext_on_frame_ready(c) == [TakeFrame(c) EXCEPT !.boxes = {}]

(* Variant: a screenshot's capture goes on after its frame. *)
FrameReadyKeeps(i) ==
  /\ Completes(i)
  /\ dirty' = [j \in Id |-> IF j \in Cleared(i) THEN {} ELSE dirty[j]]
  /\ Answer(i, "ok")
  /\ Deliver(i, IF wlr THEN frame_damage(captures[i]) ELSE captures[i].boxes)
  /\ Put(i, request_next_frame([wlr_on_frame_ready(captures[i]) EXCEPT !.oneshot = FALSE]))
  /\ EndFrame(i)
  /\ UNCHANGED <<fixedVars, owed, plugged, outputs, mishaps>>

FrameReady(i) ==
  /\ Completes(i)
  /\ dirty' = [j \in Id |-> IF j \in Cleared(i) THEN {} ELSE dirty[j]]
  /\ LET c == captures[i]
         taken == IF wlr THEN wlr_on_frame_ready(c) ELSE ext_on_frame_ready(c)
     IN  IF c.oneshot
         THEN Answer(i, "ok") /\ Forget(i) /\ UNCHANGED picture
         ELSE /\ Deliver(i, IF wlr THEN frame_damage(c) ELSE c.boxes)
              /\ Put(i, request_next_frame(taken))
              /\ UNCHANGED <<owed, reply>>
  /\ EndFrame(i)
  /\ UNCHANGED <<fixedVars, plugged, outputs, mishaps>>

on_frame_failed(i) ==
  LET c == captures[i]
      taken == IF wlr THEN TakeFrame(c) ELSE [TakeFrame(c) EXCEPT !.boxes = {}]
  IN  IF c.oneshot
      THEN Answer(i, "err") /\ Forget(i)
      ELSE Put(i, request_next_frame(taken)) /\ UNCHANGED <<reply, owed>>

(* A frame fails by itself, or because its output is gone. *)
FrameFailed(i) ==
  /\ i \in Live /\ captures[i].live > 0 /\ ~captures[i].inert
  /\ \/ captures[i].output \in plugged /\ Mishap("failed")
     \/ wlr /\ captures[i].output \notin plugged /\ UNCHANGED mishaps
  /\ on_frame_failed(i)
  /\ EndFrame(i)
  /\ UNCHANGED <<fixedVars, picture, plugged, dirty, outputs>>

(* The constraints changed under a frame; new ones follow. *)
FrameConstraints(i) ==
  /\ ext /\ Copying(i) /\ i \notin owed
  /\ ~paced \/ ~captures[i].due \/ "slow_handshake" \in Faults
  /\ \/ captures[i].buffer \in offer[i] /\ Mishap("resize")
     \/ captures[i].buffer \notin offer[i] /\ UNCHANGED mishaps
  /\ \E F \in (SUBSET Format) \ {{}} : offer' = [offer EXCEPT ![i] = F]
  /\ IF captures[i].oneshot
     THEN Answer(i, "err") /\ Forget(i)
     ELSE /\ Put(i, on_constraints_failed(captures[i]))
          /\ owed' = owed \cup {i}
          /\ UNCHANGED reply
  /\ told' = [told EXCEPT ![i] = {}]
  /\ UNCHANGED <<fixedVars, picture, plugged, dirty, outputs>>

-----------------------------------------------------------------------------
(* One turn of run_event_loop between two polls. *)
(* Variant: a screenshot's handshake has no time limit. *)
HandshakeTimeoutStreams(i) ==
  /\ ext /\ i \in Stream \cap Live
  /\ ~captures[i].done /\ captures[i].late
  /\ Forget(i)
  /\ UNCHANGED <<fixedVars, picture, reply, plugged, offer, dirty, told, outputs, mishaps>>

HandshakeTimeout(i) ==
  /\ ext /\ i \in Live
  /\ ~captures[i].done /\ captures[i].late
  /\ IF captures[i].oneshot THEN Answer(i, "err") ELSE UNCHANGED reply
  /\ Forget(i)
  /\ UNCHANGED <<fixedVars, picture, plugged, offer, dirty, told, outputs, mishaps>>

Pump(i) ==
  /\ i \in Live /\ Deferred(captures[i])
  /\ Put(i, issue_next_frame(captures[i]))
  /\ UNCHANGED <<fixedVars, picture, reply, compVars, outputs, mishaps>>

(* Time passes. *)
IntervalEnds(i) ==
  /\ i \in Live /\ ~captures[i].due
  /\ wlr \/ captures[i].done \/ "slow_handshake" \in Faults
  /\ Put(i, [captures[i] EXCEPT !.due = TRUE])
  /\ UNCHANGED <<fixedVars, picture, reply, compVars, outputs, mishaps>>

HandshakeLate(i) ==
  /\ ext /\ i \in Live /\ ~captures[i].late
  /\ "silent" \in Faults
  /\ Put(i, [captures[i] EXCEPT !.late = TRUE])
  /\ UNCHANGED <<fixedVars, picture, reply, compVars, outputs, mishaps>>

(* The compositor's side. *)
ContentChanges(o, r) ==
  /\ o \in plugged
  /\ LET seen == {i \in Live : captures[i].output = o}
     IN  /\ \E i \in seen : r \notin dirty[i]
         /\ dirty' = [i \in Id |-> IF i \in seen THEN dirty[i] \cup {r} ELSE dirty[i]]
         /\ picture' = [i \in Stream |->
              IF i \in seen /\ picture[i][r] = "current"
              THEN [picture[i] EXCEPT ![r] = "changed"] ELSE picture[i]]
  /\ UNCHANGED <<fixedVars, captures, reply, plugged, offer, owed, told, outputs, mishaps>>

Unplug(o) ==
  /\ o \in plugged /\ Mishap("unplug")
  /\ plugged' = plugged \ {o}
  /\ UNCHANGED <<fixedVars, capVars, offer, owed, dirty, told, outputs>>

(* wl_registry.global_remove: the wl_output is released. *)
GlobalRemove(o) ==
  /\ o \in outputs \ plugged
  /\ outputs' = outputs \ {o}
  /\ UNCHANGED <<fixedVars, capVars, compVars, mishaps>>

FrameInit ==
  /\ protocol \in Protocols
  /\ paced \in Pacing
  /\ plugged = Output /\ outputs = Output
  /\ captures = [i \in Id |-> None]
  /\ offer = [i \in Id |-> {}]
  /\ owed = {}
  /\ dirty = [i \in Id |-> {}] /\ told = [i \in Id |-> {}]
  /\ picture = [i \in Stream |-> [r \in Region |-> "current"]]
  /\ reply = [s \in Shot |-> "none"]
  /\ mishaps = 0

FrameEvent ==
  \/ \E i \in Id :
       \/ FrameBuffer(i) \/ FrameBufferDone(i)
       \/ SessionFormats(i) \/ SessionDone(i) \/ SessionStopped(i) \/ ConstraintsUpdate(i)
       \/ FrameFailed(i) \/ FrameConstraints(i)
       \/ HandshakeTimeout(i) \/ Pump(i) \/ IntervalEnds(i) \/ HandshakeLate(i)
       \/ \E r \in Region : FrameDamage(i, r)
  \/ \E o \in Output :
       \/ Unplug(o) \/ GlobalRemove(o)
       \/ \E r \in Region : ContentChanges(o, r)
=============================================================================
