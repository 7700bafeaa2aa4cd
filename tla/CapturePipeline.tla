--------------------------- MODULE CapturePipeline --------------------------
(***************************************************************************)
(* Three threads carry a frame from an output to a consumer. The capture   *)
(* backend (services/capture) runs in the D-Bus tasks: it has a PipeWire   *)
(* stream made, then tells the Wayland thread to capture into it. The      *)
(* Wayland thread (wayland/mod.rs) runs the commands of its channel        *)
(* between two dispatches. The PipeWire thread (pipewire/mod.rs) runs the  *)
(* commands of its own channel, the frames of the Wayland thread among     *)
(* them. The Screenshot interface asks the Wayland thread for one frame    *)
(* and waits for the reply without a time limit.                           *)
(***************************************************************************)
EXTENDS FrameCapture

CONSTANT MaxQueue  \* frames in the PipeWire thread's channel

VARIABLES
  commands,  \* capture_tx to capture_rx
  pwqueue,   \* command_tx to command_rx of the PipeWire thread
  running,   \* the PipeWire thread runs
  streams,   \* its map of streams, with the output each was made for
  spent,     \* node ids that have been given out
  active,    \* active_streams of the capture backend
  calling    \* what the backend's caller waits for, under the backend's mutex

pipeVars == <<commands, pwqueue, running, streams, spent, active, calling>>
vars == <<frameVars, pipeVars>>

Cmd(op, i, o) == [op |-> op, id |-> i, output |-> o]
Idle == Cmd("idle", None, None)

Queued(op, i) == \E k \in DOMAIN commands : commands[k].op = op /\ commands[k].id = i
Frames == {k \in DOMAIN pwqueue : pwqueue[k].op = "buffer"}

-----------------------------------------------------------------------------
(* create_capture_session, for one source. The caller blocks for PipeWire's *)
(* reply; the capture starts after it. sources may be stale: any output.    *)
CreateStream(o) ==
  /\ calling = Idle /\ running
  /\ calling' = Cmd("create", None, o)
  /\ pwqueue' = Append(pwqueue, Cmd("create", None, o))
  /\ UNCHANGED <<frameVars, commands, running, streams, spent, active>>

StreamCreated ==
  /\ calling.op = "created"
  /\ commands' = Append(commands, Cmd("start", calling.id, calling.output))
  /\ active' = [active EXCEPT ![calling.id] = calling.output]
  /\ calling' = Idle
  /\ UNCHANGED <<frameVars, pwqueue, running, streams, spent>>

(* destroy_capture_session, for one stream: the stop is sent first. *)
DestroyStream(n) ==
  /\ calling = Idle
  /\ active[n] # None
  /\ active' = [active EXCEPT ![n] = None]
  /\ commands' = Append(commands, Cmd("stop", n, None))
  /\ IF running
     THEN /\ pwqueue' = Append(pwqueue, Cmd("destroy", n, None))
          /\ calling' = Cmd("destroy", n, None)
     ELSE UNCHANGED <<pwqueue, calling>>
  /\ UNCHANGED <<frameVars, running, streams, spent>>

(* Screenshot and PickColor. *)
CallScreenshot(s, o) ==
  /\ reply[s] = "none"
  /\ reply' = [reply EXCEPT ![s] = "queued"]
  /\ commands' = Append(commands, Cmd("shot", s, o))
  /\ UNCHANGED <<fixedVars, captures, picture, compVars, outputs, mishaps>>
  /\ UNCHANGED <<pwqueue, running, streams, spent, active, calling>>

-----------------------------------------------------------------------------
(* The Wayland thread: process_capture_commands, and a frame's delivery. *)
ProcessCommand ==
  /\ commands # <<>>
  /\ LET c == Head(commands)
     IN  CASE c.op = "start" -> start_capture(c.id, c.output)
           [] c.op = "stop"  -> stop_capture(c.id)
           [] c.op = "shot"  -> start_screenshot(c.id, c.output)
  /\ commands' = Tail(commands)
  /\ UNCHANGED <<pwqueue, running, streams, spent, active, calling>>

(* Without a direct channel the frame goes to PipeWire, and is lost when    *)
(* its thread has ended.                                                    *)
DeliverFrame(i) ==
  /\ FrameReady(i)
  /\ IF captures[i].oneshot \/ ~running THEN UNCHANGED pwqueue
     ELSE /\ Cardinality(Frames) < MaxQueue
          /\ pwqueue' = Append(pwqueue, Cmd("buffer", i, captures[i].output))
  /\ UNCHANGED <<commands, running, streams, spent, active, calling>>

-----------------------------------------------------------------------------
(* The PipeWire thread. *)
NewIds == {n \in Stream : streams[n] = None /\ (n \in spent => "id_reuse" \in Faults)}

PipeWireCreate(c) ==
  \/ \E n \in NewIds :
       /\ streams' = [streams EXCEPT ![n] = c.output]
       /\ spent' = spent \cup {n}
       /\ calling' = Cmd("created", n, c.output)
  \/ /\ NewIds = {} \/ "no_node" \in Faults
     /\ calling' = Idle
     /\ UNCHANGED <<streams, spent>>

PipeWireCommand ==
  /\ running /\ pwqueue # <<>>
  /\ pwqueue' = Tail(pwqueue)
  /\ LET c == Head(pwqueue)
     IN  CASE c.op = "create"  -> PipeWireCreate(c)
           [] c.op = "destroy" -> /\ streams' = [streams EXCEPT ![c.id] = None]
                                  /\ calling' = Idle
                                  /\ UNCHANGED spent
           [] c.op = "buffer"  -> UNCHANGED <<streams, spent, calling>>
  /\ UNCHANGED <<frameVars, commands, running, active>>

(* Shutdown, or an error of the loop: the streams are cleaned up, and a    *)
(* reply that was waited for is dropped.                                   *)
PipeWireStop ==
  /\ running /\ "pw_stop" \in Faults
  /\ running' = FALSE
  /\ streams' = [n \in Stream |-> None]
  /\ pwqueue' = <<>>
  /\ calling' = IF calling.op = "created" THEN calling ELSE Idle
  /\ UNCHANGED <<frameVars, commands, spent, active>>

Init ==
  /\ FrameInit
  /\ commands = <<>> /\ pwqueue = <<>>
  /\ running = TRUE
  /\ streams = [n \in Stream |-> None]
  /\ spent = {}
  /\ active = [n \in Stream |-> None]
  /\ calling = Idle

Next ==
  \/ \E o \in Output : CreateStream(o) \/ \E s \in Shot : CallScreenshot(s, o)
  \/ StreamCreated
  \/ \E n \in Stream : DestroyStream(n)
  \/ ProcessCommand
  \/ \E i \in Id : DeliverFrame(i)
  \/ FrameEvent /\ UNCHANGED pipeVars
  \/ PipeWireCommand
  \/ PipeWireStop

(* The two threads keep running their loops, time passes, and a compositor *)
(* answers what it was asked, unless it is silent in a handshake.          *)
Answers(i) ==
  \/ FrameBuffer(i) \/ FrameBufferDone(i)
  \/ \E r \in Region : FrameDamage(i, r)
  \/ SessionStopped(i) \/ FrameConstraints(i)
  \/ ("silent" \notin Faults /\ (SessionFormats(i) \/ SessionDone(i)))

Unplugged(i) == i \in Live /\ captures[i].output \notin plugged

Fairness ==
  /\ WF_vars(ProcessCommand) /\ WF_vars(PipeWireCommand) /\ WF_vars(StreamCreated)
  /\ \A o \in Output : WF_vars(GlobalRemove(o) /\ UNCHANGED pipeVars)
  /\ \A i \in Id :
       /\ WF_vars(DeliverFrame(i))
       /\ WF_vars(Answers(i) /\ UNCHANGED pipeVars)
       /\ WF_vars(Unplugged(i) /\ FrameFailed(i) /\ UNCHANGED pipeVars)
       /\ WF_vars((Pump(i) \/ IntervalEnds(i)) /\ UNCHANGED pipeVars)
       /\ WF_vars((HandshakeTimeout(i) \/ HandshakeLate(i)) /\ UNCHANGED pipeVars)

Spec == Init /\ [][Next]_vars
FairSpec == Spec /\ Fairness
-----------------------------------------------------------------------------
TypeOK ==
  /\ captures \in [Id -> Captured \cup {None}]
  /\ plugged \subseteq Output /\ outputs \subseteq Output
  /\ offer \in [Id -> SUBSET Format] /\ owed \subseteq Id
  /\ dirty \in [Id -> SUBSET Region] /\ told \in [Id -> SUBSET Region]
  /\ picture \in [Stream -> [Region -> {"current", "changed", "missed"}]]
  /\ reply \in [Shot -> {"none", "queued", "held", "ok", "err"}]
  /\ streams \in [Stream -> Output \cup {None}]
  /\ active \in [Stream -> Output \cup {None}]

(* The capture loop breaks no rule of the capture protocols: a session has *)
(* one frame at a time, and a frame is copied once, into a buffer of the   *)
(* kind it was told.                                                       *)
NoProtocolError ==
  \A i \in Live :
    LET c == captures[i]
    IN  c.live <= 1 /\ c.copies <= 1 /\ (wlr /\ c.copies = 1 => c.buffer \in offer[i])

(* The damage of the frames a consumer gets covers every change of its     *)
(* output: it never draws a region from a frame older than the last one.   *)
NothingMissed == \A n \in Stream : \A r \in Region : picture[n][r] # "missed"

(* A screenshot has a capture exactly while its reply is held: it is       *)
(* answered once, and nothing is captured for it afterwards.               *)
OneShotsEnd ==
  \A s \in Shot : (reply[s] = "held") <=> (s \in Live)

(* A capture runs only for a stream the backend still has, or until the    *)
(* stop that is on its way is read.                                        *)
CaptureHasStream ==
  \A n \in Stream : n \in Live => active[n] # None \/ Queued("stop", n)

(* The frames a stream gets are of the output it was made for. *)
FramesOfOwnOutput ==
  \A k \in Frames :
    (k = 1 /\ streams[pwqueue[k].id] # None) => streams[pwqueue[k].id] = pwqueue[k].output

(* A continuous capture that waits for nothing is paced: a frame is asked  *)
(* for, constraints are awaited, or the pump will ask.                     *)
NeverIdle ==
  \A n \in Stream \cap Live : captures[n].pending \/ n \in owed \/ paced

(* Captures and those they are for agree, and none of them stands still.   *)
CapturesAccounted == OneShotsEnd /\ CaptureHasStream /\ NeverIdle

(* A screenshot is answered, be it with an error: its caller waits without *)
(* a time limit.                                                           *)
ScreenshotAnswered ==
  \A s \in Shot : (reply[s] = "queued") ~> (reply[s] \in {"ok", "err"})

(* A change of an output reaches the consumer of its stream, as long as    *)
(* the capture runs and the output is there.                               *)
ChangesReachConsumer ==
  \A n \in Stream : \A r \in Region :
    (n \in Live /\ picture[n][r] = "changed") ~>
      (picture[n][r] = "current" \/ n \notin Live \/ captures[n].output \notin plugged)
=============================================================================
