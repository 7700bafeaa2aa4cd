----------------------- MODULE CapturePipelineProofs ------------------------
(***************************************************************************)
(* Theorems about frame capture: CapturePipeline over FrameCapture, for    *)
(* any number of outputs, streams, screenshots, regions and formats.       *)
(*                                                                         *)
(* CTypes       the types, of the commands on their way too;               *)
(* AllSound     the bookkeeping of each capture, against what the          *)
(*              compositor offered and told for its frame;                 *)
(* AllSingle    one frame object per capture;                              *)
(* AllCounted   each capture waits for something, and is somebody's;       *)
(* Told         what changed on an output is still to be told;             *)
(* StopsFollow  a stop follows the starts of a stream that is given up.    *)
(*                                                                         *)
(* AllSingle needs a compositor that changes no constraints while a frame  *)
(* is pending and ends a handshake within a frame interval (NoSecondFrame),*)
(* AllCounted one that names a usable format and buffers that can be       *)
(* allocated (AllUsable), Told damage that is counted for each capture     *)
(* (OwnDamage). The others hold with every fault.                          *)
(***************************************************************************)
EXTENDS CapturePipeline, QueueLemmas

(* What a command to the Wayland thread, to the PipeWire thread, or a call *)
(* of the backend, carries.                                                *)
Command ==
  {c \in [op : {"start", "stop", "shot"}, id : Id, output : Output \cup {None}] :
     /\ c.op \in {"start", "stop"} => c.id \in Stream
     /\ c.op = "shot" => c.id \in Shot
     /\ c.op # "stop" => c.output \in Output}

Buffer ==
  {c \in [op : {"create", "destroy", "buffer"}, id : Id \cup {None},
          output : Output \cup {None}] :
     /\ c.op = "create" => c.output \in Output
     /\ c.op = "destroy" => c.id \in Stream}

Call ==
  {c \in [op : {"idle", "create", "created", "destroy"}, id : Stream \cup {None},
          output : Output \cup {None}] :
     c.op = "created" => c.id \in Stream /\ c.output \in Output}

FrameTypes ==
  /\ protocol \in {"ext", "v1", "v2", "v3"} /\ paced \in BOOLEAN
  /\ TypeOK
PipeTypes == commands \in Seq(Command) /\ pwqueue \in Seq(Buffer) /\ calling \in Call
CTypes == FrameTypes /\ PipeTypes

(* F is what the compositor offered the capture c of i, or its frame, and  *)
(* T the damage it told of the frame.                                      *)
Sound(c, i, F, T) ==
  /\ c \in Captured
  /\ c.pending => c.live >= 1
  /\ ~c.pending => c.copies = 0
  /\ c.copies <= 1
  /\ i \in Stream => ~c.oneshot
  /\ ~paced => c.due
  /\ wlr => c.live = IF c.pending THEN 1 ELSE 0
  /\ wlr /\ c.copies > 0 => c.format # None /\ c.buffer = c.format
  /\ wlr /\ c.pending /\ c.format # None => c.format \in F
  /\ T # {} => c.copies > 0
  /\ T \subseteq c.boxes \/ (wlr /\ ~(Cardinality(c.boxes) <= MaxBoxes))
AllSound == \A i \in Live : Sound(captures[i], i, offer[i], told[i])

(* One frame object at a time; a capture that is owed constraints has none *)
(* and is not asked for one.                                               *)
Single(c, owing) ==
  /\ c.live = IF c.pending THEN 1 ELSE 0
  /\ owing => ext /\ ~c.pending /\ ~c.done /\ (paced => ~c.due \/ c.oneshot)
AllSingle == (wlr => owed = {}) /\ \A i \in Live : Single(captures[i], i \in owed)

(* A screenshot's capture is one, and a stream's waits for something.      *)
Counted(c, i, F, owing) ==
  /\ i \in Shot => c.oneshot
  /\ ext => F # {}
  /\ i \in Stream /\ ~paced => c.pending \/ owing
ShotAt(k) == commands[k].op = "shot"
ShotsQueued ==
  /\ \A k \in DOMAIN commands : ShotAt(k) => reply[commands[k].id] = "queued"
  /\ \A k, l \in DOMAIN commands :
       ShotAt(k) /\ ShotAt(l) /\ commands[k].id = commands[l].id => k = l
AllWaiting == \A i \in Live : Counted(captures[i], i, offer[i], i \in owed)
AllCounted == AllWaiting /\ OneShotsEnd /\ ShotsQueued

(* A step replaces or ends the capture of i, and leaves the others alone.  *)
Alone == AllSingle /\ {"slow_handshake", "update_pending"} \cap Faults = {}
Usable == AllWaiting /\ {"no_format", "no_memory"} \cap Faults = {}
Goes(i, d) ==
  /\ Sound(d, i, offer'[i], told'[i])
  /\ Alone => Single(d, i \in owed') /\ (wlr => i \notin owed')
  /\ Usable => Counted(d, i, offer'[i], i \in owed')
Ends(i, d) == d = None /\ i \notin owed'
Fits(i, d) == Goes(i, d) \/ Ends(i, d)
Replaces(i, d) ==
  /\ captures' = [captures EXCEPT ![i] = d] /\ UNCHANGED fixedVars
  /\ \A j \in Id \ {i} : offer'[j] = offer[j] /\ told'[j] = told[j]
  /\ owed' \ {i} = owed \ {i}

Told == \A n \in Stream \cap Live : \A r \in Region : picture[n][r] = "changed" => r \in dirty[n]

StopAt(n, k) == commands[k].op = "stop" /\ commands[k].id = n
StopsFollow ==
  \A n \in Stream : active[n] = None =>
    /\ n \in Live => \E k \in DOMAIN commands : StopAt(n, k)
    /\ \A k \in DOMAIN commands :
         commands[k].op = "start" /\ commands[k].id = n =>
           \E l \in DOMAIN commands : l > k /\ StopAt(n, l)

-----------------------------------------------------------------------------
(* A field of a capture that is set leaves a capture.                     *)
LEMMA SetFields ==
  ASSUME NEW c \in Captured
  PROVE  /\ \A b \in BOOLEAN : [c EXCEPT !.pending = b] \in Captured
         /\ \A b \in BOOLEAN : [c EXCEPT !.inert = b] \in Captured
         /\ \A b \in BOOLEAN : [c EXCEPT !.done = b] \in Captured
         /\ \A b \in BOOLEAN : [c EXCEPT !.due = b] \in Captured
         /\ \A b \in BOOLEAN : [c EXCEPT !.first = b] \in Captured
         /\ \A b \in BOOLEAN : [c EXCEPT !.late = b] \in Captured
         /\ \A b \in BOOLEAN : [c EXCEPT !.oneshot = b] \in Captured
         /\ \A b \in BOOLEAN : [c EXCEPT !.requested = b] \in Captured
         /\ \A n \in Nat : [c EXCEPT !.live = n] \in Captured
         /\ [c EXCEPT !.copies = 0] \in Captured /\ [c EXCEPT !.copies = 1] \in Captured
         /\ \A f \in Format \cup {None} : [c EXCEPT !.format = f] \in Captured
         /\ \A f \in Format \cup {None} : [c EXCEPT !.buffer = f] \in Captured
         /\ \A F \in SUBSET Format : [c EXCEPT !.formats = F] \in Captured
         /\ \A D \in SUBSET Region : [c EXCEPT !.boxes = D] \in Captured
<1>1. \A b \in BOOLEAN : [c EXCEPT !.pending = b] \in Captured
  BY DEF Captured
<1>2. \A b \in BOOLEAN : [c EXCEPT !.inert = b] \in Captured
  BY DEF Captured
<1>3. \A b \in BOOLEAN : [c EXCEPT !.done = b] \in Captured
  BY DEF Captured
<1>4. \A b \in BOOLEAN : [c EXCEPT !.due = b] \in Captured
  BY DEF Captured
<1>5. \A b \in BOOLEAN : [c EXCEPT !.first = b] \in Captured
  BY DEF Captured
<1>6. \A b \in BOOLEAN : [c EXCEPT !.late = b] \in Captured
  BY DEF Captured
<1>7. \A b \in BOOLEAN : [c EXCEPT !.oneshot = b] \in Captured
  BY DEF Captured
<1>8. \A b \in BOOLEAN : [c EXCEPT !.requested = b] \in Captured
  BY DEF Captured
<1>9. \A n \in Nat : [c EXCEPT !.live = n] \in Captured
  BY DEF Captured
<1>10. [c EXCEPT !.copies = 0] \in Captured /\ [c EXCEPT !.copies = 1] \in Captured
  BY DEF Captured
<1>11. \A f \in Format \cup {None} : [c EXCEPT !.format = f] \in Captured
  BY DEF Captured
<1>12. \A f \in Format \cup {None} : [c EXCEPT !.buffer = f] \in Captured
  BY DEF Captured
<1>13. \A F \in SUBSET Format : [c EXCEPT !.formats = F] \in Captured
  BY DEF Captured
<1>14. \A D \in SUBSET Region : [c EXCEPT !.boxes = D] \in Captured
  BY DEF Captured
<1>15. QED
  BY <1>1, <1>2, <1>3, <1>4, <1>5, <1>6, <1>7, <1>8, <1>9, <1>10, <1>11, <1>12, <1>13, <1>14

(* A capture that starts has no frame yet.                                 *)
LEMMA FreshCapture ==
  ASSUME NEW o \in Output, NEW b \in BOOLEAN, paced \in BOOLEAN
  PROVE  LET d == Fresh(o, b)
         IN  /\ d \in Captured /\ d.oneshot = b /\ ~d.pending /\ d.live = 0 /\ d.copies = 0
             /\ d.format = None /\ d.boxes = {} /\ ~d.done /\ d.due = (~paced \/ b)
             /\ d.output = o
<1>1. PICK p \in BOOLEAN : p = (~paced \/ b)
  OBVIOUS
<1>2. Fresh(o, b) =
        [output |-> o, oneshot |-> b, pending |-> FALSE, live |-> 0,
         copies |-> 0, inert |-> FALSE, format |-> None, buffer |-> None,
         formats |-> {}, done |-> FALSE, first |-> TRUE, requested |-> FALSE,
         boxes |-> {}, due |-> p, late |-> FALSE]
  BY <1>1 DEF Fresh
<1>3. QED
  BY <1>1, <1>2 DEF Captured

(* A new frame is pending, and not copied yet.                             *)
LEMMA NewFrameFields ==
  ASSUME NEW c \in Captured
  PROVE  LET d == NewFrame(c)
         IN  /\ d \in Captured /\ d.pending /\ d.live = c.live + 1 /\ d.copies = 0
             /\ d.output = c.output /\ d.oneshot = c.oneshot /\ d.format = c.format
             /\ d.buffer = c.buffer /\ d.boxes = c.boxes /\ d.done = c.done /\ d.due = c.due
<1>1. PICK b \in BOOLEAN : b = (c.output \notin outputs)
  OBVIOUS
<1>2. PICK n \in Nat : n = c.live + 1
  BY DEF Captured
<1>3. NewFrame(c) = [c EXCEPT !.pending = TRUE, !.live = n, !.copies = 0, !.inert = b]
  BY <1>1, <1>2 DEF NewFrame
<1>4. [c EXCEPT !.pending = TRUE] \in Captured
  BY SetFields
<1>5. [c EXCEPT !.pending = TRUE, !.live = n] \in Captured
  BY <1>4, SetFields
<1>6. [c EXCEPT !.pending = TRUE, !.live = n, !.copies = 0] \in Captured
  BY <1>5, SetFields
<1>7. NewFrame(c) \in Captured
  BY <1>3, <1>6, SetFields
<1>8. LET d == NewFrame(c)
      IN  /\ d.pending /\ d.live = c.live + 1 /\ d.copies = 0
          /\ d.output = c.output /\ d.oneshot = c.oneshot /\ d.format = c.format
          /\ d.buffer = c.buffer /\ d.boxes = c.boxes /\ d.done = c.done /\ d.due = c.due
  BY <1>2, <1>3 DEF Captured
<1>9. QED
  BY <1>7, <1>8

(* A frame that is taken is not pending, and nothing is copied.            *)
LEMMA TakeFrameFields ==
  ASSUME NEW c \in Captured, c.pending => c.live >= 1, ~c.pending => c.copies = 0
  PROVE  LET d == TakeFrame(c)
         IN  /\ d \in Captured /\ ~d.pending /\ d.copies = 0
             /\ d.live = IF c.pending THEN c.live - 1 ELSE c.live
             /\ d.output = c.output /\ d.oneshot = c.oneshot /\ d.format = c.format
             /\ d.buffer = c.buffer /\ d.boxes = c.boxes /\ d.done = c.done /\ d.due = c.due
<1>1. CASE c.pending
  <2>1. PICK n \in Nat : n = c.live - 1
    BY <1>1 DEF Captured
  <2>2. TakeFrame(c) = [c EXCEPT !.pending = FALSE, !.live = n, !.copies = 0]
    BY <1>1, <2>1 DEF TakeFrame
  <2>3. [c EXCEPT !.pending = FALSE] \in Captured
    BY SetFields
  <2>4. [c EXCEPT !.pending = FALSE, !.live = n] \in Captured
    BY <2>3, SetFields
  <2>5. TakeFrame(c) \in Captured
    BY <2>2, <2>4, SetFields
  <2>6. LET d == TakeFrame(c)
        IN  /\ ~d.pending /\ d.copies = 0 /\ d.live = c.live - 1
            /\ d.output = c.output /\ d.oneshot = c.oneshot /\ d.format = c.format
            /\ d.buffer = c.buffer /\ d.boxes = c.boxes /\ d.done = c.done /\ d.due = c.due
    BY <2>1, <2>2 DEF Captured
  <2>7. QED
    BY <1>1, <2>5, <2>6
<1>2. CASE ~c.pending
  BY <1>2 DEF TakeFrame, Captured
<1>3. QED
  BY <1>1, <1>2

(* A frame is copied once more.                                            *)
LEMMA CopyFields ==
  ASSUME NEW c \in Captured, c.copies = 0
  PROVE  LET d == Copy(c)
         IN  /\ d \in Captured /\ d.copies = 1 /\ d.pending = c.pending
             /\ d.live = c.live
             /\ d.output = c.output /\ d.oneshot = c.oneshot /\ d.format = c.format
             /\ d.buffer = c.buffer /\ d.boxes = c.boxes /\ d.done = c.done /\ d.due = c.due
<1>1. Copy(c) = [c EXCEPT !.copies = 1]
  BY DEF Copy
<1>2. Copy(c) \in Captured
  BY <1>1, SetFields
<1>3. LET d == Copy(c)
      IN  /\ d.copies = 1 /\ d.pending = c.pending /\ d.live = c.live
          /\ d.output = c.output /\ d.oneshot = c.oneshot /\ d.format = c.format
          /\ d.buffer = c.buffer /\ d.boxes = c.boxes /\ d.done = c.done /\ d.due = c.due
  BY <1>1 DEF Captured
<1>4. QED
  BY <1>2, <1>3

(* A capture that has no frame is given one, which is not copied yet or    *)
(* copied into the buffer that is there.                                   *)
LEMMA WlrIssueFields ==
  ASSUME NEW c \in Captured, paced \in BOOLEAN
  PROVE  LET d == wlr_issue(c)
         IN  /\ d \in Captured /\ d.pending /\ d.live = c.live + 1 /\ d.copies = 0
             /\ d.output = c.output /\ d.oneshot = c.oneshot /\ d.format = None
             /\ d.boxes = c.boxes /\ ~d.done /\ d.due = ~paced
<1>1. PICK p \in BOOLEAN : p = ~paced
  OBVIOUS
<1>2. PICK n \in Captured : n = NewFrame(c)
  BY NewFrameFields
<1>3. wlr_issue(c) = [n EXCEPT !.format = None, !.done = FALSE, !.due = p]
  BY <1>1, <1>2 DEF wlr_issue
<1>4. [n EXCEPT !.format = None] \in Captured
  BY SetFields
<1>5. [n EXCEPT !.format = None, !.done = FALSE] \in Captured
  BY <1>4, SetFields
<1>6. wlr_issue(c) \in Captured
  BY <1>3, <1>5, SetFields
<1>7. LET d == wlr_issue(c)
      IN  /\ d.pending = n.pending /\ d.live = n.live /\ d.copies = n.copies
          /\ d.output = n.output /\ d.oneshot = n.oneshot /\ d.format = None
          /\ d.boxes = n.boxes /\ ~d.done /\ d.due = p
  BY <1>3 DEF Captured
<1>8. QED
  BY <1>1, <1>2, <1>6, <1>7, NewFrameFields

(* The same for the ext protocol, where the buffer may be there already.   *)
LEMMA ExtIssueFields ==
  ASSUME NEW c \in Captured, paced \in BOOLEAN
  PROVE  LET d == ext_issue(c)
         IN  /\ d \in Captured /\ d.pending /\ d.live = c.live + 1 /\ d.copies \in {0, 1}
             /\ d.output = c.output /\ d.oneshot = c.oneshot
             /\ d.boxes = c.boxes /\ d.done = c.done /\ d.due = ~paced
<1>1. PICK p \in BOOLEAN : p = ~paced
  OBVIOUS
<1>2. PICK n \in Captured : n = NewFrame(c)
  BY NewFrameFields
<1>3. PICK m \in Captured : m = [n EXCEPT !.due = p]
  BY SetFields
<1>4. /\ m.pending = n.pending /\ m.live = n.live /\ m.copies = n.copies
      /\ m.output = n.output /\ m.oneshot = n.oneshot
      /\ m.boxes = n.boxes /\ m.done = n.done /\ m.due = p
  BY <1>3 DEF Captured
<1>5. m.copies = 0
  BY <1>2, <1>4, NewFrameFields
<1>6. ext_issue(c) = IF c.buffer = None THEN m ELSE Copy(m)
  BY <1>1, <1>2, <1>3 DEF ext_issue
<1>7. QED
  BY <1>1, <1>2, <1>4, <1>5, <1>6, NewFrameFields, CopyFields

(* Either way the capture stays sound, with one frame object more.         *)
LEMMA Issued ==
  ASSUME paced \in BOOLEAN, NEW c, NEW i, NEW F, Sound(c, i, F, {}), ~c.pending
  PROVE  LET d == issue_next_frame(c)
         IN  /\ Sound(d, i, F, {}) /\ d.pending /\ d.live = c.live + 1
             /\ d.oneshot = c.oneshot /\ d.output = c.output
<1>1. c \in Captured
  BY DEF Sound
<1>2. CASE wlr
  <2>1. issue_next_frame(c) = wlr_issue(c)
    BY <1>2 DEF issue_next_frame
  <2>2. QED
    BY <1>1, <1>2, <2>1, WlrIssueFields DEF Sound, Captured
<1>3. CASE ~wlr
  <2>1. issue_next_frame(c) = ext_issue(c)
    BY <1>3 DEF issue_next_frame
  <2>2. QED
    BY <1>1, <1>3, <2>1, ExtIssueFields DEF Sound, Captured
<1>4. QED
  BY <1>2, <1>3

(* Asked for the next frame, a capture whose request is due has one.       *)
LEMMA Requested ==
  ASSUME paced \in BOOLEAN, NEW c, NEW i, NEW F, Sound(c, i, F, {}), ~c.pending
  PROVE  LET d == request_next_frame(c)
         IN  /\ Sound(d, i, F, {}) /\ d.oneshot = c.oneshot
             /\ d.pending \/ paced
             /\ d.live = IF d.pending THEN c.live + 1 ELSE c.live
<1>1. CASE c.due
  BY <1>1, Issued DEF request_next_frame
<1>2. CASE ~c.due
  BY <1>2 DEF request_next_frame, Sound
<1>3. QED
  BY <1>1, <1>2

(* A capture whose frame is taken is sound whatever is offered, and so it  *)
(* is with its damage boxes emptied.                                       *)
LEMMA Taken ==
  ASSUME NEW c, NEW i, NEW F, NEW T, NEW G, Sound(c, i, F, T)
  PROVE  LET d == TakeFrame(c)
         IN  /\ Sound(d, i, G, {}) /\ ~d.pending /\ d.oneshot = c.oneshot
             /\ d.live = IF c.pending THEN c.live - 1 ELSE c.live
             /\ d.done = c.done /\ d.due = c.due
<1>1. c \in Captured /\ (c.pending => c.live >= 1) /\ (~c.pending => c.copies = 0)
  BY DEF Sound
<1>2. QED
  BY <1>1, TakeFrameFields DEF Sound, Captured

(* Damage boxes are emptied with the frame.                                *)
LEMMA Emptied ==
  ASSUME NEW c, NEW i, NEW G, Sound(c, i, G, {})
  PROVE  LET d == [c EXCEPT !.boxes = {}]
         IN  /\ Sound(d, i, G, {}) /\ d.pending = c.pending /\ d.oneshot = c.oneshot
             /\ d.live = c.live /\ d.done = c.done /\ d.due = c.due
<1>1. c \in Captured
  BY DEF Sound
<1>2. PICK d \in Captured : d = [c EXCEPT !.boxes = {}]
  BY <1>1, SetFields
<1>3. /\ d.pending = c.pending /\ d.live = c.live /\ d.copies = c.copies
      /\ d.oneshot = c.oneshot /\ d.format = c.format /\ d.buffer = c.buffer
      /\ d.done = c.done /\ d.due = c.due
  BY <1>1, <1>2 DEF Captured
<1>4. QED
  BY <1>2, <1>3 DEF Sound

(* A frame that is ready is taken, whichever protocol it is of.            *)
LEMMA Readied ==
  ASSUME NEW c, NEW i, NEW F, NEW T, NEW G, Sound(c, i, F, T)
  PROVE  LET d == IF wlr THEN wlr_on_frame_ready(c) ELSE ext_on_frame_ready(c)
         IN  /\ Sound(d, i, G, {}) /\ ~d.pending /\ d.oneshot = c.oneshot
             /\ d.live = IF c.pending THEN c.live - 1 ELSE c.live
<1>1. PICK t : t = TakeFrame(c)
  OBVIOUS
<1>2. /\ Sound(t, i, G, {}) /\ ~t.pending /\ t.oneshot = c.oneshot
      /\ t.live = IF c.pending THEN c.live - 1 ELSE c.live
  BY <1>1, Taken
<1>3. t \in Captured
  BY <1>2 DEF Sound
<1>4. PICK u \in Captured : u = [t EXCEPT !.first = FALSE]
  BY <1>3, SetFields
<1>5. /\ u.pending = t.pending /\ u.live = t.live /\ u.copies = t.copies
      /\ u.oneshot = t.oneshot /\ u.format = t.format /\ u.buffer = t.buffer
      /\ u.done = t.done /\ u.due = t.due /\ u.boxes = t.boxes
  BY <1>3, <1>4 DEF Captured
<1>6. Sound(u, i, G, {})
  BY <1>2, <1>5 DEF Sound
<1>7. wlr_on_frame_ready(c) = [u EXCEPT !.boxes = {}]
  BY <1>1, <1>4 DEF wlr_on_frame_ready
<1>8. ext_on_frame_ready(c) = [t EXCEPT !.boxes = {}]
  BY <1>1 DEF ext_on_frame_ready
<1>9. CASE wlr
  BY <1>2, <1>5, <1>6, <1>7, <1>9, Emptied
<1>10. CASE ~wlr
  BY <1>2, <1>8, <1>10, Emptied
<1>11. QED
  BY <1>9, <1>10

(* A frame that failed is taken, and the constraints' failure waits for    *)
(* new ones.                                                               *)
LEMMA Failed ==
  ASSUME NEW c, NEW i, NEW F, NEW T, NEW G, Sound(c, i, F, T)
  PROVE  LET d == IF wlr THEN TakeFrame(c) ELSE [TakeFrame(c) EXCEPT !.boxes = {}]
         IN  /\ Sound(d, i, G, {}) /\ ~d.pending /\ d.oneshot = c.oneshot
             /\ d.live = IF c.pending THEN c.live - 1 ELSE c.live
BY Taken, Emptied

(* A frame that failed for its constraints has the session start over.     *)
LEMMA ConstraintsFailed ==
  ASSUME NEW c, NEW i, NEW F, NEW T, NEW G, Sound(c, i, F, T), ~wlr
  PROVE  LET d == on_constraints_failed(c)
         IN  /\ Sound(d, i, G, {}) /\ ~d.pending /\ d.oneshot = c.oneshot
             /\ d.live = IF c.pending THEN c.live - 1 ELSE c.live
             /\ ~d.done /\ d.due = c.due
<1>1. PICK t : t = [TakeFrame(c) EXCEPT !.boxes = {}]
  OBVIOUS
<1>2. /\ Sound(t, i, G, {}) /\ ~t.pending /\ t.oneshot = c.oneshot
      /\ t.live = IF c.pending THEN c.live - 1 ELSE c.live
      /\ t.due = c.due
  <2>1. LET d == TakeFrame(c)
        IN  /\ Sound(d, i, G, {}) /\ ~d.pending /\ d.oneshot = c.oneshot
            /\ d.live = IF c.pending THEN c.live - 1 ELSE c.live
            /\ d.due = c.due
    BY Taken
  <2>2. QED
    BY <1>1, <2>1, Emptied
<1>3. t \in Captured
  BY <1>2 DEF Sound
<1>4. PICK d : d = [t EXCEPT !.formats = {}, !.done = FALSE, !.buffer = None]
  OBVIOUS
<1>5. [t EXCEPT !.formats = {}] \in Captured
  BY <1>3, SetFields
<1>6. [t EXCEPT !.formats = {}, !.done = FALSE] \in Captured
  BY <1>5, SetFields
<1>7. d \in Captured
  BY <1>4, <1>6, SetFields
<1>8. /\ d.pending = t.pending /\ d.live = t.live /\ d.copies = t.copies
      /\ d.oneshot = t.oneshot /\ d.format = t.format /\ d.boxes = t.boxes
      /\ ~d.done /\ d.due = t.due
  BY <1>3, <1>4 DEF Captured
<1>9. Sound(d, i, G, {})
  BY <1>2, <1>7, <1>8 DEF Sound
<1>10. on_constraints_failed(c) = d
  <2>1. TakeFrame(c) \in Captured
    BY TakeFrameFields DEF Sound
  <2>2. on_constraints_failed(c) =
          [TakeFrame(c) EXCEPT !.boxes = {}, !.formats = {}, !.done = FALSE, !.buffer = None]
    BY DEF on_constraints_failed
  <2>3. QED
    BY <1>1, <1>4, <2>1, <2>2 DEF Captured
<1>11. QED
  BY <1>2, <1>8, <1>9, <1>10

(* A buffer is copied into once, and is of the format the frame needs.     *)
LEMMA AllocatedAndCopied ==
  ASSUME NEW c, NEW i, NEW F, NEW T, NEW ok \in BOOLEAN, Sound(c, i, F, T), wlr, c.pending
  PROVE  LET d == allocate_and_copy(c, ok)
         IN  /\ Sound(d, i, F, T) /\ d.pending /\ d.oneshot = c.oneshot
             /\ d.live = c.live /\ d.done = c.done /\ d.due = c.due
<1>1. CASE c.format = None \/ ~ok
  BY <1>1 DEF allocate_and_copy
<1>2. CASE c.format # None /\ ok
  <2>1. c \in Captured /\ c.format \in Format \cup {None}
    BY DEF Sound, Captured
  <2>2. PICK b \in Captured : b = [c EXCEPT !.buffer = c.format]
    BY <2>1, SetFields
  <2>3. /\ b.pending = c.pending /\ b.live = c.live /\ b.copies = c.copies
        /\ b.oneshot = c.oneshot /\ b.format = c.format /\ b.buffer = c.format
        /\ b.done = c.done /\ b.due = c.due /\ b.boxes = c.boxes
    BY <2>1, <2>2 DEF Captured
  <2>4. CASE c.copies > 0
    <3>1. allocate_and_copy(c, ok) = b
      BY <1>2, <2>2, <2>4 DEF allocate_and_copy
    <3>2. QED
      BY <2>2, <2>3, <3>1 DEF Sound
  <2>5. CASE ~(c.copies > 0)
    <3>1. PICK w \in BOOLEAN : w = (damage_available /\ ~c.first /\ ~c.oneshot)
      OBVIOUS
    <3>2. PICK e : e = [b EXCEPT !.requested = w, !.boxes = {}]
      OBVIOUS
    <3>3. [b EXCEPT !.requested = w] \in Captured
      BY SetFields
    <3>4. e \in Captured
      BY <3>2, <3>3, SetFields
    <3>5. /\ e.pending = b.pending /\ e.live = b.live /\ e.copies = b.copies
          /\ e.oneshot = b.oneshot /\ e.format = b.format /\ e.buffer = b.buffer
          /\ e.done = b.done /\ e.due = b.due /\ e.boxes = {}
      BY <3>2 DEF Captured
    <3>6. allocate_and_copy(c, ok) = Copy(e)
      BY <1>2, <2>2, <2>5, <3>1, <3>2 DEF allocate_and_copy
    <3>7. e.copies = 0 /\ T = {}
      BY <2>1, <2>3, <2>5, <3>5 DEF Sound, Captured
    <3>8. PICK d : d = allocate_and_copy(c, ok)
      OBVIOUS
    <3>9. /\ d \in Captured /\ d.copies = 1 /\ d.pending = e.pending
          /\ d.live = e.live /\ d.oneshot = e.oneshot /\ d.format = e.format
          /\ d.buffer = e.buffer /\ d.boxes = e.boxes /\ d.done = e.done /\ d.due = e.due
      BY <3>4, <3>6, <3>7, <3>8, CopyFields
    <3>10. /\ d.pending = c.pending /\ d.live = c.live /\ d.oneshot = c.oneshot
           /\ d.format = c.format /\ d.buffer = c.format /\ d.boxes = {}
           /\ d.done = c.done /\ d.due = c.due
      BY <2>3, <3>5, <3>9
    <3>11. Sound(d, i, F, T)
      BY <1>2, <3>7, <3>9, <3>10 DEF Sound
    <3>12. QED
      BY <3>8, <3>10, <3>11
  <2>6. QED
    BY <2>4, <2>5
<1>3. QED
  BY <1>1, <1>2

(* The buffer event's format is kept when it is the first.                 *)
LEMMA BufferKnown ==
  ASSUME NEW c, NEW i, NEW F, NEW T, NEW f \in Format, NEW ok \in BOOLEAN,
         Sound(c, i, F, T), wlr, c.pending
  PROVE  LET d == on_frame_buffer(c, f, ok)
         IN  /\ Sound(d, i, F \cup {f}, T) /\ d.pending /\ d.oneshot = c.oneshot
             /\ d.live = c.live /\ d.done = c.done /\ d.due = c.due
<1>1. c \in Captured
  BY DEF Sound
<1>2. PICK k : k = IF c.format = None THEN [c EXCEPT !.format = f] ELSE c
  OBVIOUS
<1>3. k \in Captured
  BY <1>1, <1>2, SetFields
<1>4. /\ k.pending = c.pending /\ k.live = c.live /\ k.copies = c.copies
      /\ k.oneshot = c.oneshot /\ k.buffer = c.buffer /\ k.boxes = c.boxes
      /\ k.done = c.done /\ k.due = c.due
      /\ k.format = IF c.format = None THEN f ELSE c.format
  BY <1>1, <1>2 DEF Captured
<1>5. Sound(k, i, F \cup {f}, T)
  BY <1>3, <1>4 DEF Sound
<1>6. on_frame_buffer(c, f, ok) = IF protocol = "v3" THEN k ELSE allocate_and_copy(k, ok)
  BY <1>2 DEF on_frame_buffer
<1>7. CASE protocol = "v3"
  BY <1>4, <1>5, <1>6, <1>7
<1>8. CASE protocol # "v3"
  <2>1. k.pending
    BY <1>4
  <2>2. LET d == allocate_and_copy(k, ok)
        IN  /\ Sound(d, i, F \cup {f}, T) /\ d.pending /\ d.oneshot = k.oneshot
            /\ d.live = k.live /\ d.done = k.done /\ d.due = k.due
    BY <1>5, <2>1, AllocatedAndCopied
  <2>3. QED
    BY <1>4, <1>6, <1>8, <2>2
<1>9. QED
  BY <1>7, <1>8

(* Version 3 ends the buffer events with buffer_done.                      *)
LEMMA BuffersDone ==
  ASSUME NEW c, NEW i, NEW F, NEW T, NEW ok \in BOOLEAN, Sound(c, i, F, T), wlr, c.pending
  PROVE  LET d == on_frame_buffer_done(c, ok)
         IN  /\ Sound(d, i, F, T) /\ d.pending /\ d.oneshot = c.oneshot /\ d.live = c.live
<1>1. c \in Captured
  BY DEF Sound
<1>2. PICK k \in Captured : k = [c EXCEPT !.done = TRUE]
  BY <1>1, SetFields
<1>3. /\ k.pending = c.pending /\ k.live = c.live /\ k.copies = c.copies
      /\ k.oneshot = c.oneshot /\ k.buffer = c.buffer /\ k.boxes = c.boxes
      /\ k.due = c.due /\ k.format = c.format
  BY <1>1, <1>2 DEF Captured
<1>4. Sound(k, i, F, T)
  BY <1>2, <1>3 DEF Sound
<1>5. on_frame_buffer_done(c, ok) = allocate_and_copy(k, ok)
  BY <1>2 DEF on_frame_buffer_done
<1>6. k.pending
  BY <1>3
<1>7. LET d == allocate_and_copy(k, ok)
      IN  /\ Sound(d, i, F, T) /\ d.pending /\ d.oneshot = k.oneshot /\ d.live = k.live
  BY <1>4, <1>6, AllocatedAndCopied
<1>8. QED
  BY <1>3, <1>5, <1>7

(* The damage told of a frame is in its boxes, or stands for all of it.    *)
Damaged(c, r) == IF wlr THEN wlr_on_damage(c, r) ELSE [c EXCEPT !.boxes = @ \cup {r}]

LEMMA DamageKept ==
  ASSUME NEW c, NEW i, NEW F, NEW T, NEW r \in Region, Sound(c, i, F, T), c.copies > 0
  PROVE  LET d == Damaged(c, r)
         IN  /\ Sound(d, i, F, T \cup {r}) /\ d.pending = c.pending /\ d.oneshot = c.oneshot
             /\ d.live = c.live /\ d.done = c.done /\ d.due = c.due
<1>1. c \in Captured /\ c.boxes \cup {r} \in SUBSET Region
  BY DEF Sound, Captured
<1>2. PICK k \in Captured : k = [c EXCEPT !.boxes = c.boxes \cup {r}]
  BY <1>1, SetFields
<1>3. /\ k.pending = c.pending /\ k.live = c.live /\ k.copies = c.copies
      /\ k.oneshot = c.oneshot /\ k.buffer = c.buffer /\ k.boxes = c.boxes \cup {r}
      /\ k.due = c.due /\ k.done = c.done /\ k.format = c.format
  BY <1>1, <1>2 DEF Captured
<1>4. CASE wlr /\ ~(Cardinality(c.boxes) <= MaxBoxes)
  <2>1. Damaged(c, r) = c
    BY <1>4 DEF Damaged, wlr_on_damage
  <2>2. QED
    BY <1>4, <2>1 DEF Sound
<1>5. CASE ~(wlr /\ ~(Cardinality(c.boxes) <= MaxBoxes))
  <2>1. Sound(k, i, F, T \cup {r})
    BY <1>2, <1>3, <1>5 DEF Sound
  <2>2. Damaged(c, r) = k
    BY <1>2, <1>5 DEF Damaged, wlr_on_damage
  <2>3. QED
    BY <1>3, <2>1, <2>2
<1>6. QED
  BY <1>4, <1>5

(* The other fields that events set do not matter to a capture's           *)
(* soundness.                                                              *)
LEMMA Timed ==
  ASSUME NEW c, NEW i, NEW F, NEW T, Sound(c, i, F, T)
  PROVE  /\ LET d == [c EXCEPT !.due = TRUE]
            IN  /\ Sound(d, i, F, T) /\ d.pending = c.pending /\ d.oneshot = c.oneshot
                /\ d.live = c.live /\ d.done = c.done
         /\ LET d == [c EXCEPT !.late = TRUE]
            IN  /\ Sound(d, i, F, T) /\ d.pending = c.pending /\ d.oneshot = c.oneshot
                /\ d.live = c.live /\ d.done = c.done /\ d.due = c.due
<1>1. c \in Captured
  BY DEF Sound
<1>2. PICK d \in Captured : d = [c EXCEPT !.due = TRUE]
  BY <1>1, SetFields
<1>3. /\ d.pending = c.pending /\ d.live = c.live /\ d.copies = c.copies
      /\ d.oneshot = c.oneshot /\ d.buffer = c.buffer /\ d.boxes = c.boxes
      /\ d.due /\ d.done = c.done /\ d.format = c.format
  BY <1>1, <1>2 DEF Captured
<1>4. PICK e \in Captured : e = [c EXCEPT !.late = TRUE]
  BY <1>1, SetFields
<1>5. /\ e.pending = c.pending /\ e.live = c.live /\ e.copies = c.copies
      /\ e.oneshot = c.oneshot /\ e.buffer = c.buffer /\ e.boxes = c.boxes
      /\ e.due = c.due /\ e.done = c.done /\ e.format = c.format
  BY <1>1, <1>4 DEF Captured
<1>6. Sound(d, i, F, T) /\ Sound(e, i, F, T)
  BY <1>3, <1>5 DEF Sound
<1>7. QED
  BY <1>2, <1>3, <1>4, <1>5, <1>6

(* The formats of a session are collected.                                 *)
LEMMA FormatsKept ==
  ASSUME NEW c, NEW i, NEW F, NEW T, NEW G \in SUBSET Format, Sound(c, i, F, T)
  PROVE  LET d == on_session_shm_format(c, G)
         IN  /\ Sound(d, i, F, T) /\ d.pending = c.pending /\ d.oneshot = c.oneshot
             /\ d.live = c.live /\ d.done = c.done /\ d.due = c.due
<1>1. c \in Captured /\ c.formats \cup G \in SUBSET Format
  BY DEF Sound, Captured
<1>2. PICK d \in Captured : d = [c EXCEPT !.formats = c.formats \cup G]
  BY <1>1, SetFields
<1>3. /\ d.pending = c.pending /\ d.live = c.live /\ d.copies = c.copies
      /\ d.oneshot = c.oneshot /\ d.buffer = c.buffer /\ d.boxes = c.boxes
      /\ d.due = c.due /\ d.done = c.done /\ d.format = c.format
  BY <1>1, <1>2 DEF Captured
<1>4. Sound(d, i, F, T)
  BY <1>3 DEF Sound
<1>5. QED
  BY <1>2, <1>3, <1>4 DEF on_session_shm_format

(* The format picked is one of those the session named.                    *)
LEMMA PickedFormat ==
  ASSUME NEW c \in Captured
  PROVE  /\ pick_format(c) \in Format \cup {None}
         /\ c.formats # {} => pick_format(c) # None
<1>1. c.formats \subseteq Format
  BY DEF Captured
<1>2. c.formats # {} => (CHOOSE f \in c.formats : TRUE) \in c.formats
  OBVIOUS
<1>3. None \notin Format
  BY CaptureAssumption
<1>4. QED
  BY <1>1, <1>2, <1>3 DEF pick_format

(* The constraints are complete: a session with a usable format has a      *)
(* frame, another stays without.                                           *)
LEMMA SessionAnswered ==
  ASSUME NEW c, NEW i, NEW F, NEW T, NEW ok \in BOOLEAN, Sound(c, i, F, T), ~wlr
  PROVE  LET d == on_session_done(c, ok)
         IN  /\ Sound(d, i, F, T)
             /\ \/ d.pending /\ d.live = c.live + 1 /\ d.oneshot = c.oneshot
                \/ /\ ~(c.formats # {} /\ ok)
                   /\ d.pending = c.pending /\ d.live = c.live
<1>1. c \in Captured
  BY DEF Sound
<1>2. PICK k \in Captured : k = [c EXCEPT !.done = TRUE]
  BY <1>1, SetFields
<1>3. /\ k.pending = c.pending /\ k.live = c.live /\ k.copies = c.copies
      /\ k.oneshot = c.oneshot /\ k.buffer = c.buffer /\ k.boxes = c.boxes
      /\ k.due = c.due /\ k.format = c.format /\ k.formats = c.formats
  BY <1>1, <1>2 DEF Captured
<1>4. PICK f \in Format \cup {None} : f = pick_format(k)
  BY <1>2, PickedFormat
<1>5. on_session_done(c, ok) = IF f = None \/ ~ok THEN [k EXCEPT !.oneshot = FALSE]
                               ELSE Copy([NewFrame(k) EXCEPT !.buffer = f])
  BY <1>2, <1>4 DEF on_session_done, allocate_and_capture
<1>6. CASE f = None \/ ~ok
  <2>1. PICK d \in Captured : d = [k EXCEPT !.oneshot = FALSE]
    BY <1>2, SetFields
  <2>2. /\ d.pending = k.pending /\ d.live = k.live /\ d.copies = k.copies
        /\ ~d.oneshot /\ d.buffer = k.buffer /\ d.boxes = k.boxes
        /\ d.due = k.due /\ d.format = k.format
    BY <1>2, <2>1 DEF Captured
  <2>3. Sound(d, i, F, T)
    BY <1>3, <2>1, <2>2 DEF Sound
  <2>4. ~(c.formats # {} /\ ok)
    BY <1>2, <1>3, <1>4, <1>6, PickedFormat
  <2>5. on_session_done(c, ok) = d
    BY <1>5, <1>6, <2>1
  <2>6. QED
    BY <1>3, <2>2, <2>3, <2>4, <2>5
<1>7. CASE ~(f = None \/ ~ok)
  <2>1. PICK n \in Captured : n = NewFrame(k)
    BY <1>2, NewFrameFields
  <2>2. /\ n.pending /\ n.live = k.live + 1 /\ n.copies = 0
        /\ n.oneshot = k.oneshot /\ n.boxes = k.boxes /\ n.due = k.due
    BY <1>2, <2>1, NewFrameFields
  <2>3. PICK b \in Captured : b = [n EXCEPT !.buffer = f]
    BY <2>1, SetFields
  <2>4. /\ b.pending = n.pending /\ b.live = n.live /\ b.copies = n.copies
        /\ b.oneshot = n.oneshot /\ b.boxes = n.boxes /\ b.due = n.due
    BY <2>1, <2>3 DEF Captured
  <2>5. PICK d : d = Copy(b)
    OBVIOUS
  <2>6. /\ d \in Captured /\ d.copies = 1 /\ d.pending = b.pending /\ d.live = b.live
        /\ d.oneshot = b.oneshot /\ d.boxes = b.boxes /\ d.due = b.due
    BY <2>2, <2>3, <2>4, <2>5, CopyFields
  <2>7. d.live >= 1
    BY <1>1, <1>3, <2>2, <2>4, <2>6 DEF Captured
  <2>8. Sound(d, i, F, T)
    BY <1>3, <2>2, <2>4, <2>6, <2>7 DEF Sound
  <2>9. on_session_done(c, ok) = d
    BY <1>5, <1>7, <2>1, <2>3, <2>5
  <2>10. QED
    BY <1>3, <2>2, <2>4, <2>6, <2>8, <2>9
<1>8. QED
  BY <1>6, <1>7

-----------------------------------------------------------------------------
(* The other captures are as they were.                                    *)
LEMMA ReplacedFits ==
  ASSUME FrameTypes, AllSound, NEW i \in Id, NEW d, Replaces(i, d), Fits(i, d)
  PROVE  /\ captures' \in [Id -> Captured \cup {None}] /\ AllSound'
         /\ Alone => AllSingle'
         /\ Usable => AllWaiting'
<1>1. captures \in [Id -> Captured \cup {None}] /\ None \notin Captured
  BY CaptureAssumption DEF FrameTypes, TypeOK
<1>2. captures'[i] = d /\ \A j \in Id \ {i} : captures'[j] = captures[j]
  BY <1>1 DEF Replaces
<1>3. protocol' = protocol /\ paced' = paced
  BY DEF Replaces, fixedVars
<1>4. \A j \in Live' : j = i \/ (j \in Live /\ j \in Id \ {i})
  BY <1>2 DEF Live
<1>5. i \in Live' => d # None
  BY <1>2 DEF Live
<1>6. captures' \in [Id -> Captured \cup {None}]
  <2>1. d \in Captured \cup {None}
    BY DEF Fits, Goes, Ends, Sound
  <2>2. QED
    BY <1>1, <2>1 DEF Replaces
<1>7. AllSound'
  <2>1. ASSUME NEW j \in Live' PROVE Sound(captures[j], j, offer[j], told[j])'
    <3>1. CASE j = i
      BY <1>2, <1>3, <1>5, <3>1 DEF Fits, Goes, Ends, Sound, wlr
    <3>2. CASE j # i
      <4>1. Sound(captures[j], j, offer[j], told[j]) /\ j \in Id \ {i}
        BY <1>4, <3>2 DEF AllSound
      <4>2. QED
        BY <1>2, <1>3, <4>1 DEF Replaces, Sound, wlr
    <3>3. QED
      BY <3>1, <3>2
  <2>2. QED
    BY <2>1 DEF AllSound
<1>8. ASSUME Alone PROVE AllSingle'
  <2>1. ASSUME NEW j \in Live' PROVE Single(captures[j], j \in owed)'
    <3>1. CASE j = i
      BY <1>2, <1>3, <1>5, <1>8, <3>1 DEF Fits, Goes, Ends, Single, ext
    <3>2. CASE j # i
      <4>1. Single(captures[j], j \in owed) /\ j \in Id \ {i}
        BY <1>4, <1>8, <3>2 DEF Alone, AllSingle
      <4>2. QED
        BY <1>2, <1>3, <4>1 DEF Replaces, Single, ext
    <3>3. QED
      BY <3>1, <3>2
  <2>2. (wlr => owed = {})'
    <3>1. wlr => i \notin owed'
      BY <1>8 DEF Fits, Goes, Ends
    <3>2. wlr => owed = {}
      BY <1>8 DEF Alone, AllSingle
    <3>3. QED
      BY <1>3, <3>1, <3>2 DEF Replaces, wlr
  <2>3. QED
    BY <2>1, <2>2 DEF AllSingle
<1>9. ASSUME Usable PROVE AllWaiting'
  <2>1. ASSUME NEW j \in Live' PROVE Counted(captures[j], j, offer[j], j \in owed)'
    <3>1. CASE j = i
      BY <1>2, <1>3, <1>5, <1>9, <3>1 DEF Fits, Goes, Ends, Counted, ext
    <3>2. CASE j # i
      <4>1. Counted(captures[j], j, offer[j], j \in owed) /\ j \in Id \ {i}
        BY <1>4, <1>9, <3>2 DEF Usable, AllWaiting
      <4>2. QED
        BY <1>2, <1>3, <4>1 DEF Replaces, Counted, ext
    <3>3. QED
      BY <3>1, <3>2
  <2>2. QED
    BY <2>1 DEF AllWaiting
<1>10. QED
  BY <1>6, <1>7, <1>8, <1>9

(* What holds of the capture of i before an event.                         *)
LEMMA Before ==
  ASSUME FrameTypes, AllSound, NEW i \in Live
  PROVE  /\ i \in Id /\ Sound(captures[i], i, offer[i], told[i])
         /\ Alone => Single(captures[i], i \in owed) /\ (wlr => i \notin owed)
         /\ Usable => Counted(captures[i], i, offer[i], i \in owed)
BY DEF AllSound, Alone, AllSingle, Usable, AllWaiting, Live

(* A capture that is removed is owed nothing.                              *)
LEMMA RemoveEnds ==
  ASSUME NEW i \in Id, Forget(i), UNCHANGED fixedVars,
         \A j \in Id \ {i} : offer'[j] = offer[j] /\ told'[j] = told[j]
  PROVE  Replaces(i, None) /\ Ends(i, None)
BY DEF Forget, Replaces, Ends

(* One lemma per event: the capture of i goes on, sound, single and        *)
(* counted, or it ends. First the events of a screencopy frame.            *)
LEMMA FrameBufferFits ==
  ASSUME FrameTypes, AllSound, NEW i \in Id, FrameBuffer(i)
  PROVE  \E d : Replaces(i, d) /\ Goes(i, d)
<1>1. i \in Live /\ wlr /\ captures[i].live > 0
  BY DEF FrameBuffer, Awaiting
<1>2. PICK c, F, T : c = captures[i] /\ F = offer[i] /\ T = told[i]
  OBVIOUS
<1>3. /\ Sound(c, i, F, T)
      /\ Alone => Single(c, i \in owed) /\ (wlr => i \notin owed)
      /\ Usable => Counted(c, i, F, i \in owed)
  BY <1>1, <1>2, Before
<1>4. c.pending
  BY <1>1, <1>2, <1>3 DEF Sound
<1>5. PICK f \in Format, ok \in BOOLEAN :
        Put(i, on_frame_buffer(c, f, ok)) /\ offer' = [offer EXCEPT ![i] = @ \cup {f}]
  <2>1. PICK f \in Format : \E ok \in Allocated(captures[i], f) :
          /\ Put(i, on_frame_buffer(captures[i], f, ok))
          /\ offer' = [offer EXCEPT ![i] = @ \cup {f}]
    BY DEF FrameBuffer
  <2>2. Allocated(captures[i], f) \subseteq BOOLEAN
    BY DEF Allocated
  <2>3. QED
    BY <1>2, <2>1, <2>2
<1>6. PICK d : d = on_frame_buffer(c, f, ok)
  OBVIOUS
<1>7. /\ Sound(d, i, F \cup {f}, T) /\ d.pending /\ d.oneshot = c.oneshot
      /\ d.live = c.live /\ d.done = c.done /\ d.due = c.due
  <2>1. Sound(c, i, F, T) /\ wlr
    BY <1>1, <1>3
  <2>2. LET e == on_frame_buffer(c, f, ok)
        IN  /\ Sound(e, i, F \cup {f}, T) /\ e.pending /\ e.oneshot = c.oneshot
            /\ e.live = c.live /\ e.done = c.done /\ e.due = c.due
    BY <1>4, <2>1, BufferKnown
  <2>3. QED
    BY <1>6, <2>2
<1>8. offer'[i] = F \cup {f} /\ told' = told /\ owed' = owed
  BY <1>2, <1>5 DEF FrameBuffer, FrameTypes, TypeOK
<1>9. Replaces(i, d)
  BY <1>5, <1>6, <1>8 DEF Replaces, Put, FrameBuffer, FrameTypes, TypeOK
<1>10. Goes(i, d)
  <2>1. Sound(d, i, offer'[i], told'[i])
    BY <1>2, <1>7, <1>8
  <2>2. Alone => Single(d, i \in owed') /\ (wlr => i \notin owed')
    BY <1>3, <1>4, <1>7, <1>8 DEF Single
  <2>3. Usable => Counted(d, i, offer'[i], i \in owed')
    BY <1>1, <1>3, <1>7, <1>8 DEF Counted, wlr, ext
  <2>4. QED
    BY <2>1, <2>2, <2>3 DEF Goes
<1>11. QED
  BY <1>9, <1>10

(* The end of the buffer events.                                           *)
LEMMA FrameBufferDoneFits ==
  ASSUME FrameTypes, AllSound, NEW i \in Id, FrameBufferDone(i)
  PROVE  \E d : Replaces(i, d) /\ Goes(i, d)
<1>1. i \in Live /\ wlr /\ captures[i].live > 0
  BY DEF FrameBufferDone, Awaiting, wlr
<1>2. PICK c, F, T : c = captures[i] /\ F = offer[i] /\ T = told[i]
  OBVIOUS
<1>3. /\ Sound(c, i, F, T)
      /\ Alone => Single(c, i \in owed) /\ (wlr => i \notin owed)
      /\ Usable => Counted(c, i, F, i \in owed)
  BY <1>1, <1>2, Before
<1>4. c.pending
  BY <1>1, <1>2, <1>3 DEF Sound
<1>5. PICK ok \in BOOLEAN : Put(i, on_frame_buffer_done(c, ok))
  BY <1>2 DEF FrameBufferDone, Allocated
<1>6. PICK d : d = on_frame_buffer_done(c, ok)
  OBVIOUS
<1>7. Sound(d, i, F, T) /\ d.pending /\ d.oneshot = c.oneshot /\ d.live = c.live
  BY <1>1, <1>3, <1>4, <1>6, BuffersDone
<1>8. offer' = offer /\ told' = told /\ owed' = owed
  BY DEF FrameBufferDone, compVars
<1>9. Replaces(i, d)
  BY <1>5, <1>6, <1>8 DEF Replaces, Put, FrameBufferDone
<1>10. Goes(i, d)
  <2>1. Sound(d, i, offer'[i], told'[i])
    BY <1>2, <1>7, <1>8
  <2>2. Alone => Single(d, i \in owed') /\ (wlr => i \notin owed')
    BY <1>3, <1>4, <1>7, <1>8 DEF Single
  <2>3. Usable => Counted(d, i, offer'[i], i \in owed')
    BY <1>1, <1>3, <1>7, <1>8 DEF Counted, wlr, ext
  <2>4. QED
    BY <2>1, <2>2, <2>3 DEF Goes
<1>11. QED
  BY <1>9, <1>10

(* The events of an ext session: its formats,                              *)
LEMMA SessionFormatsFits ==
  ASSUME FrameTypes, AllSound, NEW i \in Id, SessionFormats(i)
  PROVE  \E d : Replaces(i, d) /\ Goes(i, d)
<1>1. i \in Live
  BY DEF SessionFormats
<1>2. PICK c, F, T : c = captures[i] /\ F = offer[i] /\ T = told[i]
  OBVIOUS
<1>3. /\ Sound(c, i, F, T)
      /\ Alone => Single(c, i \in owed) /\ (wlr => i \notin owed)
      /\ Usable => Counted(c, i, F, i \in owed)
  BY <1>1, <1>2, Before
<1>4. F \in SUBSET Format
  BY <1>2 DEF FrameTypes, TypeOK
<1>5. PICK d : d = on_session_shm_format(c, F)
  OBVIOUS
<1>6. /\ Sound(d, i, F, T) /\ d.pending = c.pending /\ d.oneshot = c.oneshot
      /\ d.live = c.live /\ d.done = c.done /\ d.due = c.due
  BY <1>3, <1>4, <1>5, FormatsKept
<1>7. offer' = offer /\ told' = told /\ owed' = owed
  BY DEF SessionFormats, compVars
<1>8. Replaces(i, d)
  BY <1>2, <1>5, <1>7 DEF Replaces, Put, SessionFormats
<1>9. Goes(i, d)
  BY <1>2, <1>3, <1>6, <1>7 DEF Goes, Single, Counted
<1>10. QED
  BY <1>8, <1>9

(* the end of its constraints, which settles what was owed,                *)
LEMMA SessionDoneFits ==
  ASSUME FrameTypes, AllSound, NEW i \in Id, SessionDone(i)
  PROVE  \E d : Replaces(i, d) /\ Goes(i, d)
<1>1. i \in Live /\ ext /\ ~wlr /\ i \in owed
  BY DEF SessionDone, ext, wlr
<1>2. PICK c, F, T : c = captures[i] /\ F = offer[i] /\ T = told[i]
  OBVIOUS
<1>3. /\ Sound(c, i, F, T)
      /\ Alone => Single(c, i \in owed) /\ (wlr => i \notin owed)
      /\ Usable => Counted(c, i, F, i \in owed)
  BY <1>1, <1>2, Before
<1>4. PICK ok \in Allocated(c, pick_format(c)) : Put(i, on_session_done(c, ok))
  BY <1>2 DEF SessionDone
<1>5. ok \in BOOLEAN /\ ("no_memory" \notin Faults => ok)
  BY <1>4 DEF Allocated
<1>6. PICK d : d = on_session_done(c, ok)
  OBVIOUS
<1>7. /\ Sound(d, i, F, T)
      /\ \/ d.pending /\ d.live = c.live + 1 /\ d.oneshot = c.oneshot
         \/ ~(c.formats # {} /\ ok) /\ d.pending = c.pending /\ d.live = c.live
  BY <1>1, <1>3, <1>5, <1>6, SessionAnswered
<1>8. offer' = offer /\ told' = told /\ owed' = owed \ {i} /\ F \subseteq c.formats
  BY <1>2 DEF SessionDone
<1>9. Replaces(i, d)
  BY <1>4, <1>6, <1>8 DEF Replaces, Put, SessionDone
<1>10. Goes(i, d)
  <2>1. Sound(d, i, offer'[i], told'[i])
    BY <1>2, <1>7, <1>8
  <2>2. Alone => Single(d, i \in owed') /\ (wlr => i \notin owed')
    BY <1>1, <1>3, <1>7, <1>8 DEF Single
  <2>3. Usable => Counted(d, i, offer'[i], i \in owed')
    <3>1. Usable => F # {} /\ ok
      BY <1>1, <1>3, <1>5 DEF Usable, Counted
    <3>2. QED
      BY <1>2, <1>3, <1>7, <1>8, <3>1 DEF Counted
  <2>4. QED
    BY <2>1, <2>2, <2>3 DEF Goes
<1>11. QED
  BY <1>9, <1>10

(* and new constraints, which a pending frame excludes from Alone.         *)
LEMMA ConstraintsUpdateFits ==
  ASSUME FrameTypes, AllSound, NEW i \in Id, ConstraintsUpdate(i)
  PROVE  \E d : Replaces(i, d) /\ Goes(i, d)
<1>1. i \in Live /\ ext /\ ~wlr
  BY DEF ConstraintsUpdate, Awaiting, ext, wlr
<1>2. PICK d, F, T : d = captures[i] /\ F = offer[i] /\ T = told[i]
  OBVIOUS
<1>3. Sound(d, i, F, T) /\ (Usable => Counted(d, i, F, i \in owed))
  BY <1>1, <1>2, Before
<1>4. PICK G \in (SUBSET Format) \ {{}} : offer' = [offer EXCEPT ![i] = G]
  BY DEF ConstraintsUpdate
<1>5. offer'[i] = G /\ told' = told /\ owed' = owed \cup {i} /\ ~Alone
  BY <1>4 DEF ConstraintsUpdate, Mishap, Alone, FrameTypes, TypeOK
<1>6. Replaces(i, d)
  BY <1>2, <1>4, <1>5 DEF Replaces, ConstraintsUpdate, capVars, FrameTypes, TypeOK
<1>7. Goes(i, d)
  <2>1. Sound(d, i, G, T)
    BY <1>1, <1>3 DEF Sound
  <2>2. Usable => Counted(d, i, G, i \in owed')
    BY <1>3, <1>4, <1>5 DEF Counted
  <2>3. QED
    BY <1>2, <1>5, <2>1, <2>2 DEF Goes
<1>8. QED
  BY <1>6, <1>7

(* Damage that is told of a frame is kept in its boxes.                    *)
LEMMA FrameDamageFits ==
  ASSUME FrameTypes, AllSound, NEW i \in Id, NEW r \in Region, FrameDamage(i, r)
  PROVE  \E d : Replaces(i, d) /\ Goes(i, d)
<1>1. i \in Live /\ captures[i].copies > 0
  BY DEF FrameDamage, Copying, Awaiting
<1>2. PICK c, F, T : c = captures[i] /\ F = offer[i] /\ T = told[i]
  OBVIOUS
<1>3. /\ Sound(c, i, F, T)
      /\ Alone => Single(c, i \in owed) /\ (wlr => i \notin owed)
      /\ Usable => Counted(c, i, F, i \in owed)
  BY <1>1, <1>2, Before
<1>4. PICK d : d = Damaged(c, r)
  OBVIOUS
<1>5. /\ Sound(d, i, F, T \cup {r}) /\ d.pending = c.pending /\ d.oneshot = c.oneshot
      /\ d.live = c.live /\ d.done = c.done /\ d.due = c.due
  <2>1. c.copies > 0
    BY <1>1, <1>2
  <2>2. LET e == Damaged(c, r)
        IN  /\ Sound(e, i, F, T \cup {r}) /\ e.pending = c.pending /\ e.oneshot = c.oneshot
            /\ e.live = c.live /\ e.done = c.done /\ e.due = c.due
    BY <1>3, <2>1, DamageKept
  <2>3. QED
    BY <1>4, <2>2
<1>6. /\ told' = [told EXCEPT ![i] = @ \cup {r}] /\ told'[i] = T \cup {r}
      /\ offer' = offer /\ owed' = owed
  BY <1>2 DEF FrameDamage, FrameTypes, TypeOK
<1>7. Replaces(i, d)
  BY <1>2, <1>4, <1>6 DEF Replaces, Put, FrameDamage, Damaged, FrameTypes, TypeOK
<1>8. Goes(i, d)
  <2>1. Sound(d, i, offer'[i], told'[i])
    BY <1>2, <1>5, <1>6
  <2>2. Alone => Single(d, i \in owed') /\ (wlr => i \notin owed')
    BY <1>3, <1>5, <1>6 DEF Single
  <2>3. Usable => Counted(d, i, offer'[i], i \in owed')
    BY <1>2, <1>3, <1>5, <1>6 DEF Counted
  <2>4. QED
    BY <2>1, <2>2, <2>3 DEF Goes
<1>9. QED
  BY <1>7, <1>8

(* A frame that ends is told nothing more, and its capture asks for the    *)
(* next one or is paced.                                                   *)
LEMMA EndFrameOffers ==
  ASSUME FrameTypes, NEW i \in Id, EndFrame(i)
  PROVE  /\ told'[i] = {}
         /\ \A j \in Id \ {i} : offer'[j] = offer[j] /\ told'[j] = told[j]
         /\ ext => offer' = offer
BY DEF EndFrame, FrameTypes, TypeOK, ext, wlr

(* What request_next_frame leaves of a capture whose frame was taken.      *)
LEMMA NextFits ==
  ASSUME FrameTypes, NEW i \in Id, NEW c, NEW t, NEW F, NEW G,
         Sound(t, i, G, {}), ~t.pending, t.oneshot = c.oneshot,
         t.live = IF c.pending THEN c.live - 1 ELSE c.live,
         c \in Captured, c.live > 0,
         Alone => Single(c, i \in owed) /\ (wlr => i \notin owed),
         Usable => Counted(c, i, F, i \in owed),
         ext => G = F, owed' = owed
  PROVE  LET d == request_next_frame(t)
         IN  /\ Sound(d, i, G, {})
             /\ Alone => Single(d, i \in owed') /\ (wlr => i \notin owed')
             /\ Usable => Counted(d, i, G, i \in owed')
<1>1. paced \in BOOLEAN
  BY DEF FrameTypes
<1>2. PICK d : d = request_next_frame(t)
  OBVIOUS
<1>3. /\ Sound(d, i, G, {}) /\ d.oneshot = t.oneshot
      /\ d.pending \/ paced
      /\ d.live = IF d.pending THEN t.live + 1 ELSE t.live
  BY <1>1, <1>2, Requested
<1>4. Alone => Single(d, i \in owed')
  <2>1. ASSUME Alone PROVE c.pending /\ c.live = 1 /\ i \notin owed
    BY <2>1 DEF Single
  <2>2. QED
    BY <1>3, <2>1 DEF Single
<1>5. Usable => Counted(d, i, G, i \in owed')
  BY <1>3 DEF Counted
<1>6. QED
  BY <1>2, <1>3, <1>4, <1>5

(* A frame that is ready ends a screenshot and continues a stream.         *)
LEMMA FrameReadyFits ==
  ASSUME FrameTypes, AllSound, NEW i \in Id, FrameReady(i)
  PROVE  \E d : Replaces(i, d) /\ IF captures[i].oneshot THEN Ends(i, d) ELSE Goes(i, d)
<1>1. i \in Live /\ captures[i].live > 0 /\ EndFrame(i) /\ UNCHANGED fixedVars
  BY DEF FrameReady, Completes, Copying, Awaiting
<1>2. CASE captures[i].oneshot
  <2>1. Forget(i)
    BY <1>2 DEF FrameReady
  <2>2. QED
    BY <1>1, <1>2, <2>1, EndFrameOffers, RemoveEnds
<1>3. CASE ~captures[i].oneshot
  <2>1. PICK c, F, T, G : c = captures[i] /\ F = offer[i] /\ T = told[i] /\ G = offer'[i]
    OBVIOUS
  <2>2. /\ Sound(c, i, F, T)
        /\ Alone => Single(c, i \in owed) /\ (wlr => i \notin owed)
        /\ Usable => Counted(c, i, F, i \in owed)
    BY <1>1, <2>1, Before
  <2>3. PICK t : t = IF wlr THEN wlr_on_frame_ready(c) ELSE ext_on_frame_ready(c)
    OBVIOUS
  <2>4. /\ Sound(t, i, G, {}) /\ ~t.pending /\ t.oneshot = c.oneshot
        /\ t.live = IF c.pending THEN c.live - 1 ELSE c.live
    BY <2>2, <2>3, Readied
  <2>5. Put(i, request_next_frame(t)) /\ owed' = owed
    BY <1>3, <2>1, <2>3 DEF FrameReady
  <2>6. PICK d : d = request_next_frame(t)
    OBVIOUS
  <2>7. ext => G = F
    BY <1>1, <2>1, EndFrameOffers
  <2>8. c \in Captured /\ c.live > 0
    BY <1>1, <2>1, <2>2 DEF Sound
  <2>9. /\ Sound(d, i, G, {})
        /\ Alone => Single(d, i \in owed') /\ (wlr => i \notin owed')
        /\ Usable => Counted(d, i, G, i \in owed')
    BY <2>2, <2>4, <2>5, <2>6, <2>7, <2>8, NextFits
  <2>10. Goes(i, d)
    BY <1>1, <2>1, <2>9, EndFrameOffers DEF Goes
  <2>11. Replaces(i, d)
    BY <1>1, <2>5, <2>6, EndFrameOffers DEF Replaces, Put
  <2>12. QED
    BY <1>3, <2>10, <2>11
<1>4. QED
  BY <1>2, <1>3

(* So does a frame that failed.                                            *)
LEMMA FrameFailedFits ==
  ASSUME FrameTypes, AllSound, NEW i \in Id, FrameFailed(i)
  PROVE  \E d : Replaces(i, d) /\ IF captures[i].oneshot THEN Ends(i, d) ELSE Goes(i, d)
<1>1. /\ i \in Live /\ captures[i].live > 0 /\ EndFrame(i) /\ UNCHANGED fixedVars
      /\ on_frame_failed(i)
  BY DEF FrameFailed
<1>2. CASE captures[i].oneshot
  <2>1. Forget(i)
    BY <1>1, <1>2 DEF on_frame_failed
  <2>2. QED
    BY <1>1, <1>2, <2>1, EndFrameOffers, RemoveEnds
<1>3. CASE ~captures[i].oneshot
  <2>1. PICK c, F, T, G : c = captures[i] /\ F = offer[i] /\ T = told[i] /\ G = offer'[i]
    OBVIOUS
  <2>2. /\ Sound(c, i, F, T)
        /\ Alone => Single(c, i \in owed) /\ (wlr => i \notin owed)
        /\ Usable => Counted(c, i, F, i \in owed)
    BY <1>1, <2>1, Before
  <2>3. PICK t : t = IF wlr THEN TakeFrame(c) ELSE [TakeFrame(c) EXCEPT !.boxes = {}]
    OBVIOUS
  <2>4. /\ Sound(t, i, G, {}) /\ ~t.pending /\ t.oneshot = c.oneshot
        /\ t.live = IF c.pending THEN c.live - 1 ELSE c.live
    BY <2>2, <2>3, Failed
  <2>5. Put(i, request_next_frame(t)) /\ owed' = owed
    BY <1>1, <1>3, <2>1, <2>3 DEF on_frame_failed
  <2>6. PICK d : d = request_next_frame(t)
    OBVIOUS
  <2>7. ext => G = F
    BY <1>1, <2>1, EndFrameOffers
  <2>8. c \in Captured /\ c.live > 0
    BY <1>1, <2>1, <2>2 DEF Sound
  <2>9. /\ Sound(d, i, G, {})
        /\ Alone => Single(d, i \in owed') /\ (wlr => i \notin owed')
        /\ Usable => Counted(d, i, G, i \in owed')
    BY <2>2, <2>4, <2>5, <2>6, <2>7, <2>8, NextFits
  <2>10. Goes(i, d)
    BY <1>1, <2>1, <2>9, EndFrameOffers DEF Goes
  <2>11. Replaces(i, d)
    BY <1>1, <2>5, <2>6, EndFrameOffers DEF Replaces, Put
  <2>12. QED
    BY <1>3, <2>10, <2>11
<1>4. QED
  BY <1>2, <1>3

(* A failure for the constraints has new ones owed.                        *)
LEMMA FrameConstraintsFits ==
  ASSUME FrameTypes, AllSound, NEW i \in Id, FrameConstraints(i)
  PROVE  \E d : Replaces(i, d) /\ IF captures[i].oneshot THEN Ends(i, d) ELSE Goes(i, d)
<1>1. /\ i \in Live /\ captures[i].live > 0 /\ ext /\ ~wlr /\ UNCHANGED fixedVars
      /\ i \notin owed
  BY DEF FrameConstraints, Copying, Awaiting, ext, wlr
<1>2. PICK g \in (SUBSET Format) \ {{}} : offer' = [offer EXCEPT ![i] = g]
  BY DEF FrameConstraints
<1>3. /\ offer'[i] = g /\ told'[i] = {}
      /\ \A j \in Id \ {i} : offer'[j] = offer[j] /\ told'[j] = told[j]
  BY <1>2 DEF FrameConstraints, FrameTypes, TypeOK
<1>4. CASE captures[i].oneshot
  <2>1. Forget(i)
    BY <1>4 DEF FrameConstraints
  <2>2. QED
    BY <1>1, <1>3, <1>4, <2>1, RemoveEnds
<1>5. CASE ~captures[i].oneshot
  <2>1. PICK c, F, T : c = captures[i] /\ F = offer[i] /\ T = told[i]
    OBVIOUS
  <2>2. /\ Sound(c, i, F, T)
        /\ Alone => Single(c, i \in owed)
        /\ Usable => Counted(c, i, F, i \in owed)
    BY <1>1, <2>1, Before
  <2>3. PICK d : d = on_constraints_failed(c)
    OBVIOUS
  <2>4. /\ Sound(d, i, g, {}) /\ ~d.pending /\ d.oneshot = c.oneshot
        /\ d.live = IF c.pending THEN c.live - 1 ELSE c.live
        /\ ~d.done /\ d.due = c.due
    BY <1>1, <2>2, <2>3, ConstraintsFailed
  <2>5. Put(i, d) /\ owed' = owed \cup {i}
    BY <1>5, <2>1, <2>3 DEF FrameConstraints
  <2>6. Replaces(i, d)
    BY <1>1, <1>3, <2>5 DEF Replaces, Put
  <2>7. Alone => Single(d, i \in owed')
    <3>1. ASSUME Alone PROVE c.pending /\ c.live = 1
      BY <1>1, <2>1, <2>2, <3>1 DEF Single
    <3>2. ASSUME Alone PROVE ~paced \/ ~c.due
      BY <2>1, <3>2 DEF FrameConstraints, Alone
    <3>3. QED
      BY <1>1, <2>4, <2>5, <3>1, <3>2 DEF Single
  <2>8. Usable => Counted(d, i, g, i \in owed')
    BY <1>2, <2>2, <2>4, <2>5 DEF Counted
  <2>9. Goes(i, d)
    BY <1>1, <1>3, <2>4, <2>7, <2>8 DEF Goes
  <2>10. QED
    BY <1>5, <2>6, <2>9
<1>6. QED
  BY <1>4, <1>5

(* A handshake out of time and a stopped session end the capture.          *)
LEMMA TimeoutFits ==
  ASSUME FrameTypes, NEW i \in Id, HandshakeTimeout(i) \/ SessionStopped(i)
  PROVE  \E d : Replaces(i, d) /\ Ends(i, d)
<1>1. Forget(i) /\ UNCHANGED <<fixedVars, offer, told>>
  BY DEF HandshakeTimeout, SessionStopped
<1>2. QED
  BY <1>1, RemoveEnds

(* The pump asks for a frame only where none is pending or owed.           *)
LEMMA PumpFits ==
  ASSUME FrameTypes, AllSound, NEW i \in Id, Pump(i)
  PROVE  \E d : Replaces(i, d) /\ Goes(i, d)
<1>1. i \in Live /\ paced \in BOOLEAN
  BY DEF Pump, FrameTypes
<1>2. PICK c, F, T : c = captures[i] /\ F = offer[i] /\ T = told[i]
  OBVIOUS
<1>3. /\ Sound(c, i, F, T)
      /\ Alone => Single(c, i \in owed) /\ (wlr => i \notin owed)
      /\ Usable => Counted(c, i, F, i \in owed)
  BY <1>1, <1>2, Before
<1>4. paced /\ ~c.pending /\ ~c.oneshot /\ c.due
  BY <1>2 DEF Pump, Deferred
<1>5. T = {} /\ c \in Captured
  BY <1>3, <1>4 DEF Sound
<1>6. PICK d : d = issue_next_frame(c)
  OBVIOUS
<1>7. /\ Sound(d, i, F, {}) /\ d.pending /\ d.live = c.live + 1
      /\ d.oneshot = c.oneshot
  BY <1>1, <1>3, <1>4, <1>5, <1>6, Issued
<1>8. offer' = offer /\ told' = told /\ owed' = owed
  BY DEF Pump, compVars
<1>9. Replaces(i, d)
  BY <1>2, <1>6, <1>8 DEF Replaces, Put, Pump
<1>10. Goes(i, d)
  <2>1. Sound(d, i, offer'[i], told'[i])
    BY <1>2, <1>5, <1>7, <1>8
  <2>2. Alone => Single(d, i \in owed') /\ (wlr => i \notin owed')
    BY <1>3, <1>4, <1>7, <1>8 DEF Single
  <2>3. Usable => Counted(d, i, offer'[i], i \in owed')
    BY <1>2, <1>3, <1>7, <1>8 DEF Counted
  <2>4. QED
    BY <2>1, <2>2, <2>3 DEF Goes
<1>11. QED
  BY <1>9, <1>10

(* Time that passes changes no frame.                                      *)
LEMMA TimeFits ==
  ASSUME FrameTypes, AllSound, NEW i \in Id, IntervalEnds(i) \/ HandshakeLate(i)
  PROVE  \E d : Replaces(i, d) /\ Goes(i, d)
<1>1. i \in Live /\ offer' = offer /\ told' = told /\ owed' = owed
  BY DEF IntervalEnds, HandshakeLate, compVars
<1>2. PICK c, F, T : c = captures[i] /\ F = offer[i] /\ T = told[i]
  OBVIOUS
<1>3. /\ Sound(c, i, F, T)
      /\ Alone => Single(c, i \in owed) /\ (wlr => i \notin owed)
      /\ Usable => Counted(c, i, F, i \in owed)
  BY <1>1, <1>2, Before
<1>4. CASE IntervalEnds(i)
  <2>1. PICK d : d = [c EXCEPT !.due = TRUE]
    OBVIOUS
  <2>2. /\ Sound(d, i, F, T) /\ d.pending = c.pending /\ d.oneshot = c.oneshot
        /\ d.live = c.live /\ d.done = c.done
    BY <1>3, <2>1, Timed
  <2>3. Replaces(i, d)
    BY <1>1, <1>2, <1>4, <2>1 DEF Replaces, Put, IntervalEnds
  <2>4. Alone => i \notin owed
    BY <1>2, <1>3, <1>4 DEF IntervalEnds, Alone, Single
  <2>5. Goes(i, d)
    BY <1>1, <1>2, <1>3, <2>2, <2>4 DEF Goes, Single, Counted
  <2>6. QED
    BY <2>3, <2>5
<1>5. CASE HandshakeLate(i)
  <2>1. PICK d : d = [c EXCEPT !.late = TRUE]
    OBVIOUS
  <2>2. /\ Sound(d, i, F, T) /\ d.pending = c.pending /\ d.oneshot = c.oneshot
        /\ d.live = c.live /\ d.done = c.done /\ d.due = c.due
    BY <1>3, <2>1, Timed
  <2>3. Replaces(i, d)
    BY <1>1, <1>2, <1>5, <2>1 DEF Replaces, Put, HandshakeLate
  <2>4. Goes(i, d)
    BY <1>1, <1>2, <1>3, <2>2 DEF Goes, Single, Counted
  <2>5. QED
    BY <2>3, <2>4
<1>6. QED
  BY <1>4, <1>5

(* A capture that begins is offered something, and owed its constraints.   *)
LEMMA BeginFits ==
  ASSUME FrameTypes, NEW i \in Id, NEW o \in Output, Begin(i, o)
  PROVE  \E d : Replaces(i, d) /\ Goes(i, d)
<1>1. PICK b \in BOOLEAN : b = (i \in Shot)
  <2>1. (i \in Shot) \in BOOLEAN
    OBVIOUS
  <2>2. QED
    BY <2>1
<1>2. i \in Stream => ~b
  BY <1>1, CaptureAssumption
<1>3. PICK c : c = Fresh(o, b)
  OBVIOUS
<1>4. /\ c \in Captured /\ c.oneshot = b /\ ~c.pending /\ c.live = 0 /\ c.copies = 0
      /\ c.format = None /\ c.boxes = {} /\ ~c.done
      /\ ~paced => c.due
      /\ paced => ~c.due \/ c.oneshot
  <2>1. paced \in BOOLEAN
    BY DEF FrameTypes
  <2>2. /\ c \in Captured /\ c.oneshot = b /\ ~c.pending /\ c.live = 0 /\ c.copies = 0
        /\ c.format = None /\ c.boxes = {} /\ ~c.done /\ c.due = (~paced \/ b)
    BY <1>3, <2>1, FreshCapture
  <2>3. QED
    BY <2>1, <2>2
<1>5. PICK d : d = IF wlr THEN NewFrame(c) ELSE c
  OBVIOUS
<1>6. PICK F \in SUBSET Format :
        /\ IF wlr THEN F = {} ELSE F # {} \/ "no_format" \in Faults
        /\ offer' = [offer EXCEPT ![i] = F]
  BY DEF Begin
<1>7. /\ offer'[i] = F /\ told'[i] = {} /\ owed' = IF ext THEN owed \cup {i} ELSE owed
      /\ \A j \in Id \ {i} : offer'[j] = offer[j] /\ told'[j] = told[j]
  BY <1>6 DEF Begin, FrameTypes, TypeOK
<1>8. Put(i, d)
  BY <1>1, <1>3, <1>5 DEF Begin, wlr_start
<1>9. Replaces(i, d)
  BY <1>7, <1>8 DEF Replaces, Put, Begin
<1>10. CASE wlr
  <2>1. /\ d \in Captured /\ d.oneshot = b /\ d.pending /\ d.live = 1 /\ d.copies = 0
        /\ d.format = None /\ d.boxes = {} /\ (~paced => d.due)
    BY <1>4, <1>5, <1>10, NewFrameFields
  <2>2. Sound(d, i, F, {})
    BY <1>2, <2>1 DEF Sound
  <2>3. Alone => i \notin owed'
    BY <1>7, <1>10 DEF Alone, AllSingle, wlr, ext
  <2>4. Alone => Single(d, i \in owed')
    BY <2>1, <2>3 DEF Single
  <2>5. Usable => Counted(d, i, F, i \in owed')
    BY <1>1, <1>10, <2>1 DEF Counted, wlr, ext
  <2>6. Goes(i, d)
    BY <1>7, <2>2, <2>3, <2>4, <2>5 DEF Goes
  <2>7. QED
    BY <1>9, <2>6
<1>11. CASE ~wlr
  <2>1. ext /\ d = c /\ owed' = owed \cup {i}
    BY <1>5, <1>7, <1>11 DEF wlr, ext
  <2>2. Sound(d, i, F, {})
    BY <1>2, <1>4, <1>11, <2>1 DEF Sound
  <2>3. Single(d, i \in owed')
    BY <1>4, <2>1 DEF Single
  <2>4. Usable => Counted(d, i, F, i \in owed')
    BY <1>1, <1>4, <1>6, <1>11, <2>1 DEF Counted, Usable
  <2>5. Goes(i, d)
    BY <1>7, <1>11, <2>2, <2>3, <2>4 DEF Goes
  <2>6. QED
    BY <1>9, <2>5
<1>12. QED
  BY <1>10, <1>11

(* What a step that touches no capture leaves.                             *)
LEMMA UntouchedKeeps ==
  ASSUME FrameTypes, AllSound, UNCHANGED <<fixedVars, captures, offer, owed, told>>
  PROVE  /\ captures' \in [Id -> Captured \cup {None}] /\ AllSound'
         /\ Alone => AllSingle'
         /\ Usable => AllWaiting'
<1>1. /\ protocol' = protocol /\ paced' = paced /\ captures' = captures
      /\ offer' = offer /\ owed' = owed /\ told' = told
  BY DEF fixedVars
<1>2. captures' \in [Id -> Captured \cup {None}]
  BY <1>1 DEF FrameTypes, TypeOK
<1>3. AllSound'
  BY <1>1 DEF AllSound, Sound, Live, wlr
<1>4. Alone => AllSingle'
  BY <1>1 DEF Alone, AllSingle, Single, Live, wlr, ext
<1>5. Usable => AllWaiting'
  BY <1>1 DEF Usable, AllWaiting, Counted, Live, ext
<1>6. QED
  BY <1>2, <1>3, <1>4, <1>5

(* So every event keeps the captures sound, single and counted.            *)
LEMMA FrameEventKeeps ==
  ASSUME FrameTypes, AllSound, FrameEvent
  PROVE  /\ captures' \in [Id -> Captured \cup {None}] /\ AllSound'
         /\ Alone => AllSingle'
         /\ Usable => AllWaiting'
<1>1. ASSUME NEW i \in Id,
             \/ FrameBuffer(i) \/ FrameBufferDone(i)
             \/ SessionFormats(i) \/ SessionDone(i) \/ SessionStopped(i) \/ ConstraintsUpdate(i)
             \/ FrameFailed(i) \/ FrameConstraints(i)
             \/ HandshakeTimeout(i) \/ Pump(i) \/ IntervalEnds(i) \/ HandshakeLate(i)
             \/ \E r \in Region : FrameDamage(i, r)
      PROVE  \E d : Replaces(i, d) /\ Fits(i, d)
  BY <1>1, FrameBufferFits, FrameBufferDoneFits, SessionFormatsFits, SessionDoneFits,
     ConstraintsUpdateFits, FrameFailedFits, FrameConstraintsFits, TimeoutFits, PumpFits,
     TimeFits, FrameDamageFits DEF Fits
<1>2. ASSUME NEW o \in Output,
             Unplug(o) \/ GlobalRemove(o) \/ \E r \in Region : ContentChanges(o, r)
      PROVE  UNCHANGED <<fixedVars, captures, offer, owed, told>>
  BY <1>2 DEF Unplug, GlobalRemove, ContentChanges, capVars, compVars
<1>3. \/ \E i \in Id : \E d : Replaces(i, d) /\ Fits(i, d)
      \/ UNCHANGED <<fixedVars, captures, offer, owed, told>>
  BY <1>1, <1>2 DEF FrameEvent
<1>4. QED
  BY <1>3, ReplacedFits, UntouchedKeeps

(* What the Wayland thread's commands carry.                               *)
LEMMA HeadCommand ==
  ASSUME CTypes, ProcessCommand
  PROVE  LET c == Head(commands)
         IN  /\ c.id \in Id
             /\ \/ c.op = "start" /\ c.id \in Stream /\ c.output \in Output
                   /\ start_capture(c.id, c.output)
                \/ c.op = "stop" /\ c.id \in Stream /\ stop_capture(c.id)
                \/ c.op = "shot" /\ c.id \in Shot /\ c.output \in Output
                   /\ start_screenshot(c.id, c.output)
<1>1. commands # <<>>
  BY DEF ProcessCommand
<1>2. Head(commands) \in Command
  BY <1>1, Received DEF CTypes, PipeTypes
<1>3. PICK c : c = Head(commands)
  OBVIOUS
<1>4. /\ c.op \in {"start", "stop", "shot"} /\ c.id \in Id
      /\ c.op \in {"start", "stop"} => c.id \in Stream
      /\ c.op = "shot" => c.id \in Shot
      /\ c.op # "stop" => c.output \in Output
  BY <1>2, <1>3 DEF Command
<1>5. CASE c.op = "start"
  BY <1>3, <1>4, <1>5 DEF ProcessCommand
<1>6. CASE c.op = "stop"
  BY <1>3, <1>4, <1>6 DEF ProcessCommand
<1>7. CASE c.op = "shot"
  BY <1>3, <1>4, <1>7 DEF ProcessCommand
<1>8. QED
  BY <1>3, <1>4, <1>5, <1>6, <1>7

(* A command begins a capture, ends one, or refuses.                       *)
LEMMA ProcessCommandKeeps ==
  ASSUME CTypes, AllSound, ProcessCommand
  PROVE  /\ captures' \in [Id -> Captured \cup {None}] /\ AllSound'
         /\ Alone => AllSingle'
         /\ Usable => AllWaiting'
<1>1. PICK c : c = Head(commands)
  OBVIOUS
<1>2. /\ c.id \in Id
      /\ \/ c.op = "start" /\ c.id \in Stream /\ c.output \in Output
            /\ start_capture(c.id, c.output)
         \/ c.op = "stop" /\ c.id \in Stream /\ stop_capture(c.id)
         \/ c.op = "shot" /\ c.id \in Shot /\ c.output \in Output
            /\ start_screenshot(c.id, c.output)
  BY <1>1, HeadCommand
<1>3. FrameTypes
  BY DEF CTypes
<1>4. CASE Begin(c.id, c.output) /\ c.output \in Output
  BY <1>2, <1>3, <1>4, BeginFits, ReplacedFits DEF Fits
<1>5. CASE stop_capture(c.id)
  <2>1. Forget(c.id) /\ UNCHANGED <<fixedVars, offer, told>>
    BY <1>5 DEF stop_capture
  <2>2. Replaces(c.id, None) /\ Fits(c.id, None)
    BY <1>2, <2>1, RemoveEnds DEF Fits
  <2>3. QED
    BY <1>2, <1>3, <2>2, ReplacedFits
<1>6. CASE UNCHANGED <<fixedVars, captures, offer, owed, told>>
  BY <1>3, <1>6, UntouchedKeeps
<1>7. ASSUME start_capture(c.id, c.output), c.output \in Output
      PROVE  \/ Begin(c.id, c.output) /\ c.output \in Output
             \/ UNCHANGED <<fixedVars, captures, offer, owed, told>>
  BY <1>7 DEF start_capture, frameVars, capVars, compVars
<1>8. ASSUME start_screenshot(c.id, c.output), c.output \in Output
      PROVE  \/ Begin(c.id, c.output) /\ c.output \in Output
             \/ UNCHANGED <<fixedVars, captures, offer, owed, told>>
  BY <1>8 DEF start_screenshot, compVars
<1>9. QED
  BY <1>2, <1>4, <1>5, <1>6, <1>7, <1>8

(* Every step keeps the captures as they should be.                        *)
LEMMA NextKeeps ==
  ASSUME CTypes, AllSound, [Next]_vars
  PROVE  /\ captures' \in [Id -> Captured \cup {None}] /\ AllSound'
         /\ Alone => AllSingle'
         /\ Usable => AllWaiting'
<1>1. FrameTypes
  BY DEF CTypes
<1>2. CASE ProcessCommand
  BY <1>2, ProcessCommandKeeps
<1>3. CASE FrameEvent
  BY <1>1, <1>3, FrameEventKeeps
<1>4. CASE \E i \in Id : DeliverFrame(i)
  BY <1>1, <1>4, FrameReadyFits, ReplacedFits DEF DeliverFrame, Fits
<1>5. CASE UNCHANGED <<fixedVars, captures, offer, owed, told>>
  BY <1>1, <1>5, UntouchedKeeps
<1>6. ASSUME \/ \E o \in Output : CreateStream(o) \/ \E s \in Shot : CallScreenshot(s, o)
             \/ StreamCreated \/ \E n \in Stream : DestroyStream(n)
             \/ PipeWireCommand \/ PipeWireStop \/ UNCHANGED vars
      PROVE  UNCHANGED <<fixedVars, captures, offer, owed, told>>
  BY <1>6 DEF CreateStream, CallScreenshot, StreamCreated, DestroyStream, PipeWireCommand,
     PipeWireStop, vars, frameVars, capVars, compVars
<1>7. QED
  BY <1>2, <1>3, <1>4, <1>5, <1>6 DEF Next

-----------------------------------------------------------------------------
(* Types. The captures' are in NextKeeps.                                  *)
Sides ==
  /\ protocol \in {"ext", "v1", "v2", "v3"} /\ paced \in BOOLEAN
  /\ plugged \subseteq Output /\ outputs \subseteq Output
  /\ offer \in [Id -> SUBSET Format] /\ owed \subseteq Id
  /\ dirty \in [Id -> SUBSET Region] /\ told \in [Id -> SUBSET Region]
Consumers ==
  /\ picture \in [Stream -> [Region -> {"current", "changed", "missed"}]]
  /\ reply \in [Shot -> {"none", "queued", "held", "ok", "err"}]
Streams ==
  /\ streams \in [Stream -> Output \cup {None}]
  /\ active \in [Stream -> Output \cup {None}]

LEMMA TypesSplit ==
  FrameTypes <=> captures \in [Id -> Captured \cup {None}] /\ Sides /\ Consumers /\ Streams
BY DEF FrameTypes, TypeOK, Sides, Consumers, Streams

(* A reply is one of the four answers, or none.                            *)
LEMMA AnswerTypes ==
  ASSUME Consumers, NEW i \in Id, NEW r \in {"held", "ok", "err"},
         Answer(i, r) \/ reply' = reply
  PROVE  reply' \in [Shot -> {"none", "queued", "held", "ok", "err"}]
BY DEF Answer, Consumers

(* A delivered frame tells of each region what is known of it.             *)
LEMMA DeliverTypes ==
  ASSUME Consumers, NEW i \in Id, NEW D, Deliver(i, D)
  PROVE  picture' \in [Stream -> [Region -> {"current", "changed", "missed"}]]
<1>1. CASE i \in Stream
  <2>1. PICK p : p = [r \in Region |-> IF D = {} \/ r \in D THEN "current"
                        ELSE IF picture[i][r] = "changed" THEN "missed" ELSE picture[i][r]]
    OBVIOUS
  <2>2. picture[i] \in [Region -> {"current", "changed", "missed"}]
    BY <1>1 DEF Consumers
  <2>3. p \in [Region -> {"current", "changed", "missed"}]
    BY <2>1, <2>2
  <2>4. picture' = [picture EXCEPT ![i] = p]
    BY <1>1, <2>1 DEF Deliver
  <2>5. QED
    BY <2>3, <2>4 DEF Consumers
<1>2. CASE i \notin Stream
  BY <1>2 DEF Deliver, Consumers
<1>3. QED
  BY <1>1, <1>2

(* The end of a frame resets what was told and offered.                    *)
LEMMA EndFrameTypes ==
  ASSUME Sides, NEW i \in Id, EndFrame(i)
  PROVE  told' \in [Id -> SUBSET Region] /\ offer' \in [Id -> SUBSET Format]
BY DEF Sides, EndFrame

(* The beginning of a capture.                                             *)
LEMMA BeginTypes ==
  ASSUME Sides, NEW i \in Id, NEW o \in Output, Begin(i, o)
  PROVE  Sides'
<1>1. PICK F \in SUBSET Format : offer' = [offer EXCEPT ![i] = F]
  BY DEF Begin
<1>2. dirty' = [dirty EXCEPT ![i] = Region] /\ told' = [told EXCEPT ![i] = {}]
  BY DEF Begin
<1>3. offer' \in [Id -> SUBSET Format]
  BY <1>1 DEF Sides
<1>4. dirty' \in [Id -> SUBSET Region] /\ told' \in [Id -> SUBSET Region]
  BY <1>2 DEF Sides
<1>5. owed' \subseteq Id /\ UNCHANGED <<protocol, paced, plugged, outputs>>
  BY DEF Begin, Sides, fixedVars
<1>6. QED
  BY <1>3, <1>4, <1>5 DEF Sides

(* The events of the compositor, the timers and the outputs.               *)
LEMMA EventTypes ==
  ASSUME Sides, Consumers, FrameEvent
  PROVE  Sides' /\ Consumers'
<1>1. ASSUME NEW i \in Id, FrameBuffer(i) PROVE Sides' /\ Consumers'
  BY <1>1 DEF FrameBuffer, Sides, Consumers, fixedVars
<1>2. ASSUME NEW i \in Id,
             FrameBufferDone(i) \/ SessionFormats(i) \/ Pump(i) \/ IntervalEnds(i)
             \/ HandshakeLate(i)
      PROVE  Sides' /\ Consumers'
  BY <1>2 DEF FrameBufferDone, SessionFormats, Pump, IntervalEnds, HandshakeLate,
     Sides, Consumers, fixedVars, compVars
<1>3. ASSUME NEW i \in Id, SessionDone(i) PROVE Sides' /\ Consumers'
  <2>1. reply' \in [Shot -> {"none", "queued", "held", "ok", "err"}]
    BY <1>3, AnswerTypes DEF SessionDone
  <2>2. QED
    BY <1>3, <2>1 DEF SessionDone, Sides, Consumers, fixedVars
<1>4. ASSUME NEW i \in Id, SessionStopped(i) \/ HandshakeTimeout(i)
      PROVE  Sides' /\ Consumers'
  <2>1. reply' \in [Shot -> {"none", "queued", "held", "ok", "err"}]
    BY <1>4, AnswerTypes DEF SessionStopped, HandshakeTimeout
  <2>2. QED
    BY <1>4, <2>1 DEF SessionStopped, HandshakeTimeout, Forget, Sides, Consumers, fixedVars
<1>5. ASSUME NEW i \in Id, ConstraintsUpdate(i) PROVE Sides' /\ Consumers'
  BY <1>5 DEF ConstraintsUpdate, capVars, Sides, Consumers, fixedVars
<1>6. ASSUME NEW i \in Id, FrameFailed(i) PROVE Sides' /\ Consumers'
  <2>1. reply' \in [Shot -> {"none", "queued", "held", "ok", "err"}]
    BY <1>6, AnswerTypes DEF FrameFailed, on_frame_failed
  <2>2. told' \in [Id -> SUBSET Region] /\ offer' \in [Id -> SUBSET Format]
    BY <1>6, EndFrameTypes DEF FrameFailed
  <2>3. owed' \subseteq Id
    BY <1>6 DEF FrameFailed, on_frame_failed, Forget, Sides
  <2>4. QED
    BY <1>6, <2>1, <2>2, <2>3 DEF FrameFailed, Sides, Consumers, fixedVars
<1>7. ASSUME NEW i \in Id, FrameConstraints(i) PROVE Sides' /\ Consumers'
  <2>1. reply' \in [Shot -> {"none", "queued", "held", "ok", "err"}]
    BY <1>7, AnswerTypes DEF FrameConstraints
  <2>2. PICK F \in (SUBSET Format) \ {{}} : offer' = [offer EXCEPT ![i] = F]
    BY <1>7 DEF FrameConstraints
  <2>3. owed' \subseteq Id
    BY <1>7 DEF FrameConstraints, Forget, Sides
  <2>4. QED
    BY <1>7, <2>1, <2>2, <2>3 DEF FrameConstraints, Sides, Consumers, fixedVars
<1>8. ASSUME NEW i \in Id, NEW r \in Region, FrameDamage(i, r) PROVE Sides' /\ Consumers'
  BY <1>8 DEF FrameDamage, Sides, Consumers, fixedVars
<1>9. ASSUME NEW o \in Output, Unplug(o) \/ GlobalRemove(o) PROVE Sides' /\ Consumers'
  BY <1>9 DEF Unplug, GlobalRemove, capVars, compVars, Sides, Consumers, fixedVars
<1>10. ASSUME NEW o \in Output, NEW r \in Region, ContentChanges(o, r)
       PROVE  Sides' /\ Consumers'
  <2>1. PICK seen : /\ dirty' = [i \in Id |-> IF i \in seen THEN dirty[i] \cup {r} ELSE dirty[i]]
                    /\ picture' = [i \in Stream |->
                         IF i \in seen /\ picture[i][r] = "current"
                         THEN [picture[i] EXCEPT ![r] = "changed"] ELSE picture[i]]
    BY <1>10 DEF ContentChanges
  <2>2. dirty' \in [Id -> SUBSET Region]
    BY <2>1 DEF Sides
  <2>3. picture' \in [Stream -> [Region -> {"current", "changed", "missed"}]]
    <3>1. ASSUME NEW i \in Stream
          PROVE  [picture[i] EXCEPT ![r] = "changed"]
                   \in [Region -> {"current", "changed", "missed"}]
      BY DEF Consumers
    <3>2. QED
      BY <2>1, <3>1 DEF Consumers
  <2>4. QED
    BY <1>10, <2>2, <2>3 DEF ContentChanges, Sides, Consumers, fixedVars
<1>11. QED
  BY <1>1, <1>2, <1>3, <1>4, <1>5, <1>6, <1>7, <1>8, <1>9, <1>10 DEF FrameEvent

(* A frame that is ready.                                                  *)
LEMMA ReadyTypes ==
  ASSUME Sides, Consumers, NEW i \in Id, FrameReady(i)
  PROVE  Sides' /\ Consumers'
<1>1. told' \in [Id -> SUBSET Region] /\ offer' \in [Id -> SUBSET Format]
  BY EndFrameTypes DEF FrameReady
<1>2. dirty' \in [Id -> SUBSET Region]
  <2>1. dirty' = [j \in Id |-> IF j \in Cleared(i) THEN {} ELSE dirty[j]]
    BY DEF FrameReady
  <2>2. QED
    BY <2>1 DEF Sides
<1>3. owed' \subseteq Id
  BY DEF FrameReady, Forget, Sides
<1>4. Sides'
  BY <1>1, <1>2, <1>3 DEF FrameReady, Sides, fixedVars
<1>5. reply' \in [Shot -> {"none", "queued", "held", "ok", "err"}]
  BY AnswerTypes DEF FrameReady
<1>6. picture' \in [Stream -> [Region -> {"current", "changed", "missed"}]]
  <2>1. picture' = picture \/ \E D : Deliver(i, D)
    BY DEF FrameReady
  <2>2. QED
    BY <2>1, DeliverTypes DEF Consumers
<1>7. QED
  BY <1>4, <1>5, <1>6 DEF Consumers

(* The commands of the capture channel.                                    *)
LEMMA CommandTypes ==
  ASSUME CTypes, Sides, Consumers, ProcessCommand
  PROVE  Sides' /\ Consumers'
<1>1. PICK c : c = Head(commands)
  OBVIOUS
<1>2. /\ c.id \in Id
      /\ \/ c.op = "start" /\ c.id \in Stream /\ c.output \in Output
            /\ start_capture(c.id, c.output)
         \/ c.op = "stop" /\ c.id \in Stream /\ stop_capture(c.id)
         \/ c.op = "shot" /\ c.id \in Shot /\ c.output \in Output
            /\ start_screenshot(c.id, c.output)
  BY <1>1, HeadCommand
<1>3. CASE c.id \in Stream /\ c.output \in Output /\ start_capture(c.id, c.output)
  <2>1. CASE Begin(c.id, c.output)
    <3>1. Sides'
      BY <1>2, <1>3, <2>1, BeginTypes
    <3>2. picture' \in [Stream -> [Region -> {"current", "changed", "missed"}]]
      <4>1. \/ picture' = picture
            \/ picture' = [picture EXCEPT ![c.id] = [r \in Region |-> "changed"]]
        BY <1>3 DEF start_capture, frameVars, capVars
      <4>2. [r \in Region |-> "changed"] \in [Region -> {"current", "changed", "missed"}]
        OBVIOUS
      <4>3. QED
        BY <1>3, <4>1, <4>2 DEF Consumers
    <3>3. reply' = reply
      BY <1>3 DEF start_capture, frameVars, capVars
    <3>4. QED
      BY <3>1, <3>2, <3>3 DEF Consumers
  <2>2. CASE UNCHANGED frameVars
    BY <2>2 DEF frameVars, fixedVars, capVars, compVars, Sides, Consumers
  <2>3. QED
    BY <1>3, <2>1, <2>2 DEF start_capture
<1>4. CASE stop_capture(c.id)
  BY <1>4 DEF stop_capture, Forget, Sides, Consumers, fixedVars
<1>5. CASE c.output \in Output /\ start_screenshot(c.id, c.output)
  <2>1. picture' = picture
    BY <1>5 DEF start_screenshot
  <2>2. reply' \in [Shot -> {"none", "queued", "held", "ok", "err"}]
    BY <1>2, <1>5, AnswerTypes DEF start_screenshot
  <2>3. Begin(c.id, c.output) \/ UNCHANGED <<fixedVars, compVars, outputs>>
    BY <1>5 DEF start_screenshot
  <2>4. Sides'
    BY <1>2, <1>5, <2>3, BeginTypes DEF Sides, fixedVars, compVars
  <2>5. QED
    BY <2>1, <2>2, <2>4 DEF Consumers
<1>6. QED
  BY <1>2, <1>3, <1>4, <1>5

(* The commands the three threads make are of their channels.              *)
LEMMA CmdTypes ==
  /\ \A n \in Stream, o \in Output :
       Cmd("start", n, o) \in Command /\ Cmd("created", n, o) \in Call
  /\ \A n \in Stream :
       /\ Cmd("stop", n, None) \in Command /\ Cmd("destroy", n, None) \in Buffer
       /\ Cmd("destroy", n, None) \in Call
  /\ \A s \in Shot, o \in Output : Cmd("shot", s, o) \in Command
  /\ \A o \in Output : Cmd("create", None, o) \in Buffer /\ Cmd("create", None, o) \in Call
  /\ \A i \in Id, o \in Output : Cmd("buffer", i, o) \in Buffer
  /\ Idle \in Call
BY DEF Cmd, Idle, Command, Buffer, Call, Id

(* The PipeWire thread makes streams for outputs.                          *)
LEMMA PipeWireTypes ==
  ASSUME CTypes, Streams, PipeWireCommand
  PROVE  Streams' /\ PipeTypes'
<1>1. pwqueue \in Seq(Buffer) /\ pwqueue # <<>>
  BY DEF PipeWireCommand, CTypes, PipeTypes
<1>2. Head(pwqueue) \in Buffer /\ Tail(pwqueue) \in Seq(Buffer)
  BY <1>1, Received
<1>3. pwqueue' \in Seq(Buffer) /\ commands' = commands /\ active' = active
  BY <1>2 DEF PipeWireCommand
<1>4. PICK c : c = Head(pwqueue)
  OBVIOUS
<1>5. /\ c.op \in {"create", "destroy", "buffer"}
      /\ c.op = "create" => c.output \in Output
      /\ c.op = "destroy" => c.id \in Stream
  BY <1>2, <1>4 DEF Buffer
<1>6. streams' \in [Stream -> Output \cup {None}] /\ calling' \in Call
  <2>1. CASE c.op = "create"
    <3>1. PipeWireCreate(c)
      BY <1>4, <2>1 DEF PipeWireCommand
    <3>2. CASE \E n \in NewIds : /\ streams' = [streams EXCEPT ![n] = c.output]
                                 /\ calling' = Cmd("created", n, c.output)
      <4>1. PICK n \in Stream : /\ streams' = [streams EXCEPT ![n] = c.output]
                                /\ calling' = Cmd("created", n, c.output)
        BY <3>2 DEF NewIds
      <4>2. QED
        BY <1>5, <2>1, <4>1, CmdTypes DEF Streams
    <3>3. CASE calling' = Idle /\ streams' = streams
      BY <3>3, CmdTypes DEF Streams
    <3>4. QED
      BY <3>1, <3>2, <3>3 DEF PipeWireCreate
  <2>2. CASE c.op = "destroy"
    <3>1. streams' = [streams EXCEPT ![c.id] = None] /\ calling' = Idle
      BY <1>4, <2>2 DEF PipeWireCommand
    <3>2. QED
      BY <3>1, CmdTypes DEF Streams
  <2>3. CASE c.op = "buffer"
    <3>1. streams' = streams /\ calling' = calling
      BY <1>4, <2>3 DEF PipeWireCommand
    <3>2. QED
      BY <3>1 DEF Streams, CTypes, PipeTypes
  <2>4. QED
    BY <1>5, <2>1, <2>2, <2>3
<1>7. QED
  BY <1>3, <1>6 DEF Streams, PipeTypes, CTypes

(* The channels hold what their senders make.                              *)
LEMMA QueueTypes ==
  ASSUME CTypes, Streams, AllSound, [Next]_vars
  PROVE  Streams' /\ PipeTypes'
<1>1. /\ commands \in Seq(Command) /\ pwqueue \in Seq(Buffer) /\ calling \in Call
      /\ Streams
  BY DEF CTypes, PipeTypes
<1>2. ASSUME NEW o \in Output, CreateStream(o) PROVE Streams' /\ PipeTypes'
  <2>1. Cmd("create", None, o) \in Buffer /\ Cmd("create", None, o) \in Call
    BY CmdTypes
  <2>2. QED
    BY <1>1, <1>2, <2>1, Sent DEF CreateStream, Streams, PipeTypes
<1>3. ASSUME NEW o \in Output, NEW s \in Shot, CallScreenshot(s, o)
      PROVE  Streams' /\ PipeTypes'
  <2>1. Cmd("shot", s, o) \in Command
    BY CmdTypes
  <2>2. QED
    BY <1>1, <1>3, <2>1, Sent DEF CallScreenshot, Streams, PipeTypes
<1>4. CASE StreamCreated
  <2>1. calling.id \in Stream /\ calling.output \in Output
    BY <1>1, <1>4 DEF StreamCreated, Call
  <2>2. Cmd("start", calling.id, calling.output) \in Command /\ Idle \in Call
    BY <2>1, CmdTypes
  <2>3. PipeTypes'
    BY <1>1, <1>4, <2>2, Sent DEF StreamCreated, PipeTypes
  <2>4. Streams'
    BY <1>1, <1>4, <2>1 DEF StreamCreated, Streams
  <2>5. QED
    BY <2>3, <2>4
<1>5. ASSUME NEW n \in Stream, DestroyStream(n) PROVE Streams' /\ PipeTypes'
  <2>1. /\ Cmd("stop", n, None) \in Command /\ Cmd("destroy", n, None) \in Buffer
        /\ Cmd("destroy", n, None) \in Call
    BY CmdTypes
  <2>2. commands' \in Seq(Command)
    BY <1>1, <1>5, <2>1, Sent DEF DestroyStream
  <2>3. pwqueue' \in Seq(Buffer) /\ calling' \in Call
    <3>1. Append(pwqueue, Cmd("destroy", n, None)) \in Seq(Buffer)
      BY <1>1, <2>1, Sent
    <3>2. \/ pwqueue' = Append(pwqueue, Cmd("destroy", n, None))
             /\ calling' = Cmd("destroy", n, None)
          \/ pwqueue' = pwqueue /\ calling' = calling
      BY <1>5 DEF DestroyStream
    <3>3. QED
      BY <1>1, <2>1, <3>1, <3>2
  <2>4. Streams'
    BY <1>1, <1>5 DEF DestroyStream, Streams
  <2>5. QED
    BY <2>2, <2>3, <2>4 DEF PipeTypes
<1>6. CASE ProcessCommand
  <2>1. commands' \in Seq(Command)
    BY <1>1, <1>6, Received DEF ProcessCommand
  <2>2. QED
    BY <1>1, <1>6, <2>1 DEF ProcessCommand, Streams, PipeTypes
<1>7. ASSUME NEW i \in Id, DeliverFrame(i) PROVE Streams' /\ PipeTypes'
  <2>1. i \in Live /\ Sound(captures[i], i, offer[i], told[i])
    BY <1>7 DEF DeliverFrame, FrameReady, Completes, Copying, Awaiting, AllSound
  <2>2. captures[i].output \in Output
    BY <2>1 DEF Sound, Captured
  <2>3. Cmd("buffer", i, captures[i].output) \in Buffer
    BY <2>2, CmdTypes
  <2>4. pwqueue' \in Seq(Buffer)
    <3>1. Append(pwqueue, Cmd("buffer", i, captures[i].output)) \in Seq(Buffer)
      BY <1>1, <2>3, Sent
    <3>2. pwqueue' = Append(pwqueue, Cmd("buffer", i, captures[i].output)) \/ pwqueue' = pwqueue
      BY <1>7 DEF DeliverFrame
    <3>3. QED
      BY <1>1, <3>1, <3>2
  <2>5. QED
    BY <1>1, <1>7, <2>4 DEF DeliverFrame, Streams, PipeTypes
<1>8. CASE FrameEvent /\ UNCHANGED pipeVars
  BY <1>1, <1>8 DEF pipeVars, Streams, PipeTypes
<1>9. CASE PipeWireCommand
  BY <1>9, PipeWireTypes
<1>10. CASE PipeWireStop
  <2>1. /\ Idle \in Call /\ <<>> \in Seq(Buffer)
        /\ [n \in Stream |-> None] \in [Stream -> Output \cup {None}]
    BY CmdTypes
  <2>2. QED
    BY <1>1, <1>10, <2>1 DEF PipeWireStop, Streams, PipeTypes
<1>11. CASE UNCHANGED vars
  BY <1>1, <1>11 DEF vars, pipeVars, Streams, PipeTypes
<1>12. QED
  BY <1>2, <1>3, <1>4, <1>5, <1>6, <1>7, <1>8, <1>9, <1>10, <1>11 DEF Next

CInv == CTypes /\ AllSound

(* At first nothing is captured.                                           *)
LEMMA CInvInit ==
  ASSUME Init
  PROVE  CInv /\ Live = {}
<1>1. \A i \in Id : captures[i] = None
  BY DEF Init, FrameInit
<1>2. Live = {} /\ AllSound
  BY <1>1 DEF Live, AllSound
<1>3. captures \in [Id -> Captured \cup {None}]
  BY DEF Init, FrameInit
<1>4. protocol \in {"ext", "v1", "v2", "v3"} /\ paced \in BOOLEAN
  BY CaptureAssumption DEF Init, FrameInit
<1>5. Sides /\ Consumers
  BY <1>4 DEF Init, FrameInit, Sides, Consumers
<1>6. Streams
  BY DEF Init, Streams
<1>7. PipeTypes
  BY CmdTypes DEF Init, PipeTypes
<1>8. QED
  BY <1>2, <1>3, <1>5, <1>6, <1>7, TypesSplit DEF CInv, CTypes

(* The types and the soundness of the captures together are inductive.     *)
LEMMA CInvNext ==
  ASSUME CInv, [Next]_vars
  PROVE  CInv'
<1>1. CTypes /\ AllSound /\ Sides /\ Consumers /\ Streams
  BY TypesSplit DEF CInv, CTypes
<1>2. captures' \in [Id -> Captured \cup {None}] /\ AllSound'
  BY <1>1, NextKeeps
<1>3. Streams' /\ PipeTypes'
  BY <1>1, QueueTypes
<1>4. Sides' /\ Consumers'
  <2>1. CASE FrameEvent
    BY <1>1, <2>1, EventTypes
  <2>2. CASE \E i \in Id : DeliverFrame(i)
    BY <1>1, <2>2, ReadyTypes DEF DeliverFrame
  <2>3. CASE ProcessCommand
    BY <1>1, <2>3, CommandTypes
  <2>4. ASSUME NEW o \in Output, NEW s \in Shot, CallScreenshot(s, o)
        PROVE  Sides' /\ Consumers'
    BY <1>1, <2>4 DEF CallScreenshot, Sides, Consumers, fixedVars, compVars
  <2>5. CASE UNCHANGED frameVars
    BY <1>1, <2>5 DEF frameVars, Sides, Consumers, fixedVars, capVars, compVars
  <2>6. ASSUME \/ \E o \in Output : CreateStream(o)
               \/ StreamCreated \/ \E n \in Stream : DestroyStream(n)
               \/ PipeWireCommand \/ PipeWireStop \/ UNCHANGED vars
        PROVE  UNCHANGED frameVars
    BY <2>6 DEF CreateStream, StreamCreated, DestroyStream, PipeWireCommand, PipeWireStop, vars
  <2>7. QED
    BY <2>1, <2>2, <2>3, <2>4, <2>5, <2>6 DEF Next
<1>5. QED
  BY <1>2, <1>3, <1>4 DEF CInv, CTypes, FrameTypes, TypeOK, Sides, Consumers, Streams

(* The state has the types the code gives it: each capture's record, what  *)
(* the compositor holds of it, the streams and the replies.                *)
THEOREM PipelineTypeCorrect == Spec => []TypeOK
<1>1. CInv => TypeOK
  BY DEF CInv, CTypes, FrameTypes
<1>2. QED
  BY <1>1, CInvInit, CInvNext, PTL DEF Spec

-----------------------------------------------------------------------------
(* The rules of the protocols. A compositor that changes its constraints   *)
(* while a frame is pending, or a handshake longer than a frame interval,  *)
(* makes the loop create a second frame object.                            *)
NoSecondFrame == {"slow_handshake", "update_pending"} \cap Faults = {}

LEMMA SingleInv ==
  ASSUME NoSecondFrame
  PROVE  Spec => [](CInv /\ AllSingle)
<1>1. Init => CInv /\ AllSingle
  BY CInvInit DEF AllSingle, Init, FrameInit
<1>2. CInv /\ AllSingle /\ [Next]_vars => (CInv /\ AllSingle)'
  BY CInvNext, NextKeeps DEF CInv, Alone, NoSecondFrame
<1>3. QED
  BY <1>1, <1>2, PTL DEF Spec

(* Whatever outputs, formats and failures the compositor comes up with, no *)
(* session has two frames, no frame is copied twice, and a screencopy      *)
(* frame is copied into a buffer of a format it named.                     *)
THEOREM PipelineKeepsProtocol ==
  ASSUME NoSecondFrame
  PROVE  Spec => []NoProtocolError
<1>1. CInv /\ AllSingle => NoProtocolError
  <2>1. ASSUME CInv, AllSingle, NEW i \in Live
        PROVE  LET c == captures[i]
               IN  c.live <= 1 /\ c.copies <= 1 /\ (wlr /\ c.copies = 1 => c.buffer \in offer[i])
    BY <2>1 DEF CInv, AllSound, Sound, AllSingle, Single
  <2>2. QED
    BY <2>1 DEF NoProtocolError
<1>2. QED
  BY <1>1, SingleInv, PTL

-----------------------------------------------------------------------------
(* Damage. When it is counted per screencopy manager, a frame of one       *)
(* capture takes the damage of another of the same output.                 *)
OwnDamage == "shared_damage" \notin Faults

SInv == NothingMissed /\ Told

(* A step on the capture of i that began before.                           *)
LEMMA EventLive ==
  ASSUME FrameTypes, AllSound, FrameEvent
  PROVE  Live' \subseteq Live
<1>1. captures \in [Id -> Captured \cup {None}]
  BY DEF FrameTypes, TypeOK
<1>2. ASSUME NEW i \in Live, NEW d, captures' = [captures EXCEPT ![i] = d]
      PROVE  Live' \subseteq Live
  BY <1>1, <1>2 DEF Live
<1>3. ASSUME captures' = captures PROVE Live' \subseteq Live
  BY <1>3 DEF Live
<1>4. ASSUME NEW i \in Id,
             \/ FrameBuffer(i) \/ FrameBufferDone(i)
             \/ SessionFormats(i) \/ SessionDone(i) \/ SessionStopped(i) \/ ConstraintsUpdate(i)
             \/ FrameFailed(i) \/ FrameConstraints(i)
             \/ HandshakeTimeout(i) \/ Pump(i) \/ IntervalEnds(i) \/ HandshakeLate(i)
             \/ \E r \in Region : FrameDamage(i, r)
      PROVE  i \in Live /\ \E d : Replaces(i, d)
  <2>1. \E d : Replaces(i, d)
    BY <1>4, FrameBufferFits, FrameBufferDoneFits, SessionFormatsFits, SessionDoneFits,
       ConstraintsUpdateFits, FrameFailedFits, FrameConstraintsFits, TimeoutFits, PumpFits,
       TimeFits, FrameDamageFits
  <2>2. i \in Live
    BY <1>4 DEF FrameBuffer, FrameBufferDone, SessionFormats, SessionDone, SessionStopped,
       ConstraintsUpdate, FrameFailed, FrameConstraints, HandshakeTimeout, Pump, IntervalEnds,
       HandshakeLate, FrameDamage, Copying, Awaiting
  <2>3. QED
    BY <2>1, <2>2
<1>5. ASSUME NEW o \in Output,
             Unplug(o) \/ GlobalRemove(o) \/ \E r \in Region : ContentChanges(o, r)
      PROVE  captures' = captures
  BY <1>5 DEF Unplug, GlobalRemove, ContentChanges, capVars
<1>6. QED
  BY <1>2, <1>3, <1>4, <1>5 DEF FrameEvent, Replaces

(* What was still to be told stays so when nothing is told or drawn.       *)
LEMMA ToldKept ==
  ASSUME SInv, Live' \subseteq Live, picture' = picture, dirty' = dirty
  PROVE  SInv'
BY DEF SInv, NothingMissed, Told

(* A delivered frame tells all that changed.                               *)
LEMMA ReadyTells ==
  ASSUME OwnDamage, CInv, SInv, NEW i \in Id, FrameReady(i)
  PROVE  SInv'
<1>1. /\ FrameTypes /\ AllSound /\ captures \in [Id -> Captured \cup {None}]
      /\ picture \in [Stream -> [Region -> {"current", "changed", "missed"}]]
      /\ dirty \in [Id -> SUBSET Region]
  BY DEF CInv, CTypes, FrameTypes, TypeOK
<1>2. i \in Live
  BY DEF FrameReady, Completes, Copying, Awaiting
<1>3. Live' \subseteq Live
  <2>1. PICK d : Replaces(i, d)
    BY <1>1, FrameReadyFits
  <2>2. QED
    BY <1>1, <1>2, <2>1 DEF Replaces, Live
<1>4. \A j \in Id \ {i} : dirty'[j] = dirty[j]
  BY <1>1 DEF FrameReady, Cleared, OwnDamage
<1>5. PICK c : c = captures[i]
  OBVIOUS
<1>6. Sound(c, i, offer[i], told[i])
  BY <1>1, <1>2, <1>5 DEF AllSound
<1>7. CASE i \notin Stream
  <2>1. picture' = picture
    BY <1>7 DEF FrameReady, Deliver
  <2>2. Stream \subseteq Id \ {i}
    BY <1>7 DEF Id
  <2>3. QED
    BY <1>3, <1>4, <2>1, <2>2 DEF SInv, NothingMissed, Told
<1>8. CASE i \in Stream
  <2>1. ~c.oneshot
    BY <1>6, <1>8 DEF Sound
  <2>2. PICK D : D = IF wlr THEN frame_damage(c) ELSE c.boxes
    OBVIOUS
  <2>3. Deliver(i, D)
    BY <1>5, <2>1, <2>2 DEF FrameReady
  <2>4. ASSUME NEW r \in Region, picture[i][r] = "changed" PROVE D = {} \/ r \in D
    <3>1. r \in dirty[i]
      BY <1>2, <1>8, <2>4 DEF SInv, Told
    <3>2. TellsDamage(i) => r \in told[i]
      BY <3>1 DEF FrameReady, Completes
    <3>3. CASE wlr
      BY <1>5, <1>6, <2>2, <3>2, <3>3 DEF frame_damage, TellsDamage, Sound
    <3>4. CASE ~wlr
      BY <1>5, <1>6, <2>2, <3>2, <3>4 DEF TellsDamage, Sound, wlr, ext
    <3>5. QED
      BY <3>3, <3>4
  <2>5. PICK p : p = [r \in Region |-> IF D = {} \/ r \in D THEN "current"
                        ELSE IF picture[i][r] = "changed" THEN "missed" ELSE picture[i][r]]
    OBVIOUS
  <2>6. picture' = [picture EXCEPT ![i] = p]
    BY <1>8, <2>3, <2>5 DEF Deliver
  <2>7. \A r \in Region : p[r] # "changed" /\ p[r] # "missed"
    BY <1>8, <2>4, <2>5 DEF SInv, NothingMissed
  <2>8. picture'[i] = p /\ \A n \in Stream \ {i} : picture'[n] = picture[n]
    BY <1>1, <1>8, <2>6
  <2>9. NothingMissed'
    BY <2>7, <2>8 DEF SInv, NothingMissed
  <2>10. ASSUME NEW n \in (Stream \cap Live)', NEW r \in Region, picture'[n][r] = "changed"
         PROVE  r \in dirty'[n]
    <3>1. n # i
      BY <2>7, <2>8, <2>10
    <3>2. n \in Stream \cap Live /\ n \in Id \ {i} /\ n \in Stream \ {i}
      BY <1>3, <3>1 DEF Id
    <3>3. picture[n][r] = "changed"
      BY <2>8, <2>10, <3>2
    <3>4. r \in dirty[n]
      BY <3>2, <3>3 DEF SInv, Told
    <3>5. QED
      BY <1>4, <3>2, <3>4
  <2>11. QED
    BY <2>9, <2>10 DEF SInv, Told
<1>9. QED
  BY <1>7, <1>8

(* A change of an output is damage of all its captures.                    *)
LEMMA ChangeTold ==
  ASSUME CInv, SInv, NEW o \in Output, NEW r \in Region, ContentChanges(o, r)
  PROVE  SInv'
<1>1. /\ picture \in [Stream -> [Region -> {"current", "changed", "missed"}]]
      /\ dirty \in [Id -> SUBSET Region] /\ captures' = captures
  BY DEF CInv, CTypes, FrameTypes, TypeOK, ContentChanges
<1>2. PICK seen : /\ dirty' = [i \in Id |-> IF i \in seen THEN dirty[i] \cup {r} ELSE dirty[i]]
                  /\ picture' = [i \in Stream |->
                       IF i \in seen /\ picture[i][r] = "current"
                       THEN [picture[i] EXCEPT ![r] = "changed"] ELSE picture[i]]
  BY DEF ContentChanges
<1>3. ASSUME NEW n \in Stream, NEW q \in Region
      PROVE  /\ picture'[n][q] # "missed"
             /\ picture'[n][q] = "changed" =>
                  picture[n][q] = "changed" \/ (n \in seen /\ q = r)
  <2>1. picture[n][q] # "missed" /\ picture[n] \in [Region -> {"current", "changed", "missed"}]
    BY <1>1 DEF SInv, NothingMissed
  <2>2. CASE n \in seen /\ picture[n][r] = "current"
    <3>1. picture'[n] = [picture[n] EXCEPT ![r] = "changed"]
      BY <1>2, <2>2
    <3>2. QED
      BY <2>1, <2>2, <3>1
  <2>3. CASE ~(n \in seen /\ picture[n][r] = "current")
    <3>1. picture'[n] = picture[n]
      BY <1>2, <2>3
    <3>2. QED
      BY <2>1, <3>1
  <2>4. QED
    BY <2>2, <2>3
<1>4. ASSUME NEW n \in Stream \cap Live, NEW q \in Region, picture'[n][q] = "changed"
      PROVE  q \in dirty'[n]
  <2>1. n \in Stream /\ n \in Id
    BY DEF Id
  <2>2. picture[n][q] = "changed" => q \in dirty[n]
    BY DEF SInv, Told
  <2>3. picture[n][q] = "changed" \/ (n \in seen /\ q = r)
    BY <1>3, <1>4, <2>1
  <2>4. QED
    BY <1>2, <2>1, <2>2, <2>3
<1>5. QED
  BY <1>1, <1>3, <1>4 DEF SInv, NothingMissed, Told, Live

(* A capture that begins has everything still to tell.                     *)
LEMMA CommandTold ==
  ASSUME CInv, SInv, ProcessCommand
  PROVE  SInv'
<1>1. CTypes /\ captures \in [Id -> Captured \cup {None}]
      /\ picture \in [Stream -> [Region -> {"current", "changed", "missed"}]]
      /\ dirty \in [Id -> SUBSET Region]
  BY DEF CInv, CTypes, FrameTypes, TypeOK
<1>2. PICK c : c = Head(commands)
  OBVIOUS
<1>3. /\ c.id \in Id
      /\ \/ c.op = "start" /\ c.id \in Stream /\ c.output \in Output
            /\ start_capture(c.id, c.output)
         \/ c.op = "stop" /\ c.id \in Stream /\ stop_capture(c.id)
         \/ c.op = "shot" /\ c.id \in Shot /\ c.output \in Output
            /\ start_screenshot(c.id, c.output)
  BY <1>1, <1>2, HeadCommand
<1>4. PICK i : i = c.id
  OBVIOUS
<1>5. ASSUME NEW o, Begin(i, o)
      PROVE  /\ dirty' = [dirty EXCEPT ![i] = Region]
             /\ \A n \in Live' : n \in Live \/ n = i
  <2>1. PICK d : captures' = [captures EXCEPT ![i] = d]
    BY <1>5 DEF Begin, Put
  <2>2. QED
    BY <1>1, <1>3, <1>4, <1>5, <2>1 DEF Begin, Live
<1>6. CASE i \in Stream /\ start_capture(i, c.output)
  <2>1. CASE /\ Begin(i, c.output)
             /\ picture' = [picture EXCEPT ![i] = [r \in Region |-> "changed"]]
    <3>1. /\ dirty'[i] = Region /\ \A n \in Id \ {i} : dirty'[n] = dirty[n]
          /\ \A n \in Live' : n \in Live \/ n = i
      BY <1>1, <1>3, <1>4, <1>5, <2>1
    <3>2. /\ \A r \in Region : picture'[i][r] = "changed"
          /\ \A n \in Stream \ {i} : picture'[n] = picture[n]
      BY <1>1, <1>6, <2>1
    <3>3. NothingMissed'
      BY <3>2 DEF SInv, NothingMissed
    <3>4. Told'
      BY <3>1, <3>2 DEF SInv, Told, Id
    <3>5. QED
      BY <3>3, <3>4 DEF SInv
  <2>2. CASE UNCHANGED frameVars
    BY <2>2 DEF frameVars, capVars, compVars, SInv, NothingMissed, Told, Live
  <2>3. QED
    BY <1>6, <2>1, <2>2 DEF start_capture
<1>7. CASE stop_capture(i)
  <2>1. Live' \subseteq Live
    BY <1>1, <1>7 DEF stop_capture, Forget, Live
  <2>2. QED
    BY <1>7, <2>1, ToldKept DEF stop_capture
<1>8. CASE i \in Shot /\ start_screenshot(i, c.output)
  <2>1. picture' = picture /\ Stream \subseteq Id \ {i}
    BY <1>8, CaptureAssumption DEF start_screenshot, Id
  <2>2. /\ \A n \in Id \ {i} : dirty'[n] = dirty[n]
        /\ \A n \in Live' : n \in Live \/ n = i
    BY <1>1, <1>3, <1>4, <1>5, <1>8 DEF start_screenshot, compVars, Live
  <2>3. QED
    BY <2>1, <2>2 DEF SInv, NothingMissed, Told
<1>9. QED
  BY <1>3, <1>4, <1>6, <1>7, <1>8

(* So nothing that changed is lost, whatever the step.                     *)
LEMMA SInvNext ==
  ASSUME OwnDamage, CInv, SInv, [Next]_vars
  PROVE  SInv'
<1>1. FrameTypes /\ AllSound
  BY DEF CInv, CTypes
<1>2. CASE FrameEvent
  <2>1. Live' \subseteq Live
    BY <1>1, <1>2, EventLive
  <2>2. CASE \E o \in Output, r \in Region : ContentChanges(o, r)
    BY <2>2, ChangeTold
  <2>3. CASE ~(\E o \in Output, r \in Region : ContentChanges(o, r))
    <3>1. picture' = picture /\ dirty' = dirty
      BY <1>2, <2>3 DEF FrameEvent, FrameBuffer, FrameBufferDone, SessionFormats, SessionDone,
         SessionStopped, ConstraintsUpdate, FrameFailed, FrameConstraints, HandshakeTimeout,
         Pump, IntervalEnds, HandshakeLate, FrameDamage, Unplug, GlobalRemove, capVars, compVars
    <3>2. QED
      BY <2>1, <3>1, ToldKept
  <2>4. QED
    BY <2>2, <2>3
<1>3. CASE \E i \in Id : DeliverFrame(i)
  BY <1>3, ReadyTells DEF DeliverFrame
<1>4. CASE ProcessCommand
  BY <1>4, CommandTold
<1>5. CASE UNCHANGED <<captures, picture, dirty>>
  BY <1>5, ToldKept DEF Live
<1>6. ASSUME \/ \E o \in Output : CreateStream(o) \/ \E s \in Shot : CallScreenshot(s, o)
             \/ StreamCreated \/ \E n \in Stream : DestroyStream(n)
             \/ PipeWireCommand \/ PipeWireStop \/ UNCHANGED vars
      PROVE  UNCHANGED <<captures, picture, dirty>>
  BY <1>6 DEF CreateStream, CallScreenshot, StreamCreated, DestroyStream, PipeWireCommand,
     PipeWireStop, vars, frameVars, capVars, compVars
<1>7. QED
  BY <1>2, <1>3, <1>4, <1>5, <1>6 DEF Next

(* A consumer that draws what each frame says was damaged never shows a    *)
(* region from an older frame, however changes, frames, restarts and       *)
(* pacing interleave, and past any limit on the boxes.                     *)
THEOREM PipelineMissesNothing ==
  ASSUME OwnDamage
  PROVE  Spec => []NothingMissed
<1>1. Init => CInv /\ SInv
  BY CInvInit DEF SInv, NothingMissed, Told, Init, FrameInit
<1>2. CInv /\ SInv /\ [Next]_vars => (CInv /\ SInv)'
  BY CInvNext, SInvNext
<1>3. CInv /\ SInv => NothingMissed
  BY DEF SInv
<1>4. QED
  BY <1>1, <1>2, <1>3, PTL DEF Spec

-----------------------------------------------------------------------------
(* Captures and their streams. A stop that is sent comes after the start.  *)
LEMMA FollowsAppend ==
  ASSUME commands \in Seq(Command), StopsFollow, NEW e \in Command,
         commands' = Append(commands, e), captures' = captures,
         NEW n \in Stream, active'[n] = None,
         active[n] = None \/ (e.op = "stop" /\ e.id = n),
         ~(e.op = "start" /\ e.id = n)
  PROVE  /\ n \in Live' => \E k \in DOMAIN commands' : StopAt(n, k)'
         /\ \A k \in DOMAIN commands' :
              commands'[k].op = "start" /\ commands'[k].id = n =>
                \E l \in DOMAIN commands' : l > k /\ StopAt(n, l)'
<1>1. PICK s, t : s = commands /\ t = commands'
  OBVIOUS
<1>2. /\ Len(s) \in Nat /\ DOMAIN s = 1..Len(s) /\ DOMAIN t = 1..(Len(s) + 1)
      /\ \A k \in 1..Len(s) : t[k] = s[k]
      /\ t[Len(s) + 1] = e
  BY <1>1, Sent
<1>3. Live' = Live
  BY DEF Live
<1>4. \A k : StopAt(n, k)' <=> t[k].op = "stop" /\ t[k].id = n
  BY <1>1 DEF StopAt
<1>5. CASE e.op = "stop" /\ e.id = n
  <2>1. Len(s) + 1 \in DOMAIN t /\ StopAt(n, Len(s) + 1)'
    BY <1>2, <1>4, <1>5
  <2>2. \A k \in DOMAIN t : t[k].op = "start" => k < Len(s) + 1
    BY <1>2, <1>5
  <2>3. QED
    BY <1>1, <1>2, <2>1, <2>2
<1>6. CASE ~(e.op = "stop" /\ e.id = n)
  <2>1. active[n] = None
    BY <1>6
  <2>2. /\ n \in Live => \E k \in DOMAIN s : s[k].op = "stop" /\ s[k].id = n
        /\ \A k \in DOMAIN s : s[k].op = "start" /\ s[k].id = n =>
             \E l \in DOMAIN s : l > k /\ s[l].op = "stop" /\ s[l].id = n
    BY <1>1, <2>1 DEF StopsFollow, StopAt
  <2>3. \A k \in DOMAIN t : t[k].op = "start" /\ t[k].id = n => k \in DOMAIN s
    BY <1>2
  <2>4. DOMAIN s \subseteq DOMAIN t /\ \A k \in DOMAIN s : t[k] = s[k]
    BY <1>2
  <2>5. QED
    BY <1>1, <1>3, <1>4, <2>2, <2>3, <2>4
<1>7. QED
  BY <1>5, <1>6

(* A start that is read has its stop left in the channel.                  *)
LEMMA FollowsProcess ==
  ASSUME CTypes, StopsFollow, ProcessCommand
  PROVE  StopsFollow'
<1>1. PICK s, t : s = commands /\ t = commands'
  OBVIOUS
<1>2. s \in Seq(Command) /\ s # <<>> /\ t = Tail(s) /\ active' = active
  BY <1>1 DEF CTypes, PipeTypes, ProcessCommand
<1>3. /\ Head(s) = s[1] /\ Len(s) \in Nat \ {0} /\ DOMAIN s = 1..Len(s)
      /\ DOMAIN t = 1..(Len(s) - 1) /\ \A k \in 1..(Len(s) - 1) : t[k] = s[k + 1]
  BY <1>2, Received
<1>4. ASSUME NEW n \in Stream, active'[n] = None
      PROVE  /\ n \in Live' => \E k \in DOMAIN t : t[k].op = "stop" /\ t[k].id = n
             /\ \A k \in DOMAIN t : t[k].op = "start" /\ t[k].id = n =>
                  \E l \in DOMAIN t : l > k /\ t[l].op = "stop" /\ t[l].id = n
  <2>1. /\ n \in Live => \E k \in DOMAIN s : s[k].op = "stop" /\ s[k].id = n
        /\ \A k \in DOMAIN s : s[k].op = "start" /\ s[k].id = n =>
             \E l \in DOMAIN s : l > k /\ s[l].op = "stop" /\ s[l].id = n
    BY <1>1, <1>2, <1>4 DEF StopsFollow, StopAt
  <2>2. \A l \in DOMAIN s : l > 1 => l - 1 \in DOMAIN t /\ t[l - 1] = s[l]
    BY <1>3
  <2>3. ASSUME NEW k \in DOMAIN t, t[k].op = "start", t[k].id = n
        PROVE  \E l \in DOMAIN t : l > k /\ t[l].op = "stop" /\ t[l].id = n
    <3>1. k + 1 \in DOMAIN s /\ s[k + 1] = t[k] /\ k >= 1 /\ k \in Nat
      BY <1>3
    <3>2. PICK l \in DOMAIN s : l > k + 1 /\ s[l].op = "stop" /\ s[l].id = n
      BY <2>1, <2>3, <3>1
    <3>3. l - 1 \in DOMAIN t /\ t[l - 1] = s[l] /\ l - 1 > k
      BY <1>3, <2>2, <3>1, <3>2
    <3>4. QED
      BY <3>2, <3>3
  <2>4. ASSUME n \in Live' PROVE \E k \in DOMAIN t : t[k].op = "stop" /\ t[k].id = n
    <3>1. PICK c : c = s[1]
      OBVIOUS
    <3>2. /\ c.id \in Id
          /\ \/ c.op = "start" /\ c.id \in Stream /\ c.output \in Output
                /\ start_capture(c.id, c.output)
             \/ c.op = "stop" /\ c.id \in Stream /\ stop_capture(c.id)
             \/ c.op = "shot" /\ c.id \in Shot /\ c.output \in Output
                /\ start_screenshot(c.id, c.output)
      BY <1>1, <1>2, <1>3, <3>1, HeadCommand
    <3>3. captures \in [Id -> Captured \cup {None}] /\ n \in Id
      BY DEF CTypes, FrameTypes, TypeOK, Id
    <3>4. c.op # "stop" => \/ captures' = captures
                           \/ \E d : captures' = [captures EXCEPT ![c.id] = d]
      BY <3>2 DEF start_capture, start_screenshot, Begin, Put, frameVars, capVars
    <3>5. CASE c.op = "start" /\ c.id = n
      <4>1. 1 \in DOMAIN s
        BY <1>3
      <4>2. PICK l \in DOMAIN s : l > 1 /\ s[l].op = "stop" /\ s[l].id = n
        BY <2>1, <3>1, <3>5, <4>1
      <4>3. QED
        BY <2>2, <4>2
    <3>6. CASE c.op = "stop" /\ c.id = n
      <4>1. captures' = [captures EXCEPT ![n] = None]
        BY <3>2, <3>6 DEF stop_capture, Forget
      <4>2. QED
        BY <2>4, <3>3, <4>1 DEF Live
    <3>7. CASE ~(c.op \in {"start", "stop"} /\ c.id = n)
      <4>1. c.id # n
        BY <3>2, <3>7, CaptureAssumption
      <4>2. c.op = "stop" => captures' = [captures EXCEPT ![c.id] = None]
        BY <3>2 DEF stop_capture, Forget
      <4>3. n \in Live
        BY <2>4, <3>3, <3>4, <4>1, <4>2 DEF Live
      <4>4. PICK k \in DOMAIN s : s[k].op = "stop" /\ s[k].id = n
        BY <2>1, <4>3
      <4>5. k # 1
        BY <3>1, <4>1, <4>4
      <4>6. k > 1
        BY <1>3, <4>5
      <4>7. QED
        BY <2>2, <4>4, <4>6
    <3>8. QED
      BY <3>5, <3>6, <3>7
  <2>5. QED
    BY <2>3, <2>4
<1>5. QED
  BY <1>1, <1>4 DEF StopsFollow, StopAt

(* Nothing is sent or read.                                                *)
LEMMA FollowsStill ==
  ASSUME StopsFollow, Live' \subseteq Live, commands' = commands, active' = active
  PROVE  StopsFollow'
BY DEF StopsFollow, StopAt

(* So it is for every step of the three threads.                           *)
LEMMA StopsFollowNext ==
  ASSUME CInv, StopsFollow, [Next]_vars
  PROVE  StopsFollow'
<1>1. /\ CTypes /\ FrameTypes /\ AllSound /\ commands \in Seq(Command) /\ calling \in Call
      /\ active \in [Stream -> Output \cup {None}]
  BY DEF CInv, CTypes, PipeTypes, FrameTypes, TypeOK
<1>2. CASE StreamCreated
  <2>1. PICK m, o : m = calling.id /\ o = calling.output
    OBVIOUS
  <2>2. m \in Stream /\ o \in Output /\ o # None
    BY <1>1, <1>2, <2>1, CaptureAssumption DEF StreamCreated, Call
  <2>3. PICK e \in Command : e = Cmd("start", m, o)
    BY <2>2, CmdTypes
  <2>4. e.op = "start" /\ e.id = m
    BY <2>3 DEF Cmd
  <2>5. commands' = Append(commands, e) /\ captures' = captures
        /\ active' = [active EXCEPT ![m] = o]
    BY <1>2, <2>1, <2>3 DEF StreamCreated, frameVars, capVars
  <2>6. \A n \in Stream : active'[n] = None => n # m /\ active[n] = None
    BY <1>1, <2>2, <2>5
  <2>7. QED
    BY <1>1, <2>4, <2>5, <2>6, FollowsAppend DEF StopsFollow
<1>3. ASSUME NEW m \in Stream, DestroyStream(m) PROVE StopsFollow'
  <2>1. PICK e \in Command : e = Cmd("stop", m, None)
    BY CmdTypes
  <2>2. e.op = "stop" /\ e.id = m
    BY <2>1 DEF Cmd
  <2>3. commands' = Append(commands, e) /\ captures' = captures
        /\ active' = [active EXCEPT ![m] = None]
    BY <1>3, <2>1 DEF DestroyStream, frameVars, capVars
  <2>4. \A n \in Stream : active'[n] = None => n = m \/ active[n] = None
    BY <1>1, <2>3
  <2>5. QED
    BY <1>1, <2>2, <2>3, <2>4, FollowsAppend DEF StopsFollow
<1>4. ASSUME NEW o \in Output, NEW s \in Shot, CallScreenshot(s, o) PROVE StopsFollow'
  <2>1. PICK e \in Command : e = Cmd("shot", s, o)
    BY CmdTypes
  <2>2. e.op = "shot"
    BY <2>1 DEF Cmd
  <2>3. commands' = Append(commands, e) /\ captures' = captures /\ active' = active
    BY <1>4, <2>1 DEF CallScreenshot
  <2>4. QED
    BY <1>1, <2>2, <2>3, FollowsAppend DEF StopsFollow
<1>5. CASE ProcessCommand
  BY <1>1, <1>5, FollowsProcess
<1>6. CASE FrameEvent /\ UNCHANGED pipeVars
  BY <1>1, <1>6, EventLive, FollowsStill DEF pipeVars
<1>7. ASSUME NEW i \in Id, DeliverFrame(i) PROVE StopsFollow'
  <2>1. PICK d : Replaces(i, d)
    BY <1>1, <1>7, FrameReadyFits DEF DeliverFrame
  <2>2. i \in Live
    BY <1>7 DEF DeliverFrame, FrameReady, Completes, Copying, Awaiting
  <2>3. Live' \subseteq Live
    BY <1>1, <2>1, <2>2 DEF Replaces, Live, FrameTypes, TypeOK
  <2>4. QED
    BY <1>7, <2>3, FollowsStill DEF DeliverFrame
<1>8. CASE UNCHANGED <<captures, commands, active>>
  BY <1>8, FollowsStill DEF Live
<1>9. ASSUME \/ \E o \in Output : CreateStream(o)
             \/ PipeWireCommand \/ PipeWireStop \/ UNCHANGED vars
      PROVE  UNCHANGED <<captures, commands, active>>
  BY <1>9 DEF CreateStream, PipeWireCommand, PipeWireStop, vars, pipeVars, frameVars, capVars
<1>10. QED
  BY <1>2, <1>3, <1>4, <1>5, <1>6, <1>7, <1>8, <1>9 DEF Next

(* The invariant that a stop follows.                                      *)
LEMMA StopsFollowInv == Spec => [](CInv /\ StopsFollow)
<1>1. Init => StopsFollow
  <2>1. ASSUME Init PROVE StopsFollow
    <3>1. Live = {} /\ commands = <<>>
      BY <2>1, CInvInit DEF Init
    <3>2. DOMAIN commands = {}
      BY <3>1
    <3>3. QED
      BY <3>1, <3>2 DEF StopsFollow
  <2>2. QED
    BY <2>1
<1>2. QED
  BY <1>1, CInvInit, CInvNext, StopsFollowNext, PTL DEF Spec

(* Whatever fails, a capture that runs belongs to a stream of the backend, *)
(* or a stop of it waits in the channel.                                   *)
THEOREM CaptureBelongsToStream == Spec => []CaptureHasStream
<1>1. StopsFollow => CaptureHasStream
  <2>1. ASSUME StopsFollow, NEW n \in Stream, n \in Live, active[n] = None
        PROVE  Queued("stop", n)
    BY <2>1 DEF StopsFollow, StopAt, Queued
  <2>2. QED
    BY <2>1 DEF CaptureHasStream
<1>2. QED
  BY <1>1, StopsFollowInv, PTL

-----------------------------------------------------------------------------
(* Screenshots. A session without a usable format, or a buffer that cannot *)
(* be allocated, leaves a capture nobody waits for.                        *)
AllUsable == {"no_format", "no_memory"} \cap Faults = {}

Shots == OneShotsEnd /\ ShotsQueued

(* A step on a capture: it goes on, or it ends and is answered.            *)
LEMMA ShotsEvent ==
  ASSUME CTypes, Shots, commands' = commands, NEW i \in Live, NEW d,
         captures' = [captures EXCEPT ![i] = d],
         \/ d # None /\ reply' = reply
         \/ d = None /\ \E x \in {"ok", "err"} : Answer(i, x)
         \/ d = None /\ i \notin Shot /\ reply' = reply
  PROVE  Shots'
<1>1. /\ captures \in [Id -> Captured \cup {None}]
      /\ reply \in [Shot -> {"none", "queued", "held", "ok", "err"}]
      /\ Shot \subseteq Id /\ i \in Id
  BY DEF CTypes, FrameTypes, TypeOK, Id, Live
<1>2. ASSUME NEW s \in Shot, s # i
      PROVE  reply'[s] = reply[s] /\ (s \in Live' <=> s \in Live)
  BY <1>1, <1>2 DEF Answer, Live
<1>3. ASSUME i \in Shot PROVE reply[i] = "held" /\ (reply'[i] = "held" <=> i \in Live')
  <2>1. reply[i] = "held"
    BY <1>3 DEF Shots, OneShotsEnd
  <2>2. i \in Live' <=> d # None
    BY <1>1 DEF Live
  <2>3. CASE d # None
    BY <2>1, <2>2, <2>3
  <2>4. CASE d = None
    <3>1. reply'[i] # "held"
      BY <1>1, <1>3, <2>4 DEF Answer
    <3>2. QED
      BY <2>1, <2>2, <2>4, <3>1
  <2>5. QED
    BY <2>3, <2>4
<1>4. OneShotsEnd'
  BY <1>2, <1>3 DEF Shots, OneShotsEnd
<1>5. ASSUME NEW k \in DOMAIN commands, ShotAt(k)
      PROVE  reply'[commands[k].id] = "queued"
  <2>1. commands[k] \in Command
    BY <1>5, ElementOfSeq DEF CTypes, PipeTypes
  <2>2. commands[k].id \in Shot /\ reply[commands[k].id] = "queued"
    BY <1>5, <2>1 DEF Command, ShotAt, Shots, ShotsQueued
  <2>3. QED
    BY <1>2, <1>3, <2>2
<1>6. ShotsQueued'
  BY <1>5 DEF Shots, ShotsQueued, ShotAt
<1>7. QED
  BY <1>4, <1>6 DEF Shots

(* Nothing is called, read or answered.                                    *)
LEMMA ShotsStill ==
  ASSUME Shots, commands' = commands, captures' = captures, reply' = reply
  PROVE  Shots'
BY DEF Shots, OneShotsEnd, ShotsQueued, ShotAt, Live

(* A capture that goes on is a record.                                     *)
LEMMA GoesOn ==
  ASSUME NEW i, NEW d, Goes(i, d)
  PROVE  d # None
BY CaptureAssumption DEF Goes, Sound

(* No event answers a screenshot and keeps its capture, or the reverse.    *)
LEMMA ShotsFrameEvent ==
  ASSUME AllUsable, CInv, AllWaiting, Shots, FrameEvent, UNCHANGED pipeVars
  PROVE  Shots'
<1>1. CTypes /\ FrameTypes /\ AllSound /\ commands' = commands /\ Usable
  BY DEF CInv, CTypes, pipeVars, AllUsable, Usable
<1>2. \A i \in Live : i \in Shot => captures[i].oneshot
  BY DEF AllWaiting, Counted
<1>3. ASSUME NEW i \in Id,
             \/ FrameBuffer(i) \/ FrameBufferDone(i) \/ SessionFormats(i)
             \/ ConstraintsUpdate(i) \/ Pump(i) \/ IntervalEnds(i) \/ HandshakeLate(i)
             \/ \E r \in Region : FrameDamage(i, r)
      PROVE  Shots'
  <2>1. PICK d : Replaces(i, d) /\ Goes(i, d)
    BY <1>1, <1>3, FrameBufferFits, FrameBufferDoneFits, SessionFormatsFits,
       ConstraintsUpdateFits, PumpFits, TimeFits, FrameDamageFits
  <2>2. i \in Live /\ reply' = reply
    BY <1>3 DEF FrameBuffer, FrameBufferDone, SessionFormats, ConstraintsUpdate, Pump,
       IntervalEnds, HandshakeLate, FrameDamage, Copying, Awaiting, capVars
  <2>3. d # None
    BY <2>1, GoesOn
  <2>4. QED
    BY <1>1, <2>1, <2>2, <2>3, ShotsEvent DEF Replaces
<1>4. ASSUME NEW i \in Id, SessionDone(i) PROVE Shots'
  <2>1. PICK d : Replaces(i, d) /\ Goes(i, d)
    BY <1>1, <1>4, SessionDoneFits
  <2>2. i \in Live /\ captures'[i] = d
    BY <1>1, <1>4, <2>1 DEF SessionDone, Replaces, FrameTypes, TypeOK
  <2>3. i \in Shot => d.oneshot
    BY <1>1, <2>1 DEF Goes, Counted
  <2>4. PICK c, ok : /\ c = captures[i] /\ Put(i, on_session_done(c, ok))
                     /\ IF c.oneshot /\ ~on_session_done(c, ok).oneshot
                        THEN Answer(i, "err") ELSE UNCHANGED reply
    BY <1>4 DEF SessionDone
  <2>5. on_session_done(c, ok) = d
    BY <1>1, <2>2, <2>4 DEF Put, FrameTypes, TypeOK
  <2>6. reply' = reply
    BY <2>3, <2>4, <2>5 DEF Answer
  <2>7. d # None
    BY <2>1, GoesOn
  <2>8. QED
    BY <1>1, <2>1, <2>2, <2>6, <2>7, ShotsEvent DEF Replaces
<1>5. ASSUME NEW i \in Id, SessionStopped(i) \/ HandshakeTimeout(i) PROVE Shots'
  <2>1. i \in Live /\ captures' = [captures EXCEPT ![i] = None]
    BY <1>5 DEF SessionStopped, HandshakeTimeout, Forget
  <2>2. IF captures[i].oneshot THEN Answer(i, "err") ELSE reply' = reply
    BY <1>5 DEF SessionStopped, HandshakeTimeout
  <2>3. Answer(i, "err") \/ (i \notin Shot /\ reply' = reply)
    BY <1>2, <2>1, <2>2
  <2>4. QED
    BY <1>1, <2>1, <2>3, ShotsEvent
<1>6. ASSUME NEW i \in Id, FrameFailed(i) \/ FrameConstraints(i) PROVE Shots'
  <2>1. PICK d : Replaces(i, d) /\ IF captures[i].oneshot THEN Ends(i, d) ELSE Goes(i, d)
    BY <1>1, <1>6, FrameFailedFits, FrameConstraintsFits
  <2>2. i \in Live
    BY <1>6 DEF FrameFailed, FrameConstraints, Copying, Awaiting
  <2>3. IF captures[i].oneshot THEN Answer(i, "err") ELSE reply' = reply
    BY <1>6 DEF FrameFailed, on_frame_failed, FrameConstraints
  <2>4. \/ d # None /\ reply' = reply
        \/ d = None /\ Answer(i, "err")
    BY <2>1, <2>3, GoesOn DEF Ends
  <2>5. QED
    BY <1>1, <2>1, <2>2, <2>4, ShotsEvent DEF Replaces
<1>7. ASSUME NEW o \in Output,
             Unplug(o) \/ GlobalRemove(o) \/ \E r \in Region : ContentChanges(o, r)
      PROVE  Shots'
  BY <1>1, <1>7, ShotsStill DEF Unplug, GlobalRemove, ContentChanges, capVars
<1>8. QED
  BY <1>3, <1>4, <1>5, <1>6, <1>7 DEF FrameEvent

(* The frame of a screenshot is its answer.                                *)
LEMMA ShotsDeliver ==
  ASSUME CInv, AllWaiting, Shots, NEW i \in Id, DeliverFrame(i)
  PROVE  Shots'
<1>1. CTypes /\ FrameTypes /\ AllSound /\ commands' = commands /\ FrameReady(i)
  BY DEF CInv, CTypes, DeliverFrame
<1>2. PICK d : Replaces(i, d) /\ IF captures[i].oneshot THEN Ends(i, d) ELSE Goes(i, d)
  BY <1>1, FrameReadyFits
<1>3. i \in Live
  BY <1>1 DEF FrameReady, Completes, Copying, Awaiting
<1>4. IF captures[i].oneshot THEN Answer(i, "ok") ELSE reply' = reply
  BY <1>1 DEF FrameReady
<1>5. \/ d # None /\ reply' = reply
      \/ d = None /\ Answer(i, "ok")
  BY <1>2, <1>4, GoesOn DEF Ends
<1>6. QED
  BY <1>1, <1>2, <1>3, <1>5, ShotsEvent DEF Replaces

(* A call queues one command, and reading it holds the reply or refuses.   *)
LEMMA ShotsCall ==
  ASSUME CTypes, Shots, NEW o \in Output, NEW s \in Shot, CallScreenshot(s, o)
  PROVE  Shots'
<1>1. /\ reply \in [Shot -> {"none", "queued", "held", "ok", "err"}]
      /\ commands \in Seq(Command)
  BY DEF CTypes, PipeTypes, FrameTypes, TypeOK
<1>2. PICK e \in Command : e = Cmd("shot", s, o)
  BY CmdTypes
<1>3. PICK q, t : q = commands /\ t = commands'
  OBVIOUS
<1>4. t = Append(q, e) /\ e.op = "shot" /\ e.id = s /\ captures' = captures
  BY <1>2, <1>3 DEF CallScreenshot, Cmd
<1>5. /\ DOMAIN q = 1..Len(q) /\ DOMAIN t = 1..(Len(q) + 1) /\ Len(q) \in Nat
      /\ \A k \in 1..Len(q) : t[k] = q[k]
      /\ t[Len(q) + 1] = e
  BY <1>1, <1>3, <1>4, Sent
<1>6. /\ reply[s] = "none" /\ reply'[s] = "queued"
      /\ \A x \in Shot \ {s} : reply'[x] = reply[x]
  BY <1>1 DEF CallScreenshot
<1>7. OneShotsEnd'
  BY <1>4, <1>6 DEF Shots, OneShotsEnd, Live
<1>8. \A k \in DOMAIN q : q[k].op = "shot" =>
        q[k].id \in Shot \ {s} /\ reply[q[k].id] = "queued"
  <2>1. ASSUME NEW k \in DOMAIN q, q[k].op = "shot"
        PROVE  q[k].id \in Shot /\ reply[q[k].id] = "queued"
    BY <1>1, <1>3, <2>1, ElementOfSeq DEF Command, Shots, ShotsQueued, ShotAt
  <2>2. QED
    BY <1>6, <2>1
<1>9. \A k \in DOMAIN t : t[k].op = "shot" => reply'[t[k].id] = "queued"
  BY <1>4, <1>5, <1>6, <1>8
<1>10. ASSUME NEW k \in DOMAIN t, NEW l \in DOMAIN t, t[k].op = "shot", t[l].op = "shot",
              t[k].id = t[l].id
       PROVE  k = l
  <2>1. \A m \in DOMAIN t : m \in DOMAIN q \/ m = Len(q) + 1
    BY <1>5
  <2>2. \A m \in DOMAIN q : t[m].op = "shot" => t[m].id # s
    BY <1>5, <1>8
  <2>3. CASE k \in DOMAIN q /\ l \in DOMAIN q
    <3>1. t[k] = q[k] /\ t[l] = q[l]
      BY <1>5, <2>3
    <3>2. QED
      BY <1>3, <1>10, <2>3, <3>1 DEF Shots, ShotsQueued, ShotAt
  <2>4. CASE ~(k \in DOMAIN q /\ l \in DOMAIN q)
    BY <1>4, <1>5, <1>10, <2>1, <2>2, <2>4
  <2>5. QED
    BY <2>3, <2>4
<1>11. QED
  BY <1>3, <1>7, <1>9, <1>10 DEF Shots, ShotsQueued, ShotAt

(* Another command is no screenshot's.                                     *)
LEMMA ShotsAppend ==
  ASSUME CTypes, Shots, NEW e \in Command, e.op # "shot",
         commands' = Append(commands, e), captures' = captures, reply' = reply
  PROVE  Shots'
<1>1. PICK q, t : q = commands /\ t = commands'
  OBVIOUS
<1>2. /\ DOMAIN q = 1..Len(q) /\ DOMAIN t = 1..(Len(q) + 1) /\ Len(q) \in Nat
      /\ \A k \in 1..Len(q) : t[k] = q[k]
      /\ t[Len(q) + 1] = e
  BY <1>1, Sent DEF CTypes, PipeTypes
<1>3. \A k \in DOMAIN t : t[k].op = "shot" => k \in DOMAIN q /\ t[k] = q[k]
  BY <1>2
<1>4. ShotsQueued'
  BY <1>1, <1>3 DEF Shots, ShotsQueued, ShotAt
<1>5. OneShotsEnd'
  BY DEF Shots, OneShotsEnd, Live
<1>6. QED
  BY <1>4, <1>5 DEF Shots

(* A command that is read is the only one of its screenshot.               *)
LEMMA ShotsProcess ==
  ASSUME CInv, Shots, ProcessCommand
  PROVE  Shots'
<1>1. /\ CTypes /\ captures \in [Id -> Captured \cup {None}] /\ commands \in Seq(Command)
      /\ reply \in [Shot -> {"none", "queued", "held", "ok", "err"}] /\ Shot \subseteq Id
  BY DEF CInv, CTypes, PipeTypes, FrameTypes, TypeOK, Id
<1>2. PICK q, t, c : q = commands /\ t = commands' /\ c = Head(commands)
  OBVIOUS
<1>3. q # <<>> /\ t = Tail(q) /\ q \in Seq(Command)
  BY <1>1, <1>2 DEF ProcessCommand
<1>4. /\ c = q[1] /\ Len(q) \in Nat \ {0} /\ DOMAIN q = 1..Len(q)
      /\ DOMAIN t = 1..(Len(q) - 1) /\ \A k \in 1..(Len(q) - 1) : t[k] = q[k + 1]
  BY <1>2, <1>3, Received
<1>5. \A k \in DOMAIN t : k + 1 \in DOMAIN q /\ t[k] = q[k + 1] /\ k + 1 # 1
  BY <1>4
<1>6. /\ c.id \in Id
      /\ \/ c.op = "start" /\ c.id \in Stream /\ c.output \in Output
            /\ start_capture(c.id, c.output)
         \/ c.op = "stop" /\ c.id \in Stream /\ stop_capture(c.id)
         \/ c.op = "shot" /\ c.id \in Shot /\ c.output \in Output
            /\ start_screenshot(c.id, c.output)
  BY <1>1, <1>2, HeadCommand
<1>7. \A k, l \in DOMAIN q : q[k].op = "shot" /\ q[l].op = "shot" /\ q[k].id = q[l].id => k = l
  BY <1>2 DEF Shots, ShotsQueued, ShotAt
<1>8. \A k \in DOMAIN q : q[k].op = "shot" => q[k].id \in Shot /\ reply[q[k].id] = "queued"
  BY <1>1, <1>2, ElementOfSeq DEF Command, Shots, ShotsQueued, ShotAt
<1>9. ASSUME \A k \in DOMAIN t : t[k].op = "shot" => reply'[t[k].id] = reply[t[k].id]
      PROVE  ShotsQueued'
  <2>1. \A k \in DOMAIN t : t[k].op = "shot" => reply'[t[k].id] = "queued"
    BY <1>5, <1>8, <1>9
  <2>2. ASSUME NEW k \in DOMAIN t, NEW l \in DOMAIN t, t[k].op = "shot", t[l].op = "shot",
               t[k].id = t[l].id
        PROVE  k = l
    <3>1. k + 1 = l + 1
      BY <1>5, <1>7, <2>2
    <3>2. QED
      BY <1>4, <3>1
  <2>3. QED
    BY <1>2, <2>1, <2>2 DEF ShotsQueued, ShotAt
<1>10. CASE c.op \in {"start", "stop"} /\ c.id \in Stream
  <2>1. reply' = reply
    BY <1>6, <1>10 DEF start_capture, stop_capture, frameVars, capVars
  <2>2. \/ captures' = captures
        \/ \E d : captures' = [captures EXCEPT ![c.id] = d]
    BY <1>6, <1>10 DEF start_capture, stop_capture, Begin, Put, Forget, frameVars, capVars
  <2>3. c.id \notin Shot
    BY <1>10, CaptureAssumption
  <2>4. \A s \in Shot : s \in Live' <=> s \in Live
    BY <1>1, <1>6, <2>2, <2>3 DEF Live
  <2>5. QED
    BY <1>9, <2>1, <2>4 DEF Shots, OneShotsEnd
<1>11. CASE c.op = "shot" /\ c.id \in Shot
  <2>1. 1 \in DOMAIN q
    BY <1>4
  <2>2. reply[c.id] = "queued" /\ c.id \notin Live
    <3>1. reply[c.id] = "queued"
      BY <1>4, <1>8, <1>11, <2>1
    <3>2. QED
      BY <1>11, <3>1 DEF Shots, OneShotsEnd
  <2>3. \A k \in DOMAIN t : t[k].op = "shot" => t[k].id \in Shot /\ t[k].id # c.id
    BY <1>4, <1>5, <1>7, <1>8, <1>11, <2>1
  <2>4. start_screenshot(c.id, c.output) /\ c.output \in Output
    BY <1>6, <1>11
  <2>5. \A s \in Shot \ {c.id} : reply'[s] = reply[s]
    BY <1>1, <1>11, <2>4 DEF start_screenshot, Answer
  <2>6. ShotsQueued'
    BY <1>9, <2>3, <2>5
  <2>7. CASE Begin(c.id, c.output) /\ Answer(c.id, "held")
    <3>1. PICK d : Replaces(c.id, d) /\ Goes(c.id, d)
      BY <1>1, <1>6, <2>4, <2>7, BeginFits DEF CTypes
    <3>2. d # None
      BY <3>1, GoesOn
    <3>3. c.id \in Live' /\ \A s \in Shot \ {c.id} : s \in Live' <=> s \in Live
      BY <1>1, <1>6, <3>1, <3>2 DEF Replaces, Live
    <3>4. reply'[c.id] = "held"
      BY <1>1, <1>11, <2>7 DEF Answer
    <3>5. OneShotsEnd'
      BY <2>5, <3>3, <3>4 DEF Shots, OneShotsEnd
    <3>6. QED
      BY <2>6, <3>5 DEF Shots
  <2>8. CASE captures' = captures /\ Answer(c.id, "err")
    <3>1. reply'[c.id] = "err" /\ Live' = Live
      BY <1>1, <1>11, <2>8 DEF Answer, Live
    <3>2. OneShotsEnd'
      BY <2>2, <2>5, <3>1 DEF Shots, OneShotsEnd
    <3>3. QED
      BY <2>6, <3>2 DEF Shots
  <2>9. QED
    BY <2>4, <2>7, <2>8 DEF start_screenshot
<1>12. QED
  BY <1>6, <1>10, <1>11

(* The three parts of AllCounted together are inductive.                   *)
LEMMA CountedNext ==
  ASSUME AllUsable, CInv, AllCounted, [Next]_vars
  PROVE  AllCounted'
<1>1. CTypes /\ AllSound /\ AllWaiting /\ Usable /\ Shots
  BY DEF CInv, AllCounted, Usable, AllUsable, Shots
<1>2. AllWaiting'
  BY <1>1, NextKeeps
<1>3. CASE FrameEvent /\ UNCHANGED pipeVars
  BY <1>1, <1>2, <1>3, ShotsFrameEvent DEF AllCounted, Shots
<1>4. CASE \E i \in Id : DeliverFrame(i)
  BY <1>1, <1>2, <1>4, ShotsDeliver DEF AllCounted, Shots
<1>5. CASE ProcessCommand
  BY <1>1, <1>2, <1>5, ShotsProcess DEF AllCounted, Shots
<1>6. CASE \E o \in Output, s \in Shot : CallScreenshot(s, o)
  BY <1>1, <1>2, <1>6, ShotsCall DEF AllCounted, Shots
<1>7. ASSUME StreamCreated \/ \E n \in Stream : DestroyStream(n) PROVE Shots'
  <2>1. CASE StreamCreated
    <3>1. PICK m, o : m = calling.id /\ o = calling.output
      OBVIOUS
    <3>2. m \in Stream /\ o \in Output
      BY <1>1, <2>1, <3>1 DEF StreamCreated, CTypes, PipeTypes, Call
    <3>3. PICK e \in Command : e = Cmd("start", m, o)
      BY <3>2, CmdTypes
    <3>4. /\ commands' = Append(commands, e) /\ e.op # "shot"
          /\ captures' = captures /\ reply' = reply
      BY <2>1, <3>1, <3>3 DEF StreamCreated, Cmd, frameVars, capVars
    <3>5. QED
      BY <1>1, <3>4, ShotsAppend
  <2>2. ASSUME NEW n \in Stream, DestroyStream(n) PROVE Shots'
    <3>1. PICK e \in Command : e = Cmd("stop", n, None)
      BY CmdTypes
    <3>2. /\ commands' = Append(commands, e) /\ e.op # "shot"
          /\ captures' = captures /\ reply' = reply
      BY <2>2, <3>1 DEF DestroyStream, Cmd, frameVars, capVars
    <3>3. QED
      BY <1>1, <3>2, ShotsAppend
  <2>3. QED
    BY <1>7, <2>1, <2>2
<1>8. CASE UNCHANGED <<captures, commands, reply>>
  BY <1>1, <1>2, <1>8, ShotsStill DEF AllCounted, Shots
<1>9. ASSUME \/ \E o \in Output : CreateStream(o)
             \/ PipeWireCommand \/ PipeWireStop \/ UNCHANGED vars
      PROVE  UNCHANGED <<captures, commands, reply>>
  BY <1>9 DEF CreateStream, PipeWireCommand, PipeWireStop, vars, pipeVars, frameVars, capVars
<1>10. QED
  BY <1>2, <1>3, <1>4, <1>5, <1>6, <1>7, <1>8, <1>9 DEF Next, AllCounted, Shots

(* A screenshot has a capture exactly while its reply is held, a stream's  *)
(* capture belongs to the stream, and without pacing none of them waits    *)
(* for nothing.                                                            *)
THEOREM CapturesAreAccounted ==
  ASSUME AllUsable
  PROVE  Spec => []CapturesAccounted
<1>1. Init => CInv /\ AllCounted
  <2>1. ASSUME Init PROVE CInv /\ AllCounted
    <3>1. CInv /\ Live = {}
      BY <2>1, CInvInit
    <3>2. DOMAIN commands = {} /\ \A s \in Shot : reply[s] = "none"
      BY <2>1 DEF Init, FrameInit
    <3>3. QED
      BY <3>1, <3>2 DEF AllCounted, AllWaiting, OneShotsEnd, ShotsQueued
  <2>2. QED
    BY <2>1
<1>2. CInv /\ AllCounted /\ [Next]_vars => (CInv /\ AllCounted)'
  BY CInvNext, CountedNext
<1>3. CInv /\ AllCounted => OneShotsEnd /\ NeverIdle
  <2>1. ASSUME CInv, AllCounted, NEW n \in Stream \cap Live
        PROVE  captures[n].pending \/ n \in owed \/ paced
    BY <2>1 DEF AllCounted, AllWaiting, Counted
  <2>2. QED
    BY <2>1 DEF AllCounted, NeverIdle
<1>4. QED
  BY <1>1, <1>2, <1>3, CaptureBelongsToStream, PTL DEF Spec, CapturesAccounted

=============================================================================
