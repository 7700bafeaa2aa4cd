--------------------------- MODULE PortalResources --------------------------
(***************************************************************************)
(* What a portal session holds outside the registry, and the handlers that *)
(* acquire and release it: capture streams (the capture backend's          *)
(* active_streams and the PipeWire thread's own map), EIS contexts of the  *)
(* input backend, and the Session object on the bus.                       *)
(*                                                                         *)
(* Every D-Bus call runs as a tokio task. The session manager's mutex is   *)
(* the only one a handler holds over an await, so it is a variable; the    *)
(* mutexes of the two backends are taken for one uninterrupted section     *)
(* each, which is one step here. A handler is split where it gives up or   *)
(* waits for a lock or a reply.                                            *)
(***************************************************************************)
EXTENDS SessionManager

CONSTANTS
  Task,       \* tokio tasks that serve D-Bus calls
  Free,       \* the state of a mutex nobody holds
  Stream,     \* PipeWire node ids
  MaxSources, \* the most outputs a client selects
  Faults      \* what the environment may do: a subset of AllFaults

AllFaults ==
  {"second_start",    \* a client starts a session that is already started
   "stream_failure",  \* PipeWire refuses a stream
   "request_close",   \* a client closes a request of a session
   "stale_cleanup",   \* time passes and the periodic cleanup runs
   "node_id_reuse",   \* PipeWire gives a freed node id to a new stream
   "handle_reuse",    \* a session is created with a handle that is in use
   "rd_connect"}      \* RemoteDesktop.ConnectToEIS is called

Pc == {"idle", "create", "starting", "connecting", "relock",
       "input", "capture", "pipewire", "unregister"}

Job == [pc : Pc, h : Handle \cup {None}, sender : Sender \cup {None},
        ids : SUBSET Stream]

ASSUME TaskAssumption == Free \notin Task /\ None \notin Handle
ASSUME FaultAssumption == Faults \subseteq AllFaults
ASSUME SourceAssumption == MaxSources \in Nat

VARIABLES
  smLock,     \* who holds the session manager's mutex
  job,        \* what each task is doing
  own,        \* Session::streams: node ids by session
  active,     \* active_streams of the capture backend
  pw,         \* the PipeWire thread's streams, with the session they were made for
  spent,      \* node ids that have been given out
  eis,        \* sessions with a context in the input backend
  object,     \* Session objects on the bus
  connected,  \* senders on the bus
  lost        \* NameOwnerChanged signals the monitor has not read

resVars == <<own, active, pw, spent, eis, object>>
busVars == <<connected, lost>>
vars == <<smVars, smLock, job, resVars, busVars>>

Idle == [pc |-> "idle", h |-> None, sender |-> None, ids |-> {}]
Do(pc, h) == [Idle EXCEPT !.pc = pc, !.h = h]

Becomes(t, j) == job' = [job EXCEPT ![t] = j]

(* A handler's section under the session manager's mutex, taken and given  *)
(* back in one step.                                                       *)
LockedSection == smLock = Free /\ UNCHANGED smLock

(* A handle that names nothing: no session, no object, no call's session.  *)
Unused(h) == h \notin object \cup Live /\ \A t \in Task : job[t].h # h

-----------------------------------------------------------------------------
(* CreateSession. It is the frontend that picks a handle of its own for    *)
(* each session: the portal compares it with the registry's, no more.      *)
CallCreate(t, h, s) ==
  /\ job[t] = Idle /\ s \in connected
  /\ Unused(h) \/ "handle_reuse" \in Faults
  /\ Becomes(t, [Do("create", h) EXCEPT !.sender = s])
  /\ UNCHANGED <<smVars, smLock, resVars, busVars>>

RunCreate(t, a) ==
  /\ job[t].pc = "create"
  /\ LockedSection
  /\ Becomes(t, Idle)
  /\ \/ /\ CreateSession(job[t].h, job[t].sender, a)
        /\ object' = object \cup {job[t].h}
        /\ own' = [own EXCEPT ![job[t].h] = {}]
     \/ /\ ~UnderLimit(a) \/ job[t].h \in Live
        /\ UNCHANGED <<smVars, object, own>>
  /\ UNCHANGED <<active, pw, spent, eis, busVars>>

Select(h) ==
  /\ LockedSection
  /\ SelectDevices(h) \/ SelectSources(h)
  /\ UNCHANGED <<job, resVars, busVars>>

-----------------------------------------------------------------------------
(* Start, of RemoteDesktop and of ScreenCast: the mutex is held from the   *)
(* look-up to the end, and the streams are made before Session::start says *)
(* whether the session may start.                                          *)
NewIds == IF "node_id_reuse" \in Faults THEN {i \in Stream : pw[i] = None} ELSE Stream \ spent

StartStreams(t, h, ids) ==
  /\ job[t] = Idle /\ smLock = Free
  /\ h \in Live
  /\ sessions[h].state = "Init" \/ "second_start" \in Faults
  /\ ids \subseteq NewIds /\ Cardinality(ids) <= MaxSources
  /\ (ids # {}) = sessions[h].sources
  /\ active' = active \cup ids
  /\ pw' = [i \in Stream |-> IF i \in ids THEN h ELSE pw[i]]
  /\ spent' = spent \cup ids
  /\ \/ /\ smLock' = t
        /\ Becomes(t, [Do("starting", h) EXCEPT !.ids = ids])
     \/ /\ "stream_failure" \in Faults     \* the next source is refused
        /\ sessions[h].sources
        /\ UNCHANGED <<smLock, job>>
  /\ UNCHANGED <<smVars, own, eis, object, busVars>>

(* Variant: the mutex is waited for again while it is held. *)
StartCommitRelocking(t) ==
  /\ job[t].pc = "starting"
  /\ Becomes(t, [job[t] EXCEPT !.pc = "relock"])
  /\ UNCHANGED <<smVars, smLock, resVars, busVars>>

StartCommit(t) ==
  LET h == job[t].h
  IN  /\ job[t].pc = "starting"
      /\ smLock' = Free
      /\ Becomes(t, Idle)
      /\ \/ Start(h) /\ own' = [own EXCEPT ![h] = job[t].ids]
         \/ ~CanStart(sessions[h]) /\ UNCHANGED <<smVars, own>>
      /\ UNCHANGED <<active, pw, spent, eis, object, busVars>>

-----------------------------------------------------------------------------
(* InputCapture.ConnectToEIS keeps the guard of the mutex through          *)
(* create_context and Session::connect_to_eis.                             *)
InputCaptureConnect(h) ==
  /\ LockedSection
  /\ h \notin eis
  /\ ConnectToEis(h)
  /\ eis' = eis \cup {h}
  /\ UNCHANGED <<job, own, active, pw, spent, object, busVars>>

(* RemoteDesktop.ConnectToEIS makes the context under the same guard, then *)
(* waits for the mutex again with the first guard still alive: what would  *)
(* follow the second acquisition is never reached.                         *)
RemoteDesktopConnect(t, h) ==
  /\ "rd_connect" \in Faults
  /\ job[t] = Idle /\ smLock = Free
  /\ h \in Live /\ CanConnectToEis(sessions[h])
  /\ smLock' = t
  /\ Becomes(t, Do("connecting", h))
  /\ UNCHANGED <<smVars, resVars, busVars>>

CreateContext(t) ==
  /\ job[t].pc = "connecting"
  /\ \/ /\ job[t].h \notin eis
        /\ eis' = eis \cup {job[t].h}
        /\ Becomes(t, [job[t] EXCEPT !.pc = "relock"])
        /\ UNCHANGED smLock
     \/ /\ job[t].h \in eis                 \* the context exists: an error
        /\ Becomes(t, Idle)
        /\ smLock' = Free
        /\ UNCHANGED eis
  /\ UNCHANGED <<smVars, own, active, pw, spent, object, busVars>>

-----------------------------------------------------------------------------
(* Session.Close: out of the registry first, then one resource at a time.  *)
Close(t, h) ==
  /\ job[t] = Idle /\ h \in object
  /\ LockedSection
  /\ \/ /\ CloseSession(h)
        /\ Becomes(t, [Do("input", h) EXCEPT !.ids = own[h]])
     \/ /\ h \notin Live
        /\ Becomes(t, Do("unregister", h))
        /\ UNCHANGED smVars
  /\ UNCHANGED <<resVars, busVars>>

(* A client leaves the bus. The monitor is told and does nothing: it looks *)
(* for a new owner that is the empty name, and zbus gives it no new owner. *)
Disconnect(s) ==
  /\ s \in connected
  /\ connected' = connected \ {s}
  /\ lost' = lost \cup {s}
  /\ UNCHANGED <<smVars, smLock, job, resVars>>

NameOwnerChanged(s) ==
  /\ s \in lost
  /\ lost' = lost \ {s}
  /\ UNCHANGED <<smVars, smLock, job, resVars, connected>>

(* The four steps of the teardown.                                         *)
(* Variant: the streams are forgotten. *)
DestroyContextOnly(t) ==
  /\ job[t].pc = "input"
  /\ eis' = eis \ {job[t].h}
  /\ Becomes(t, [job[t] EXCEPT !.pc = "unregister"])
  /\ UNCHANGED <<smVars, smLock, own, active, pw, spent, object, busVars>>

DestroyContext(t) ==
  /\ job[t].pc = "input"
  /\ eis' = eis \ {job[t].h}
  /\ Becomes(t, [job[t] EXCEPT !.pc = IF job[t].ids = {} THEN "unregister" ELSE "capture"])
  /\ UNCHANGED <<smVars, smLock, own, active, pw, spent, object, busVars>>

(* Variant: the teardown ends with the capture session. *)
DestroyCaptureReturns(t) ==
  LET known == job[t].ids \cap active
  IN  /\ job[t].pc = "capture"
      /\ active' = active \ known
      /\ pw' = [i \in Stream |-> IF i \in known THEN None ELSE pw[i]]
      /\ Becomes(t, Idle)
      /\ UNCHANGED <<smVars, smLock, own, spent, eis, object, busVars>>

(* Variant: the whole table of streams is dropped. *)
DestroyCaptureClearing(t) ==
  /\ job[t].pc = "capture"
  /\ active' = {}
  /\ pw' = [i \in Stream |-> IF i \in active THEN None ELSE pw[i]]
  /\ Becomes(t, [job[t] EXCEPT !.pc = "pipewire"])
  /\ UNCHANGED <<smVars, smLock, own, spent, eis, object, busVars>>

(* destroy_capture_session destroys the PipeWire stream of each id it knows... *)
DestroyCapture(t) ==
  LET known == job[t].ids \cap active
  IN  /\ job[t].pc = "capture"
      /\ active' = active \ known
      /\ pw' = [i \in Stream |-> IF i \in known THEN None ELSE pw[i]]
      /\ Becomes(t, [job[t] EXCEPT !.pc = "pipewire"])
      /\ UNCHANGED <<smVars, smLock, own, spent, eis, object, busVars>>

(* ...and the caller asks PipeWire once more, by node id, one at a time.   *)
DestroyStream(t, i) ==
  /\ job[t].pc = "pipewire" /\ i \in job[t].ids
  /\ pw' = [pw EXCEPT ![i] = None]
  /\ Becomes(t, [job[t] EXCEPT !.ids = @ \ {i},
                               !.pc = IF job[t].ids = {i} THEN "unregister" ELSE "pipewire"])
  /\ UNCHANGED <<smVars, smLock, own, active, spent, eis, object, busVars>>

(* Variant: the object stays on the bus. *)
UnregisterNot(t) ==
  /\ job[t].pc = "unregister"
  /\ Becomes(t, Idle)
  /\ UNCHANGED <<smVars, smLock, resVars, busVars>>

Unregister(t) ==
  /\ job[t].pc = "unregister"
  /\ object' = object \ {job[t].h}
  /\ Becomes(t, Idle)
  /\ UNCHANGED <<smVars, smLock, own, active, pw, spent, eis, busVars>>

-----------------------------------------------------------------------------
(* Variant: without the mutex. *)
RequestCloseUnlocked(h) ==
  /\ "request_close" \in Faults
  /\ CloseSession(h)
  /\ UNCHANGED <<smLock, job, resVars, busVars>>

(* Request.Close of a request made for the session, of which every Select  *)
(* and Start has one: only the registry is told.                           *)
RequestClose(h) ==
  /\ "request_close" \in Faults
  /\ LockedSection
  /\ CloseSession(h)
  /\ UNCHANGED <<job, resVars, busVars>>

(* periodic_session_cleanup: only the registry, too.                       *)
PeriodicCleanup ==
  /\ "stale_cleanup" \in Faults
  /\ LockedSection
  /\ CleanupStaleSessions
  /\ UNCHANGED <<job, resVars, busVars>>

Time ==
  /\ "stale_cleanup" \in Faults
  /\ Tick
  /\ UNCHANGED <<smLock, job, resVars, busVars>>

-----------------------------------------------------------------------------
ResInit ==
  /\ Init
  /\ smLock = Free
  /\ job = [t \in Task |-> Idle]
  /\ own = [h \in Handle |-> {}]
  /\ active = {} /\ pw = [i \in Stream |-> None] /\ spent = {}
  /\ eis = {} /\ object = {}
  /\ connected = Sender /\ lost = {}

(* What a task does without being asked again.                             *)
Teardown(t) ==
  \/ DestroyContext(t)
  \/ DestroyCapture(t)
  \/ \E i \in Stream : DestroyStream(t, i)
  \/ Unregister(t)

Proceed(t) ==
  \/ \E a \in App : RunCreate(t, a)
  \/ StartCommit(t)
  \/ CreateContext(t)
  \/ Teardown(t)

ClientCall ==
  \/ \E t \in Task, h \in Handle, s \in Sender : CallCreate(t, h, s)
  \/ \E h \in Handle : Select(h)
  \/ \E t \in Task, h \in Handle, ids \in SUBSET Stream : StartStreams(t, h, ids)
  \/ \E h \in Handle : InputCaptureConnect(h)
  \/ \E t \in Task, h \in Handle : RemoteDesktopConnect(t, h)
  \/ \E t \in Task, h \in Handle : Close(t, h)
  \/ \E h \in Handle : RequestClose(h)
  \/ \E s \in Sender : Disconnect(s)

ResNext ==
  \/ ClientCall
  \/ \E t \in Task : Proceed(t)
  \/ \E s \in Sender : NameOwnerChanged(s)
  \/ PeriodicCleanup
  \/ Time

ResSpec == ResInit /\ [][ResNext]_vars

(* tokio runs every task that can run, the monitor and the cleanup among   *)
(* them, and its mutex hands itself to the waiters in order, so a task     *)
(* that waits for it again and again gets it. Time passes.                 *)
ResFairness ==
  /\ \A t \in Task : SF_vars(Proceed(t))
  /\ \A s \in Sender : WF_vars(NameOwnerChanged(s))
  /\ SF_vars(PeriodicCleanup)
  /\ WF_vars(Time)

ResFairSpec == ResSpec /\ ResFairness

-----------------------------------------------------------------------------
(* Types, and who may hold the session manager's mutex across a wait.      *)
ResTypeOK ==
  /\ TypeOK
  /\ smLock \in Task \cup {Free}
  /\ job \in [Task -> Job]
  /\ own \in [Handle -> SUBSET Stream]
  /\ active \subseteq Stream /\ spent \subseteq Stream
  /\ pw \in [Stream -> Handle \cup {None}]
  /\ eis \subseteq Handle /\ object \subseteq Handle
  /\ connected \subseteq Sender /\ lost \subseteq Sender \ connected

(* Who will still release a context or an object of h, or stream i.        *)
Pending(h, pcs) == \E t \in Task : job[t].pc \in pcs /\ job[t].h = h

StreamPending(i, pcs) ==
  \/ \E h \in Live : i \in own[h]
  \/ \E t \in Task : job[t].pc \in pcs /\ i \in job[t].ids

(* Nothing a session acquired outlives it unnoticed: each EIS context and  *)
(* each stream belongs to a session in the registry, to a Start under way, *)
(* or to a teardown that has yet to come to it. Three tables and two       *)
(* threads must agree.                                                     *)
NothingLeaked ==
  /\ \A h \in eis : h \in Live \/ Pending(h, {"input"})
  /\ \A i \in active : StreamPending(i, {"starting", "input", "capture"})
  /\ \A i \in Stream : pw[i] # None =>
       StreamPending(i, {"starting", "input", "capture", "pipewire"})

(* The streams whose node ids a client was given by Start are there, and   *)
(* are its own, for as long as its session is, whatever is torn down or    *)
(* left behind beside it.                                                  *)
StreamsServed ==
  \A h \in Live : \A i \in own[h] : i \in active /\ pw[i] = h

(* A session can be closed by its client, and an object on the bus never   *)
(* outlives its session but for the teardown that is to remove it.         *)
ObjectTracksSession ==
  /\ Live \subseteq object
  /\ \A h \in object : h \in Live \/ Pending(h, {"input", "capture", "pipewire", "unregister"})

(* What Start and ConnectToEIS read of the session before they wait still  *)
(* holds when they resume: nobody closes or starts it under them.          *)
StableUnderLock ==
  \A t \in Task : job[t].pc \in {"starting", "connecting", "relock"} =>
    /\ smLock = t
    /\ job[t].h \in Live
    /\ job[t].pc # "starting" => CanConnectToEis(sessions[job[t].h])

(* A session that uses EIS has its context in the input backend.           *)
ConnectionHasContext == \A h \in Live : sessions[h].uses_eis => h \in eis

(* No handler that waits finds its session changed, and no teardown takes  *)
(* the context of a session in use: the session is gone when a teardown    *)
(* begins, and its handle is in use until the teardown ends.               *)
HandlersUndisturbed == StableUnderLock /\ ConnectionHasContext

(* Every call a client makes ends, whatever the others are doing.          *)
CallsReturn == \A t \in Task : (job[t] # Idle) ~> (job[t] = Idle)

(* What a session leaves outside the registry. *)
Held(h) == h \in eis \cup object \/ \E i \in Stream : pw[i] = h

(* A session that has left the registry is soon gone everywhere: what its  *)
(* teardown has to release is released, and the handle can be used again.  *)
ClosedIsReleased == \A h \in Handle : (h \notin Live /\ Held(h)) ~> ~Held(h)

(* Of a client that leaves the bus nothing is left: "Monitor D-Bus client  *)
(* disconnects and clean up their sessions" (lib.rs:395). A session that   *)
(* is there when the monitor has yet to read of its client's departure     *)
(* ends, and what it held with it.                                         *)
DisconnectCleansUp ==
  \A h \in Handle :
    (h \in Live /\ sessions[h].sender \in lost) ~> (h \notin Live /\ ~Held(h))

=============================================================================
