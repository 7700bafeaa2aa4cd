----------------------- MODULE PortalResourcesProofs ------------------------
(***************************************************************************)
(* Theorems about the handlers around the session registry, whatever the   *)
(* environment does (any set of faults), for any number of tasks, clients  *)
(* and streams.                                                            *)
(*                                                                         *)
(* A handler changes the registry by the registry's own methods only, so   *)
(* that the inductive invariant of SessionManager holds here. What a       *)
(* handler has read of its session before it waits holds when it resumes,  *)
(* because every section that changes a session needs the mutex. And a     *)
(* teardown, which works without the mutex, only ever names a handle that  *)
(* has left the registry; where the frontend makes a fresh handle for each *)
(* session nobody reuses it meanwhile, and the two may run side by side.   *)
(***************************************************************************)
EXTENDS PortalResources, SessionManagerProofs

TeardownPc == {"input", "capture", "pipewire", "unregister"}

(* A task that does something does it to a handle.                         *)
JobsNamed ==
  \A t \in Task :
    /\ job[t].pc # "idle" => job[t].h \in Handle
    /\ job[t].pc = "create" => job[t].sender \in Sender

(* What is torn down has left the registry.                                *)
TornDownIsGone == \A t \in Task : job[t].pc \in TeardownPc => job[t].h \notin Live

(* A handle about to be created is nobody else's.                          *)
CreatedIsFresh ==
  \A t \in Task :
    job[t].pc = "create" =>
      /\ job[t].h \notin Live \cup object
      /\ \A u \in Task \ {t} : job[u].h # job[t].h

(* The frontend keeps to its handles. *)
FreshHandles == "handle_reuse" \notin Faults

JobInv == JobsNamed /\ (FreshHandles => TornDownIsGone /\ CreatedIsFresh)

RInv ==
  /\ IInv /\ ResTypeOK /\ JobInv /\ StableUnderLock
  /\ FreshHandles => ConnectionHasContext

-----------------------------------------------------------------------------
(* What a task does next is a job, and the others go on with theirs.       *)
LEMMA OneJobChanges ==
  ASSUME ResTypeOK, NEW x \in Task, NEW j \in Job, Becomes(x, j)
  PROVE  /\ job' \in [Task -> Job]
         /\ job'[x] = j
         /\ \A y \in Task \ {x} : job'[y] = job[y]
BY DEF ResTypeOK, Becomes

LEMMA JobTypes ==
  /\ Idle \in Job
  /\ \A pc \in Pc, h \in Handle : Do(pc, h) \in Job
BY DEF Idle, Do, Job, Pc

(* The handles a task can come to without asking a client.                 *)
Known(x, h) == h \in Live \cup object \/ h = job[x].h

(* A task that goes on with a handle it knows, and tears down only what    *)
(* has left the registry, disturbs nobody.                                 *)
LEMMA JobInvKept ==
  ASSUME ResTypeOK, JobInv, NEW x \in Task, NEW j \in Job, Becomes(x, j),
         Live' \subseteq Live, object' \subseteq object,
         j.pc # "create",
         \/ j.pc = "idle" /\ j.h = None
         \/ j.h \in Handle /\ Known(x, j.h),
         FreshHandles /\ j.pc \in TeardownPc => j.h \notin Live'
  PROVE  JobInv'
<1>1. /\ job'[x] = j
      /\ \A y \in Task \ {x} : job'[y] = job[y]
  BY OneJobChanges
<1>2. JobsNamed'
  BY <1>1 DEF JobInv, JobsNamed
<1>3. FreshHandles => TornDownIsGone'
  BY <1>1 DEF JobInv, TornDownIsGone
<1>4. FreshHandles => CreatedIsFresh'
  <2> SUFFICES ASSUME FreshHandles, NEW y \in Task, job'[y].pc = "create"
               PROVE  /\ job'[y].h \notin Live' \cup object'
                      /\ \A z \in Task \ {y} : job'[z].h # job'[y].h
    BY DEF CreatedIsFresh
  <2>1. y # x /\ job'[y] = job[y]
    BY <1>1
  <2>2. job[y].h \in Handle
    BY <2>1 DEF JobInv, JobsNamed
  <2>3. ~Known(x, job[y].h)
    BY <2>1 DEF JobInv, CreatedIsFresh, Known
  <2>4. j.h # job[y].h
    BY <2>2, <2>3, TaskAssumption
  <2>5. QED
    BY <1>1, <2>1, <2>4 DEF JobInv, CreatedIsFresh
<1>5. QED
  BY <1>2, <1>3, <1>4 DEF JobInv, FreshHandles

(* Where no task moves, fewer sessions are still sessions of nobody else.  *)
LEMMA JobInvIdle ==
  ASSUME JobInv, UNCHANGED job, Live' \subseteq Live, object' \subseteq object
  PROVE  JobInv'
BY DEF JobInv, JobsNamed, TornDownIsGone, CreatedIsFresh, FreshHandles

(* Taking sessions out leaves fewer, and changing one leaves those there   *)
(* are.                                                                    *)
LEMMA FewerSessions ==
  /\ \A H : Remove(H) => Live' = Live \ H /\ \A h \in Live' : sessions'[h] = sessions[h]
  /\ UNCHANGED smVars => Live' = Live /\ UNCHANGED sessions
<1>1. ASSUME NEW H, Remove(H)
      PROVE  Live' = Live \ H /\ \A h \in Live' : sessions'[h] = sessions[h]
  BY <1>1 DEF Remove, Live
<1>2. UNCHANGED smVars => Live' = Live /\ UNCHANGED sessions
  BY DEF smVars, Live
<1>3. QED
  BY <1>1, <1>2

LEMMA InPlace ==
  ASSUME TypeOK, NEW h \in Handle,
         SelectDevices(h) \/ SelectSources(h) \/ Start(h) \/ ConnectToEis(h)
  PROVE  /\ h \in Live /\ Live' = Live
         /\ \A g \in Live \ {h} : sessions'[g] = sessions[g]
         /\ ~ConnectToEis(h) => sessions'[h].uses_eis = sessions[h].uses_eis
<1>1. h \in Live
  BY DEF SelectDevices, SelectSources, Start, ConnectToEis
<1>2. PICK s \in Session : /\ s.app = sessions[h].app
                           /\ ConnectToEis(h) \/ s.uses_eis = sessions[h].uses_eis
                           /\ sessions' = [sessions EXCEPT ![h] = s]
  BY <1>1, UpdatedSession DEF SelectDevices, SelectSources, Start, ConnectToEis, Session
<1>3. QED
  BY <1>1, <1>2, SameOwners DEF TypeOK, Live

-----------------------------------------------------------------------------
(* The handlers' steps are steps of the registry, or leave it alone.       *)
LEMMA HandlersUseTheRegistry ==
  ASSUME ResTypeOK, JobInv, [ResNext]_vars
  PROVE  [Next]_smVars
<1>1. CASE ClientCall
  <2>1. ASSUME NEW t \in Task, NEW h \in Handle, NEW s \in Sender, CallCreate(t, h, s)
        PROVE  UNCHANGED smVars
    BY <2>1 DEF CallCreate
  <2>2. ASSUME NEW h \in Handle, Select(h)
        PROVE  Next
    BY <2>2 DEF Select, Next
  <2>3. ASSUME NEW t \in Task, NEW h \in Handle, NEW ids \in SUBSET Stream, StartStreams(t, h, ids)
        PROVE  UNCHANGED smVars
    BY <2>3 DEF StartStreams
  <2>4. ASSUME NEW h \in Handle, InputCaptureConnect(h)
        PROVE  Next
    BY <2>4 DEF InputCaptureConnect, Next
  <2>5. ASSUME NEW t \in Task, NEW h \in Handle, RemoteDesktopConnect(t, h)
        PROVE  UNCHANGED smVars
    BY <2>5 DEF RemoteDesktopConnect
  <2>6. ASSUME NEW t \in Task, NEW h \in Handle, Close(t, h)
        PROVE  [Next]_smVars
    BY <2>6 DEF Close, Next
  <2>7. ASSUME NEW h \in Handle, RequestClose(h)
        PROVE  Next
    BY <2>7 DEF RequestClose, Next
  <2>8. ASSUME NEW s \in Sender, Disconnect(s)
        PROVE  UNCHANGED smVars
    BY <2>8 DEF Disconnect
  <2>9. QED
    BY <1>1, <2>1, <2>2, <2>3, <2>4, <2>5, <2>6, <2>7, <2>8 DEF ClientCall
<1>2. ASSUME NEW x \in Task, Teardown(x)
      PROVE  UNCHANGED smVars
  BY <1>2 DEF Teardown, DestroyContext, DestroyCapture, DestroyStream, Unregister
<1>3. ASSUME NEW t \in Task, Proceed(t)
      PROVE  [Next]_smVars
  <2>1. ASSUME NEW a \in App, RunCreate(t, a)
        PROVE  [Next]_smVars
    <3>1. job[t].h \in Handle /\ job[t].sender \in Sender
      BY <2>1 DEF RunCreate, JobInv, JobsNamed
    <3>2. QED
      BY <2>1, <3>1 DEF RunCreate, Next
  <2>2. ASSUME StartCommit(t)
        PROVE  [Next]_smVars
    <3>1. \/ Start(job[t].h)
          \/ UNCHANGED smVars
      BY <2>2 DEF StartCommit
    <3>2. Start(job[t].h) => job[t].h \in Handle
      BY DEF Start, Live
    <3>3. QED
      BY <3>1, <3>2 DEF Next
  <2>3. ASSUME CreateContext(t)
        PROVE  UNCHANGED smVars
    BY <2>3 DEF CreateContext
  <2>4. Teardown(t) => UNCHANGED smVars
    BY <1>2
  <2>5. QED
    BY <1>3, <2>1, <2>2, <2>3, <2>4 DEF Proceed
<1>4. ASSUME NEW s \in Sender, NameOwnerChanged(s)
      PROVE  UNCHANGED smVars
  BY <1>4 DEF NameOwnerChanged
<1>5. CASE PeriodicCleanup
  BY <1>5 DEF PeriodicCleanup, Next
<1>6. CASE Time
  BY <1>6 DEF Time, Next
<1>7. CASE UNCHANGED vars
  BY <1>7 DEF vars
<1>8. QED
  BY <1>1, <1>2, <1>3, <1>4, <1>5, <1>6, <1>7 DEF ResNext

(* Each of the four steps of a teardown keeps the handles straight.        *)
LEMMA TeardownJob ==
  ASSUME ResTypeOK, JobInv, NEW x \in Task, Teardown(x)
  PROVE  /\ JobInv'
         /\ job' \in [Task -> Job]
         /\ \A y \in Task \ {x} : job'[y] = job[y]
         /\ job'[x].pc \notin {"starting", "connecting", "relock"}
<1>1. Live' = Live /\ object' \subseteq object
  BY FewerSessions
     DEF Teardown, DestroyContext, DestroyCapture, DestroyStream, Unregister
<1>2. job[x] \in Job
  BY DEF ResTypeOK
<1>3. PICK j \in Job :
        /\ Becomes(x, j) /\ job[x].pc \in TeardownPc
        /\ j = Idle \/ (j.pc \in TeardownPc /\ j.h = job[x].h)
  <2>1. CASE DestroyContext(x)
    BY <1>2, <2>1 DEF DestroyContext, TeardownPc, Job, Pc
  <2>2. CASE DestroyCapture(x)
    BY <1>2, <2>2 DEF DestroyCapture, TeardownPc, Job, Pc
  <2>3. ASSUME NEW i \in Stream, DestroyStream(x, i)
        PROVE  \E j \in Job :
                 /\ Becomes(x, j) /\ job[x].pc \in TeardownPc
                 /\ j.pc \in TeardownPc /\ j.h = job[x].h
    <3> DEFINE j == [job[x] EXCEPT !.ids = @ \ {i},
                                   !.pc = IF job[x].ids = {i} THEN "unregister" ELSE "pipewire"]
    <3>1. j \in Job /\ j.pc \in TeardownPc /\ j.h = job[x].h
      BY <1>2 DEF TeardownPc, Job, Pc
    <3>2. Becomes(x, j) /\ job[x].pc \in TeardownPc
      BY <2>3 DEF DestroyStream, TeardownPc
    <3>3. QED
      BY <3>1, <3>2
  <2>4. CASE Unregister(x)
    BY <2>4, JobTypes DEF Unregister, TeardownPc
  <2>5. QED
    BY <2>1, <2>2, <2>3, <2>4 DEF Teardown
<1>4. j = Idle => j.pc = "idle" /\ j.h = None
  BY DEF Idle
<1>5. j.pc \notin {"create", "starting", "connecting", "relock"}
  BY <1>3, <1>4 DEF TeardownPc
<1>6. (j.pc = "idle" /\ j.h = None) \/ (j.h \in Handle /\ Known(x, j.h))
  BY <1>3, <1>4 DEF JobInv, JobsNamed, TeardownPc, Known
<1>7. FreshHandles /\ j.pc \in TeardownPc => j.h \notin Live'
  BY <1>1, <1>3, <1>4 DEF JobInv, TornDownIsGone, TeardownPc
<1>8. JobInv'
  BY <1>1, <1>3, <1>5, <1>6, <1>7, JobInvKept
<1>9. QED
  BY <1>3, <1>5, <1>8, OneJobChanges

(* Every step keeps the handles of the tasks straight.                     *)
LEMMA StepKeepsJobInv ==
  ASSUME RInv, [ResNext]_vars
  PROVE  JobInv' /\ job' \in [Task -> Job]
<1> USE DEF RInv
<1>1. ASSUME UNCHANGED job, Live' \subseteq Live, object' \subseteq object
      PROVE  JobInv' /\ job' \in [Task -> Job]
  BY <1>1, JobInvIdle DEF ResTypeOK
<1>2. ASSUME NEW t \in Task, NEW j \in Job, Becomes(t, j),
             Live' \subseteq Live, UNCHANGED object,
             \/ j = Idle
             \/ /\ j.pc \in {"starting", "connecting", "relock"}
                /\ j.h \in Live \/ (j.h \in Handle /\ j.h = job[t].h)
             \/ /\ j.pc \in {"input", "unregister"}
                /\ j.h \in Live \cup object /\ j.h \notin Live'
      PROVE  JobInv' /\ job' \in [Task -> Job]
  <2>1. /\ j.pc # "create"
        /\ (j.pc = "idle" /\ j.h = None) \/ (j.h \in Handle /\ Known(t, j.h))
        /\ j.pc \in TeardownPc => j.h \notin Live'
    BY <1>2 DEF Known, Idle, TeardownPc, Live, ResTypeOK
  <2>2. QED
    BY <1>2, <2>1, JobInvKept, OneJobChanges
<1>3. ASSUME NEW t \in Task, NEW h \in Handle, NEW s \in Sender, CallCreate(t, h, s)
      PROVE  JobInv' /\ job' \in [Task -> Job]
  <2> DEFINE j == [Do("create", h) EXCEPT !.sender = s]
  <2>1. j \in Job /\ j.pc = "create" /\ j.h = h /\ j.sender = s
    BY DEF Do, Idle, Job, Pc
  <2>2. t \in Task /\ Becomes(t, j)
    BY <1>3 DEF CallCreate
  <2>3. /\ job' \in [Task -> Job] /\ job'[t] = j
        /\ \A y \in Task \ {t} : job'[y] = job[y]
    BY <2>1, <2>2, OneJobChanges
  <2>4. Live' = Live /\ object' = object /\ (FreshHandles => Unused(h))
    BY <1>3, FewerSessions DEF CallCreate, resVars, FreshHandles
  <2>5. JobsNamed'
    BY <2>1, <2>3 DEF JobInv, JobsNamed
  <2>6. FreshHandles => TornDownIsGone'
    BY <2>1, <2>3, <2>4 DEF JobInv, TornDownIsGone, TeardownPc
  <2>7. ASSUME FreshHandles PROVE CreatedIsFresh'
    <3>1. h \notin Live \cup object /\ \A y \in Task : job[y].h # h
      BY <2>4, <2>7 DEF Unused
    <3>2. /\ job'[t].pc = "create" /\ job'[t].h = h
          /\ \A y \in Task \ {t} : job'[y] = job[y]
      BY <2>1, <2>3
    <3> HIDE DEF j
    <3>3. ASSUME NEW y \in Task \ {t}, job[y].pc = "create"
          PROVE  /\ job[y].h \notin Live \cup object
                 /\ \A z \in Task \ {y} : job'[z].h # job[y].h
      <4>1. /\ job[y].h \notin Live \cup object
            /\ \A z \in Task \ {y} : job[z].h # job[y].h
        BY <2>7, <3>3 DEF JobInv, CreatedIsFresh
      <4>2. QED
        BY <3>1, <3>2, <4>1
    <3>4. /\ h \notin Live \cup object
          /\ \A z \in Task \ {t} : job'[z].h # h
      BY <3>1, <3>2
    <3>5. QED
      BY <2>4, <3>2, <3>3, <3>4 DEF CreatedIsFresh
  <2>8. QED
    BY <2>3, <2>5, <2>6, <2>7 DEF JobInv, FreshHandles
<1>4. ASSUME NEW t \in Task, NEW a \in App, RunCreate(t, a)
      PROVE  JobInv' /\ job' \in [Task -> Job]
  <2>1. CASE UNCHANGED <<smVars, object, own>>
    <3>1. Live' = Live
      BY <2>1, FewerSessions
    <3>2. Becomes(t, Idle) /\ Idle \in Job
      BY <1>4, JobTypes DEF RunCreate, Idle
    <3>3. QED
      BY <2>1, <3>1, <3>2, <1>2
  <2>2. CASE /\ CreateSession(job[t].h, job[t].sender, a)
             /\ object' = object \cup {job[t].h}
    <3>1. t \in Task /\ Becomes(t, Idle) /\ job[t].pc = "create" /\ Idle \in Job
      BY <1>4, JobTypes DEF RunCreate
    <3>2. /\ job' \in [Task -> Job] /\ job'[t] = Idle
          /\ \A y \in Task \ {t} : job'[y] = job[y]
      BY <3>1, OneJobChanges
    <3>3. Live' \subseteq Live \cup {job[t].h}
      BY <2>2 DEF CreateSession, Live, IInv, TypeOK
    <3>4. JobsNamed'
      BY <3>2 DEF JobInv, JobsNamed, Idle
    <3>5. FreshHandles => TornDownIsGone'
      BY <3>1, <3>2, <3>3 DEF JobInv, TornDownIsGone, CreatedIsFresh, TeardownPc, Idle
    <3>6. FreshHandles => CreatedIsFresh'
      <4> SUFFICES ASSUME FreshHandles, NEW y \in Task, job'[y].pc = "create"
                   PROVE  /\ job'[y].h \notin Live' \cup object'
                          /\ \A z \in Task \ {y} : job'[z].h # job'[y].h
        BY DEF CreatedIsFresh
      <4>1. y # t /\ job'[y] = job[y] /\ job[y].h \in Handle
        BY <3>2 DEF Idle, JobInv, JobsNamed
      <4>2. Idle.h # job[y].h
        BY <4>1, TaskAssumption DEF Idle
      <4>3. QED
        BY <2>2, <3>1, <3>2, <3>3, <4>1, <4>2 DEF JobInv, CreatedIsFresh
    <3>7. QED
      BY <3>2, <3>4, <3>5, <3>6 DEF JobInv, FreshHandles
  <2>3. QED
    BY <1>4, <2>1, <2>2 DEF RunCreate
<1>5. ASSUME NEW t \in Task, NEW h \in Handle, NEW ids \in SUBSET Stream, StartStreams(t, h, ids)
      PROVE  JobInv' /\ job' \in [Task -> Job]
  <2> DEFINE j == [Do("starting", h) EXCEPT !.ids = ids]
  <2>1. j \in Job /\ j.pc = "starting" /\ j.h = h
    BY DEF Do, Idle, Job, Pc
  <2>2. Live' = Live /\ object' = object /\ h \in Live /\ (Becomes(t, j) \/ UNCHANGED job)
    BY <1>5, FewerSessions DEF StartStreams
  <2>3. QED
    BY <1>1, <1>2, <2>1, <2>2
<1>6. ASSUME NEW t \in Task, StartCommit(t)
      PROVE  JobInv' /\ job' \in [Task -> Job]
  <2>1. Live' = Live /\ object' = object
    <3>1. CASE Start(job[t].h)
      <4>1. job[t].h \in Handle
        BY <3>1 DEF Start, Live
      <4>2. QED
        BY <1>6, <3>1, <4>1, InPlace DEF StartCommit, IInv
    <3>2. QED
      BY <1>6, <3>1, FewerSessions DEF StartCommit
  <2>2. Becomes(t, Idle) /\ Idle \in Job
    BY <1>6, JobTypes DEF StartCommit, Idle
  <2>3. QED
    BY <1>2, <2>1, <2>2
<1>7. ASSUME NEW t \in Task, NEW h \in Handle, RemoteDesktopConnect(t, h)
      PROVE  JobInv' /\ job' \in [Task -> Job]
  <2>1. /\ Do("connecting", h) \in Job
        /\ Do("connecting", h).pc = "connecting" /\ Do("connecting", h).h = h
    BY DEF Do, Idle, Job, Pc
  <2>2. Live' = Live /\ object' = object /\ h \in Live /\ Becomes(t, Do("connecting", h))
    BY <1>7, FewerSessions DEF RemoteDesktopConnect, resVars
  <2>3. QED
    BY <1>2, <2>1, <2>2
<1>8. ASSUME NEW t \in Task, CreateContext(t)
      PROVE  JobInv' /\ job' \in [Task -> Job]
  <2>1. Live' = Live /\ object' = object
    BY <1>8, FewerSessions DEF CreateContext
  <2>2. CASE Becomes(t, Idle)
    BY <1>2, <2>1, <2>2, JobTypes DEF Idle
  <2>3. CASE Becomes(t, [job[t] EXCEPT !.pc = "relock"])
    <3>1. t \in Task /\ job[t] \in Job /\ job[t].pc = "connecting"
      BY <1>8 DEF ResTypeOK, CreateContext
    <3>2. [job[t] EXCEPT !.pc = "relock"] \in Job
      BY <3>1 DEF Job, Pc
    <3>3. job[t].h \in Handle
      BY <3>1 DEF JobInv, JobsNamed
    <3>4. QED
      BY <2>1, <2>3, <3>1, <3>2, <3>3, JobInvKept, OneJobChanges DEF Known, Job, TeardownPc
  <2>4. QED
    BY <1>8, <2>2, <2>3 DEF CreateContext
<1>9. ASSUME NEW t \in Task, NEW h \in Handle, Close(t, h)
      PROVE  JobInv' /\ job' \in [Task -> Job]
  <2>1. /\ [Do("input", h) EXCEPT !.ids = own[h]] \in Job
        /\ Do("unregister", h) \in Job
    BY DEF Do, Idle, Job, Pc, ResTypeOK
  <2>2. CASE CloseSession(h) /\ Becomes(t, [Do("input", h) EXCEPT !.ids = own[h]])
    <3>1. Live' = Live \ {h} /\ h \in Live /\ UNCHANGED object
      BY <1>9, <2>2, FewerSessions DEF Close, CloseSession, resVars
    <3>2. QED
      BY <1>2, <2>1, <2>2, <3>1 DEF Do, Idle
  <2>3. CASE h \notin Live /\ Becomes(t, Do("unregister", h)) /\ UNCHANGED smVars
    <3>1. Live' = Live /\ h \in object /\ UNCHANGED object
      BY <1>9, <2>3, FewerSessions DEF Close, resVars
    <3>2. QED
      BY <1>2, <2>1, <2>3, <3>1 DEF Do, Idle
  <2>4. QED
    BY <1>9, <2>2, <2>3 DEF Close
<1>10. ASSUME NEW h \in Handle,
              Select(h) \/ InputCaptureConnect(h) \/ RequestClose(h)
       PROVE  JobInv' /\ job' \in [Task -> Job]
  <2>1. Live' \subseteq Live /\ UNCHANGED <<job, object>>
    BY <1>10, InPlace, FewerSessions
       DEF Select, InputCaptureConnect, RequestClose, CloseSession, resVars, IInv
  <2>2. QED
    BY <1>1, <2>1
<1>11. CASE PeriodicCleanup \/ Time \/ UNCHANGED vars \/ (\E s \in Sender : Disconnect(s) \/ NameOwnerChanged(s))
  <2>1. Live' \subseteq Live /\ UNCHANGED <<job, object>>
    BY <1>11, FewerSessions
       DEF PeriodicCleanup, CleanupStaleSessions, Time, Tick, vars, Disconnect, NameOwnerChanged, resVars, Live
  <2>2. QED
    BY <1>1, <2>1
<1>12. \A x \in Task : Teardown(x) => JobInv' /\ job' \in [Task -> Job]
  BY TeardownJob
<1>13. QED
  BY <1>3, <1>4, <1>5, <1>6, <1>7, <1>8, <1>9, <1>10, <1>11, <1>12
     DEF ResNext, ClientCall, Proceed

-----------------------------------------------------------------------------
(* What a handler read before it waited holds when it goes on: nobody else *)
(* has the mutex.                                                          *)
LEMMA StepKeepsStable ==
  ASSUME RInv, [ResNext]_vars
  PROVE  StableUnderLock'
<1> DEFINE Waiting == {"starting", "connecting", "relock"}
<1> USE DEF RInv
<1>1. smLock = Free => \A y \in Task : job[y].pc \notin Waiting
  BY TaskAssumption DEF StableUnderLock
<1>2. ASSUME NEW t \in Task, job[t].pc \in Waiting
      PROVE  \A y \in Task \ {t} : job[y].pc \notin Waiting
  BY <1>2 DEF StableUnderLock
<1>3. ASSUME NEW x \in Task,
             \A y \in Task \ {x} : job[y].pc \notin Waiting,
             \A y \in Task \ {x} : job'[y] = job[y],
             job'[x].pc \in Waiting =>
               /\ smLock' = x
               /\ job'[x].h \in Live'
               /\ job'[x].pc # "starting" => CanConnectToEis(sessions'[job'[x].h])
      PROVE  StableUnderLock'
  BY <1>3 DEF StableUnderLock
<1>4. ASSUME UNCHANGED <<sessions, smLock>>, NEW x \in Task,
             \A y \in Task \ {x} : job'[y] = job[y],
             job'[x].pc \notin Waiting
      PROVE  StableUnderLock'
  BY <1>4 DEF StableUnderLock, Live, CanConnectToEis
<1>5. ASSUME smLock = Free, UNCHANGED job
      PROVE  StableUnderLock'
  BY <1>1, <1>5 DEF StableUnderLock
<1>6. ASSUME UNCHANGED <<sessions, smLock, job>>
      PROVE  StableUnderLock'
  BY <1>6 DEF StableUnderLock, Live, CanConnectToEis
<1>7. ASSUME NEW t \in Task, NEW h \in Handle, NEW s \in Sender, CallCreate(t, h, s)
      PROVE  StableUnderLock'
  <2> DEFINE j == [Do("create", h) EXCEPT !.sender = s]
  <2>1. j \in Job /\ j.pc = "create" /\ t \in Task
    BY DEF Do, Idle, Job, Pc
  <2>2. Becomes(t, j) /\ UNCHANGED <<sessions, smLock>>
    BY <1>7 DEF CallCreate, smVars
  <2>3. QED
    BY <1>4, <2>1, <2>2, OneJobChanges
<1>8. ASSUME NEW t \in Task, NEW a \in App, RunCreate(t, a)
      PROVE  StableUnderLock'
  <2>1. t \in Task /\ Idle \in Job /\ Idle.pc = "idle" /\ Becomes(t, Idle) /\ smLock = Free
    BY <1>8, JobTypes DEF RunCreate, LockedSection, Idle
  <2>2. QED
    BY <1>1, <1>3, <2>1, OneJobChanges
<1>9. ASSUME NEW t \in Task, NEW h \in Handle, NEW ids \in SUBSET Stream, StartStreams(t, h, ids)
      PROVE  StableUnderLock'
  <2> DEFINE j == [Do("starting", h) EXCEPT !.ids = ids]
  <2>1. j \in Job /\ j.pc = "starting" /\ j.h = h /\ t \in Task
    BY DEF Do, Idle, Job, Pc
  <2>2. smLock = Free /\ h \in Live /\ Live' = Live
    BY <1>9, FewerSessions DEF StartStreams
  <2>3. CASE smLock' = t /\ Becomes(t, j)
    <3> HIDE DEF j
    <3>1. job'[t] = j /\ \A y \in Task \ {t} : job'[y] = job[y]
      BY <2>1, <2>3, OneJobChanges
    <3>2. QED
      BY <1>1, <1>3, <2>1, <2>2, <2>3, <3>1
  <2>4. (Becomes(t, j) /\ smLock' = t) \/ UNCHANGED <<smLock, job>>
    BY <1>9 DEF StartStreams
  <2>5. CASE UNCHANGED <<smLock, job>>
    BY <1>5, <2>2, <2>5
  <2>6. QED
    BY <2>3, <2>4, <2>5
<1>10. ASSUME NEW t \in Task, StartCommit(t)
       PROVE  StableUnderLock'
  <2>1. t \in Task /\ Idle \in Job /\ Idle.pc = "idle" /\ Becomes(t, Idle) /\ job[t].pc = "starting"
    BY <1>10, JobTypes DEF StartCommit, Idle
  <2>2. QED
    BY <1>2, <1>3, <2>1, OneJobChanges
<1>11. ASSUME NEW t \in Task, NEW h \in Handle, RemoteDesktopConnect(t, h)
       PROVE  StableUnderLock'
  <2>1. /\ Do("connecting", h) \in Job /\ t \in Task
        /\ Do("connecting", h).pc = "connecting" /\ Do("connecting", h).h = h
    BY DEF Do, Idle, Job, Pc
  <2>2. /\ smLock = Free /\ smLock' = t /\ Becomes(t, Do("connecting", h))
        /\ h \in Live' /\ CanConnectToEis(sessions'[h])
    BY <1>11, FewerSessions DEF RemoteDesktopConnect, CanConnectToEis
  <2>3. QED
    BY <1>1, <1>3, <2>1, <2>2, OneJobChanges
<1>12. ASSUME NEW t \in Task, CreateContext(t)
       PROVE  StableUnderLock'
  <2>1. t \in Task /\ job[t] \in Job /\ job[t].pc = "connecting"
    BY <1>12 DEF CreateContext, ResTypeOK
  <2>2. CASE Becomes(t, Idle)
    BY <1>2, <1>3, <2>1, <2>2, OneJobChanges, JobTypes DEF Idle
  <2>3. CASE Becomes(t, [job[t] EXCEPT !.pc = "relock"]) /\ UNCHANGED smLock
    <3> DEFINE j == [job[t] EXCEPT !.pc = "relock"]
    <3>1. j \in Job /\ j.pc = "relock" /\ j.h = job[t].h
      BY <2>1 DEF Job, Pc
    <3>2. smLock' = t /\ j.h \in Live' /\ CanConnectToEis(sessions'[j.h])
      BY <1>12, <2>1, <2>3, <3>1, FewerSessions DEF CreateContext, StableUnderLock, CanConnectToEis
    <3> HIDE DEF j
    <3>3. job'[t] = j /\ \A y \in Task \ {t} : job'[y] = job[y]
      BY <2>1, <2>3, <3>1, OneJobChanges DEF j
    <3>4. QED
      BY <1>2, <1>3, <2>1, <2>3, <3>1, <3>2, <3>3
  <2>4. \/ Becomes(t, Idle)
        \/ Becomes(t, [job[t] EXCEPT !.pc = "relock"]) /\ UNCHANGED smLock
    BY <1>12 DEF CreateContext
  <2>5. QED
    BY <2>2, <2>3, <2>4
<1>13. ASSUME NEW t \in Task, NEW h \in Handle, Close(t, h)
       PROVE  StableUnderLock'
  <2>1. PICK j \in Job : Becomes(t, j) /\ j.pc \in {"input", "unregister"}
    <3> DEFINE i == [Do("input", h) EXCEPT !.ids = own[h]]
               u == Do("unregister", h)
    <3>1. i \in Job /\ i.pc = "input" /\ u \in Job /\ u.pc = "unregister"
      BY DEF Do, Idle, Job, Pc, ResTypeOK
    <3>2. Becomes(t, i) \/ Becomes(t, u)
      BY <1>13 DEF Close
    <3>3. QED
      BY <3>1, <3>2
  <2>2. smLock = Free /\ t \in Task
    BY <1>13 DEF Close, LockedSection
  <2>3. QED
    BY <1>1, <1>3, <2>1, <2>2, OneJobChanges
<1>14. ASSUME NEW h \in Handle, Select(h) \/ InputCaptureConnect(h) \/ RequestClose(h)
       PROVE  StableUnderLock'
  BY <1>5, <1>14 DEF Select, InputCaptureConnect, RequestClose, LockedSection
<1>15. CASE PeriodicCleanup
  BY <1>5, <1>15 DEF PeriodicCleanup, LockedSection
<1>16. CASE Time \/ UNCHANGED vars \/ (\E s \in Sender : Disconnect(s) \/ NameOwnerChanged(s))
  BY <1>6, <1>16 DEF Time, Tick, Disconnect, NameOwnerChanged, vars, smVars
<1>17. ASSUME NEW x \in Task, Teardown(x)
       PROVE  StableUnderLock'
  <2>1. UNCHANGED <<sessions, smLock>>
    BY <1>17 DEF Teardown, DestroyContext, DestroyCapture, DestroyStream, Unregister, smVars
  <2>2. QED
    BY <1>4, <1>17, <2>1, TeardownJob
<1>18. QED
  BY <1>7, <1>8, <1>9, <1>10, <1>11, <1>12, <1>13, <1>14, <1>15, <1>16, <1>17
     DEF ResNext, ClientCall, Proceed

(* A context goes only when its session is gone.                           *)
LEMMA StepKeepsContext ==
  ASSUME RInv, FreshHandles, [ResNext]_vars
  PROVE  ConnectionHasContext'
<1> USE DEF RInv
<1>1. ASSUME Live' \subseteq Live, \A h \in Live' : sessions'[h] = sessions[h], eis \subseteq eis'
      PROVE  ConnectionHasContext'
  BY <1>1 DEF ConnectionHasContext
<1>2. ASSUME UNCHANGED smVars, eis \subseteq eis'
      PROVE  ConnectionHasContext'
  BY <1>1, <1>2, FewerSessions
<1>3. ASSUME NEW t \in Task, NEW a \in App, RunCreate(t, a)
      PROVE  ConnectionHasContext'
  <2>1. CASE CreateSession(job[t].h, job[t].sender, a)
    <3>1. /\ Live' \subseteq Live \cup {job[t].h} /\ job[t].h \notin Live
          /\ \A h \in Live : sessions'[h] = sessions[h]
      BY <2>1 DEF CreateSession, Live, IInv, TypeOK
    <3>2. job[t].h \in Live' => sessions'[job[t].h].uses_eis = FALSE
      BY <2>1 DEF CreateSession, Live, IInv, TypeOK, NewSession
    <3>3. eis' = eis
      BY <1>3 DEF RunCreate
    <3>4. QED
      BY <3>1, <3>2, <3>3 DEF ConnectionHasContext
  <2>2. QED
    BY <1>2, <1>3, <2>1 DEF RunCreate
<1>4. ASSUME NEW h \in Handle, SelectDevices(h) \/ SelectSources(h) \/ Start(h) \/ ConnectToEis(h),
             eis \subseteq eis', ConnectToEis(h) => h \in eis'
      PROVE  ConnectionHasContext'
  BY <1>4, InPlace DEF ConnectionHasContext, IInv
<1>5. ASSUME NEW t \in Task, StartCommit(t)
      PROVE  ConnectionHasContext'
  <2>1. CASE Start(job[t].h)
    <3>1. job[t].h \in Handle /\ sessions'[job[t].h].uses_eis = sessions[job[t].h].uses_eis
      BY <2>1 DEF Start, Live, IInv, TypeOK, Session
    <3>2. eis' = eis
      BY <1>5 DEF StartCommit
    <3>3. QED
      BY <2>1, <3>1, <3>2, InPlace DEF ConnectionHasContext, IInv
  <2>2. QED
    BY <1>2, <1>5, <2>1 DEF StartCommit
<1>6. ASSUME NEW h \in Handle, Select(h) \/ InputCaptureConnect(h)
      PROVE  ConnectionHasContext'
  <2>1. CASE Select(h)
    <3>1. (SelectDevices(h) \/ SelectSources(h)) /\ eis' = eis
      BY <2>1 DEF Select, resVars
    <3>2. ConnectToEis(h) => h \in eis'
      BY <3>1 DEF SelectDevices, SelectSources, CanSelect, ConnectToEis, CanConnectToEis
    <3>3. QED
      BY <1>4, <3>1, <3>2
  <2>2. CASE InputCaptureConnect(h)
    BY <1>4, <2>2 DEF InputCaptureConnect
  <2>3. QED
    BY <1>6, <2>1, <2>2
<1>7. ASSUME NEW t \in Task, NEW h \in Handle, Close(t, h)
      PROVE  ConnectionHasContext'
  BY <1>1, <1>2, <1>7, FewerSessions DEF Close, CloseSession, resVars
<1>8. ASSUME NEW h \in Handle, RequestClose(h)
      PROVE  ConnectionHasContext'
  BY <1>1, <1>8, FewerSessions DEF RequestClose, CloseSession, resVars
<1>9. CASE PeriodicCleanup
  BY <1>1, <1>9, FewerSessions DEF PeriodicCleanup, CleanupStaleSessions, resVars
<1>10. CASE Time \/ UNCHANGED vars \/ (\E s \in Sender : Disconnect(s) \/ NameOwnerChanged(s))
  <2>1. Live' = Live /\ UNCHANGED <<sessions, eis>>
    BY <1>10 DEF Time, Tick, Disconnect, NameOwnerChanged, vars, smVars, resVars, Live
  <2>2. QED
    BY <1>1, <2>1
<1>11. ASSUME NEW x \in Task, Teardown(x)
       PROVE  ConnectionHasContext'
  <2>1. CASE DestroyContext(x)
    <3>1. job[x].h \notin Live
      BY <2>1 DEF DestroyContext, JobInv, TornDownIsGone, TeardownPc
    <3>2. Live' = Live /\ UNCHANGED sessions /\ eis' = eis \ {job[x].h}
      BY <2>1, FewerSessions DEF DestroyContext
    <3>3. QED
      BY <3>1, <3>2 DEF ConnectionHasContext
  <2>2. QED
    BY <1>2, <1>11, <2>1 DEF Teardown, DestroyCapture, DestroyStream, Unregister
<1>12. ASSUME NEW t \in Task, CreateContext(t)
       PROVE  ConnectionHasContext'
  BY <1>2, <1>12 DEF CreateContext
<1>13. ASSUME NEW t \in Task, NEW h \in Handle,
              \/ \E s \in Sender : CallCreate(t, h, s)
              \/ \E ids \in SUBSET Stream : StartStreams(t, h, ids)
              \/ RemoteDesktopConnect(t, h)
       PROVE  ConnectionHasContext'
  BY <1>2, <1>13 DEF CallCreate, StartStreams, RemoteDesktopConnect, resVars
<1>14. QED
  BY <1>3, <1>5, <1>6, <1>7, <1>8, <1>9, <1>10, <1>11, <1>12, <1>13
     DEF ResNext, ClientCall, Proceed

-----------------------------------------------------------------------------
(* Types.                                                                  *)
LEMMA StepKeepsTypes ==
  ASSUME RInv, [ResNext]_vars, IInv', job' \in [Task -> Job]
  PROVE  ResTypeOK'
<1> USE DEF RInv, resVars, busVars
<1>1. ASSUME smLock' \in Task \cup {Free}, own' \in [Handle -> SUBSET Stream],
             active' \subseteq Stream, spent' \subseteq Stream,
             pw' \in [Stream -> Handle \cup {None}],
             eis' \subseteq Handle, object' \subseteq Handle,
             connected' \subseteq Sender, lost' \subseteq Sender \ connected'
      PROVE  ResTypeOK'
  BY <1>1 DEF ResTypeOK, IInv
<1>2. ASSUME UNCHANGED <<smLock, resVars, busVars>>
      PROVE  ResTypeOK'
  BY <1>1, <1>2 DEF ResTypeOK
<1>3. ASSUME NEW t \in Task, NEW a \in App, RunCreate(t, a)
      PROVE  ResTypeOK'
  <2>1. job[t].h \in Handle
    BY <1>3 DEF RunCreate, JobInv, JobsNamed
  <2>2. QED
    BY <1>1, <1>3, <2>1 DEF RunCreate, LockedSection, ResTypeOK
<1>4. ASSUME NEW t \in Task, NEW h \in Handle, NEW ids \in SUBSET Stream, StartStreams(t, h, ids)
      PROVE  ResTypeOK'
  BY <1>1, <1>4 DEF StartStreams, ResTypeOK
<1>5. ASSUME NEW t \in Task, StartCommit(t)
      PROVE  ResTypeOK'
  <2>1. job[t] \in Job
    BY DEF ResTypeOK
  <2>2. own' \in [Handle -> SUBSET Stream]
    BY <1>5, <2>1 DEF StartCommit, ResTypeOK, Job
  <2>3. QED
    BY <1>1, <1>5, <2>2 DEF StartCommit, ResTypeOK
<1>6. ASSUME NEW t \in Task, CreateContext(t)
      PROVE  ResTypeOK'
  <2>1. job[t].h \in Handle
    BY <1>6 DEF CreateContext, JobInv, JobsNamed
  <2>2. QED
    BY <1>1, <1>6, <2>1 DEF CreateContext, ResTypeOK
<1>7. ASSUME NEW x \in Task, Teardown(x)
      PROVE  ResTypeOK'
  <2>1. CASE DestroyContext(x)
    BY <1>1, <2>1 DEF DestroyContext, ResTypeOK
  <2>2. CASE DestroyCapture(x)
    BY <1>1, <2>2 DEF DestroyCapture, ResTypeOK
  <2>3. ASSUME NEW i \in Stream, DestroyStream(x, i)
        PROVE  ResTypeOK'
    BY <1>1, <2>3 DEF DestroyStream, ResTypeOK
  <2>4. CASE Unregister(x)
    BY <1>1, <2>4 DEF Unregister, ResTypeOK
  <2>5. QED
    BY <1>7, <2>1, <2>2, <2>3, <2>4 DEF Teardown
<1>8. ASSUME NEW s \in Sender, Disconnect(s) \/ NameOwnerChanged(s)
      PROVE  ResTypeOK'
  BY <1>1, <1>8 DEF Disconnect, NameOwnerChanged, ResTypeOK
<1>9. ASSUME NEW h \in Handle,
              \/ \E t \in Task, s \in Sender : CallCreate(t, h, s)
              \/ Select(h)
              \/ \E t \in Task : Close(t, h)
              \/ RequestClose(h)
       PROVE  ResTypeOK'
  BY <1>2, <1>9 DEF CallCreate, Select, Close, RequestClose, LockedSection
<1>10. ASSUME NEW h \in Handle,
              InputCaptureConnect(h) \/ \E t \in Task : RemoteDesktopConnect(t, h)
       PROVE  ResTypeOK'
  BY <1>1, <1>10 DEF InputCaptureConnect, RemoteDesktopConnect, LockedSection, ResTypeOK
<1>11. CASE PeriodicCleanup \/ Time \/ UNCHANGED vars
  BY <1>2, <1>11 DEF PeriodicCleanup, Time, vars, LockedSection
<1>12. QED
  BY <1>3, <1>4, <1>5, <1>6, <1>7, <1>8, <1>9, <1>10, <1>11
     DEF ResNext, ClientCall, Proceed

-----------------------------------------------------------------------------
LEMMA ResInitRInv == ResInit => RInv
<1> SUFFICES ASSUME ResInit PROVE RInv
  OBVIOUS
<1>1. IInv
  BY InitIInv DEF ResInit
<1>2. ResTypeOK
  BY <1>1, JobTypes DEF ResInit, ResTypeOK, IInv
<1>3. \A x \in Task : job[x] = Idle
  BY DEF ResInit
<1>4. JobInv
  BY <1>3 DEF JobInv, JobsNamed, TornDownIsGone, CreatedIsFresh, Idle, TeardownPc
<1>5. StableUnderLock
  BY <1>3 DEF StableUnderLock, Idle
<1>6. ConnectionHasContext
  BY DEF ResInit, Init, ConnectionHasContext, Live
<1>7. QED
  BY <1>1, <1>2, <1>4, <1>5, <1>6 DEF RInv

LEMMA ResNextRInv == RInv /\ [ResNext]_vars => RInv'
<1> SUFFICES ASSUME RInv, [ResNext]_vars PROVE RInv'
  OBVIOUS
<1>1. IInv'
  BY HandlersUseTheRegistry, NextIInv DEF RInv
<1>2. JobInv' /\ job' \in [Task -> Job]
  BY StepKeepsJobInv
<1>3. ResTypeOK' /\ StableUnderLock'
  BY <1>1, <1>2, StepKeepsTypes, StepKeepsStable
<1>4. FreshHandles => ConnectionHasContext'
  BY StepKeepsContext
<1>5. QED
  BY <1>1, <1>2, <1>3, <1>4 DEF RInv, FreshHandles

(* The inductive invariant of the handlers.                                *)
THEOREM ResInductive == ResSpec => []RInv
<1>1. QED
  BY ResInitRInv, ResNextRInv, PTL DEF ResSpec

(* Type correctness of the handlers and of the tables they share.          *)
THEOREM ResTypeCorrect == ResSpec => []ResTypeOK
<1>1. RInv => ResTypeOK
  BY DEF RInv
<1>2. QED
  BY <1>1, ResInductive, PTL

(* The handlers implement the registry: between any two of their           *)
(* interleaved sections it only changes by its own methods, so all         *)
(* that SessionManagerProofs proves holds here (the counts are exact, the  *)
(* limit is kept, no choice of the user is reopened).                      *)
THEOREM HandlersImplementRegistry == ResSpec => Spec
<1>1. ResInit => Init
  BY DEF ResInit
<1>2. RInv /\ [ResNext]_vars => [Next]_smVars
  BY HandlersUseTheRegistry DEF RInv
<1>3. QED
  BY <1>1, <1>2, ResInductive, PTL DEF ResSpec, Spec

(* The counts are exact under every interleaving of the handlers           *)
(* (app_session_count in manager.rs).                                      *)
THEOREM ResCountsExact == ResSpec => []CountExact
<1>1. QED
  BY HandlersImplementRegistry, CountsExact, PTL

(* A session a Start or a ConnectToEIS has looked up is still there, and   *)
(* in the state it was seen in, when the handler goes on after its await:  *)
(* the guard of the session manager's mutex is held across it.             *)
THEOREM LookUpStaysTrue == ResSpec => []StableUnderLock
<1>1. RInv => StableUnderLock
  BY DEF RInv
<1>2. QED
  BY <1>1, ResInductive, PTL

(* No teardown takes the EIS context of a session that is still in use,    *)
(* although teardowns run without the mutex.                               *)
THEOREM ContextStays == FreshHandles => (ResSpec => []ConnectionHasContext)
<1> SUFFICES ASSUME FreshHandles PROVE ResSpec => []ConnectionHasContext
  OBVIOUS
<1>1. RInv => ConnectionHasContext
  BY DEF RInv
<1>2. QED
  BY <1>1, ResInductive, PTL

(* No handler that waits finds its session changed, and no session in use  *)
(* loses its context, whatever else goes wrong, if no session is created   *)
(* with a handle that is in use (the frontend makes handles; the portal    *)
(* compares them with the registry's only).                                *)
THEOREM HandlersHold == "handle_reuse" \notin Faults => (ResSpec => []HandlersUndisturbed)
<1> SUFFICES ASSUME "handle_reuse" \notin Faults PROVE ResSpec => []HandlersUndisturbed
  OBVIOUS
<1>1. StableUnderLock /\ ConnectionHasContext => HandlersUndisturbed
  BY DEF HandlersUndisturbed
<1>2. ResSpec => []ConnectionHasContext
  BY ContextStays DEF FreshHandles
<1>3. QED
  BY <1>1, <1>2, LookUpStaysTrue, PTL

-----------------------------------------------------------------------------
(***************************************************************************)
(* What a session acquired is released with it: each theorem names the     *)
(* faults that would break it, and no others.                              *)
(*                                                                         *)
(* The argument follows what a task has in hand: a stream or a context is  *)
(* a live session's, or some task holds it and will come to release it.    *)
(* That a release never hits a live session's stream rests on the node ids *)
(* being given out once, and that nothing is forgotten on a session being  *)
(* started once, with what its Start made.                                 *)
(***************************************************************************)
AllPcs == {"starting", "input", "capture", "pipewire"}
CapturePcs == {"starting", "input", "capture"}

(* What job j has yet to release. *)
HoldsContext(j, h) == j.pc = "input" /\ j.h = h
HoldsStream(j, i, pcs) == j.pc \in pcs /\ i \in j.ids

Owned(i) == \E h \in Live : i \in own[h]

-----------------------------------------------------------------------------
LEMMA IdleHoldsNothing ==
  /\ \A h : ~HoldsContext(Idle, h)
  /\ \A i, pcs : "idle" \notin pcs => ~HoldsStream(Idle, i, pcs)
BY DEF Idle, HoldsContext, HoldsStream

LEMMA StartMade ==
  ASSUME ResTypeOK, NEW t \in Task, NEW h \in Handle, NEW ids \in SUBSET Stream,
         StartStreams(t, h, ids)
  PROVE  LET j == [Do("starting", h) EXCEPT !.ids = ids]
         IN  /\ j \in Job /\ j.pc = "starting" /\ j.h = h /\ j.ids = ids
             /\ h \in Live /\ Live' = Live /\ sessions' = sessions /\ own' = own
             /\ \/ /\ \A y \in Task \ {t} : job'[y] = job[y]
                   /\ job'[t] = j
                \/ "stream_failure" \in Faults /\ UNCHANGED job
<1> DEFINE j == [Do("starting", h) EXCEPT !.ids = ids]
<1>1. j \in Job /\ j.pc = "starting" /\ j.h = h /\ j.ids = ids
  BY DEF Do, Idle, Job, Pc
<1>2. /\ h \in Live /\ Live' = Live /\ sessions' = sessions /\ own' = own
      /\ Becomes(t, j) \/ ("stream_failure" \in Faults /\ UNCHANGED job)
  BY FewerSessions DEF StartStreams
<1> HIDE DEF j
<1>3. QED
  BY <1>1, <1>2, OneJobChanges DEF j

-----------------------------------------------------------------------------
(* Streams serve their session. Nobody is about to release a stream of a   *)
(* live session, nor one that a Start under way has made.                  *)
Unclaimed(i, X) == \A x \in X : ~HoldsStream(job[x], i, AllPcs)

Served ==
  /\ \A h \in Live : \A i \in own[h] :
       i \in active /\ pw[i] = h /\ Unclaimed(i, Task)
  /\ \A t \in Task : job[t].pc = "starting" => \A i \in job[t].ids :
       i \in active /\ pw[i] = job[t].h /\ Unclaimed(i, Task \ {t})

(* A node id in use or in hand has been given out. *)
IdsSpent ==
  /\ \A h \in Live : own[h] \subseteq spent
  /\ \A x \in Task, i \in Stream : HoldsStream(job[x], i, AllPcs) => i \in spent

(* A task disturbs no stream if it releases only what it holds, and takes  *)
(* in hand only what it held or what left the registry in this step.       *)
LEMMA ServedKept ==
  ASSUME ResTypeOK, Served, IdsSpent, NEW x \in Task,
         \A y \in Task \ {x} : job'[y] = job[y],
         job'[x].pc # "starting",
         \A i \in Stream : HoldsStream(job'[x], i, AllPcs) =>
           HoldsStream(job[x], i, AllPcs) \/ \E h \in Live \ Live' : i \in own[h],
         spent \subseteq spent',
         \A h \in Live' : own'[h] = {} \/ (h \in Live /\ own'[h] = own[h]),
         \A i \in Stream : ~HoldsStream(job[x], i, AllPcs) =>
           (i \in active => i \in active') /\ pw'[i] = pw[i]
  PROVE  Served' /\ IdsSpent'
<1>1. \A h \in Live : own[h] \subseteq Stream
  BY DEF ResTypeOK, Live
<1>2. ASSUME NEW h \in Live', NEW i \in own'[h]
      PROVE  i \in active' /\ pw'[i] = h /\ Unclaimed(i, Task)'
  <2>1. h \in Live /\ i \in own[h] /\ i \in Stream
    BY <1>1, <1>2
  <2>2. i \in active /\ pw[i] = h /\ \A y \in Task : ~HoldsStream(job[y], i, AllPcs)
    BY <2>1 DEF Served, Unclaimed
  <2>3. i \in active' /\ pw'[i] = h
    BY <2>1, <2>2
  <2>4. ~HoldsStream(job'[x], i, AllPcs)
    <3>1. \A g \in Live : i \in own[g] => g = h
      BY <2>2 DEF Served
    <3>2. QED
      BY <1>2, <2>1, <2>2, <3>1
  <2>5. QED
    BY <2>2, <2>3, <2>4 DEF Unclaimed
<1>3. ASSUME NEW t \in Task, job'[t].pc = "starting", NEW i \in job'[t].ids
      PROVE  i \in active' /\ pw'[i] = job'[t].h /\ Unclaimed(i, Task \ {t})'
  <2>1. t \in Task /\ t # x /\ job'[t] = job[t]
    BY <1>3
  <2>2. i \in Stream /\ HoldsStream(job[t], i, AllPcs)
    BY <1>3, <2>1 DEF ResTypeOK, Job, HoldsStream, AllPcs
  <2>3. /\ i \in active /\ pw[i] = job[t].h
        /\ \A y \in Task \ {t} : ~HoldsStream(job[y], i, AllPcs)
    BY <1>3, <2>1 DEF Served, Unclaimed
  <2>4. \A g \in Live : i \notin own[g]
    BY <2>1, <2>2 DEF Served, Unclaimed
  <2>5. ~HoldsStream(job'[x], i, AllPcs)
    BY <2>1, <2>2, <2>3, <2>4
  <2>6. QED
    BY <2>1, <2>2, <2>3, <2>5 DEF Unclaimed
<1>4. IdsSpent'
  BY <1>1 DEF IdsSpent
<1>5. QED
  BY <1>2, <1>3, <1>4 DEF Served

(* What the steps of a teardown leave in hand: the context until it is     *)
(* destroyed, the streams until each is.                                   *)
LEMMA TeardownInHand ==
  ASSUME ResTypeOK, NEW x \in Task, Teardown(x)
  PROVE  /\ \A y \in Task \ {x} : job'[y] = job[y]
         /\ job'[x].pc # "starting"
         /\ \A i \in Stream : HoldsStream(job'[x], i, AllPcs) => HoldsStream(job[x], i, AllPcs)
         /\ \A h \in Handle : HoldsContext(job[x], h) => HoldsContext(job'[x], h) \/ h \notin eis'
         /\ \A i \in Stream : HoldsStream(job[x], i, CapturePcs) =>
              HoldsStream(job'[x], i, CapturePcs) \/ i \notin active'
         /\ \A i \in Stream : HoldsStream(job[x], i, AllPcs) =>
              HoldsStream(job'[x], i, AllPcs) \/ pw'[i] = None
         /\ \A i \in Stream : ~HoldsStream(job[x], i, AllPcs) =>
              (i \in active => i \in active') /\ pw'[i] = pw[i]
         /\ eis' \subseteq eis /\ active' \subseteq active
         /\ \A i \in Stream : pw'[i] \in {pw[i], None}
<1>1. job[x] \in Job /\ pw \in [Stream -> Handle \cup {None}]
  BY DEF ResTypeOK
<1>2. CASE DestroyContext(x)
  <2> DEFINE j == [job[x] EXCEPT !.pc = IF job[x].ids = {} THEN "unregister" ELSE "capture"]
  <2>1. /\ j \in Job /\ j.h = job[x].h /\ j.ids = job[x].ids
        /\ j.pc = IF job[x].ids = {} THEN "unregister" ELSE "capture"
    BY <1>1 DEF Job, Pc
  <2>2. Becomes(x, j) /\ job[x].pc = "input"
    BY <1>2 DEF DestroyContext
  <2>3. job'[x] = j /\ \A y \in Task \ {x} : job'[y] = job[y]
    BY <2>1, <2>2, OneJobChanges
  <2>4. eis' = eis \ {job[x].h} /\ active' = active /\ pw' = pw
    BY <1>2 DEF DestroyContext
  <2> HIDE DEF j
  <2>5. QED
    BY <2>1, <2>2, <2>3, <2>4 DEF HoldsContext, HoldsStream, AllPcs, CapturePcs
<1>3. CASE DestroyCapture(x)
  <2> DEFINE j == [job[x] EXCEPT !.pc = "pipewire"]
  <2>1. /\ j \in Job /\ j.h = job[x].h /\ j.ids = job[x].ids
        /\ j.pc = "pipewire"
    BY <1>1 DEF Job, Pc
  <2>2. Becomes(x, j) /\ job[x].pc = "capture"
    BY <1>3 DEF DestroyCapture
  <2>3. job'[x] = j /\ \A y \in Task \ {x} : job'[y] = job[y]
    BY <2>1, <2>2, OneJobChanges
  <2>4. /\ eis' = eis /\ active' = active \ (job[x].ids \cap active)
        /\ \A i \in Stream : pw'[i] = IF i \in job[x].ids \cap active THEN None ELSE pw[i]
    BY <1>3 DEF DestroyCapture
  <2> HIDE DEF j
  <2>5. QED
    BY <2>1, <2>2, <2>3, <2>4 DEF HoldsContext, HoldsStream, AllPcs, CapturePcs
<1>4. ASSUME NEW k \in Stream, DestroyStream(x, k)
      PROVE  \E j \in Job :
               /\ Becomes(x, j) /\ job[x].pc = "pipewire" /\ k \in job[x].ids
               /\ j.ids = job[x].ids \ {k}
               /\ j.pc = IF job[x].ids = {k} THEN "unregister" ELSE "pipewire"
               /\ eis' = eis /\ active' = active
               /\ \A i \in Stream : pw'[i] = IF i = k THEN None ELSE pw[i]
  <2> DEFINE j == [job[x] EXCEPT !.ids = @ \ {k},
                                 !.pc = IF job[x].ids = {k} THEN "unregister" ELSE "pipewire"]
  <2>1. /\ j \in Job /\ j.ids = job[x].ids \ {k}
        /\ j.pc = IF job[x].ids = {k} THEN "unregister" ELSE "pipewire"
    BY <1>1 DEF Job, Pc
  <2>2. Becomes(x, j) /\ job[x].pc = "pipewire" /\ k \in job[x].ids /\ eis' = eis /\ active' = active
    BY <1>4 DEF DestroyStream
  <2>3. \A i \in Stream : pw'[i] = IF i = k THEN None ELSE pw[i]
    BY <1>1, <1>4 DEF DestroyStream
  <2> HIDE DEF j
  <2>4. QED
    BY <2>1, <2>2, <2>3
<1>5. CASE \E k \in Stream : DestroyStream(x, k)
  <2>1. PICK k \in Stream : DestroyStream(x, k)
    BY <1>5
  <2>2. PICK j \in Job :
               /\ Becomes(x, j) /\ job[x].pc = "pipewire" /\ k \in job[x].ids
               /\ j.ids = job[x].ids \ {k}
               /\ j.pc = IF job[x].ids = {k} THEN "unregister" ELSE "pipewire"
               /\ eis' = eis /\ active' = active
               /\ \A i \in Stream : pw'[i] = IF i = k THEN None ELSE pw[i]
    BY <1>4, <2>1
  <2>3. job'[x] = j /\ \A y \in Task \ {x} : job'[y] = job[y]
    BY <2>2, OneJobChanges
  <2>4. QED
    BY <2>2, <2>3 DEF HoldsContext, HoldsStream, AllPcs, CapturePcs
<1>6. CASE Unregister(x)
  <2>1. /\ job[x].pc = "unregister" /\ Becomes(x, Idle)
        /\ eis' = eis /\ active' = active /\ pw' = pw
    BY <1>6 DEF Unregister
  <2>2. job'[x] = Idle /\ \A y \in Task \ {x} : job'[y] = job[y]
    BY <2>1, JobTypes, OneJobChanges
  <2>3. Idle.pc = "idle"
    BY DEF Idle
  <2>4. QED
    BY <2>1, <2>2, <2>3 DEF HoldsContext, HoldsStream, AllPcs, CapturePcs
<1>7. QED
  BY <1>2, <1>3, <1>5, <1>6 DEF Teardown

(* A Start makes streams nobody has: their node ids are new.               *)
LEMMA StartKeepsServed ==
  ASSUME ResTypeOK, Served, IdsSpent, "node_id_reuse" \notin Faults,
         NEW t \in Task, NEW h \in Handle, NEW ids \in SUBSET Stream, StartStreams(t, h, ids)
  PROVE  Served' /\ IdsSpent'
<1>1. /\ job[t] = Idle /\ t \in Task
      /\ ids \cap spent = {} /\ active' = active \cup ids /\ spent' = spent \cup ids
      /\ \A i \in Stream : pw'[i] = IF i \in ids THEN h ELSE pw[i]
  BY DEF StartStreams, NewIds
<1> DEFINE j == [Do("starting", h) EXCEPT !.ids = ids]
<1>2. /\ j.pc = "starting" /\ j.h = h /\ j.ids = ids
      /\ h \in Live /\ Live' = Live /\ own' = own
      /\ \/ (\A y \in Task \ {t} : job'[y] = job[y]) /\ job'[t] = j
         \/ UNCHANGED job
  BY StartMade
<1> HIDE DEF j
<1>3. \A i \in ids : Unclaimed(i, Task) /\ \A g \in Live : i \notin own[g]
  BY <1>1 DEF IdsSpent, Unclaimed
<1>4. \A i \in Stream : HoldsStream(j, i, AllPcs) <=> i \in ids
  BY <1>2 DEF HoldsStream, AllPcs
<1>5. \A g \in Live : own[g] \subseteq Stream
  BY DEF ResTypeOK, Live
<1>6. ASSUME NEW g \in Live', NEW i \in own'[g]
      PROVE  i \in active' /\ pw'[i] = g /\ Unclaimed(i, Task)'
  <2>1. g \in Live /\ i \in own[g] /\ i \in Stream /\ i \notin ids
    BY <1>2, <1>3, <1>5, <1>6
  <2>2. i \in active /\ pw[i] = g /\ \A y \in Task : ~HoldsStream(job[y], i, AllPcs)
    BY <2>1 DEF Served, Unclaimed
  <2>3. QED
    BY <1>1, <1>2, <1>4, <2>1, <2>2 DEF Unclaimed
<1>7. ASSUME NEW u \in Task, job'[u].pc = "starting", NEW i \in job'[u].ids
      PROVE  i \in active' /\ pw'[i] = job'[u].h /\ Unclaimed(i, Task \ {u})'
  <2>0. Idle.pc # "starting" /\ u \in Task
    BY DEF Idle
  <2>1. CASE u = t
    <3>1. job'[t] = j /\ \A y \in Task \ {t} : job'[y] = job[y]
      BY <1>1, <1>2, <1>7, <2>0, <2>1
    <3>2. i \in ids /\ i \in Stream
      BY <1>2, <1>7, <2>1, <3>1
    <3>3. QED
      BY <1>1, <1>2, <1>3, <2>1, <3>1, <3>2 DEF Unclaimed
  <2>2. CASE u # t
    <3>1. job'[u] = job[u] /\ i \in job[u].ids /\ job[u].pc = "starting"
      BY <1>2, <1>7, <2>0, <2>2
    <3>2. i \in Stream /\ HoldsStream(job[u], i, AllPcs)
      BY <2>0, <3>1 DEF ResTypeOK, Job, HoldsStream, AllPcs
    <3>3. i \notin ids
      BY <1>3, <2>0, <3>2 DEF Unclaimed
    <3>4. /\ i \in active /\ pw[i] = job[u].h
          /\ \A y \in Task \ {u} : ~HoldsStream(job[y], i, AllPcs)
      BY <3>1 DEF Served, Unclaimed
    <3>5. QED
      BY <1>1, <1>2, <1>4, <3>1, <3>2, <3>3, <3>4 DEF Unclaimed
  <2>3. QED
    BY <2>1, <2>2
<1>8. IdsSpent'
  <2>1. \A g \in Live' : own'[g] \subseteq spent'
    BY <1>1, <1>2 DEF IdsSpent
  <2>2. \A x \in Task, i \in Stream : HoldsStream(job'[x], i, AllPcs) => i \in spent'
    BY <1>1, <1>2, <1>4 DEF IdsSpent
  <2>3. QED
    BY <2>1, <2>2 DEF IdsSpent
<1>9. QED
  BY <1>6, <1>7, <1>8 DEF Served

(* The session takes over the streams its Start has made.                  *)
LEMMA CommitKeepsServed ==
  ASSUME ResTypeOK, TypeOK, Served, IdsSpent, NEW t \in Task, StartCommit(t)
  PROVE  Served' /\ IdsSpent'
<1>1. /\ t \in Task /\ job[t].pc = "starting" /\ job[t] \in Job
      /\ job'[t] = Idle /\ \A y \in Task \ {t} : job'[y] = job[y]
      /\ active' = active /\ pw' = pw /\ spent' = spent
  BY JobTypes, OneJobChanges DEF StartCommit, ResTypeOK
<1>2. \A i : ~HoldsStream(Idle, i, AllPcs)
  BY IdleHoldsNothing DEF AllPcs
<1>3. CASE UNCHANGED <<smVars, own>>
  <2>1. Live' = Live
    BY <1>3, FewerSessions
  <2>2. Idle.pc # "starting"
    BY DEF Idle
  <2>3. QED
    BY <1>1, <1>2, <1>3, <2>1, <2>2, ServedKept
<1>4. CASE Start(job[t].h) /\ own' = [own EXCEPT ![job[t].h] = job[t].ids]
  <2> DEFINE h == job[t].h
  <2>1. h \in Handle /\ Live' = Live
    BY <1>4, InPlace DEF Start, Live
  <2>2. own'[h] = job[t].ids /\ \A g \in Live \ {h} : own'[g] = own[g]
    BY <1>4, <2>1 DEF ResTypeOK, Live
  <2>3. \A i \in job[t].ids : i \in Stream /\ HoldsStream(job[t], i, AllPcs)
    BY <1>1 DEF Job, HoldsStream, AllPcs
  <2>4. ASSUME NEW g \in Live', NEW i \in own'[g]
        PROVE  i \in active' /\ pw'[i] = g /\ Unclaimed(i, Task)'
    <3>1. CASE g = h
      BY <1>1, <1>2, <2>2, <2>4, <3>1 DEF Served, Unclaimed
    <3>2. CASE g # h
      BY <1>1, <1>2, <2>1, <2>2, <2>4, <3>2 DEF Served, Unclaimed
    <3>3. QED
      BY <3>1, <3>2
  <2>5. ASSUME NEW u \in Task, job'[u].pc = "starting", NEW i \in job'[u].ids
        PROVE  i \in active' /\ pw'[i] = job'[u].h /\ Unclaimed(i, Task \ {u})'
    <3>1. u \in Task /\ u # t /\ job'[u] = job[u]
      BY <1>1, <2>5 DEF Idle
    <3>2. /\ i \in active /\ pw[i] = job[u].h
          /\ \A y \in Task \ {u} : ~HoldsStream(job[y], i, AllPcs)
      BY <2>5, <3>1 DEF Served, Unclaimed
    <3>3. QED
      BY <1>1, <1>2, <3>1, <3>2 DEF Unclaimed
  <2>6. IdsSpent'
    <3>1. \A i \in job[t].ids : i \in spent
      BY <1>1, <2>3 DEF IdsSpent
    <3>2. \A g \in Live' : own'[g] \subseteq spent'
      BY <1>1, <2>1, <2>2, <3>1 DEF IdsSpent
    <3>3. QED
      BY <1>1, <1>2, <3>2 DEF IdsSpent
  <2>7. QED
    BY <2>4, <2>5, <2>6 DEF Served
<1>5. QED
  BY <1>3, <1>4 DEF StartCommit

LEMMA StepKeepsServed ==
  ASSUME RInv, Served, IdsSpent, "node_id_reuse" \notin Faults, [ResNext]_vars
  PROVE  Served' /\ IdsSpent'
<1> USE DEF RInv
<1>0. TypeOK
  BY DEF IInv
<1>1. ASSUME UNCHANGED <<job, own, active, pw, spent>>, Live' \subseteq Live
      PROVE  Served' /\ IdsSpent'
  BY <1>1 DEF Served, IdsSpent, Unclaimed
<1>2. ASSUME NEW x \in Task, NEW j \in Job, Becomes(x, j),
             j.pc # "starting", j.pc \in AllPcs => j.ids = {},
             UNCHANGED <<active, pw, spent>>,
             Live' \subseteq Live \/ \E h \in Handle : Live' \subseteq Live \cup {h} /\ own'[h] = {},
             \A h \in Live : own'[h] \in {own[h], {}}
      PROVE  Served' /\ IdsSpent'
  <2>1. job'[x] = j /\ \A y \in Task \ {x} : job'[y] = job[y]
    BY <1>2, OneJobChanges
  <2>2. \A i \in Stream : ~HoldsStream(job'[x], i, AllPcs)
    BY <1>2, <2>1 DEF HoldsStream
  <2>3. \A h \in Live' : own'[h] = {} \/ (h \in Live /\ own'[h] = own[h])
    BY <1>2
  <2>4. QED
    BY <1>2, <2>1, <2>2, <2>3, ServedKept
<1>3. ASSUME NEW t \in Task, NEW h \in Handle, NEW s \in Sender, CallCreate(t, h, s)
      PROVE  Served' /\ IdsSpent'
  <2> DEFINE j == [Do("create", h) EXCEPT !.sender = s]
  <2>1. j \in Job /\ j.pc = "create" /\ t \in Task
    BY DEF Do, Idle, Job, Pc
  <2>2. Becomes(t, j) /\ Live' = Live /\ UNCHANGED <<own, active, pw, spent>>
    BY <1>3, FewerSessions DEF CallCreate, resVars
  <2>3. QED
    BY <1>2, <2>1, <2>2 DEF AllPcs
<1>4. ASSUME NEW t \in Task, NEW a \in App, RunCreate(t, a)
      PROVE  Served' /\ IdsSpent'
  <2>1. /\ Idle \in Job /\ Idle.pc = "idle" /\ t \in Task
        /\ Becomes(t, Idle) /\ UNCHANGED <<active, pw, spent>>
    BY <1>4, JobTypes DEF RunCreate, Idle
  <2>2. CASE UNCHANGED <<smVars, own>>
    BY <1>2, <2>1, <2>2, FewerSessions DEF AllPcs
  <2>3. CASE CreateSession(job[t].h, job[t].sender, a) /\ own' = [own EXCEPT ![job[t].h] = {}]
    <3>1. job[t].h \in Handle /\ Live' \subseteq Live \cup {job[t].h}
      BY <1>4, <2>1, <2>3 DEF RunCreate, JobInv, JobsNamed, CreateSession, Live, IInv, TypeOK
    <3>2. own'[job[t].h] = {} /\ \A h \in Live : own'[h] \in {own[h], {}}
      BY <2>3, <3>1 DEF ResTypeOK, Live
    <3>3. QED
      BY <1>2, <2>1, <3>1, <3>2 DEF AllPcs
  <2>4. QED
    BY <1>4, <2>2, <2>3 DEF RunCreate
<1>5. ASSUME NEW t \in Task, NEW h \in Handle, RemoteDesktopConnect(t, h)
      PROVE  Served' /\ IdsSpent'
  <2>1. /\ Do("connecting", h) \in Job /\ t \in Task
        /\ Do("connecting", h).pc = "connecting"
    BY DEF Do, Idle, Job, Pc
  <2>2. Becomes(t, Do("connecting", h)) /\ Live' = Live /\ UNCHANGED <<own, active, pw, spent>>
    BY <1>5, FewerSessions DEF RemoteDesktopConnect, resVars
  <2>3. QED
    BY <1>2, <2>1, <2>2 DEF AllPcs
<1>6. ASSUME NEW t \in Task, CreateContext(t)
      PROVE  Served' /\ IdsSpent'
  <2>1. /\ t \in Task /\ job[t] \in Job
        /\ Live' = Live /\ UNCHANGED <<own, active, pw, spent>>
    BY <1>6, FewerSessions DEF CreateContext, ResTypeOK
  <2>2. CASE Becomes(t, Idle)
    BY <1>2, <2>1, <2>2, JobTypes DEF Idle, AllPcs
  <2>3. CASE Becomes(t, [job[t] EXCEPT !.pc = "relock"])
    <3> DEFINE j == [job[t] EXCEPT !.pc = "relock"]
    <3>1. j \in Job /\ j.pc = "relock"
      BY <2>1 DEF Job, Pc
    <3>2. QED
      BY <1>2, <2>1, <2>3, <3>1 DEF AllPcs
  <2>4. QED
    BY <1>6, <2>2, <2>3 DEF CreateContext
<1>7. ASSUME NEW t \in Task, NEW h \in Handle, Close(t, h)
      PROVE  Served' /\ IdsSpent'
  <2>1. t \in Task /\ job[t] = Idle /\ UNCHANGED <<own, active, pw, spent>>
    BY <1>7 DEF Close, resVars
  <2>2. CASE CloseSession(h) /\ Becomes(t, [Do("input", h) EXCEPT !.ids = own[h]])
    <3> DEFINE j == [Do("input", h) EXCEPT !.ids = own[h]]
    <3>1. j \in Job /\ j.pc = "input" /\ j.ids = own[h]
      BY DEF Do, Idle, Job, Pc, ResTypeOK
    <3>2. h \in Live /\ Live' = Live \ {h}
      BY <2>2, FewerSessions DEF CloseSession
    <3>3. job'[t] = j /\ \A y \in Task \ {t} : job'[y] = job[y]
      BY <2>1, <2>2, <3>1, OneJobChanges
    <3>4. \A i \in Stream : HoldsStream(job'[t], i, AllPcs) => \E g \in Live \ Live' : i \in own[g]
      BY <3>1, <3>2, <3>3 DEF HoldsStream
    <3> HIDE DEF j
    <3>5. QED
      BY <2>1, <3>1, <3>2, <3>3, <3>4, ServedKept
  <2>3. CASE Becomes(t, Do("unregister", h)) /\ UNCHANGED smVars
    <3>1. Do("unregister", h) \in Job /\ Do("unregister", h).pc = "unregister"
      BY DEF Do, Idle, Job, Pc
    <3>2. Live' = Live
      BY <2>3, FewerSessions
    <3>3. QED
      BY <1>2, <2>1, <2>3, <3>1, <3>2 DEF AllPcs
  <2>4. QED
    BY <1>7, <2>2, <2>3 DEF Close
<1>8. ASSUME NEW x \in Task, Teardown(x)
      PROVE  Served' /\ IdsSpent'
  <2>1. Live' = Live /\ own' = own /\ spent' = spent
    BY <1>8, FewerSessions DEF Teardown, DestroyContext, DestroyCapture, DestroyStream, Unregister
  <2>2. QED
    BY <1>8, <2>1, TeardownInHand, ServedKept
<1>9. ASSUME NEW h \in Handle, Select(h) \/ InputCaptureConnect(h) \/ RequestClose(h)
       PROVE  Served' /\ IdsSpent'
  <2>1. Live' \subseteq Live /\ UNCHANGED <<job, own, active, pw, spent>>
    BY <1>0, <1>9, InPlace, FewerSessions
       DEF Select, InputCaptureConnect, RequestClose, CloseSession, resVars
  <2>2. QED
    BY <1>1, <2>1
<1>10. CASE PeriodicCleanup \/ Time \/ UNCHANGED vars \/ (\E s \in Sender : Disconnect(s) \/ NameOwnerChanged(s))
  <2>1. Live' \subseteq Live /\ UNCHANGED <<job, own, active, pw, spent>>
    BY <1>10, FewerSessions
       DEF PeriodicCleanup, CleanupStaleSessions, Time, Tick, vars, Disconnect, NameOwnerChanged, resVars, Live
  <2>2. QED
    BY <1>1, <2>1
<1>11. QED
  BY <1>0, <1>3, <1>4, <1>5, <1>6, <1>7, <1>8, <1>9, <1>10,
     StartKeepsServed, CommitKeepsServed DEF ResNext, ClientCall, Proceed

LEMMA ServedInit == ResInit => Served /\ IdsSpent
<1> SUFFICES ASSUME ResInit PROVE Served /\ IdsSpent
  OBVIOUS
<1>1. \A x \in Task : job[x] = Idle
  BY DEF ResInit
<1>2. Live = {}
  BY DEF ResInit, Init, Live
<1>3. Served
  BY <1>1, <1>2 DEF Served, Idle
<1>4. IdsSpent
  BY <1>1, <1>2, IdleHoldsNothing DEF IdsSpent, AllPcs
<1>5. QED
  BY <1>3, <1>4

(* The streams a client was given are there and its own for as long as its *)
(* session is, whatever teardowns run beside it, if PipeWire does not give *)
(* a node id twice (destroy_capture_session goes by node id alone).        *)
THEOREM StreamsHold == "node_id_reuse" \notin Faults => (ResSpec => []StreamsServed)
<1> SUFFICES ASSUME "node_id_reuse" \notin Faults PROVE ResSpec => []StreamsServed
  OBVIOUS
<1> DEFINE I == RInv /\ Served /\ IdsSpent
<1>1. ResInit => I
  BY ResInitRInv, ServedInit
<1>2. I /\ [ResNext]_vars => I'
  BY ResNextRInv, StepKeepsServed
<1>3. I => StreamsServed
  BY DEF Served, StreamsServed
<1>4. QED
  BY <1>1, <1>2, <1>3, PTL DEF ResSpec

-----------------------------------------------------------------------------
(* Nothing is left behind. NothingLeaked, by what each task has in hand.   *)
Releasable ==
  /\ \A h \in eis : h \in Live \/ \E x \in Task : HoldsContext(job[x], h)
  /\ \A i \in active : Owned(i) \/ \E x \in Task : HoldsStream(job[x], i, CapturePcs)
  /\ \A i \in Stream : pw[i] # None =>
       Owned(i) \/ \E x \in Task : HoldsStream(job[x], i, AllPcs)

LEMMA ReleasableIsNotLeaked == Releasable <=> NothingLeaked
BY DEF Releasable, NothingLeaked, Pending, StreamPending, Owned, HoldsContext, HoldsStream,
       AllPcs, CapturePcs

(* A session that may be started has no streams, and one that is being     *)
(* started may be: what Start makes takes the place of nothing, and is     *)
(* taken over.                                                             *)
StartsFresh ==
  /\ \A h \in Live : sessions[h].state = "Init" => own[h] = {}
  /\ \A t \in Task : job[t].pc = "starting" =>
       sessions[job[t].h].state = "Init" /\ (job[t].ids # {} => sessions[job[t].h].sources)

Leaky == {"request_close", "stale_cleanup", "second_start", "stream_failure"}

(* A step leaks nothing if what a session leaves behind, or task x puts    *)
(* down, is released in it or taken in hand by x.                          *)
LEMMA ReleasableKept ==
  ASSUME Releasable, eis \subseteq Handle, active \subseteq Stream, NEW x \in Task,
         \A y \in Task \ {x} : job'[y] = job[y],
         \A h \in eis' : h \in eis \/ h \in Live',
         \A h \in Handle : h \in Live \/ HoldsContext(job[x], h) =>
           h \in Live' \/ HoldsContext(job'[x], h) \/ h \notin eis',
         \A i \in active' : i \in active \/ HoldsStream(job'[x], i, CapturePcs),
         \A i \in Stream : Owned(i) \/ HoldsStream(job[x], i, CapturePcs) =>
           Owned(i)' \/ HoldsStream(job'[x], i, CapturePcs) \/ i \notin active',
         \A i \in Stream : pw'[i] # None => pw[i] # None \/ HoldsStream(job'[x], i, AllPcs),
         \A i \in Stream : Owned(i) \/ HoldsStream(job[x], i, AllPcs) =>
           Owned(i)' \/ HoldsStream(job'[x], i, AllPcs) \/ pw'[i] = None
  PROVE  Releasable'
<1>1. ASSUME NEW h \in eis', h \notin Live'
      PROVE  \E y \in Task : HoldsContext(job'[y], h)
  <2>1. h \in eis /\ h \in Handle
    BY <1>1
  <2>2. CASE h \in Live \/ HoldsContext(job[x], h)
    BY <1>1, <2>1, <2>2
  <2>3. CASE h \notin Live /\ ~HoldsContext(job[x], h)
    BY <2>1, <2>3 DEF Releasable
  <2>4. QED
    BY <2>2, <2>3
<1>2. ASSUME NEW i \in active', ~Owned(i)'
      PROVE  \E y \in Task : HoldsStream(job'[y], i, CapturePcs)
  <2>1. CASE i \in active /\ (Owned(i) \/ HoldsStream(job[x], i, CapturePcs))
    BY <1>2, <2>1
  <2>2. CASE i \in active /\ ~Owned(i) /\ ~HoldsStream(job[x], i, CapturePcs)
    BY <2>2 DEF Releasable
  <2>3. QED
    BY <1>2, <2>1, <2>2
<1>3. ASSUME NEW i \in Stream, pw'[i] # None, ~Owned(i)'
      PROVE  \E y \in Task : HoldsStream(job'[y], i, AllPcs)
  <2>1. CASE Owned(i) \/ HoldsStream(job[x], i, AllPcs)
    BY <1>3, <2>1
  <2>2. CASE pw[i] # None /\ ~Owned(i) /\ ~HoldsStream(job[x], i, AllPcs)
    BY <2>2 DEF Releasable
  <2>3. QED
    BY <1>3, <2>1, <2>2
<1>4. QED
  BY <1>1, <1>2, <1>3 DEF Releasable

(* Where no table shrinks under a live session and the task x has nothing  *)
(* in hand.                                                                *)
LEMMA ReleasableQuiet ==
  ASSUME ResTypeOK, Releasable, NEW x \in Task,
         \A y \in Task \ {x} : job'[y] = job[y],
         \/ job'[x] = job[x]
         \/ job[x].pc \notin AllPcs,
         Live \subseteq Live', \A h \in Live : own'[h] = own[h],
         \A h \in eis' : h \in eis \/ h \in Live',
         UNCHANGED <<active, pw>>
  PROVE  Releasable'
<1>1. \A i \in Stream : Owned(i) => Owned(i)'
  BY DEF Owned
<1>2. \A h \in Handle : HoldsContext(job[x], h) => HoldsContext(job'[x], h)
  BY DEF HoldsContext, AllPcs
<1>3. \A i \in Stream, pcs \in {AllPcs, CapturePcs} :
        HoldsStream(job[x], i, pcs) => HoldsStream(job'[x], i, pcs)
  BY DEF HoldsStream, AllPcs, CapturePcs
<1>4. eis \subseteq Handle /\ active \subseteq Stream
  BY DEF ResTypeOK
<1>5. QED
  BY <1>1, <1>2, <1>3, <1>4, ReleasableKept

LEMMA StepKeepsFresh ==
  ASSUME RInv, StartsFresh, Faults \cap Leaky = {}, [ResNext]_vars
  PROVE  StartsFresh'
<1> USE DEF RInv
<1>0. TypeOK
  BY DEF IInv
<1>1. smLock = Free => \A t \in Task : job[t].pc # "starting"
  BY TaskAssumption DEF StableUnderLock
<1>2. ASSUME NEW x \in Task, \A y \in Task \ {x} : job'[y] = job[y],
             job'[x].pc # "starting",
             UNCHANGED sessions \/ \A y \in Task \ {x} : job[y].pc # "starting",
             \A h \in Live' : sessions'[h].state = "Init" =>
               own'[h] = {} \/ (h \in Live /\ sessions[h].state = "Init" /\ own'[h] = own[h])
      PROVE  StartsFresh'
  BY <1>2 DEF StartsFresh
<1>3. ASSUME NEW t \in Task, NEW h \in Handle, NEW s \in Sender, CallCreate(t, h, s)
      PROVE  StartsFresh'
  <2> DEFINE j == [Do("create", h) EXCEPT !.sender = s]
  <2>1. j \in Job /\ j.pc = "create" /\ t \in Task
    BY DEF Do, Idle, Job, Pc
  <2>2. Becomes(t, j) /\ Live' = Live /\ UNCHANGED <<sessions, own>>
    BY <1>3, FewerSessions DEF CallCreate, resVars
  <2>3. QED
    BY <1>2, <2>1, <2>2, OneJobChanges
<1>4. ASSUME NEW t \in Task, NEW a \in App, RunCreate(t, a)
      PROVE  StartsFresh'
  <2>1. /\ Idle \in Job /\ Idle.pc = "idle" /\ t \in Task /\ Becomes(t, Idle)
        /\ \A y \in Task : job[y].pc # "starting"
    BY <1>1, <1>4, JobTypes DEF RunCreate, LockedSection, Idle
  <2>2. CASE UNCHANGED <<smVars, own>>
    BY <1>2, <2>1, <2>2, OneJobChanges, FewerSessions
  <2>3. CASE CreateSession(job[t].h, job[t].sender, a) /\ own' = [own EXCEPT ![job[t].h] = {}]
    <3>1. /\ job[t].h \in Handle /\ Live' \subseteq Live \cup {job[t].h}
          /\ \A g \in Live : sessions'[g] = sessions[g]
      BY <1>4, <2>1, <2>3 DEF RunCreate, JobInv, JobsNamed, CreateSession, Live, IInv, TypeOK
    <3>2. own'[job[t].h] = {} /\ \A h \in Live : own'[h] \in {own[h], {}}
      BY <2>3, <3>1 DEF ResTypeOK, Live
    <3>3. QED
      BY <1>2, <2>1, <3>1, <3>2, OneJobChanges
  <2>4. QED
    BY <1>4, <2>2, <2>3 DEF RunCreate
<1>5. ASSUME NEW t \in Task, NEW h \in Handle, NEW ids \in SUBSET Stream, StartStreams(t, h, ids)
      PROVE  StartsFresh'
  <2> DEFINE j == [Do("starting", h) EXCEPT !.ids = ids]
  <2>1. /\ j.pc = "starting" /\ j.h = h /\ j.ids = ids
        /\ h \in Live /\ Live' = Live /\ sessions' = sessions /\ own' = own
        /\ job'[t] = j /\ \A y \in Task \ {t} : job'[y] = job[y]
    BY <1>5, StartMade DEF Leaky
  <2>2. sessions[h].state = "Init" /\ (ids # {} => sessions[h].sources)
    BY <1>5 DEF StartStreams, Leaky
  <2> HIDE DEF j
  <2>3. QED
    BY <2>1, <2>2 DEF StartsFresh
<1>6. ASSUME NEW t \in Task, StartCommit(t)
      PROVE  StartsFresh'
  <2>1. /\ Idle \in Job /\ Idle.pc = "idle" /\ t \in Task /\ Becomes(t, Idle)
        /\ \A y \in Task \ {t} : job[y].pc # "starting"
    BY <1>6, JobTypes DEF StartCommit, Idle, StableUnderLock
  <2>2. CASE UNCHANGED <<smVars, own>>
    BY <1>2, <2>1, <2>2, OneJobChanges, FewerSessions
  <2>3. CASE Start(job[t].h) /\ own' = [own EXCEPT ![job[t].h] = job[t].ids]
    <3> DEFINE h == job[t].h
    <3>1. h \in Handle /\ h \in Live
      BY <2>3 DEF Start, Live
    <3>2. Live' = Live /\ \A g \in Live \ {h} : sessions'[g] = sessions[g] /\ own'[g] = own[g]
      BY <1>0, <2>3, <3>1, InPlace DEF ResTypeOK, Live
    <3>3. sessions'[h].state = "Started"
      BY <1>0, <2>3, <3>1 DEF Start, TypeOK, Session, Live
    <3>4. QED
      BY <1>2, <2>1, <3>2, <3>3, OneJobChanges
  <2>4. QED
    BY <1>6, <2>2, <2>3 DEF StartCommit
<1>7. ASSUME NEW t \in Task, NEW h \in Handle, RemoteDesktopConnect(t, h)
      PROVE  StartsFresh'
  <2>1. /\ Do("connecting", h) \in Job /\ t \in Task /\ Do("connecting", h).pc = "connecting"
    BY DEF Do, Idle, Job, Pc
  <2>2. Becomes(t, Do("connecting", h)) /\ Live' = Live /\ UNCHANGED <<sessions, own>>
    BY <1>7, FewerSessions DEF RemoteDesktopConnect, resVars
  <2>3. QED
    BY <1>2, <2>1, <2>2, OneJobChanges
<1>8. ASSUME NEW t \in Task, CreateContext(t)
      PROVE  StartsFresh'
  <2>1. t \in Task /\ job[t] \in Job /\ Live' = Live /\ UNCHANGED <<sessions, own>>
    BY <1>8, FewerSessions DEF CreateContext, ResTypeOK
  <2>2. CASE Becomes(t, Idle)
    BY <1>2, <2>1, <2>2, OneJobChanges, JobTypes DEF Idle
  <2>3. CASE Becomes(t, [job[t] EXCEPT !.pc = "relock"])
    <3> DEFINE j == [job[t] EXCEPT !.pc = "relock"]
    <3>1. j \in Job /\ j.pc = "relock"
      BY <2>1 DEF Job, Pc
    <3>2. QED
      BY <1>2, <2>1, <2>3, <3>1, OneJobChanges
  <2>4. QED
    BY <1>8, <2>2, <2>3 DEF CreateContext
<1>9. ASSUME NEW t \in Task, NEW h \in Handle, Close(t, h)
      PROVE  StartsFresh'
  <2>1. /\ t \in Task /\ own' = own
        /\ \A y \in Task : job[y].pc # "starting"
        /\ Live' \subseteq Live /\ \A g \in Live' : sessions'[g] = sessions[g]
    BY <1>1, <1>9, FewerSessions DEF Close, CloseSession, resVars, LockedSection
  <2>2. PICK j \in Job : Becomes(t, j) /\ j.pc # "starting"
    <3> DEFINE i == [Do("input", h) EXCEPT !.ids = own[h]]
               u == Do("unregister", h)
    <3>1. i \in Job /\ i.pc = "input" /\ u \in Job /\ u.pc = "unregister"
      BY DEF Do, Idle, Job, Pc, ResTypeOK
    <3>2. Becomes(t, i) \/ Becomes(t, u)
      BY <1>9 DEF Close
    <3>3. QED
      BY <3>1, <3>2
  <2>3. QED
    BY <1>2, <2>1, <2>2, OneJobChanges
<1>10. ASSUME NEW x \in Task, Teardown(x)
       PROVE  StartsFresh'
  <2>1. Live' = Live /\ UNCHANGED <<sessions, own>>
    BY <1>10, FewerSessions DEF Teardown, DestroyContext, DestroyCapture, DestroyStream, Unregister
  <2>2. QED
    BY <1>2, <1>10, <2>1, TeardownInHand
<1>11. ASSUME NEW h \in Handle, Select(h) \/ InputCaptureConnect(h)
       PROVE  StartsFresh'
  <2>1. smLock = Free /\ UNCHANGED <<job, own>>
    BY <1>11 DEF Select, InputCaptureConnect, LockedSection, resVars
  <2>2. Live' = Live /\ h \in Live /\ \A g \in Live \ {h} : sessions'[g] = sessions[g]
    BY <1>0, <1>11, InPlace DEF Select, InputCaptureConnect
  <2>3. sessions'[h].state = sessions[h].state
    BY <1>0, <1>11, <2>2
       DEF Select, InputCaptureConnect, SelectDevices, SelectSources, ConnectToEis, TypeOK, Session, Live
  <2>4. QED
    BY <1>1, <2>1, <2>2, <2>3 DEF StartsFresh
<1>12. CASE UNCHANGED vars \/ (\E s \in Sender : Disconnect(s) \/ NameOwnerChanged(s))
  BY <1>12 DEF vars, smVars, resVars, Disconnect, NameOwnerChanged, StartsFresh, Live
<1>13. ~PeriodicCleanup /\ ~Time /\ \A h \in Handle : ~RequestClose(h)
  BY DEF PeriodicCleanup, Time, RequestClose, Leaky
<1>14. QED
  BY <1>3, <1>4, <1>5, <1>6, <1>7, <1>8, <1>9, <1>10, <1>11, <1>12, <1>13
     DEF ResNext, ClientCall, Proceed

LEMMA StepKeepsReleasable ==
  ASSUME RInv, StartsFresh, Releasable, Faults \cap Leaky = {}, [ResNext]_vars
  PROVE  Releasable'
<1> USE DEF RInv
<1>0. TypeOK /\ eis \subseteq Handle /\ active \subseteq Stream
  BY DEF IInv, ResTypeOK
<1>1. ASSUME UNCHANGED <<job, own, active, pw>>, Live \subseteq Live',
             \A h \in eis' : h \in eis \/ h \in Live'
      PROVE  Releasable'
  <2>1. \A i \in Stream : Owned(i) => Owned(i)'
    BY <1>1 DEF Owned
  <2>2. QED
    BY <1>0, <1>1, <2>1 DEF Releasable
<1>2. ASSUME NEW x \in Task, NEW j \in Job, Becomes(x, j),
             job[x].pc \notin AllPcs,
             Live \subseteq Live', \A h \in Live : own'[h] = own[h],
             \A h \in eis' : h \in eis \/ h \in Live', UNCHANGED <<active, pw>>
      PROVE  Releasable'
  BY <1>2, ReleasableQuiet, OneJobChanges
<1>3. Idle.pc = "idle" /\ Idle \in Job
  BY JobTypes DEF Idle
<1>4. ASSUME NEW t \in Task, NEW h \in Handle,
             (\E s \in Sender : CallCreate(t, h, s)) \/ RemoteDesktopConnect(t, h)
      PROVE  Releasable'
  <2>1. PICK j \in Job : Becomes(t, j)
    <3>1. \A s \in Sender : [Do("create", h) EXCEPT !.sender = s] \in Job
      BY DEF Do, Idle, Job, Pc
    <3>2. Do("connecting", h) \in Job
      BY JobTypes DEF Pc
    <3>3. QED
      BY <1>4, <3>1, <3>2 DEF CallCreate, RemoteDesktopConnect
  <2>2. job[t] = Idle /\ Live' = Live /\ UNCHANGED <<own, eis, active, pw>>
    BY <1>4, FewerSessions DEF CallCreate, RemoteDesktopConnect, resVars
  <2>3. QED
    BY <1>2, <1>3, <2>1, <2>2 DEF AllPcs
<1>5. ASSUME NEW t \in Task, NEW a \in App, RunCreate(t, a)
      PROVE  Releasable'
  <2>1. Becomes(t, Idle) /\ job[t].pc = "create" /\ UNCHANGED <<active, pw, eis>>
    BY <1>5 DEF RunCreate
  <2>2. CASE UNCHANGED <<smVars, own>>
    BY <1>2, <1>3, <2>1, <2>2, FewerSessions DEF AllPcs
  <2>3. CASE CreateSession(job[t].h, job[t].sender, a) /\ own' = [own EXCEPT ![job[t].h] = {}]
    <3>1. Live \subseteq Live' /\ \A h \in Live : own'[h] = own[h]
      BY <1>0, <2>3 DEF CreateSession, Live, TypeOK, NewSession, ResTypeOK, IInv
    <3>2. QED
      BY <1>2, <1>3, <2>1, <3>1 DEF AllPcs
  <2>4. QED
    BY <1>5, <2>2, <2>3 DEF RunCreate
<1>6. ASSUME NEW t \in Task, NEW h \in Handle, NEW ids \in SUBSET Stream, StartStreams(t, h, ids)
      PROVE  Releasable'
  <2> DEFINE j == [Do("starting", h) EXCEPT !.ids = ids]
  <2>1. /\ j.pc = "starting" /\ j.ids = ids
        /\ h \in Live /\ Live' = Live /\ own' = own
        /\ job'[t] = j /\ \A y \in Task \ {t} : job'[y] = job[y]
    BY <1>6, StartMade DEF Leaky
  <2>2. /\ job[t] = Idle /\ active' = active \cup ids /\ eis' = eis
        /\ \A i \in Stream : pw'[i] = IF i \in ids THEN h ELSE pw[i]
    BY <1>6 DEF StartStreams
  <2> HIDE DEF j
  <2>3. /\ \A i \in Stream, pcs \in {AllPcs, CapturePcs} : ~HoldsStream(job[t], i, pcs)
        /\ \A g : ~HoldsContext(job[t], g)
    BY <2>2, IdleHoldsNothing DEF AllPcs, CapturePcs
  <2>4. \A i \in ids, pcs \in {AllPcs, CapturePcs} : HoldsStream(job'[t], i, pcs)
    BY <2>1 DEF HoldsStream, AllPcs, CapturePcs
  <2>5. \A i \in Stream : Owned(i) => Owned(i)'
    BY <2>1 DEF Owned
  <2>6. QED
    BY <1>0, <2>1, <2>2, <2>3, <2>4, <2>5, ReleasableKept
<1>7. ASSUME NEW t \in Task, StartCommit(t)
      PROVE  Releasable'
  <2>1. /\ job[t].pc = "starting" /\ t \in Task /\ job'[t] = Idle
        /\ \A y \in Task \ {t} : job'[y] = job[y]
        /\ UNCHANGED <<active, pw, eis>>
        /\ job[t].h \in Live /\ sessions[job[t].h].state = "Init"
        /\ job[t].ids # {} => sessions[job[t].h].sources
    BY <1>3, <1>7, OneJobChanges DEF StartCommit, StableUnderLock, StartsFresh
  <2>2. \A i \in Stream, pcs \in {AllPcs, CapturePcs} : HoldsStream(job[t], i, pcs) <=> i \in job[t].ids
    BY <2>1 DEF HoldsStream, AllPcs, CapturePcs
  <2>3. \A h : ~HoldsContext(job[t], h)
    BY <2>1 DEF HoldsContext
  <2>4. Live' = Live /\ \A i \in Stream : Owned(i) \/ i \in job[t].ids => Owned(i)'
    <3>1. CASE ~CanStart(sessions[job[t].h]) /\ UNCHANGED <<smVars, own>>
      <4>1. job[t].ids = {} /\ Live' = Live
        BY <2>1, <3>1, FewerSessions DEF CanStart
      <4>2. QED
        BY <3>1, <4>1 DEF Owned
    <3>2. CASE Start(job[t].h) /\ own' = [own EXCEPT ![job[t].h] = job[t].ids]
      <4> DEFINE h == job[t].h
      <4>1. Live' = Live /\ h \in Handle
        BY <1>0, <2>1, <3>2, InPlace DEF Live
      <4>2. own[h] = {} /\ own'[h] = job[t].ids /\ \A g \in Live \ {h} : own'[g] = own[g]
        BY <2>1, <3>2, <4>1 DEF StartsFresh, ResTypeOK, Live
      <4>3. QED
        BY <2>1, <4>1, <4>2 DEF Owned
    <3>3. QED
      BY <1>7, <3>1, <3>2 DEF StartCommit
  <2>5. QED
    BY <1>0, <2>1, <2>2, <2>3, <2>4, ReleasableKept
<1>8. ASSUME NEW t \in Task, CreateContext(t)
      PROVE  Releasable'
  <2>1. /\ job[t] \in Job /\ job[t].pc = "connecting" /\ job[t].h \in Live
        /\ Live' = Live /\ UNCHANGED <<own, active, pw>>
        /\ eis' \in {eis, eis \cup {job[t].h}}
    BY <1>8, FewerSessions DEF CreateContext, ResTypeOK, StableUnderLock
  <2>2. PICK j \in Job : Becomes(t, j)
    <3>1. [job[t] EXCEPT !.pc = "relock"] \in Job
      BY <2>1 DEF Job, Pc
    <3>2. QED
      BY <1>3, <1>8, <3>1 DEF CreateContext
  <2>3. QED
    BY <1>2, <2>1, <2>2 DEF AllPcs
<1>9. ASSUME NEW t \in Task, NEW h \in Handle, Close(t, h)
       PROVE  Releasable'
  <2>1. job[t] = Idle /\ UNCHANGED <<own, active, pw, eis>>
    BY <1>9 DEF Close, resVars
  <2>2. CASE CloseSession(h) /\ Becomes(t, [Do("input", h) EXCEPT !.ids = own[h]])
    <3> DEFINE j == [Do("input", h) EXCEPT !.ids = own[h]]
    <3>1. j \in Job /\ j.pc = "input" /\ j.h = h /\ j.ids = own[h]
      BY DEF Do, Idle, Job, Pc, ResTypeOK
    <3>2. h \in Live /\ Live' = Live \ {h}
      BY <2>2, FewerSessions DEF CloseSession
    <3>3. job'[t] = j /\ \A y \in Task \ {t} : job'[y] = job[y]
      BY <2>2, <3>1, OneJobChanges
    <3>4. HoldsContext(job'[t], h)
      BY <3>1, <3>3 DEF HoldsContext
    <3>5. \A i \in own[h], pcs \in {AllPcs, CapturePcs} : HoldsStream(job'[t], i, pcs)
      BY <3>1, <3>3 DEF HoldsStream, AllPcs, CapturePcs
    <3>6. /\ \A i \in Stream, pcs \in {AllPcs, CapturePcs} : ~HoldsStream(job[t], i, pcs)
          /\ \A g : ~HoldsContext(job[t], g)
      BY <2>1, IdleHoldsNothing DEF AllPcs, CapturePcs
    <3>7. \A i \in Stream : Owned(i) => Owned(i)' \/ i \in own[h]
      BY <2>1, <3>2 DEF Owned
    <3> HIDE DEF j
    <3>8. QED
      BY <1>0, <2>1, <3>2, <3>3, <3>4, <3>5, <3>6, <3>7, ReleasableKept
  <2>3. CASE Becomes(t, Do("unregister", h)) /\ UNCHANGED smVars
    <3>1. Do("unregister", h) \in Job /\ Live' = Live
      BY <2>3, JobTypes, FewerSessions DEF Pc
    <3>2. QED
      BY <1>2, <1>3, <2>1, <2>3, <3>1 DEF AllPcs
  <2>4. QED
    BY <1>9, <2>2, <2>3 DEF Close
<1>10. ASSUME NEW x \in Task, Teardown(x)
       PROVE  Releasable'
  <2>1. Live' = Live /\ own' = own
    BY <1>10, FewerSessions DEF Teardown, DestroyContext, DestroyCapture, DestroyStream, Unregister
  <2>2. \A i \in Stream : Owned(i) => Owned(i)'
    BY <2>1 DEF Owned
  <2>3. /\ \A y \in Task \ {x} : job'[y] = job[y]
        /\ \A h \in Handle : HoldsContext(job[x], h) => HoldsContext(job'[x], h) \/ h \notin eis'
        /\ \A i \in Stream : HoldsStream(job[x], i, CapturePcs) =>
             HoldsStream(job'[x], i, CapturePcs) \/ i \notin active'
        /\ \A i \in Stream : HoldsStream(job[x], i, AllPcs) =>
             HoldsStream(job'[x], i, AllPcs) \/ pw'[i] = None
        /\ eis' \subseteq eis /\ active' \subseteq active
        /\ \A i \in Stream : pw'[i] \in {pw[i], None}
    BY <1>10, TeardownInHand
  <2>4. QED
    BY <1>0, <2>1, <2>2, <2>3, ReleasableKept
<1>11. ASSUME NEW h \in Handle, Select(h) \/ InputCaptureConnect(h)
       PROVE  Releasable'
  <2>1. Live' = Live /\ h \in Live
    BY <1>0, <1>11, InPlace DEF Select, InputCaptureConnect
  <2>2. UNCHANGED <<job, own, active, pw>> /\ eis' \in {eis, eis \cup {h}}
    BY <1>11 DEF Select, InputCaptureConnect, resVars
  <2>3. QED
    BY <1>1, <2>1, <2>2
<1>12. CASE UNCHANGED vars \/ (\E s \in Sender : Disconnect(s) \/ NameOwnerChanged(s))
  <2>1. Live' = Live /\ UNCHANGED <<job, own, active, pw, eis>>
    BY <1>12, FewerSessions DEF vars, resVars, Disconnect, NameOwnerChanged
  <2>2. QED
    BY <1>1, <2>1
<1>13. ~PeriodicCleanup /\ ~Time /\ \A h \in Handle : ~RequestClose(h)
  BY DEF PeriodicCleanup, Time, RequestClose, Leaky
<1>14. QED
  BY <1>4, <1>5, <1>6, <1>7, <1>8, <1>9, <1>10, <1>11, <1>12, <1>13
     DEF ResNext, ClientCall, Proceed

LEMMA ReleasableInit == ResInit => StartsFresh /\ Releasable
<1> SUFFICES ASSUME ResInit PROVE StartsFresh /\ Releasable
  OBVIOUS
<1>1. Live = {} /\ \A t \in Task : job[t].pc # "starting"
  BY DEF ResInit, Init, Live, Idle
<1>2. QED
  BY <1>1 DEF ResInit, StartsFresh, Releasable

(* Every context and stream is a live session's, or a Start's or           *)
(* teardown's under way, if no session leaves the registry by another way  *)
(* than Close and no Start fails half way or is repeated.                  *)
THEOREM NothingIsLeaked == Faults \cap Leaky = {} => (ResSpec => []NothingLeaked)
<1> SUFFICES ASSUME Faults \cap Leaky = {} PROVE ResSpec => []NothingLeaked
  OBVIOUS
<1> DEFINE I == RInv /\ StartsFresh /\ Releasable
<1>1. ResInit => I
  BY ResInitRInv, ServedInit, ReleasableInit
<1>2. I /\ [ResNext]_vars => I'
  BY ResNextRInv, StepKeepsFresh, StepKeepsReleasable
<1>3. I => NothingLeaked
  BY ReleasableIsNotLeaked
<1>4. QED
  BY <1>1, <1>2, <1>3, PTL DEF ResSpec

-----------------------------------------------------------------------------
(* Sessions and their objects.                                             *)
HoldsObject(j, h) == j.pc \in TeardownPc /\ j.h = h

Objects ==
  /\ Live \subseteq object
  /\ \A h \in object : h \in Live \/ \E x \in Task : HoldsObject(job[x], h)

LEMMA ObjectsTrack == Objects <=> ObjectTracksSession
BY DEF Objects, ObjectTracksSession, Pending, HoldsObject, TeardownPc

Unclosed == {"request_close", "stale_cleanup"}

LEMMA ObjectsKept ==
  ASSUME Objects, object \subseteq Handle, Live' \subseteq object', NEW x \in Task,
         \A y \in Task \ {x} : job'[y] = job[y],
         \A h \in object' : h \in object \/ h \in Live',
         \A h \in Handle : h \in Live \/ HoldsObject(job[x], h) =>
           h \in Live' \/ HoldsObject(job'[x], h) \/ h \notin object'
  PROVE  Objects'
<1>1. ASSUME NEW h \in object', h \notin Live'
      PROVE  \E y \in Task : HoldsObject(job'[y], h)
  <2>1. h \in object /\ h \in Handle
    BY <1>1
  <2>2. CASE h \in Live \/ HoldsObject(job[x], h)
    BY <1>1, <2>1, <2>2
  <2>3. CASE h \notin Live /\ ~HoldsObject(job[x], h)
    BY <2>1, <2>3 DEF Objects
  <2>4. QED
    BY <2>2, <2>3
<1>2. QED
  BY <1>1 DEF Objects

(* A teardown has its object in hand until it takes it off the bus.        *)
LEMMA TeardownKeepsObjects ==
  ASSUME ResTypeOK, JobInv, FreshHandles, Objects, NEW x \in Task, Teardown(x)
  PROVE  Objects'
<1>1. Live' = Live /\ object \subseteq Handle /\ object' \subseteq object /\ job[x] \in Job
  BY FewerSessions DEF ResTypeOK, Teardown, DestroyContext, DestroyCapture, DestroyStream, Unregister
<1>2. \A y \in Task \ {x} : job'[y] = job[y]
  BY TeardownInHand
<1>3. CASE Unregister(x)
  <2>1. job[x].pc = "unregister" /\ object' = object \ {job[x].h}
    BY <1>3 DEF Unregister
  <2>2. job[x].h \notin Live
    BY <2>1 DEF JobInv, TornDownIsGone, TeardownPc
  <2>3. Live' \subseteq object'
    BY <1>1, <2>1, <2>2 DEF Objects
  <2>4. \A h \in Handle : h \in Live \/ HoldsObject(job[x], h) => h \in Live' \/ h \notin object'
    BY <1>1, <2>1 DEF HoldsObject
  <2>5. QED
    BY <1>1, <1>2, <2>3, <2>4, ObjectsKept
<1>4. CASE ~Unregister(x)
  <2>1. PICK j \in Job : Becomes(x, j) /\ j.pc \in TeardownPc /\ j.h = job[x].h
    <3>1. CASE DestroyContext(x)
      BY <1>1, <3>1 DEF DestroyContext, TeardownPc, Job, Pc
    <3>2. CASE DestroyCapture(x)
      BY <1>1, <3>2 DEF DestroyCapture, TeardownPc, Job, Pc
    <3>3. ASSUME NEW i \in Stream, DestroyStream(x, i)
          PROVE  \E j \in Job : Becomes(x, j) /\ j.pc \in TeardownPc /\ j.h = job[x].h
      <4> DEFINE j == [job[x] EXCEPT !.ids = @ \ {i},
                                     !.pc = IF job[x].ids = {i} THEN "unregister" ELSE "pipewire"]
      <4>1. j \in Job /\ j.pc \in TeardownPc /\ j.h = job[x].h
        BY <1>1 DEF TeardownPc, Job, Pc
      <4>2. Becomes(x, j)
        BY <3>3 DEF DestroyStream
      <4>3. QED
        BY <4>1, <4>2
    <3>4. QED
      BY <1>4, <3>1, <3>2, <3>3 DEF Teardown
  <2>2. job'[x] = j /\ object' = object
    BY <1>4, <2>1, OneJobChanges DEF Teardown, DestroyContext, DestroyCapture, DestroyStream
  <2>3. QED
    BY <1>1, <1>2, <2>1, <2>2, ObjectsKept DEF HoldsObject, Objects
<1>5. QED
  BY <1>3, <1>4

LEMMA StepKeepsObjects ==
  ASSUME RInv, Objects, FreshHandles, Faults \cap Unclosed = {}, [ResNext]_vars
  PROVE  Objects'
<1> USE DEF RInv
<1>0. TypeOK /\ object \subseteq Handle
  BY DEF IInv, ResTypeOK
<1>1. ASSUME UNCHANGED <<job, object>>, Live' = Live
      PROVE  Objects'
  BY <1>1 DEF Objects
<1>2. ASSUME NEW t \in Task, NEW j \in Job, Becomes(t, j), job[t].pc \notin TeardownPc,
             Live' = Live \/ \E h \in Handle : Live' \subseteq Live \cup {h} /\ Live \subseteq Live'
                                          /\ h \in object',
             object \subseteq object', \A h \in object' : h \in object \/ h \in Live'
      PROVE  Objects'
  <2>1. /\ t \in Task /\ \A y \in Task \ {t} : job'[y] = job[y]
    BY <1>2, OneJobChanges
  <2>2. \A h : ~HoldsObject(job[t], h)
    BY <1>2, <2>1 DEF HoldsObject
  <2>3. Live' \subseteq object' /\ Live \subseteq Live'
    BY <1>2 DEF Objects
  <2>4. QED
    BY <1>0, <1>2, <2>1, <2>2, <2>3, ObjectsKept
<1>3. Idle \in Job /\ Idle.pc \notin TeardownPc
  BY JobTypes DEF Idle, TeardownPc
<1>4. ASSUME NEW t \in Task, NEW h \in Handle,
             \/ \E s \in Sender : CallCreate(t, h, s)
             \/ RemoteDesktopConnect(t, h)
             \/ \E ids \in SUBSET Stream : StartStreams(t, h, ids)
      PROVE  Objects'
  <2>1. (\E j \in Job : Becomes(t, j)) \/ UNCHANGED job
    <3>1. /\ \A s \in Sender : [Do("create", h) EXCEPT !.sender = s] \in Job
          /\ \A ids \in SUBSET Stream : [Do("starting", h) EXCEPT !.ids = ids] \in Job
          /\ Do("connecting", h) \in Job
      BY DEF Do, Idle, Job, Pc
    <3>2. \/ \E s \in Sender : Becomes(t, [Do("create", h) EXCEPT !.sender = s])
          \/ Becomes(t, Do("connecting", h))
          \/ \E ids \in SUBSET Stream : Becomes(t, [Do("starting", h) EXCEPT !.ids = ids])
          \/ UNCHANGED job
      BY <1>4 DEF CallCreate, RemoteDesktopConnect, StartStreams
    <3>3. QED
      BY <3>1, <3>2
  <2>2. job[t] = Idle /\ Live' = Live /\ object' = object
    BY <1>4, FewerSessions DEF CallCreate, RemoteDesktopConnect, StartStreams, resVars
  <2>3. QED
    BY <1>1, <1>2, <1>3, <2>1, <2>2
<1>5. ASSUME NEW t \in Task, NEW a \in App, RunCreate(t, a)
      PROVE  Objects'
  <2>1. Becomes(t, Idle) /\ job[t].pc = "create"
    BY <1>5 DEF RunCreate
  <2>2. CASE UNCHANGED <<smVars, object>>
    BY <1>2, <1>3, <2>1, <2>2, FewerSessions DEF TeardownPc
  <2>3. CASE CreateSession(job[t].h, job[t].sender, a) /\ object' = object \cup {job[t].h}
    <3>1. /\ job[t].h \in Handle /\ Live' = Live \cup {job[t].h}
      <4>1. job[t].h \in Handle /\ job[t].sender \in Sender
        BY <1>5 DEF RunCreate, JobInv, JobsNamed
      <4>2. sessions' = [sessions EXCEPT ![job[t].h] = NewSession(job[t].sender, a)]
        BY <2>3 DEF CreateSession
      <4>3. NewSession(job[t].sender, a) \in Session
        BY <4>1 DEF NewSession, Session, SessionState
      <4>4. NewSession(job[t].sender, a) # None
        BY <4>3, NoneAssumption
      <4>5. QED
        BY <1>0, <4>1, <4>2, <4>4 DEF Live, TypeOK
    <3>2. QED
      BY <1>2, <1>3, <2>1, <2>3, <3>1 DEF TeardownPc
  <2>4. QED
    BY <1>5, <2>2, <2>3 DEF RunCreate
<1>6. ASSUME NEW t \in Task, StartCommit(t) \/ CreateContext(t)
      PROVE  Objects'
  <2>1. job[t].pc \notin TeardownPc /\ object' = object /\ job[t] \in Job
    BY <1>6 DEF StartCommit, CreateContext, TeardownPc, ResTypeOK
  <2>2. \E j \in Job : Becomes(t, j)
    <3>1. [job[t] EXCEPT !.pc = "relock"] \in Job
      BY <2>1 DEF Job, Pc
    <3>2. QED
      BY <1>3, <1>6, <3>1 DEF StartCommit, CreateContext
  <2>3. Live' = Live
    <3>1. CASE UNCHANGED smVars
      BY <3>1, FewerSessions
    <3>2. CASE Start(job[t].h)
      BY <1>0, <3>2, InPlace DEF Start, Live
    <3>3. QED
      BY <1>6, <3>1, <3>2 DEF StartCommit, CreateContext
  <2>4. QED
    BY <1>2, <2>1, <2>2, <2>3
<1>7. ASSUME NEW t \in Task, NEW h \in Handle, Close(t, h)
      PROVE  Objects'
  <2>1. t \in Task /\ job[t] = Idle /\ object' = object
    BY <1>7 DEF Close, resVars
  <2>2. CASE CloseSession(h) /\ Becomes(t, [Do("input", h) EXCEPT !.ids = own[h]])
    <3> DEFINE j == [Do("input", h) EXCEPT !.ids = own[h]]
    <3>1. j \in Job /\ j.pc = "input" /\ j.h = h
      BY DEF Do, Idle, Job, Pc, ResTypeOK
    <3>2. h \in Live /\ Live' = Live \ {h}
      BY <2>2, FewerSessions DEF CloseSession
    <3>3. job'[t] = j /\ \A y \in Task \ {t} : job'[y] = job[y]
      BY <2>1, <2>2, <3>1, OneJobChanges
    <3>4. HoldsObject(job'[t], h) /\ \A g : ~HoldsObject(job[t], g)
      BY <1>3, <2>1, <3>1, <3>3 DEF HoldsObject, TeardownPc
    <3>5. Live' \subseteq object'
      BY <2>1, <3>2 DEF Objects
    <3> HIDE DEF j
    <3>6. QED
      BY <1>0, <2>1, <3>2, <3>3, <3>4, <3>5, ObjectsKept
  <2>3. CASE Becomes(t, Do("unregister", h)) /\ UNCHANGED smVars
    <3>1. Do("unregister", h) \in Job /\ Live' = Live
      BY <2>3, JobTypes, FewerSessions DEF Pc
    <3>2. QED
      BY <1>2, <1>3, <2>1, <2>3, <3>1
  <2>4. QED
    BY <1>7, <2>2, <2>3 DEF Close
<1>8. ASSUME NEW h \in Handle, Select(h) \/ InputCaptureConnect(h)
      PROVE  Objects'
  BY <1>0, <1>1, <1>8, InPlace DEF Select, InputCaptureConnect, resVars
<1>9. CASE UNCHANGED vars \/ (\E s \in Sender : Disconnect(s) \/ NameOwnerChanged(s))
  BY <1>1, <1>9, FewerSessions DEF vars, resVars, Disconnect, NameOwnerChanged
<1>10. ~PeriodicCleanup /\ ~Time /\ \A h \in Handle : ~RequestClose(h)
  BY DEF PeriodicCleanup, Time, RequestClose, Unclosed
<1>11. QED
  BY <1>4, <1>5, <1>6, <1>7, <1>8, <1>9, <1>10, TeardownKeepsObjects
     DEF ResNext, ClientCall, Proceed

(* A session has its object on the bus, and an object without a session is *)
(* being removed, if sessions end by Close only (server.remove in          *)
(* session.rs) and their handles are fresh.                                *)
THEOREM ObjectsTrackSessions ==
  Faults \cap (Unclosed \cup {"handle_reuse"}) = {} => (ResSpec => []ObjectTracksSession)
<1> SUFFICES ASSUME Faults \cap (Unclosed \cup {"handle_reuse"}) = {}
             PROVE  ResSpec => []ObjectTracksSession
  OBVIOUS
<1> DEFINE I == RInv /\ Objects
<1>1. Live = {} /\ object = {} => Objects
  BY DEF Objects
<1>2. ResInit => I
  BY <1>1, ResInitRInv DEF ResInit, Init, Live
<1>3. Faults \cap Unclosed = {} /\ FreshHandles
  BY DEF FreshHandles
<1>4. I /\ [ResNext]_vars => I'
  BY <1>3, ResNextRInv, StepKeepsObjects
<1>5. I => ObjectTracksSession
  BY ObjectsTrack
<1>6. QED
  BY <1>2, <1>4, <1>5, PTL DEF ResSpec
=============================================================================
