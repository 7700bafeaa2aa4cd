------------------------- MODULE InputCaptureProofs -------------------------
(***************************************************************************)
(* Theorems about InputCapture, for any number of sessions, barriers and   *)
(* activations. Each rests on an inductive invariant:                      *)
(*   TInv  types, and an id left for every activation on its way;          *)
(*   EInv  an activation is in one place at most that will end it;         *)
(*   SInv  the order in which the channel lays out and clears barriers     *)
(*         agrees with what the sessions enabled;                          *)
(*   CInv  a lock, the event of it, the activation and what the client     *)
(*         knows go together, step by step.                                *)
(***************************************************************************)
EXTENDS InputCapture, QueueLemmas, FiniteSetTheorems

Activations(s, h) == {i \in DOMAIN s : s[i].kind = "activated" /\ s[i].h = h}

(* An activation on its way to the bridge has an id left for it.           *)
IdsSuffice == \A h \in Session : nextId[h] + Cardinality(Activations(evs, h)) <= MaxId

(* The bridge at work has a session and an id.                             *)
BridgeNamed ==
  /\ bridge.pc = "idle" => bridge = Resting
  /\ bridge.pc # "idle" => bridge.h \in Session /\ bridge.id \in Id

TInv == TypeOK /\ IdsSuffice /\ BridgeNamed

-----------------------------------------------------------------------------
(* The activations on their way are finitely many, at places of the queue. *)
LEMMA ActivationsFinite ==
  ASSUME NEW s \in Seq(Event), NEW h
  PROVE  /\ IsFiniteSet(Activations(s, h)) /\ Activations(s, h) \subseteq 1..Len(s)
         /\ Cardinality(Activations(s, h)) \in Nat
<1>1. Len(s) \in Nat /\ DOMAIN s = 1..Len(s)
  BY LenProperties
<1>2. Activations(s, h) \subseteq 1..Len(s)
  BY <1>1 DEF Activations
<1>3. IsFiniteSet(1..Len(s))
  BY <1>1, FS_Interval
<1>4. QED
  BY <1>2, <1>3, FS_Subset, FS_CardinalityType

(* An event sent is an activation more, or none.                           *)
LEMMA ActivationsSent ==
  ASSUME NEW s \in Seq(Event), NEW e \in Event, NEW h
  PROVE  Cardinality(Activations(Append(s, e), h)) =
           Cardinality(Activations(s, h)) + (IF e.kind = "activated" /\ e.h = h THEN 1 ELSE 0)
<1>1. /\ Len(s) \in Nat /\ DOMAIN s = 1..Len(s) /\ DOMAIN Append(s, e) = 1..(Len(s) + 1)
      /\ \A i \in 1..Len(s) : Append(s, e)[i] = s[i]
      /\ Append(s, e)[Len(s) + 1] = e
  BY Sent
<1>2. IsFiniteSet(Activations(s, h)) /\ Len(s) + 1 \notin Activations(s, h)
  BY <1>1, ActivationsFinite
<1>3. CASE e.kind = "activated" /\ e.h = h
  <2>1. Activations(Append(s, e), h) = Activations(s, h) \cup {Len(s) + 1}
    <3> DEFINE t == Append(s, e)
               n == Len(s) + 1
    <3>1. 1..n = (1..Len(s)) \cup {n} /\ t[n] = e /\ DOMAIN t = 1..n /\ DOMAIN s = 1..Len(s)
      BY <1>1
    <3>2. \A i \in 1..Len(s) : t[i] = s[i]
      BY <1>1
    <3> HIDE DEF t, n
    <3>3. Activations(t, h) = Activations(s, h) \cup {n}
      BY <1>3, <3>1, <3>2 DEF Activations
    <3>4. QED
      BY <3>3 DEF t, n
  <2> DEFINE A == Activations(s, h)
             n == Len(s) + 1
  <2>2. Cardinality(A \cup {n}) = Cardinality(A) + 1
    <3>1. IsFiniteSet(A) /\ n \notin A
      BY <1>2
    <3> HIDE DEF A, n
    <3>2. QED
      BY <3>1, FS_AddElement
  <2>3. QED
    BY <1>3, <2>1, <2>2
<1>4. CASE ~(e.kind = "activated" /\ e.h = h)
  <2>1. Activations(Append(s, e), h) = Activations(s, h)
    BY <1>1, <1>4 DEF Activations
  <2>2. QED
    BY <1>4, <2>1, ActivationsFinite
<1>5. QED
  BY <1>3, <1>4

(* An event received is an activation less, or none.                       *)
LEMMA ActivationsReceived ==
  ASSUME NEW s \in Seq(Event), s # <<>>, NEW h
  PROVE  Cardinality(Activations(Tail(s), h)) =
           Cardinality(Activations(s, h))
             - (IF Head(s).kind = "activated" /\ Head(s).h = h THEN 1 ELSE 0)
<1> DEFINE A == Activations(s, h) \ {1}
           B == Activations(Tail(s), h)
<1>1. /\ Len(s) \in Nat \ {0} /\ DOMAIN s = 1..Len(s) /\ Head(s) = s[1]
      /\ DOMAIN Tail(s) = 1..(Len(s) - 1) /\ Tail(s) \in Seq(Event)
      /\ \A i \in 1..(Len(s) - 1) : Tail(s)[i] = s[i + 1]
  BY Received
<1>2. IsFiniteSet(Activations(s, h)) /\ Activations(s, h) \subseteq 1..Len(s)
  BY ActivationsFinite
<1>3. IsFiniteSet(A)
  BY <1>2, FS_RemoveElement
<1>4. ExistsBijection(A, B)
  <2> DEFINE f == [i \in A |-> i - 1]
  <2>1. A = {i \in 2..Len(s) : s[i].kind = "activated" /\ s[i].h = h}
    BY <1>1 DEF Activations
  <2>2. B = {i \in 1..(Len(s) - 1) : s[i + 1].kind = "activated" /\ s[i + 1].h = h}
    BY <1>1 DEF Activations
  <2>3. \A i \in A : i - 1 \in B
    BY <1>1, <2>1, <2>2
  <2>4. \A j \in B : j + 1 \in A /\ (j + 1) - 1 = j
    BY <1>1, <2>1, <2>2
  <2>5. \A i, j \in A : i - 1 = j - 1 => i = j
    BY <1>1, <2>1
  <2> HIDE DEF A, B
  <2>6. f \in [A -> B] /\ (\A i, j \in A : f[i] = f[j] => i = j) /\ \A j \in B : f[j + 1] = j
    BY <2>3, <2>4, <2>5
  <2>7. f \in Bijection(A, B)
    BY <2>4, <2>6 DEF Bijection, Injection, Surjection, IsInjective
  <2>8. QED
    BY <2>7 DEF ExistsBijection
<1>5. Cardinality(B) = Cardinality(A)
  BY <1>3, <1>4, FS_Bijection
<1>6. 1 \in Activations(s, h) <=> Head(s).kind = "activated" /\ Head(s).h = h
  BY <1>1 DEF Activations
<1>7. Cardinality(A) = IF 1 \in Activations(s, h) THEN Cardinality(Activations(s, h)) - 1
                                                  ELSE Cardinality(Activations(s, h))
  BY <1>2, FS_RemoveElement
<1>8. QED
  BY <1>2, <1>5, <1>6, <1>7, ActivationsFinite

(* What a call does next is a call, and the others go on with theirs.      *)
LEMMA OneCallChanges ==
  ASSUME TypeOK, NEW h \in Session, NEW c \in Slot, NEW k \in Call,
         call' = [call EXCEPT ![h][c] = k]
  PROVE  /\ call' \in [Session -> [Slot -> Call]]
         /\ call'[h][c] = k
         /\ \A g \in Session, d \in Slot : g # h \/ d # c => call'[g][d] = call[g][d]
BY DEF TypeOK

-----------------------------------------------------------------------------
(* A step that leaves the events and the bridge alone needs no more ids.   *)
LEMMA BoundsKept ==
  ASSUME IdsSuffice, BridgeNamed, UNCHANGED <<nextId, evs, bridge>>
  PROVE  IdsSuffice' /\ BridgeNamed'
BY DEF IdsSuffice, BridgeNamed, Activations

(* What the handlers do is well typed.                                     *)
LEMMA TypesOfCalls ==
  ASSUME TInv, NEW h \in Session, NEW c \in Slot,
         Enable(h, c) \/ Disable(h, c) \/ Release(h, c) \/ Close(h, c)
         \/ SendCommand(h, c) \/ EmitSignals(h, c)
  PROVE  TInv'
<1> USE DEF TInv
<1>1. CASE Enable(h, c) \/ Disable(h, c) \/ Release(h, c) \/ Close(h, c)
  <2>1. PICK op \in {"enable", "disable", "release", "close"}, id \in Id \cup {None},
             bars \in SUBSET Barrier : Begin(h, c, op, id, bars)
    BY <1>1 DEF Enable, Disable, Release, Close, TypeOK
  <2> DEFINE k == [op |-> op, step |-> "send", id |-> id, bars |-> bars]
  <2>2. k \in Call /\ call' = [call EXCEPT ![h][c] = k]
    BY <2>1 DEF Begin, Call
  <2>3. call' \in [Session -> [Slot -> Call]]
    BY <2>2 DEF TypeOK
  <2>4. /\ live' \subseteq Session /\ enabled' \subseteq live'
        /\ act' \in [Session -> Id \cup {None}]
        /\ UNCHANGED <<nextId, barriers>>
    BY <1>1, <2>1 DEF Enable, Disable, Release, Close, TypeOK, Begin
  <2>5. QED
    BY <2>1, <2>3, <2>4, BoundsKept DEF TypeOK, Begin, wlVars, eisVars, sigVars
<1>2. CASE SendCommand(h, c)
  <2>1. call[h][c] \in Call
    BY DEF TypeOK
  <2>2. call' \in [Session -> [Slot -> Call]]
    <3>1. PICK k \in Call : call' = [call EXCEPT ![h][c] = k]
      BY <1>2, <2>1 DEF SendCommand, Call, NoCall
    <3>2. QED
      BY <3>1 DEF TypeOK
  <2>3. cmds' \in Seq(Command) /\ Len(cmds') <= MaxQueue
    <3>1. CASE UNCHANGED cmds
      BY <3>1 DEF TypeOK
    <3>2. CASE cmds' # cmds
      <4>1. PICK m \in Command : cmds' = Append(cmds, m)
        BY <1>2, <2>1, <3>2 DEF SendCommand, Send, EndCommand, Call, Command
      <4>2. Len(cmds) < MaxQueue
        BY <1>2 DEF SendCommand
      <4>3. QED
        BY <4>1, <4>2, Sent, CaptureAssumption DEF TypeOK
    <3>3. QED
      BY <3>1, <3>2
  <2>4. /\ ctx' \in [Session -> {"none", "handshake", "receiver"}]
        /\ emulating' \subseteq Session
    BY <1>2 DEF SendCommand, TypeOK
  <2>5. QED
    BY <1>2, <2>2, <2>3, <2>4, BoundsKept DEF TypeOK, SendCommand, sesVars, wlVars, sigVars
<1>3. CASE EmitSignals(h, c)
  <2>1. call[h][c] \in Call
    BY DEF TypeOK
  <2>2. NoCall \in Call
    BY DEF NoCall, Call
  <2>3. call' \in [Session -> [Slot -> Call]]
    BY <1>3, <2>2 DEF EmitSignals, TypeOK
  <2>4. seen' \in [Session -> Id \cup {None}] /\ ended' \in [Session -> SUBSET Id]
    <3>1. CASE call[h][c].id = None
      BY <1>3, <3>1 DEF EmitSignals, TypeOK, sigVars
    <3>2. CASE call[h][c].id # None
      <4>1. call[h][c].id \in Id /\ Deactivated(h, call[h][c].id)
        BY <1>3, <2>1, <3>2 DEF EmitSignals, Call
      <4>2. QED
        BY <4>1 DEF Deactivated, TypeOK
    <3>3. QED
      BY <3>1, <3>2
  <2>5. QED
    BY <1>3, <2>3, <2>4, BoundsKept DEF TypeOK, EmitSignals, sesVars, wlVars, eisVars
<1>4. QED
  BY <1>1, <1>2, <1>3

(* So is what the client and the compositor do.                            *)
LEMMA TypesOfOthers ==
  ASSUME TInv, NEW h \in Session,
         \/ ConnectToEis(h) \/ Handshake(h) \/ HangUp(h)
         \/ \E bars \in SUBSET Barrier : SetPointerBarriers(h, bars)
         \/ Compositor(h)
  PROVE  TInv'
<1> USE DEF TInv
<1>1. CASE ConnectToEis(h) \/ Handshake(h) \/ HangUp(h)
  <2>1. UNCHANGED <<sesVars, call, cmds, wlVars, evs, bridge, sigVars>>
    BY <1>1 DEF ConnectToEis, Handshake, HangUp
  <2>2. /\ ctx' \in [Session -> {"none", "handshake", "receiver"}]
        /\ usesEis' \in [Session -> BOOLEAN] /\ emulating' \subseteq Session
    BY <1>1 DEF ConnectToEis, Handshake, HangUp, TypeOK
  <2>3. QED
    BY <2>1, <2>2, BoundsKept DEF TypeOK, sesVars, wlVars, sigVars
<1>2. CASE \E bars \in SUBSET Barrier : SetPointerBarriers(h, bars)
  BY <1>2, BoundsKept DEF SetPointerBarriers, TypeOK, wlVars, eisVars, sigVars
<1>3. CASE Compositor(h)
  <2>1. PICK b \in Barrier : \/ PointerEnter(h, b) \/ PointerLeave(h, b) \/ SurfaceClosed(h, b)
                             \/ Locked(h, b) \/ Unlocked(h, b)
    BY <1>3 DEF Compositor
  <2>2. PICK from \in SUBSET Lock, to \in Lock : LockStep(h, b, from, to)
    BY <2>1 DEF PointerEnter, PointerLeave, SurfaceClosed, Locked, Unlocked, Lock
  <2>3. surf' \in [Session -> [Barrier -> Lock]]
    BY <2>2 DEF LockStep, TypeOK
  <2>4. CASE UNCHANGED evs
    BY <2>2, <2>3, <2>4, BoundsKept DEF LockStep, TypeOK, sesVars, eisVars, sigVars
  <2>5. CASE Locked(h, b) \/ Unlocked(h, b)
    <3>1. PICK e \in Event : /\ evs' = Append(evs, e) /\ Len(evs) < MaxQueue /\ e.h = h
                             /\ Locked(h, b) \/ e.kind = "deactivated"
      <4>1. \A kind \in {"activated", "deactivated"} : [kind |-> kind, h |-> h] \in Event
        BY DEF Event
      <4>2. CASE Locked(h, b)
        BY <4>1, <4>2 DEF Locked, Report
      <4>3. CASE Unlocked(h, b)
        BY <4>1, <4>3 DEF Unlocked, Report
      <4>4. QED
        BY <2>5, <4>2, <4>3
    <3>2. evs' \in Seq(Event) /\ Len(evs') <= MaxQueue
      BY <3>1, Sent, CaptureAssumption DEF TypeOK
    <3>3. IdsSuffice'
      <4> SUFFICES ASSUME NEW g \in Session
                   PROVE  nextId[g] + Cardinality(Activations(evs', g)) <= MaxId
        BY <2>2 DEF IdsSuffice, LockStep, sesVars
      <4>0. /\ nextId[g] \in Nat /\ evs \in Seq(Event)
            /\ nextId[g] + Cardinality(Activations(evs, g)) <= MaxId
        BY DEF TypeOK, IdsSuffice
      <4>1. Cardinality(Activations(evs', g)) = Cardinality(Activations(evs, g))
              + (IF e.kind = "activated" /\ e.h = g THEN 1 ELSE 0)
        BY <3>1, <4>0, ActivationsSent
      <4>2. CASE ~(e.kind = "activated" /\ e.h = g)
        BY <4>0, <4>1, <4>2, ActivationsFinite
      <4>3. CASE e.kind = "activated" /\ e.h = g
        <5> DEFINE E == {i \in DOMAIN evs : evs[i].h = g}
        <5>1. nextId[g] + Cardinality(E) < MaxId
          BY <3>1, <4>3 DEF Locked
        <5>2. E \subseteq 1..Len(evs) /\ Len(evs) \in Nat
          BY <4>0, LenProperties
        <5>3. IsFiniteSet(E)
          BY <5>2, FS_Interval, FS_Subset
        <5>4. Activations(evs, g) \subseteq E
          BY DEF Activations
        <5>5. Cardinality(Activations(evs, g)) <= Cardinality(E) /\ Cardinality(E) \in Nat
          BY <5>3, <5>4, FS_Subset, FS_CardinalityType
        <5> HIDE DEF E
        <5>6. QED
          BY <4>0, <4>1, <4>3, <5>1, <5>5, ActivationsFinite, CaptureAssumption
      <4>4. QED
        BY <4>2, <4>3
    <3>4. QED
      BY <2>2, <2>3, <3>2, <3>3 DEF LockStep, TypeOK, BridgeNamed, sesVars, eisVars, sigVars
  <2>6. QED
    BY <2>1, <2>4, <2>5 DEF PointerEnter, PointerLeave, SurfaceClosed
<1>4. QED
  BY <1>1, <1>2, <1>3

(* So is what the Wayland thread and the bridge do.                        *)
LEMMA TypesOfThreads ==
  ASSUME TInv, RunCommand \/ BridgeTask
  PROVE  TInv'
<1> USE DEF TInv
<1>1. CASE RunCommand
  <2>1. /\ Head(cmds) \in Command /\ cmds' \in Seq(Command) /\ Len(cmds') <= MaxQueue
    BY <1>1, Received, CaptureAssumption DEF RunCommand, TypeOK
  <2>2. surf' \in [Session -> [Barrier -> Lock]] /\ orphan' \subseteq Session \X Barrier
    <3> DEFINE k == Head(cmds)
    <3>1. k.h \in Session /\ k.bars \subseteq Barrier
      BY <2>1 DEF Command
    <3>2. CASE CreateBarrierSurfaces(k.h, k.bars)
      <4>1. orphan' \subseteq Session \X Barrier
        BY <3>1, <3>2 DEF CreateBarrierSurfaces, TypeOK
      <4>2. surf' \in [Session -> [Barrier -> Lock]]
        BY <3>1, <3>2 DEF CreateBarrierSurfaces, TypeOK, Lock
      <4>3. QED
        BY <4>1, <4>2
    <3>3. CASE DestroySession(k.h) \/ ReleaseActiveLocks(k.h)
      <4>1. PICK f \in [Barrier -> Lock] : surf' = [surf EXCEPT ![k.h] = f] /\ UNCHANGED orphan
        <5>1. Unlock(k.h) \in [Barrier -> Lock] /\ [b \in Barrier |-> "none"] \in [Barrier -> Lock]
          BY DEF Unlock, Lock
        <5>2. QED
          BY <3>3, <5>1 DEF DestroySession, ReleaseActiveLocks
      <4>2. QED
        BY <3>1, <4>1 DEF TypeOK
    <3>4. QED
      BY <1>1, <3>2, <3>3 DEF RunCommand
  <2>3. QED
    BY <1>1, <2>1, <2>2, BoundsKept DEF RunCommand, TypeOK, sesVars, eisVars, sigVars
<1>2. CASE TakeActivated \/ TakeDeactivated
  <2> DEFINE h == Head(evs).h
  <2>1. /\ evs # <<>> /\ evs' = Tail(evs) /\ bridge = Resting /\ evs \in Seq(Event)
    BY <1>2 DEF TakeActivated, TakeDeactivated, TypeOK
  <2>2. /\ h \in Session /\ evs' \in Seq(Event) /\ Len(evs') <= MaxQueue
    <3>1. /\ Head(evs) \in Event /\ evs' \in Seq(Event)
          /\ Len(evs) \in Nat /\ Len(evs') = Len(evs) - 1 /\ Len(evs) <= MaxQueue
      BY <2>1, Received DEF TypeOK
    <3>2. QED
      BY <3>1, CaptureAssumption DEF Event
  <2>3. \A g \in Session :
          /\ nextId[g] + Cardinality(Activations(evs, g)) <= MaxId
          /\ Cardinality(Activations(evs, g)) \in Nat /\ Cardinality(Activations(evs', g)) \in Nat
          /\ nextId[g] \in Nat
          /\ Cardinality(Activations(evs', g)) = Cardinality(Activations(evs, g))
               - (IF Head(evs).kind = "activated" /\ h = g THEN 1 ELSE 0)
    <3>1. \A g \in Session : nextId[g] \in Nat
      BY CaptureAssumption DEF TypeOK
    <3>2. QED
      BY <2>1, <2>2, <3>1, ActivationsReceived, ActivationsFinite DEF IdsSuffice
  <2>4. CASE UNCHANGED <<act, bridge, nextId>>
    <3>1. IdsSuffice'
      BY <2>3, <2>4, CaptureAssumption DEF IdsSuffice
    <3>2. QED
      BY <1>2, <2>2, <2>4, <3>1
         DEF TakeActivated, TakeDeactivated, TypeOK, BridgeNamed, wlVars, eisVars, sigVars
  <2>5. CASE TakeActivated /\ h \in live
    <3>1. /\ act' = [act EXCEPT ![h] = nextId[h]]
          /\ nextId' = [nextId EXCEPT ![h] = nextId[h] + 1]
          /\ bridge' = [pc |-> "begun", h |-> h, id |-> nextId[h]]
          /\ Head(evs).kind = "activated"
          /\ UNCHANGED <<live, enabled, barriers, call, cmds, wlVars, eisVars, sigVars>>
      BY <2>5 DEF TakeActivated, Bridging, Bumped
    <3>2. nextId[h] \in Nat /\ nextId[h] < MaxId
      BY <2>2, <2>3, <3>1, CaptureAssumption
    <3>3. nextId[h] \in Id /\ nextId[h] + 1 \in 0..MaxId
      BY <3>2, CaptureAssumption DEF Id
    <3>4. IdsSuffice'
      <4> SUFFICES ASSUME NEW g \in Session
                   PROVE  nextId'[g] + Cardinality(Activations(evs', g)) <= MaxId
        BY DEF IdsSuffice
      <4>1. nextId'[g] = IF g = h THEN nextId[g] + 1 ELSE nextId[g]
        BY <3>1 DEF TypeOK
      <4>2. QED
        BY <2>3, <3>1, <4>1, CaptureAssumption
    <3>5. BridgeNamed'
      BY <2>2, <3>1, <3>3 DEF BridgeNamed
    <3>6. bridge' \in Bridge
      BY <2>2, <3>1, <3>3 DEF Bridge
    <3>7. QED
      BY <2>2, <3>1, <3>3, <3>4, <3>5, <3>6 DEF TypeOK, wlVars, eisVars, sigVars
  <2>6. CASE TakeDeactivated /\ h \in live /\ act[h] # None
    <3>1. /\ act' = [act EXCEPT ![h] = None]
          /\ bridge' = [pc |-> "ended", h |-> h, id |-> act[h]]
          /\ UNCHANGED <<live, enabled, nextId, barriers, call, cmds, wlVars, eisVars, sigVars>>
      BY <2>6 DEF TakeDeactivated, Bridging
    <3>2. act[h] \in Id
      BY <2>2, <2>6 DEF TypeOK
    <3>3. IdsSuffice'
      BY <2>3, <3>1, CaptureAssumption DEF IdsSuffice
    <3>4. bridge' \in Bridge /\ BridgeNamed'
      BY <2>2, <3>1, <3>2 DEF Bridge, BridgeNamed
    <3>5. QED
      BY <2>2, <3>1, <3>3, <3>4 DEF TypeOK, wlVars, eisVars, sigVars
  <2>7. QED
    BY <1>2, <2>4, <2>5, <2>6 DEF TakeActivated, TakeDeactivated
<1>3. CASE StartCapture \/ RollBack \/ EmitActivated \/ StopCapture \/ EmitDeactivated
  <2>1. bridge.h \in Session /\ bridge.id \in Id
    BY <1>3 DEF BridgeNamed, StartCapture, RollBack, EmitActivated, StopCapture, EmitDeactivated
  <2>2. bridge' = Resting \/ \E pc \in {"failed", "emit_activated", "emit_deactivated"} :
                              bridge' = [pc |-> pc, h |-> bridge.h, id |-> bridge.id]
    BY <1>3 DEF StartCapture, RollBack, EmitActivated, StopCapture, EmitDeactivated, Bridging
  <2>3. bridge' \in Bridge /\ BridgeNamed'
    BY <2>1, <2>2 DEF Bridge, BridgeNamed, Resting
  <2>4. /\ UNCHANGED <<live, enabled, nextId, barriers, call, cmds, wlVars, evs, ctx, usesEis>>
        /\ act' \in [Session -> Id \cup {None}] /\ emulating' \subseteq Session
    BY <1>3, <2>1 DEF StartCapture, RollBack, EmitActivated, StopCapture, EmitDeactivated, TypeOK,
                      sesVars, eisVars
  <2>5. seen' \in [Session -> Id \cup {None}] /\ ended' \in [Session -> SUBSET Id]
    <3>1. CASE EmitActivated \/ EmitDeactivated
      <4>1. seen' \in [Session -> Id \cup {None}]
        BY <2>1, <3>1 DEF EmitActivated, EmitDeactivated, Deactivated, TypeOK
      <4>2. \/ UNCHANGED ended
            \/ ended' = [ended EXCEPT ![bridge.h] = ended[bridge.h] \cup {bridge.id}]
        BY <3>1 DEF EmitActivated, EmitDeactivated, Deactivated
      <4>3. ended \in [Session -> SUBSET Id] /\ ended[bridge.h] \cup {bridge.id} \in SUBSET Id
        BY <2>1 DEF TypeOK
      <4>4. QED
        BY <2>1, <4>1, <4>2, <4>3
    <3>2. CASE UNCHANGED sigVars
      BY <3>2 DEF TypeOK, sigVars
    <3>3. QED
      BY <1>3, <3>1, <3>2 DEF StartCapture, RollBack, StopCapture
  <2>6. IdsSuffice'
    BY <2>4 DEF IdsSuffice, Activations
  <2>7. QED
    BY <2>3, <2>4, <2>5, <2>6 DEF TypeOK, wlVars
<1>4. QED
  BY <1>1, <1>2, <1>3 DEF BridgeTask

(* Every step keeps the types, the ids that suffice and the bridge's name. *)
LEMMA TypesKept ==
  TInv /\ [Next]_vars => TInv'
<1> SUFFICES ASSUME TInv, [Next]_vars PROVE TInv'
  OBVIOUS
<1>1. CASE UNCHANGED vars
  BY <1>1 DEF TInv, TypeOK, IdsSuffice, BridgeNamed, Activations, vars, sesVars, wlVars, eisVars,
              sigVars
<1>2. CASE Next
  BY <1>2, TypesOfCalls, TypesOfOthers, TypesOfThreads DEF Next, ClientCall, Handler
<1>3. QED
  BY <1>1, <1>2

(* So do the initial states.                                               *)
LEMMA TypesFirst ==
  Init => TInv
<1> SUFFICES ASSUME Init PROVE TInv
  OBVIOUS
<1>1. NoCall \in Call /\ Resting \in Bridge
  BY DEF NoCall, Call, Resting, Bridge
<1>2. TypeOK
  BY <1>1, CaptureAssumption DEF Init, TypeOK, Id, Lock
<1>3. IdsSuffice
  <2>1. \A h \in Session : Activations(evs, h) = {}
    BY DEF Init, Activations
  <2>2. \A h \in Session : nextId[h] = 0
    BY DEF Init
  <2>3. QED
    BY <2>1, <2>2, FS_EmptySet, CaptureAssumption DEF IdsSuffice
<1>4. BridgeNamed
  BY DEF Init, BridgeNamed, Resting
<1>5. QED
  BY <1>2, <1>3, <1>4 DEF TInv

(* Every variable has its type, and the channels keep to their bounds: an  *)
(* activation in particular always has an id.                              *)
THEOREM CaptureTypes == Spec => []TypeOK
<1>1. TInv => TypeOK
  BY DEF TInv
<1>2. QED
  BY <1>1, TypesFirst, TypesKept, PTL DEF Spec

-----------------------------------------------------------------------------
BridgeEnds(h) == bridge.h = h /\ bridge.pc \in {"ended", "emit_deactivated"}

(* The ids in use were given out, so that the next one is new.             *)
IdsUsed ==
  \A h \in Session :
    /\ \A c \in Slot : call[h][c].id # None => call[h][c].id < nextId[h]
    /\ act[h] # None => act[h] < nextId[h]
    /\ \A id \in ended[h] : id < nextId[h]
    /\ bridge.h = h => bridge.id < nextId[h]

(* An activation id is in one place: in the session, with the call that    *)
(* took it from there, with the bridge that did, or ended.                 *)
OneEnder ==
  \A h \in Session :
    /\ \A c, d \in Slot : call[h][c].id # None /\ call[h][c].id = call[h][d].id => c = d
    /\ \A c \in Slot : call[h][c].id # None =>
         /\ call[h][c].id # act[h] /\ call[h][c].id \notin ended[h]
         /\ BridgeEnds(h) => call[h][c].id # bridge.id
    /\ act[h] # None => act[h] \notin ended[h] /\ (BridgeEnds(h) => act[h] # bridge.id)
    /\ BridgeEnds(h) => bridge.id \notin ended[h]

EInv == IdsUsed /\ OneEnder

(* A call that takes the session's id, or none, leaves it to nobody else.  *)
LEMMA EndersBegin ==
  ASSUME TInv, EInv, NEW h \in Session, NEW c \in Slot,
         Enable(h, c) \/ Disable(h, c) \/ Release(h, c) \/ Close(h, c)
  PROVE  EInv'
<1>1. PICK k \in Call :
        /\ call' = [call EXCEPT ![h][c] = k]
        /\ call[h][c] = NoCall
        /\ k.id = None \/ (k.id = act[h] /\ act' = [act EXCEPT ![h] = None])
        /\ act' = act \/ act' = [act EXCEPT ![h] = None]
        /\ UNCHANGED <<nextId, bridge, ended>>
  <2>1. \A op \in {"enable", "disable", "release", "close"}, id \in Id \cup {None},
           bars \in SUBSET Barrier : [op |-> op, step |-> "send", id |-> id, bars |-> bars] \in Call
    BY DEF Call
  <2>2. act[h] \in Id \cup {None} /\ barriers[h] \in SUBSET Barrier
    BY DEF TInv, TypeOK
  <2>3. QED
    BY <2>1, <2>2 DEF Enable, Disable, Release, Close, Begin, sigVars
<1>2. /\ call'[h][c] = k
      /\ \A g \in Session, d \in Slot : g # h \/ d # c => call'[g][d] = call[g][d]
  BY <1>1 DEF TInv, TypeOK
<1>3. \A g \in Session : act'[g] = act[g] \/ (g = h /\ act'[g] = None)
  BY <1>1 DEF TInv, TypeOK
<1>4. k.id = None \/ (k.id = act[h] /\ act'[h] = None)
  BY <1>1 DEF TInv, TypeOK
<1>5. IdsUsed'
  BY <1>1, <1>2, <1>3, <1>4 DEF EInv, IdsUsed
<1>6. OneEnder'
  BY <1>1, <1>2, <1>3, <1>4 DEF EInv, OneEnder, BridgeEnds
<1>7. QED
  BY <1>5, <1>6 DEF EInv

(* A call keeps its id until it has told the client, and then gives it up. *)
LEMMA EndersEmit ==
  ASSUME TInv, EInv, NEW h \in Session, NEW c \in Slot,
         SendCommand(h, c) \/ EmitSignals(h, c)
  PROVE  EInv'
<1> DEFINE id == call[h][c].id
<1>1. PICK k \in Call :
        /\ call' = [call EXCEPT ![h][c] = k]
        /\ \/ (k.id = None \/ k.id = id) /\ UNCHANGED ended
           \/ k.id = None /\ id # None /\ ended' = [ended EXCEPT ![h] = ended[h] \cup {id}]
        /\ UNCHANGED <<nextId, bridge, act>>
  <2>1. call[h][c] \in Call /\ NoCall \in Call /\ NoCall.id = None
    BY DEF TInv, TypeOK, NoCall, Call
  <2>2. [call[h][c] EXCEPT !.step = "emit"] \in Call /\ [call[h][c] EXCEPT !.step = "emit"].id = id
    BY <2>1 DEF Call
  <2>3. CASE SendCommand(h, c)
    BY <2>1, <2>2, <2>3 DEF SendCommand, sesVars, sigVars
  <2>4. CASE EmitSignals(h, c)
    BY <2>1, <2>4 DEF EmitSignals, Deactivated, sesVars, sigVars
  <2>5. QED
    BY <2>3, <2>4
<1>2. /\ call'[h][c] = k
      /\ \A g \in Session, d \in Slot : g # h \/ d # c => call'[g][d] = call[g][d]
  BY <1>1 DEF TInv, TypeOK
<1>3. \A g \in Session :
        ended'[g] = ended[g] \/ (g = h /\ id # None /\ k.id = None /\ ended'[g] = ended[g] \cup {id})
  BY <1>1 DEF TInv, TypeOK
<1>4. IdsUsed'
  BY <1>1, <1>2, <1>3 DEF EInv, IdsUsed
<1>5. OneEnder'
  BY <1>1, <1>2, <1>3 DEF EInv, OneEnder, BridgeEnds
<1>6. QED
  BY <1>4, <1>5 DEF EInv

(* A new activation has an id of its own, and the bridge takes the id of   *)
(* one it ends from the session.                                           *)
LEMMA EndersTake ==
  ASSUME TInv, TInv', EInv, TakeActivated \/ TakeDeactivated
  PROVE  EInv'
<1> DEFINE h == Head(evs).h
<1>1. h \in Session /\ bridge = Resting
  <2>1. evs \in Seq(Event) /\ evs # <<>> /\ bridge = Resting
    BY DEF TInv, TypeOK, TakeActivated, TakeDeactivated
  <2>2. Head(evs) \in Event
    BY <2>1, Received
  <2>3. QED
    BY <2>1, <2>2 DEF Event
<1>2. \A g \in Session : bridge.h # g /\ nextId[g] \in Int /\ ended[g] \subseteq Int
  BY <1>1, CaptureAssumption DEF Resting, TInv, TypeOK, Id
<1>3. CASE UNCHANGED <<act, bridge, nextId>>
  BY <1>3 DEF EInv, IdsUsed, OneEnder, BridgeEnds, TakeActivated, TakeDeactivated, sigVars
<1>4. CASE TakeActivated /\ h \in live
  <2>1. /\ act' = [act EXCEPT ![h] = nextId[h]]
        /\ nextId' = [nextId EXCEPT ![h] = nextId[h] + 1]
        /\ bridge' = [pc |-> "begun", h |-> h, id |-> nextId[h]]
        /\ UNCHANGED <<call, ended>>
    BY <1>4 DEF TakeActivated, Bridging, Bumped, sigVars
  <2>2. \A g \in Session :
          /\ act'[g] = IF g = h THEN nextId[g] ELSE act[g]
          /\ nextId'[g] = IF g = h THEN nextId[g] + 1 ELSE nextId[g]
    BY <2>1 DEF TInv, TypeOK
  <2>3. \A g \in Session :
          /\ \A c \in Slot : call[g][c].id # None => call[g][c].id \in Int
          /\ act[g] # None => act[g] \in Int
    <3>1. \A g \in Session : \A c \in Slot : call[g][c] \in Call
      BY DEF TInv, TypeOK
    <3>2. QED
      BY <3>1, CaptureAssumption DEF TInv, TypeOK, Call, Id
  <2>4. IdsUsed'
    BY <1>1, <1>2, <2>1, <2>2, <2>3 DEF EInv, IdsUsed
  <2>5. OneEnder'
    <3>1. ~BridgeEnds(h)' /\ \A g \in Session : ~BridgeEnds(g)'
      BY <2>1 DEF BridgeEnds
    <3>2. nextId[h] \notin ended[h]
          /\ \A c \in Slot : call[h][c].id # None => call[h][c].id # nextId[h]
      BY <1>1, <1>2, <2>3 DEF EInv, IdsUsed
    <3>3. QED
      BY <1>1, <2>1, <2>2, <3>1, <3>2 DEF EInv, OneEnder
  <2>6. QED
    BY <2>4, <2>5 DEF EInv
<1>5. CASE TakeDeactivated /\ h \in live /\ act[h] # None
  <2>1. /\ act' = [act EXCEPT ![h] = None]
        /\ bridge' = [pc |-> "ended", h |-> h, id |-> act[h]]
        /\ UNCHANGED <<nextId, call, ended>>
    BY <1>5 DEF TakeDeactivated, Bridging, sigVars
  <2>2. \A g \in Session : act'[g] = IF g = h THEN None ELSE act[g]
    BY <2>1 DEF TInv, TypeOK
  <2>3. IdsUsed'
    BY <1>1, <1>5, <2>1, <2>2 DEF EInv, IdsUsed
  <2>4. OneEnder'
    BY <1>1, <1>2, <1>5, <2>1, <2>2 DEF EInv, OneEnder, BridgeEnds
  <2>5. QED
    BY <2>3, <2>4 DEF EInv
<1>6. QED
  BY <1>3, <1>4, <1>5 DEF TakeActivated, TakeDeactivated

(* What the bridge does with the id it took ends with the id ended.        *)
LEMMA EndersBridge ==
  ASSUME TInv, EInv,
         StartCapture \/ RollBack \/ EmitActivated \/ StopCapture \/ EmitDeactivated
  PROVE  EInv'
<1>1. bridge.h \in Session /\ bridge.id \in Id
  BY DEF TInv, BridgeNamed, StartCapture, RollBack, EmitActivated, StopCapture, EmitDeactivated
<1>2. UNCHANGED <<call, nextId>>
  BY DEF StartCapture, RollBack, EmitActivated, StopCapture, EmitDeactivated, sesVars
<1>3. CASE StartCapture \/ EmitActivated \/ StopCapture
  <2>1. UNCHANGED <<act, ended>>
    BY <1>3 DEF StartCapture, EmitActivated, StopCapture, sesVars, sigVars
  <2>2. \A g \in Session :
          /\ bridge'.h = g => bridge.h = g /\ bridge'.id = bridge.id
          /\ BridgeEnds(g)' => BridgeEnds(g)
    BY <1>3, CaptureAssumption
       DEF StartCapture, EmitActivated, StopCapture, Bridging, BridgeEnds, Resting
  <2>3. IdsUsed'
    BY <1>2, <2>1, <2>2 DEF EInv, IdsUsed
  <2>4. OneEnder'
    <3> SUFFICES ASSUME NEW g \in Session, BridgeEnds(g)'
                 PROVE  /\ \A c \in Slot : call[g][c].id # None => call[g][c].id # bridge'.id
                        /\ act[g] # None => act[g] # bridge'.id
                        /\ bridge'.id \notin ended[g]
      BY <1>2, <2>1 DEF EInv, OneEnder
    <3>1. BridgeEnds(g) /\ bridge'.id = bridge.id
      BY <2>2 DEF BridgeEnds
    <3>2. QED
      BY <3>1 DEF EInv, OneEnder
  <2>5. QED
    BY <2>3, <2>4 DEF EInv
<1>4. CASE RollBack
  <2>1. /\ act' = [act EXCEPT ![bridge.h] = None] /\ UNCHANGED ended
        /\ \A g \in Session : bridge'.h # g
    BY <1>4, CaptureAssumption DEF RollBack, Resting, sigVars
  <2>2. \A g \in Session : act'[g] = act[g] \/ act'[g] = None
    BY <2>1 DEF TInv, TypeOK
  <2>3. QED
    BY <1>2, <2>1, <2>2 DEF EInv, IdsUsed, OneEnder, BridgeEnds
<1>5. CASE EmitDeactivated
  <2>1. /\ BridgeEnds(bridge.h) /\ UNCHANGED act
        /\ ended' = [ended EXCEPT ![bridge.h] = ended[bridge.h] \cup {bridge.id}]
        /\ \A g \in Session : bridge'.h # g
    BY <1>5, CaptureAssumption DEF EmitDeactivated, Deactivated, Resting, sesVars, BridgeEnds
  <2>2. \A g \in Session :
          ended'[g] = IF g = bridge.h THEN ended[g] \cup {bridge.id} ELSE ended[g]
    BY <1>1, <2>1 DEF TInv, TypeOK
  <2>3. IdsUsed'
    BY <1>1, <1>2, <2>1, <2>2 DEF EInv, IdsUsed
  <2>4. OneEnder'
    BY <1>1, <1>2, <2>1, <2>2 DEF EInv, OneEnder, BridgeEnds
  <2>5. QED
    BY <2>3, <2>4 DEF EInv
<1>6. QED
  BY <1>3, <1>4, <1>5

(* Nobody else has to do with the ids.                                     *)
LEMMA EndersIdle ==
  ASSUME EInv, UNCHANGED <<call, act, nextId, bridge, ended>>
  PROVE  EInv'
BY DEF EInv, IdsUsed, OneEnder, BridgeEnds

(* Every step leaves an activation one place at most that ends it.         *)
LEMMA EndersKept ==
  ASSUME TInv, TInv', EInv, [Next]_vars
  PROVE  EInv'
<1>1. CASE UNCHANGED vars
  BY <1>1, EndersIdle DEF vars, sesVars, sigVars
<1>2. CASE RunCommand
  BY <1>2, EndersIdle DEF RunCommand, sesVars, sigVars
<1>3. CASE BridgeTask
  BY <1>3, EndersTake, EndersBridge DEF BridgeTask
<1>4. ASSUME NEW h \in Session, ClientCall(h) \/ Handler(h)
      PROVE  EInv'
  <2>1. CASE \E c \in Slot : Enable(h, c) \/ Disable(h, c) \/ Release(h, c) \/ Close(h, c)
    BY <2>1, EndersBegin
  <2>2. CASE \E c \in Slot : SendCommand(h, c) \/ EmitSignals(h, c)
    BY <2>2, EndersEmit
  <2>3. CASE ConnectToEis(h) \/ \E bars \in SUBSET Barrier : SetPointerBarriers(h, bars)
    BY <2>3, EndersIdle DEF ConnectToEis, SetPointerBarriers, sesVars, sigVars
  <2>4. QED
    BY <1>4, <2>1, <2>2, <2>3 DEF ClientCall, Handler
<1>5. ASSUME NEW h \in Session, Compositor(h) \/ Handshake(h) \/ HangUp(h)
      PROVE  EInv'
  BY <1>5, EndersIdle DEF Compositor, PointerEnter, PointerLeave, Locked, Unlocked, SurfaceClosed,
                          LockStep, Handshake, HangUp, sesVars, sigVars
<1>6. QED
  BY <1>1, <1>2, <1>3, <1>4, <1>5 DEF Next

(* At first there are no activations to end.                               *)
LEMMA EndersFirst ==
  Init => EInv
BY CaptureAssumption DEF Init, EInv, IdsUsed, OneEnder, BridgeEnds, NoCall, Resting

(* One place at most is one ender at most.                                 *)
LEMMA OneEnderEnough ==
  TInv /\ EInv => EndedOnce
<1> SUFFICES ASSUME TInv, EInv, NEW h \in Session, NEW id \in Id
             PROVE  Enders(h, id) <= 1
  BY DEF EndedOnce
<1> DEFINE C == {c \in Slot : call[h][c].id = id}
<1>1. id # None
  BY CaptureAssumption
<1>2. C = {} \/ \E c \in Slot : C = {c} /\ call[h][c].id = id
  BY <1>1 DEF EInv, OneEnder
<1>3. CASE C = {}
  <2>1. Cardinality(C) = 0
    BY <1>3, FS_EmptySet
  <2> HIDE DEF C
  <2>2. QED
    BY <1>1, <2>1 DEF EInv, OneEnder, Enders, BridgeEnds, C
<1>4. CASE \E c \in Slot : C = {c} /\ call[h][c].id = id
  <2>1. Cardinality(C) = 1
    BY <1>4, FS_Singleton
  <2>2. act[h] # id /\ id \notin ended[h] /\ ~(BridgeEnds(h) /\ bridge.id = id)
    BY <1>1, <1>4 DEF EInv, OneEnder
  <2> HIDE DEF C
  <2>3. QED
    BY <2>1, <2>2 DEF Enders, BridgeEnds, C
<1>5. QED
  BY <1>2, <1>3, <1>4

(* An activation that is ended is announced ended once, whoever else comes *)
(* to end it meanwhile: whatever the client and the compositor do, and     *)
(* however many calls are under way.                                       *)
THEOREM CaptureEndedOnce == Spec => []EndedOnce
<1>1. Init => TInv /\ EInv
  BY TypesFirst, EndersFirst
<1>2. TInv /\ EInv /\ [Next]_vars => TInv' /\ EInv'
  BY TypesKept, EndersKept
<1>3. QED
  BY <1>1, <1>2, OneEnderEnough, PTL DEF Spec

-----------------------------------------------------------------------------
(* While the bridge announces an activation, the session has it: no call   *)
(* may end it, for it is still coming.                                     *)
AnnouncedIsOpen ==
  \A h \in Session :
    bridge.h = h /\ bridge.pc \in {"begun", "emit_activated"} => act[h] = bridge.id

(* Nobody ends what the bridge is about to announce.                       *)
LEMMA AnnouncedKept ==
  ASSUME "end_meets_start" \notin Faults, TInv, AnnouncedIsOpen, [Next]_vars
  PROVE  AnnouncedIsOpen'
<1>1. CASE UNCHANGED <<act, bridge>>
  BY <1>1 DEF AnnouncedIsOpen
<1>2. ASSUME NEW h \in Session, NEW c \in Slot,
             Enable(h, c) \/ Disable(h, c) \/ Release(h, c) \/ Close(h, c)
      PROVE  AnnouncedIsOpen'
  <2>1. CASE UNCHANGED act
    BY <1>2, <1>1, <2>1 DEF Enable, Disable, Release, Close, Begin
  <2>2. CASE act' = [act EXCEPT ![h] = None] /\ ~Coming(h)
    BY <1>2, <2>2 DEF Disable, Release, Close, Enable, Begin, Coming, AnnouncedIsOpen, TInv, TypeOK
  <2>3. QED
    BY <1>2, <2>1, <2>2 DEF Enable, Disable, Release, Close, MayEnd
<1>3. CASE BridgeTask
  <2>1. CASE TakeActivated
    <3> DEFINE h == Head(evs).h
    <3>1. CASE h \notin live
      BY <1>1, <2>1, <3>1 DEF TakeActivated
    <3>2. CASE h \in live
      BY <2>1, <3>2 DEF TakeActivated, Bridging, AnnouncedIsOpen, TInv, TypeOK
    <3>3. QED
      BY <3>1, <3>2
  <2>2. CASE TakeDeactivated
    BY <1>1, <2>2 DEF TakeDeactivated, Bridging, AnnouncedIsOpen
  <2>3. CASE RollBack \/ EmitActivated \/ EmitDeactivated
    BY <2>3 DEF RollBack, EmitActivated, EmitDeactivated, Resting, AnnouncedIsOpen
  <2>4. CASE StartCapture \/ StopCapture
    BY <2>4 DEF StartCapture, StopCapture, Bridging, AnnouncedIsOpen, sesVars
  <2>5. QED
    BY <1>3, <2>1, <2>2, <2>3, <2>4 DEF BridgeTask
<1>4. ASSUME NEW h \in Session, NEW c \in Slot, SendCommand(h, c) \/ EmitSignals(h, c)
      PROVE  AnnouncedIsOpen'
  BY <1>1, <1>4 DEF SendCommand, EmitSignals, sesVars
<1>5. ASSUME NEW h \in Session,
             \/ ConnectToEis(h) \/ Handshake(h) \/ HangUp(h) \/ Compositor(h)
             \/ \E bars \in SUBSET Barrier : SetPointerBarriers(h, bars)
      PROVE  AnnouncedIsOpen'
  BY <1>1, <1>5 DEF ConnectToEis, Handshake, HangUp, SetPointerBarriers, Compositor, PointerEnter,
                    PointerLeave, Locked, Unlocked, SurfaceClosed, LockStep, sesVars
<1>6. QED
  BY <1>1, <1>2, <1>3, <1>4, <1>5 DEF Next, ClientCall, Handler, RunCommand, vars, sesVars

(* What is announced has not ended, what ends is forgotten.                *)
LEMMA OrderKept ==
  ASSUME TInv, EInv, AnnouncedIsOpen, SignalsInOrder, [Next]_vars
  PROVE  SignalsInOrder'
<1>1. CASE UNCHANGED <<seen, ended>>
  BY <1>1 DEF SignalsInOrder
<1>2. ASSUME NEW h \in Session, NEW id, Deactivated(h, id)
      PROVE  SignalsInOrder'
  <2>1. \A g \in Session \ {h} : seen'[g] = seen[g] /\ ended'[g] = ended[g]
    BY <1>2 DEF Deactivated, TInv, TypeOK
  <2>2. seen'[h] = None
    BY <1>2 DEF Deactivated, TInv, TypeOK
  <2>3. QED
    BY <2>1, <2>2 DEF SignalsInOrder
<1>3. CASE EmitActivated
  <2>1. /\ bridge.h \in Session /\ bridge.id \in Id
        /\ seen' = [seen EXCEPT ![bridge.h] = bridge.id] /\ UNCHANGED ended
        /\ act[bridge.h] = bridge.id
    BY <1>3 DEF EmitActivated, TInv, BridgeNamed, AnnouncedIsOpen
  <2>2. bridge.id \notin ended[bridge.h]
    BY <2>1, CaptureAssumption DEF EInv, OneEnder
  <2>3. QED
    BY <2>1, <2>2 DEF SignalsInOrder, TInv, TypeOK
<1>4. CASE EmitDeactivated
  BY <1>2, <1>4 DEF EmitDeactivated, TInv, BridgeNamed
<1>5. ASSUME NEW h \in Session, NEW c \in Slot, EmitSignals(h, c)
      PROVE  SignalsInOrder'
  BY <1>1, <1>2, <1>5 DEF EmitSignals, sigVars
<1>6. ASSUME NEW h \in Session, ClientCall(h)
      PROVE  SignalsInOrder'
  BY <1>1, <1>6 DEF ClientCall, ConnectToEis, SetPointerBarriers, Enable, Disable, Release, Close,
                    Begin, sigVars
<1>7. ASSUME NEW h \in Session, Compositor(h) \/ Handshake(h) \/ HangUp(h)
      PROVE  SignalsInOrder'
  BY <1>1, <1>7 DEF Compositor, PointerEnter, PointerLeave, Locked, Unlocked, SurfaceClosed, LockStep,
                    Handshake, HangUp, sigVars
<1>8. CASE BridgeTask
  BY <1>1, <1>3, <1>4, <1>8
     DEF BridgeTask, TakeActivated, TakeDeactivated, StartCapture, RollBack, StopCapture, sigVars
<1>9. ASSUME NEW h \in Session, NEW c \in Slot, SendCommand(h, c)
      PROVE  SignalsInOrder'
  BY <1>1, <1>9 DEF SendCommand, sigVars
<1>10. QED
  BY <1>1, <1>5, <1>6, <1>7, <1>8, <1>9 DEF Next, Handler, RunCommand, vars, sigVars

(* No activation is announced whose end was announced before, provided     *)
(* that no call ends a capture while a barrier of its session fires: the   *)
(* section of the bridge that takes the activation and the one that        *)
(* announces it are apart, and a call between them ends what is still to   *)
(* be announced.                                                           *)
THEOREM CaptureSignalsInOrder ==
  ASSUME "end_meets_start" \notin Faults
  PROVE  Spec => []SignalsInOrder
<1>1. Init => TInv /\ EInv /\ AnnouncedIsOpen /\ SignalsInOrder
  <2>1. Init => AnnouncedIsOpen /\ SignalsInOrder
    BY CaptureAssumption DEF Init, AnnouncedIsOpen, SignalsInOrder, Resting
  <2>2. QED
    BY <2>1, TypesFirst, EndersFirst
<1>2. TInv /\ EInv /\ AnnouncedIsOpen /\ SignalsInOrder /\ [Next]_vars
        => TInv' /\ EInv' /\ AnnouncedIsOpen' /\ SignalsInOrder'
  BY TypesKept, EndersKept, AnnouncedKept, OrderKept
<1>3. QED
  BY <1>1, <1>2, PTL DEF Spec

-----------------------------------------------------------------------------
(* What is laid out for a session is its surfaces, at place 0, and those   *)
(* of a create command, at its place in the channel. A destroy command     *)
(* clears what is laid out before it.                                      *)
Is(m, h, kind) == m.h = h /\ m.kind = kind

Surfaces(h) == {b \in Barrier : surf[h][b] # "none"}
LaidAt(h, i) == IF i = 0 THEN Surfaces(h) # {} ELSE Is(cmds[i], h, "create")
BarsAt(h, i) == IF i = 0 THEN Surfaces(h) ELSE cmds[i].bars
Cleared(h, i, j) == \E k \in (i + 1)..(j - 1) : Is(cmds[k], h, "destroy")
Stays(h, i) == LaidAt(h, i) /\ ~Cleared(h, i, Len(cmds) + 1)

Enabling(h) == \E c \in Slot : call[h][c].op = "enable"
Clearing(h) == \E c \in Slot : call[h][c].op \in {"disable", "close"} /\ call[h][c].step = "send"

(* Each set of surfaces is cleared before the next is laid out, so that    *)
(* none is lost from the thread's map...                                   *)
CreatesApart ==
  \A h \in Session : \A i \in 0..Len(cmds), j \in 1..Len(cmds) :
    i < j /\ LaidAt(h, i) /\ LaidAt(h, j) => Cleared(h, i, j)

(* ...what stays is that of a session that is enabled, or about to be      *)
(* cleared by the call that has disabled or closed it...                   *)
StaysEnabled ==
  \A h \in Session : \A i \in 0..Len(cmds) :
    Stays(h, i) => Clearing(h) \/ (h \in enabled /\ ~Enabling(h))

CallsOfEnabled ==
  \A h \in Session, c \in Slot : call[h][c].op = "enable" => h \in enabled

SInv == orphan = {} /\ CreatesApart /\ StaysEnabled /\ CallsOfEnabled

(* ...and has the barriers the session has.                                *)
BarsCurrent ==
  /\ \A h \in enabled : \A i \in 0..Len(cmds) : Stays(h, i) => BarsAt(h, i) \subseteq barriers[h]
  /\ \A h \in Session, c \in Slot : call[h][c].op = "enable" => call[h][c].bars = barriers[h]

OneCall == \A c, d \in Slot : c = d

(* Once the thread has run a command, what is laid out was laid out        *)
(* before, and what cleared it clears it.                                  *)
LEMMA CommandRun ==
  ASSUME TInv, SInv, RunCommand, NEW h \in Session, NEW i \in 0..Len(cmds'), LaidAt(h, i)'
  PROVE  \E o \in 0..Len(cmds) :
           /\ o <= i + 1 /\ (i >= 1 => o = i + 1)
           /\ LaidAt(h, o) /\ BarsAt(h, i)' \subseteq BarsAt(h, o)
           /\ \A j \in 1..(Len(cmds') + 1) : Cleared(h, o, j + 1) => Cleared(h, i, j)'
<1> DEFINE m == Head(cmds)
<1>1. /\ cmds # <<>> /\ cmds \in Seq(Command) /\ cmds' = Tail(cmds)
      /\ \/ m.kind = "create" /\ CreateBarrierSurfaces(m.h, m.bars)
         \/ m.kind = "destroy" /\ DestroySession(m.h)
         \/ m.kind = "release" /\ ReleaseActiveLocks(m.h)
  BY DEF RunCommand, TInv, TypeOK
<1>2. /\ m \in Command /\ m = cmds[1]
      /\ Len(cmds) \in Nat \ {0} /\ Len(cmds') = Len(cmds) - 1
      /\ \A k \in 1..(Len(cmds) - 1) : cmds'[k] = cmds[k + 1]
  BY <1>1, Received
<1>3. i \in Nat /\ i <= Len(cmds) - 1
  BY <1>2
<1>4. CASE i >= 1
  <2>1. cmds'[i] = cmds[i + 1]
    BY <1>2, <1>3, <1>4
  <2>2. LaidAt(h, i + 1) /\ BarsAt(h, i)' \subseteq BarsAt(h, i + 1)
    BY <1>3, <1>4, <2>1 DEF LaidAt, BarsAt
  <2>3. ASSUME NEW j \in 1..(Len(cmds') + 1), Cleared(h, i + 1, j + 1)
        PROVE  Cleared(h, i, j)'
    <3>1. PICK k \in (i + 2)..j : Is(cmds[k], h, "destroy")
      BY <1>3, <2>3 DEF Cleared
    <3>2. k - 1 \in (i + 1)..(j - 1) /\ cmds'[k - 1] = cmds[k]
      BY <1>2, <1>3, <3>1
    <3>3. QED
      BY <3>1, <3>2 DEF Cleared
  <2>4. QED
    BY <1>2, <1>3, <1>4, <2>2, <2>3
<1>5. CASE i = 0 /\ Is(m, h, "create")
  <2>1. Surfaces(h)' \subseteq m.bars
    <3>1. ~LaidAt(h, 0)
      BY <1>2, <1>5 DEF SInv, CreatesApart, LaidAt, Cleared
    <3>2. \A b \in Barrier : surf[h][b] = "none"
      BY <3>1 DEF LaidAt, Surfaces
    <3>3. PICK mapped \in SUBSET m.bars :
            surf' = [surf EXCEPT ![h] = [b \in Barrier |-> IF b \in mapped THEN "up" ELSE surf[h][b]]]
      BY <1>1, <1>5 DEF Is, CreateBarrierSurfaces
    <3>4. QED
      BY <3>2, <3>3 DEF Surfaces, TInv, TypeOK
  <2>2. LaidAt(h, 1) /\ BarsAt(h, 0)' \subseteq BarsAt(h, 1)
    BY <1>2, <1>5, <2>1 DEF LaidAt, BarsAt
  <2>3. ASSUME NEW j \in 1..(Len(cmds') + 1), Cleared(h, 1, j + 1)
        PROVE  Cleared(h, 0, j)'
    <3>1. PICK k \in 2..j : Is(cmds[k], h, "destroy")
      BY <2>3 DEF Cleared
    <3>2. k - 1 \in 1..(j - 1) /\ cmds'[k - 1] = cmds[k]
      BY <1>2, <3>1
    <3>3. QED
      BY <3>1, <3>2 DEF Cleared
  <2>4. QED
    BY <1>2, <1>5, <2>2, <2>3
<1>6. CASE i = 0 /\ ~Is(m, h, "create")
  <2>1. Surfaces(h)' = Surfaces(h) /\ ~Is(m, h, "destroy")
    <3>1. Surfaces(h)' # {}
      BY <1>6 DEF LaidAt
    <3>2. CASE m.h # h
      <4>1. surf'[h] = surf[h]
        BY <1>1, <3>2 DEF CreateBarrierSurfaces, DestroySession, ReleaseActiveLocks, TInv, TypeOK
      <4>2. QED
        BY <3>2, <4>1 DEF Surfaces, Is
    <3>3. CASE m.h = h
      <4>1. CASE m.kind = "destroy"
        <5>1. surf'[h] = [b \in Barrier |-> "none"]
          BY <1>1, <3>3, <4>1 DEF DestroySession, TInv, TypeOK
        <5>2. QED
          BY <3>1, <5>1 DEF Surfaces
      <4>2. CASE m.kind = "release"
        <5>1. surf'[h] = Unlock(h)
          BY <1>1, <3>3, <4>2 DEF ReleaseActiveLocks, TInv, TypeOK
        <5>2. QED
          BY <4>2, <5>1 DEF Surfaces, Unlock, Is
      <4>3. QED
        BY <1>1, <1>6, <3>3, <4>1, <4>2 DEF Is
    <3>4. QED
      BY <3>2, <3>3
  <2>2. LaidAt(h, 0) /\ BarsAt(h, 0)' \subseteq BarsAt(h, 0)
    BY <1>6, <2>1 DEF LaidAt, BarsAt
  <2>3. ASSUME NEW j \in 1..(Len(cmds') + 1), Cleared(h, 0, j + 1)
        PROVE  Cleared(h, 0, j)'
    <3>1. PICK k \in 1..j : Is(cmds[k], h, "destroy")
      BY <2>3 DEF Cleared
    <3>2. k # 1
      BY <1>2, <2>1, <3>1
    <3>3. k - 1 \in 1..(j - 1) /\ cmds'[k - 1] = cmds[k]
      BY <1>2, <3>1, <3>2
    <3>4. QED
      BY <3>1, <3>3 DEF Cleared
  <2>4. QED
    BY <1>2, <1>6, <2>2, <2>3
<1>7. QED
  BY <1>3, <1>4, <1>5, <1>6

(* What the thread runs leaves its screen and its channel as they must be. *)
LEMMA CommandClears ==
  ASSUME TInv, SInv, RunCommand
  PROVE  SInv' /\ (BarsCurrent => BarsCurrent')
<1>1. /\ Len(cmds) \in Nat \ {0} /\ Len(cmds') = Len(cmds) - 1 /\ UNCHANGED <<call, enabled, barriers>>
  BY Received DEF RunCommand, TInv, TypeOK, sesVars
<1>2. ASSUME NEW h \in Session, NEW i \in 0..Len(cmds'), Stays(h, i)'
      PROVE  \E o \in 0..Len(cmds) : Stays(h, o) /\ BarsAt(h, i)' \subseteq BarsAt(h, o)
  <2>1. LaidAt(h, i)' /\ \A j \in {Len(cmds') + 1} : ~Cleared(h, i, j)'
    BY <1>2 DEF Stays, Cleared
  <2>2. PICK o \in 0..Len(cmds) :
           /\ LaidAt(h, o) /\ BarsAt(h, i)' \subseteq BarsAt(h, o)
           /\ \A j \in 1..(Len(cmds') + 1) : Cleared(h, o, j + 1) => Cleared(h, i, j)'
    BY <2>1, CommandRun
  <2>3. ~Cleared(h, o, Len(cmds') + 2)
    <3>1. Len(cmds') + 1 \in 1..(Len(cmds') + 1) /\ (Len(cmds') + 1) + 1 = Len(cmds') + 2
      BY <1>1
    <3>2. QED
      BY <2>1, <2>2, <3>1
  <2>4. QED
    BY <1>1, <2>2, <2>3 DEF Stays
<1>3. CreatesApart'
  <2> SUFFICES ASSUME NEW h \in Session, NEW i \in 0..Len(cmds'), NEW j \in 1..Len(cmds'),
                      i < j, LaidAt(h, i)', LaidAt(h, j)'
               PROVE  Cleared(h, i, j)'
    BY DEF CreatesApart
  <2>1. PICK o \in 0..Len(cmds) :
           /\ o <= i + 1 /\ LaidAt(h, o)
           /\ \A l \in 1..(Len(cmds') + 1) : Cleared(h, o, l + 1) => Cleared(h, i, l)'
    BY CommandRun
  <2>2. j + 1 \in 1..Len(cmds) /\ j \in 0..Len(cmds') /\ LaidAt(h, j + 1)
    <3>1. j \in 0..Len(cmds')
      BY <1>1
    <3>2. QED
      BY <1>1, <3>1, CommandRun
  <2>3. o < j + 1
    BY <1>1, <2>1
  <2>4. Cleared(h, o, j + 1)
    BY <2>1, <2>2, <2>3 DEF SInv, CreatesApart
  <2>5. QED
    BY <1>1, <2>1, <2>4
<1>4. StaysEnabled'
  BY <1>1, <1>2 DEF SInv, StaysEnabled, Clearing, Enabling
<1>5. orphan' = {}
  <2> DEFINE m == Head(cmds)
  <2>1. CASE UNCHANGED orphan
    BY <2>1 DEF SInv
  <2>2. CASE CreateBarrierSurfaces(m.h, m.bars) /\ m.kind = "create"
    <3>1. m = cmds[1] /\ m \in Command
      BY Received DEF RunCommand, TInv, TypeOK
    <3>2. m.h \in Session /\ m.bars \subseteq Barrier
      BY <3>1 DEF Command
    <3>3. ~LaidAt(m.h, 0)
      BY <1>1, <2>2, <3>1, <3>2 DEF SInv, CreatesApart, LaidAt, Cleared, Is
    <3>4. QED
      BY <2>2, <3>2, <3>3 DEF SInv, CreateBarrierSurfaces, LaidAt, Surfaces
  <2>3. QED
    BY <2>1, <2>2 DEF RunCommand, DestroySession, ReleaseActiveLocks
<1>6. CallsOfEnabled'
  BY <1>1 DEF SInv, CallsOfEnabled
<1>7. ASSUME BarsCurrent PROVE BarsCurrent'
  <2> SUFFICES ASSUME NEW h \in enabled, NEW i \in 0..Len(cmds'), Stays(h, i)'
               PROVE  BarsAt(h, i)' \subseteq barriers[h]
    BY <1>1, <1>7 DEF BarsCurrent
  <2>1. h \in Session
    BY DEF TInv, TypeOK
  <2>2. PICK o \in 0..Len(cmds) : Stays(h, o) /\ BarsAt(h, i)' \subseteq BarsAt(h, o)
    BY <1>2, <2>1
  <2>3. BarsAt(h, o) \subseteq barriers[h]
    BY <1>7, <2>2 DEF BarsCurrent
  <2>4. QED
    BY <2>2, <2>3
<1>8. QED
  BY <1>3, <1>4, <1>5, <1>6, <1>7 DEF SInv

(* A command sent comes after all that is laid out.                        *)
LEMMA CommandSent ==
  ASSUME TInv, NEW m \in Command, cmds' = Append(cmds, m), UNCHANGED surf, NEW h \in Session
  PROVE  /\ Len(cmds) \in Nat /\ Len(cmds') = Len(cmds) + 1
         /\ \A i \in 0..Len(cmds) : /\ LaidAt(h, i)' <=> LaidAt(h, i)
                                    /\ BarsAt(h, i)' = BarsAt(h, i)
                                    /\ Stays(h, i)' => Stays(h, i) /\ ~Is(m, h, "destroy")
         /\ \A n \in {Len(cmds) + 1} : /\ LaidAt(h, n)' <=> Is(m, h, "create")
                                       /\ BarsAt(h, n)' = m.bars
         /\ \A i \in Nat, j \in 1..(Len(cmds) + 1) : Cleared(h, i, j)' <=> Cleared(h, i, j)
<1>1. /\ Len(cmds) \in Nat /\ Len(cmds') = Len(cmds) + 1
      /\ \A i \in 1..Len(cmds) : cmds'[i] = cmds[i]
      /\ cmds'[Len(cmds) + 1] = m
  BY Sent DEF TInv, TypeOK
<1>2. \A i \in 0..Len(cmds) : (LaidAt(h, i)' <=> LaidAt(h, i)) /\ BarsAt(h, i)' = BarsAt(h, i)
  BY <1>1 DEF LaidAt, BarsAt, Surfaces
<1>3. \A n \in {Len(cmds) + 1} : (LaidAt(h, n)' <=> Is(m, h, "create")) /\ BarsAt(h, n)' = m.bars
  BY <1>1 DEF LaidAt, BarsAt
<1>4. \A i \in Nat, j \in 1..(Len(cmds) + 1) : Cleared(h, i, j)' <=> Cleared(h, i, j)
  BY <1>1 DEF Cleared
<1>5. ASSUME NEW i \in 0..Len(cmds), Stays(h, i)'
      PROVE  Stays(h, i) /\ ~Is(m, h, "destroy")
  <2>1. LaidAt(h, i) /\ \A k \in (i + 1)..(Len(cmds) + 1) : ~Is(cmds'[k], h, "destroy")
    BY <1>1, <1>2, <1>5 DEF Stays, Cleared
  <2>2. Len(cmds) + 1 \in (i + 1)..(Len(cmds) + 1)
    BY <1>1
  <2>3. \A k \in (i + 1)..Len(cmds) : ~Is(cmds[k], h, "destroy")
    BY <1>1, <2>1
  <2>4. ~Is(m, h, "destroy")
    BY <1>1, <2>1, <2>2
  <2>5. ~Cleared(h, i, Len(cmds) + 1)
    BY <1>1, <2>3 DEF Cleared
  <2>6. QED
    BY <2>1, <2>4, <2>5 DEF Stays
<1>6. QED
  BY <1>1, <1>2, <1>3, <1>4, <1>5

(* Fewer surfaces, and calls that enable no more and clear no less, are as *)
(* good, and so are barriers set while nothing is enabled.                 *)
LEMMA ScreenShrinks ==
  ASSUME TInv, SInv, UNCHANGED <<cmds, enabled, orphan>>,
         \A g \in Session : Surfaces(g)' \subseteq Surfaces(g),
         \A g \in Session : Clearing(g) => Clearing(g)',
         \A g \in Session, d \in Slot : call'[g][d].op = "enable" => call'[g][d] = call[g][d],
         \A g \in enabled : barriers'[g] = barriers[g]
  PROVE  SInv' /\ (BarsCurrent => BarsCurrent')
<1>1. \A h \in Session, i \in 0..Len(cmds) :
        LaidAt(h, i)' => LaidAt(h, i) /\ BarsAt(h, i)' \subseteq BarsAt(h, i)
  BY DEF LaidAt, BarsAt
<1>2. \A h \in Session, i \in 0..Len(cmds) : Stays(h, i)' => Stays(h, i)
  BY <1>1 DEF Stays, Cleared
<1>3. CreatesApart'
  <2>1. Len(cmds) \in Nat
    BY LenProperties DEF TInv, TypeOK
  <2>2. \A i, j, h : Cleared(h, i, j)' <=> Cleared(h, i, j)
    BY DEF Cleared
  <2>3. 1..Len(cmds) \subseteq 0..Len(cmds)
    BY <2>1
  <2>4. QED
    BY <1>1, <2>2, <2>3 DEF SInv, CreatesApart
<1>4. StaysEnabled'
  BY <1>2 DEF SInv, StaysEnabled, Enabling
<1>5. CallsOfEnabled'
  BY DEF SInv, CallsOfEnabled
<1>6. ASSUME BarsCurrent PROVE BarsCurrent'
  <2>1. \A h \in enabled : h \in Session
    BY DEF TInv, TypeOK
  <2>2. \A h \in enabled : \A i \in 0..Len(cmds) : Stays(h, i)' => BarsAt(h, i)' \subseteq barriers'[h]
    BY <1>1, <1>2, <1>6, <2>1 DEF BarsCurrent, Stays
  <2>3. \A h \in Session, c \in Slot : call'[h][c].op = "enable" => call'[h][c].bars = barriers'[h]
    BY <1>6 DEF BarsCurrent, SInv, CallsOfEnabled
  <2>4. QED
    BY <2>2, <2>3 DEF BarsCurrent
<1>7. QED
  BY <1>3, <1>4, <1>5, <1>6 DEF SInv

(* A call that enables a session finds all of it cleared, one that         *)
(* disables or closes it clears what stays.                                *)
LEMMA ScreenBegin ==
  ASSUME OneCall, "enable_twice" \notin Faults, TInv, SInv, NEW h \in Session, NEW c \in Slot,
         Enable(h, c) \/ Disable(h, c) \/ Close(h, c)
  PROVE  SInv' /\ (BarsCurrent => BarsCurrent')
<1>1. PICK k \in Call :
        /\ call' = [call EXCEPT ![h][c] = k] /\ call[h][c] = NoCall /\ k.step = "send"
        /\ \/ /\ Enable(h, c) /\ k.op = "enable" /\ k.bars = barriers[h]
              /\ h \notin enabled /\ enabled' = enabled \cup {h}
           \/ k.op \in {"disable", "close"} /\ enabled' = enabled \ {h}
        /\ UNCHANGED <<cmds, wlVars, barriers>>
  <2>1. \A op \in {"enable", "disable", "close"}, id \in Id \cup {None}, bars \in SUBSET Barrier :
          [op |-> op, step |-> "send", id |-> id, bars |-> bars] \in Call
    BY DEF Call
  <2>2. act[h] \in Id \cup {None} /\ barriers[h] \in SUBSET Barrier
    BY DEF TInv, TypeOK
  <2>3. CASE Enable(h, c)
    <3> DEFINE e == [op |-> "enable", step |-> "send", id |-> None, bars |-> barriers[h]]
    <3>1. e \in Call
      BY <2>1, <2>2
    <3>2. /\ call' = [call EXCEPT ![h][c] = e] /\ call[h][c] = NoCall
          /\ h \notin enabled /\ enabled' = enabled \cup {h}
          /\ UNCHANGED <<cmds, wlVars, barriers>>
      BY <2>3 DEF Enable, Begin
    <3>3. e.step = "send" /\ e.op = "enable" /\ e.bars = barriers[h]
      OBVIOUS
    <3>4. QED
      BY <2>3, <3>1, <3>2, <3>3
  <2>4. CASE Disable(h, c) \/ Close(h, c)
    <3>1. PICK op \in {"disable", "close"}, id \in Id \cup {None} :
            call' = [call EXCEPT ![h][c] = [op |-> op, step |-> "send", id |-> id, bars |-> {}]]
      BY <2>2, <2>4 DEF Disable, Close, Begin
    <3>2. [op |-> op, step |-> "send", id |-> id, bars |-> {}] \in Call
      BY <2>1
    <3>3. /\ call[h][c] = NoCall /\ enabled' = enabled \ {h}
          /\ UNCHANGED <<cmds, wlVars, barriers>>
      BY <2>4 DEF Disable, Close, Begin
    <3>4. QED
      BY <3>1, <3>2, <3>3
  <2>5. QED
    BY <2>3, <2>4
<1>2. /\ \A d \in Slot : d = c
      /\ call'[h][c] = k /\ \A g \in Session \ {h}, d \in Slot : call'[g][d] = call[g][d]
  BY <1>1 DEF OneCall, TInv, TypeOK
<1>3. ~Enabling(h) /\ ~Clearing(h)
  BY <1>1, <1>2 DEF Enabling, Clearing, NoCall
<1>4. \A g \in Session, i \in 0..Len(cmds) :
        /\ LaidAt(g, i)' <=> LaidAt(g, i)
        /\ BarsAt(g, i)' = BarsAt(g, i)
        /\ Stays(g, i)' <=> Stays(g, i)
  BY <1>1 DEF LaidAt, BarsAt, Surfaces, Stays, Cleared, wlVars
<1>5. CreatesApart' /\ orphan' = {}
  BY <1>1 DEF SInv, CreatesApart, LaidAt, Surfaces, Cleared, wlVars
<1>6. CallsOfEnabled'
  BY <1>1, <1>2 DEF SInv, CallsOfEnabled
<1>7. h \in enabled' => \A i \in 0..Len(cmds) : ~Stays(h, i)
  BY <1>1, <1>3 DEF SInv, StaysEnabled
<1>8. StaysEnabled'
  <2> SUFFICES ASSUME NEW g \in Session, NEW i \in 0..Len(cmds), Stays(g, i)
               PROVE  Clearing(g)' \/ (g \in enabled' /\ ~Enabling(g)')
    BY <1>1, <1>4 DEF StaysEnabled
  <2>1. CASE g = h
    <3>1. k.op \in {"disable", "close"}
      BY <1>1, <1>7, <2>1
    <3>2. QED
      BY <1>1, <1>2, <2>1, <3>1 DEF Clearing
  <2>2. CASE g # h
    <3>1. Clearing(g) \/ (g \in enabled /\ ~Enabling(g))
      BY DEF SInv, StaysEnabled
    <3>2. QED
      BY <1>1, <1>2, <2>2, <3>1 DEF Clearing, Enabling
  <2>3. QED
    BY <2>1, <2>2
<1>9. ASSUME BarsCurrent PROVE BarsCurrent'
  <2>1. \A g \in enabled' : \A i \in 0..Len(cmds) : Stays(g, i)' => BarsAt(g, i)' \subseteq barriers'[g]
    <3> SUFFICES ASSUME NEW g \in enabled', NEW i \in 0..Len(cmds), Stays(g, i)'
                 PROVE  BarsAt(g, i)' \subseteq barriers'[g]
      OBVIOUS
    <3>1. g \in Session /\ Stays(g, i)
      BY <1>1, <1>4 DEF TInv, TypeOK
    <3>2. g # h /\ g \in enabled
      BY <1>1, <1>7, <3>1
    <3>3. QED
      BY <1>1, <1>4, <1>9, <3>1, <3>2 DEF BarsCurrent
  <2>2. \A g \in Session, d \in Slot : call'[g][d].op = "enable" => call'[g][d].bars = barriers'[g]
    BY <1>1, <1>2, <1>9 DEF BarsCurrent
  <2>3. QED
    BY <1>1, <2>1, <2>2 DEF BarsCurrent
<1>10. QED
  BY <1>5, <1>6, <1>8, <1>9 DEF SInv

(* The command of a call to enable lays out the session's barriers where   *)
(* all is cleared, that of a call to disable or close clears what stays.   *)
LEMMA ScreenSend ==
  ASSUME OneCall, TInv, SInv, NEW h \in Session, NEW c \in Slot,
         SendCommand(h, c), call[h][c].op # "idle"
  PROVE  SInv' /\ (BarsCurrent => BarsCurrent')
<1> DEFINE k == call[h][c]
<1>1. /\ k.step = "send" /\ k \in Call
      /\ \/ k.op = "enable" /\ k.bars # {} /\ Send("create", h, k.bars)
         \/ k.op = "enable" /\ k.bars = {} /\ UNCHANGED cmds
         \/ k.op \in {"disable", "close"} /\ Send("destroy", h, {})
         \/ k.op = "release" /\ Send("release", h, {})
      /\ UNCHANGED <<enabled, barriers, surf, orphan>>
  BY DEF SendCommand, EndCommand, TInv, TypeOK, sesVars, wlVars
<1>2. PICK n \in Call :
        /\ call' = [call EXCEPT ![h][c] = n]
        /\ n.op # "enable" /\ (k.op = "release" => n.op = "release")
  <2>1. NoCall \in Call /\ NoCall.op = "idle"
    BY DEF NoCall, Call
  <2>2. [k EXCEPT !.step = "emit"] \in Call /\ [k EXCEPT !.step = "emit"].op = k.op
    BY <1>1 DEF Call
  <2>3. QED
    BY <2>1, <2>2 DEF SendCommand
<1>3. /\ \A d \in Slot : d = c
      /\ call'[h][c] = n /\ \A g \in Session \ {h}, d \in Slot : call'[g][d] = call[g][d]
  BY <1>2 DEF OneCall, TInv, TypeOK
<1>4. \A g \in Session, d \in Slot : call'[g][d].op = "enable" => call'[g][d] = call[g][d]
  BY <1>2, <1>3
<1>5. /\ ~Enabling(h)'
      /\ \A g \in Session \ {h} : (Clearing(g)' <=> Clearing(g)) /\ (Enabling(g)' <=> Enabling(g))
  BY <1>2, <1>3 DEF Enabling, Clearing
<1>6. CASE k.op = "enable" /\ k.bars = {} /\ UNCHANGED cmds
  <2>1. ~Clearing(h)
    BY <1>3, <1>6 DEF Clearing
  <2>2. QED
    BY <1>1, <1>4, <1>5, <1>6, <2>1, ScreenShrinks DEF Surfaces
<1>7. ASSUME NEW m \in Command, cmds' = Append(cmds, m), m.h = h,
             \/ k.op = "enable" /\ m.kind = "create" /\ m.bars = k.bars
             \/ k.op \in {"disable", "close"} /\ m.kind = "destroy"
             \/ k.op = "release" /\ m.kind = "release"
      PROVE  SInv' /\ (BarsCurrent => BarsCurrent')
  <2> DEFINE N == Len(cmds)
  <2>1. \A g \in Session : (g # h \/ k.op = "release") => ~Is(m, g, "create") /\ ~Is(m, g, "destroy")
    BY <1>7 DEF Is
  <2>2. /\ N \in Nat /\ Len(cmds') = N + 1
        /\ \A g \in Session, i \in 0..N :
             /\ LaidAt(g, i)' <=> LaidAt(g, i)
             /\ BarsAt(g, i)' = BarsAt(g, i)
             /\ Stays(g, i)' => Stays(g, i) /\ ~Is(m, g, "destroy")
        /\ \A g \in Session, j \in {N + 1} :
             /\ LaidAt(g, j)' <=> Is(m, g, "create")
             /\ BarsAt(g, j)' = m.bars
        /\ \A g \in Session, i \in Nat, j \in 1..(N + 1) : Cleared(g, i, j)' <=> Cleared(g, i, j)
    BY <1>1, <1>7, CommandSent
  <2>3. k.op = "enable" => /\ ~Clearing(h) /\ Enabling(h) /\ h \in enabled
                           /\ \A i \in 0..N : ~Stays(h, i)
    BY <1>3 DEF Clearing, Enabling, SInv, StaysEnabled, CallsOfEnabled
  <2>4. CreatesApart'
    <3> SUFFICES ASSUME NEW g \in Session, NEW i \in 0..(N + 1), NEW j \in 1..(N + 1),
                        i < j, LaidAt(g, i)', LaidAt(g, j)'
                 PROVE  Cleared(g, i, j)'
      BY <2>2 DEF CreatesApart
    <3>0. N \in Nat
      BY <2>2
    <3>1. i \in 0..N /\ LaidAt(g, i)
      <4>1. i \in 0..N
        BY <3>0
      <4>2. QED
        BY <2>2, <4>1
    <3>2. CASE j \in 1..N
      <4>1. j \in 0..N /\ j \in 1..(N + 1) /\ i \in Nat
        BY <3>0, <3>2
      <4>2. LaidAt(g, j)
        BY <2>2, <4>1
      <4>3. Cleared(g, i, j)
        BY <3>1, <3>2, <4>2 DEF SInv, CreatesApart, N
      <4>4. QED
        BY <2>2, <4>1, <4>3
    <3>3. CASE j = N + 1
      <4>1. Is(m, g, "create")
        BY <2>2, <3>3
      <4>2. g = h /\ k.op = "enable"
        BY <1>7, <4>1 DEF Is
      <4>3. Cleared(g, i, N + 1)
        BY <2>3, <3>1, <4>2 DEF Stays, N
      <4>4. QED
        BY <2>2, <3>1, <3>3, <4>3
    <3>4. QED
      BY <2>2, <3>2, <3>3
  <2>5. ASSUME NEW g \in Session, NEW i \in 0..(N + 1), Stays(g, i)'
        PROVE  \/ i \in 0..N /\ Stays(g, i) /\ (g # h \/ k.op = "release")
               \/ i = N + 1 /\ g = h /\ k.op = "enable"
    <3>1. CASE i \in 0..N
      <4>1. Stays(g, i)' => Stays(g, i) /\ ~Is(m, g, "destroy")
        BY <2>2, <3>1
      <4>2. CASE g = h
        BY <1>7, <2>3, <2>5, <3>1, <4>1, <4>2 DEF Is
      <4>3. QED
        BY <2>5, <3>1, <4>1, <4>2
    <3>2. CASE i = N + 1
      BY <1>7, <2>2, <2>5, <3>2 DEF Stays, Is
    <3>3. QED
      BY <2>2, <3>1, <3>2
  <2>6. StaysEnabled'
    <3> SUFFICES ASSUME NEW g \in Session, NEW i \in 0..(N + 1), Stays(g, i)'
                 PROVE  Clearing(g)' \/ (g \in enabled /\ ~Enabling(g)')
      BY <1>1, <2>2 DEF StaysEnabled
    <3>1. CASE i = N + 1 /\ g = h /\ k.op = "enable"
      BY <1>5, <2>3, <3>1
    <3>2. CASE i \in 0..N /\ Stays(g, i) /\ (g # h \/ k.op = "release")
      <4>1. Clearing(g) \/ (g \in enabled /\ ~Enabling(g))
        BY <3>2 DEF SInv, StaysEnabled, N
      <4>2. CASE g # h
        BY <1>5, <4>1, <4>2
      <4>3. CASE g = h
        <5>1. ~Clearing(h)
          BY <1>3, <3>2, <4>3 DEF Clearing
        <5>2. QED
          BY <1>5, <4>1, <4>3, <5>1
      <4>4. QED
        BY <4>2, <4>3
    <3>3. QED
      BY <2>5, <3>1, <3>2
  <2>7. CallsOfEnabled' /\ orphan' = {}
    BY <1>1, <1>4 DEF SInv, CallsOfEnabled
  <2>8. ASSUME BarsCurrent PROVE BarsCurrent'
    <3>1. \A g \in Session, d \in Slot : call'[g][d].op = "enable" => call'[g][d].bars = barriers'[g]
      BY <1>1, <1>4, <2>8 DEF BarsCurrent
    <3>2. ASSUME NEW g \in enabled, NEW i \in 0..(N + 1), Stays(g, i)'
          PROVE  BarsAt(g, i)' \subseteq barriers[g]
      <4>1. g \in Session
        BY DEF TInv, TypeOK
      <4>2. CASE i = N + 1 /\ g = h /\ k.op = "enable"
        BY <1>7, <2>2, <2>8, <4>2 DEF BarsCurrent
      <4>3. CASE i \in 0..N /\ Stays(g, i)
        <5>1. BarsAt(g, i) \subseteq barriers[g]
          BY <2>8, <4>3 DEF BarsCurrent, N
        <5>2. QED
          BY <2>2, <4>1, <4>3, <5>1
      <4>4. QED
        BY <2>5, <3>2, <4>1, <4>2, <4>3
    <3>3. QED
      BY <1>1, <2>2, <3>1, <3>2 DEF BarsCurrent
  <2>9. QED
    BY <2>4, <2>6, <2>7, <2>8 DEF SInv
<1>8. CASE ~(k.op = "enable" /\ k.bars = {} /\ UNCHANGED cmds)
  <2>1. k.bars \in SUBSET Barrier
    BY <1>1 DEF Call
  <2>2. \A kind \in {"create", "destroy", "release"}, bars \in SUBSET Barrier :
          [kind |-> kind, h |-> h, bars |-> bars] \in Command
    BY DEF Command
  <2>3. PICK m \in Command :
          /\ cmds' = Append(cmds, m) /\ m.h = h
          /\ \/ k.op = "enable" /\ m.kind = "create" /\ m.bars = k.bars
             \/ k.op \in {"disable", "close"} /\ m.kind = "destroy"
             \/ k.op = "release" /\ m.kind = "release"
    BY <1>1, <1>8, <2>1, <2>2 DEF Send
  <2>4. QED
    BY <1>7, <2>3
<1>9. QED
  BY <1>6, <1>8

(* Every step keeps the screen and what is asked of it as they must be.    *)
LEMMA ScreenKept ==
  ASSUME OneCall, "enable_twice" \notin Faults, TInv, SInv, [Next]_vars
  PROVE  /\ SInv'
         /\ "set_while_enabled" \notin Faults /\ BarsCurrent => BarsCurrent'
<1> DEFINE Good == SInv' /\ (BarsCurrent => BarsCurrent')
<1>1. CASE UNCHANGED <<cmds, enabled, orphan, surf, barriers, call>>
  BY <1>1, ScreenShrinks DEF Surfaces, Clearing
<1>2. CASE RunCommand
  BY <1>2, CommandClears
<1>3. ASSUME NEW h \in Session, NEW c \in Slot, SendCommand(h, c), call[h][c].op # "idle"
      PROVE  Good
  BY <1>3, ScreenSend
<1>4. ASSUME NEW h \in Session, NEW c \in Slot, Enable(h, c) \/ Disable(h, c) \/ Close(h, c)
      PROVE  Good
  BY <1>4, ScreenBegin
<1>5. ASSUME NEW h \in Session, NEW c \in Slot, Release(h, c) \/ EmitSignals(h, c)
      PROVE  Good
  <2>1. PICK k : call' = [call EXCEPT ![h][c] = k] /\ k.op # "enable"
    BY <1>5 DEF Release, Begin, EmitSignals, NoCall
  <2>2. call[h][c] = NoCall \/ call[h][c].step = "emit"
    BY <1>5 DEF Release, Begin, EmitSignals
  <2>3. /\ call'[h][c] = k
        /\ \A g \in Session, d \in Slot : g # h \/ d # c => call'[g][d] = call[g][d]
    BY <2>1 DEF TInv, TypeOK
  <2>4. \A g \in Session : Clearing(g) => Clearing(g)'
    BY <2>2, <2>3 DEF Clearing, NoCall
  <2>5. UNCHANGED <<cmds, enabled, orphan, surf, barriers>>
    BY <1>5 DEF Release, Begin, EmitSignals, sesVars, wlVars
  <2>6. QED
    BY <2>1, <2>3, <2>4, <2>5, ScreenShrinks DEF Surfaces
<1>6. ASSUME NEW h \in Session, NEW bars \in SUBSET Barrier, SetPointerBarriers(h, bars)
      PROVE  /\ SInv'
             /\ "set_while_enabled" \notin Faults /\ BarsCurrent => BarsCurrent'
  <2>1. UNCHANGED <<cmds, enabled, orphan, surf, call>>
    BY <1>6 DEF SetPointerBarriers, wlVars
  <2>2. CASE h \in enabled
    <3>1. CreatesApart' /\ StaysEnabled'
      <4>1. \A g, i, j : (LaidAt(g, i)' <=> LaidAt(g, i)) /\ (Cleared(g, i, j)' <=> Cleared(g, i, j))
        BY <2>1 DEF LaidAt, Cleared, Surfaces
      <4>2. \A g, i : Stays(g, i)' <=> Stays(g, i)
        BY <2>1 DEF LaidAt, Cleared, Surfaces, Stays
      <4>3. \A g : (Enabling(g)' <=> Enabling(g)) /\ (Clearing(g)' <=> Clearing(g))
        BY <2>1 DEF Enabling, Clearing
      <4>4. CreatesApart'
        BY <2>1, <4>1 DEF SInv, CreatesApart
      <4>5. StaysEnabled'
        BY <2>1, <4>2, <4>3 DEF SInv, StaysEnabled
      <4>6. QED
        BY <4>4, <4>5
    <3>2. SInv'
      BY <2>1, <3>1 DEF SInv, CallsOfEnabled
    <3>3. QED
      BY <1>6, <2>2, <3>2 DEF SetPointerBarriers
  <2>3. CASE h \notin enabled
    <3>1. \A g \in enabled : barriers'[g] = barriers[g]
      BY <1>6, <2>3 DEF SetPointerBarriers, TInv, TypeOK
    <3>2. QED
      BY <2>1, <3>1, ScreenShrinks DEF Surfaces, Clearing
  <2>4. QED
    BY <2>2, <2>3
<1>7. ASSUME NEW h \in Session, Compositor(h)
      PROVE  Good
  <2>1. PICK b \in Barrier, to \in Lock :
          /\ surf' = [surf EXCEPT ![h][b] = to] /\ (surf[h][b] = "none" => to = "none")
          /\ UNCHANGED <<cmds, enabled, orphan, barriers, call>>
    <3>1. PICK b \in Barrier, from \in SUBSET {"up", "locking", "locked"}, to \in Lock :
             LockStep(h, b, from, to)
      BY <1>7 DEF Compositor, PointerEnter, PointerLeave, Locked, Unlocked, SurfaceClosed, Lock
    <3>2. QED
      BY <3>1 DEF LockStep, sesVars
  <2>2. \A g \in Session : Surfaces(g)' \subseteq Surfaces(g)
    BY <2>1 DEF Surfaces, TInv, TypeOK
  <2>3. QED
    BY <2>1, <2>2, ScreenShrinks DEF Clearing
<1>8. ASSUME NEW h \in Session, ConnectToEis(h) \/ Handshake(h) \/ HangUp(h)
      PROVE  Good
  <2>1. UNCHANGED <<cmds, enabled, orphan, surf, barriers, call>>
    BY <1>8 DEF ConnectToEis, Handshake, HangUp, sesVars, wlVars
  <2>2. QED
    BY <2>1, ScreenShrinks DEF Surfaces, Clearing
<1>9. CASE BridgeTask
  BY <1>1, <1>9 DEF BridgeTask, TakeActivated, StartCapture, RollBack, EmitActivated, TakeDeactivated,
                    StopCapture, EmitDeactivated, sesVars, wlVars
<1>10. CASE UNCHANGED vars
  BY <1>1, <1>10 DEF vars, sesVars, wlVars
<1>11. QED
  BY <1>2, <1>3, <1>4, <1>5, <1>6, <1>7, <1>8, <1>9, <1>10 DEF Next, ClientCall, Handler

(* At first nothing is on the screen and nothing is asked.                 *)
LEMMA ScreenFirst ==
  Init => SInv /\ BarsCurrent
<1> SUFFICES ASSUME Init PROVE SInv /\ BarsCurrent
  OBVIOUS
<1>1. Len(cmds) = 0 /\ \A h \in Session : ~LaidAt(h, 0)
  BY DEF Init, LaidAt, Surfaces
<1>2. \A h \in Session, c \in Slot : call[h][c].op = "idle"
  BY DEF Init, NoCall
<1>3. QED
  BY <1>1, <1>2 DEF Init, SInv, BarsCurrent, CreatesApart, StaysEnabled, CallsOfEnabled, Stays

(* With a client that waits for its answers and enables no session twice,  *)
(* a surface that can lock the pointer is that of an enabled session or    *)
(* about to be destroyed: the channel keeps the order of the commands, so  *)
(* no barriers of an earlier Enable outlive the Disable after it.          *)
THEOREM CaptureSurfacesOfEnabled ==
  ASSUME OneCall, "enable_twice" \notin Faults
  PROVE  Spec => []SurfacesOfEnabled
<1>1. TInv /\ SInv => SurfacesOfEnabled
  <2> SUFFICES ASSUME TInv, SInv, NEW h \in Session, NEW b \in Barrier, surf[h][b] # "none"
               PROVE  h \in enabled \/ Asked(h, "destroy")
    BY DEF SurfacesOfEnabled, SInv
  <2>1. DOMAIN cmds = 1..Len(cmds) /\ Len(cmds) \in Nat
    BY LenProperties DEF TInv, TypeOK
  <2>2. LaidAt(h, 0)
    BY DEF LaidAt, Surfaces
  <2>3. CASE Cleared(h, 0, Len(cmds) + 1)
    BY <2>1, <2>3 DEF Cleared, Asked, Is
  <2>4. CASE Stays(h, 0)
    <3>1. Clearing(h) \/ h \in enabled
      BY <2>1, <2>4 DEF SInv, StaysEnabled
    <3>2. QED
      BY <3>1 DEF Clearing, Asked
  <2>5. QED
    BY <2>2, <2>3, <2>4 DEF Stays
<1>2. Init => TInv /\ SInv
  BY TypesFirst, ScreenFirst
<1>3. TInv /\ SInv /\ [Next]_vars => TInv' /\ SInv'
  BY TypesKept, ScreenKept
<1>4. QED
  BY <1>1, <1>2, <1>3, PTL DEF Spec

(* If it sets its barriers only while it is not enabled, what is on the    *)
(* screen once all is settled is what it set last.                         *)
THEOREM CaptureScreenAgrees ==
  ASSUME OneCall, "enable_twice" \notin Faults, "set_while_enabled" \notin Faults
  PROVE  Spec => []ScreenAgrees
<1>1. TInv /\ SInv /\ BarsCurrent => BarriersCurrent
  <2> SUFFICES ASSUME TInv, SInv, BarsCurrent, NEW h \in live, Settled(h), Surfaces(h) # {}
               PROVE  Surfaces(h) \subseteq barriers[h]
    BY DEF BarriersCurrent, Surfaces
  <2>1. h \in Session /\ DOMAIN cmds = 1..Len(cmds) /\ Len(cmds) \in Nat
    BY LenProperties DEF TInv, TypeOK
  <2>2. Stays(h, 0)
    BY <2>1 DEF Stays, LaidAt, Cleared, Is, Settled
  <2>3. ~Clearing(h)
    BY DEF Settled, Clearing, NoCall
  <2>4. h \in enabled
    BY <2>1, <2>2, <2>3 DEF SInv, StaysEnabled
  <2>5. QED
    BY <2>1, <2>2, <2>4 DEF BarsCurrent, BarsAt
<1>2. Init => TInv /\ SInv /\ BarsCurrent
  BY TypesFirst, ScreenFirst
<1>3. TInv /\ SInv /\ BarsCurrent /\ [Next]_vars => TInv' /\ SInv' /\ BarsCurrent'
  BY TypesKept, ScreenKept
<1>4. Spec => []SurfacesOfEnabled
  BY CaptureSurfacesOfEnabled
<1>5. QED
  BY <1>1, <1>2, <1>3, <1>4, PTL DEF Spec, ScreenAgrees


-----------------------------------------------------------------------------
(* A lock, from the compositor's report of it to the calls and the bridge  *)
(* that deal with it. A capture is open from the report on: its last event *)
(* is that of its activation, or none is waiting and it is active.         *)
EndOp == {"disable", "release", "close"}

LastEvent(h, i) == evs[i].h = h /\ \A j \in DOMAIN evs : j > i => evs[j].h # h
NoEvent(h) == \A i \in DOMAIN evs : evs[i].h # h
Activated(h) == \E i \in DOMAIN evs : evs[i].h = h /\ evs[i].kind = "activated"

Open(h) ==
  \/ \E i \in DOMAIN evs : LastEvent(h, i) /\ evs[i].kind = "activated"
  \/ NoEvent(h) /\ act[h] # None

EndSent(h) == \E i \in DOMAIN cmds : cmds[i].h = h /\ cmds[i].kind # "create"

(* The thread is to let go of the session's locks. *)
Unlocking(h) ==
  \/ \E c \in Slot : call[h][c].op \in EndOp /\ call[h][c].step = "send"
  \/ EndSent(h)

(* A session with a lock is open unless its end is under way, an open one  *)
(* has a lock, and there is one lock for all.                              *)
OneLock ==
  \A g, h \in Session, b, a \in Barrier :
    surf[g][b] = "locked" /\ surf[h][a] = "locked" => g = h /\ b = a
LockIsOpen == \A h \in Session : HasLock(h) => Open(h) \/ Unlocking(h)
OpenHasLock == \A h \in Session : Open(h) => HasLock(h)

(* While a call ends a capture nothing of the capture is left to be done. *)
EndingIsQuiet ==
  \A h \in Session : Ending(h) => act[h] = None /\ ~Activated(h) /\ bridge.h # h

(* Only a session of the registry is captured for, and the bridge finds    *)
(* its client's connection.                                                *)
LiveOnly ==
  \A h \in Session : act[h] # None \/ Activated(h) \/ bridge.h = h => h \in live
ReceiverThere ==
  /\ \A h \in Session :
       Activated(h) \/ (bridge.h = h /\ bridge.pc = "begun") => ctx[h] = "receiver"
  /\ bridge.pc # "failed"
BridgeEndsIt == \A h \in Session : BridgeEnds(h) => act[h] = None

(* The client knows what is active, until the bridge or a call that ended  *)
(* it comes to tell it otherwise.                                          *)
Telling(h) ==
  bridge.h = h \/ \E c \in Slot : call[h][c].op \in {"disable", "release"}
Told ==
  \A h \in live :
    /\ ~Telling(h) => seen[h] = act[h]
    /\ \A c \in Slot : call[h][c].op \in {"disable", "release"} /\ call[h][c].id = None
                         => seen[h] = None

CallSteps ==
  \A h \in Session, c \in Slot : call[h][c].step = "emit" => call[h][c].op \in {"disable", "release"}

Locks == OneLock /\ LockIsOpen /\ OpenHasLock
Quiet == EndingIsQuiet /\ LiveOnly /\ ReceiverThere /\ BridgeEndsIt /\ CallSteps
CInv == Locks /\ Quiet /\ Told

(* The steps that leave all of a capture where it is. *)
CaptureVars == <<live, act, call, cmds, surf, evs, bridge, seen>>

Calm == Faults \cap {"end_meets_start", "enable_twice", "surface_closed", "no_eis"} = {}

(* An event sent is the last of its session, and opens or ends a capture.  *)
LEMMA EventSent ==
  ASSUME TInv, NEW h \in Session, NEW kind \in {"activated", "deactivated"}, Report(kind, h),
         UNCHANGED act
  PROVE  /\ \A g \in Session : Activated(g)' <=> Activated(g) \/ (g = h /\ kind = "activated")
         /\ \A g \in Session : Open(g)' <=> IF g = h THEN kind = "activated" ELSE Open(g)
<1> DEFINE e == [kind |-> kind, h |-> h]
<1>1. e \in Event /\ e.kind = kind /\ e.h = h
  BY DEF Event
<1>2. /\ Len(evs) \in Nat /\ DOMAIN evs = 1..Len(evs) /\ DOMAIN evs' = 1..(Len(evs) + 1)
      /\ \A i \in 1..Len(evs) : evs'[i] = evs[i]
      /\ evs'[Len(evs) + 1] = e
  BY <1>1, Sent DEF Report, TInv, TypeOK
<1>3. \A g \in Session : Activated(g)' <=> Activated(g) \/ (g = h /\ kind = "activated")
  BY <1>1, <1>2 DEF Activated
<1>4. \A i \in 1..(Len(evs) + 1) : LastEvent(h, i)' <=> i = Len(evs) + 1
  <2>1. \A i \in 1..Len(evs) : Len(evs) + 1 > i
    BY <1>2
  <2>2. \A i, j \in 1..(Len(evs) + 1) : i = Len(evs) + 1 => ~(j > i)
    BY <1>2
  <2>3. \A i \in 1..(Len(evs) + 1) : i = Len(evs) + 1 \/ i \in 1..Len(evs)
    BY <1>2
  <2>4. Len(evs) + 1 \in 1..(Len(evs) + 1)
    BY <1>2
  <2> HIDE DEF e
  <2>5. QED
    BY <1>1, <1>2, <2>1, <2>2, <2>3, <2>4 DEF LastEvent
<1>5. Open(h)' <=> kind = "activated"
  <2>1. ~NoEvent(h)'
    BY <1>1, <1>2 DEF NoEvent
  <2>2. Len(evs) + 1 \in 1..(Len(evs) + 1)
    BY <1>2
  <2>3. QED
    BY <1>1, <1>2, <1>4, <2>1, <2>2 DEF Open
<1>6. ASSUME NEW g \in Session, g # h PROVE Open(g)' <=> Open(g)
  <2>1. NoEvent(g)' <=> NoEvent(g)
    BY <1>1, <1>2, <1>6 DEF NoEvent
  <2>2. \A i \in 1..Len(evs) : LastEvent(g, i)' <=> LastEvent(g, i)
    BY <1>1, <1>2, <1>6 DEF LastEvent
  <2>3. \A i \in {Len(evs) + 1} : ~LastEvent(g, i)'
    BY <1>1, <1>2, <1>6 DEF LastEvent
  <2>4. QED
    BY <1>2, <2>1, <2>2, <2>3 DEF Open
<1>7. QED
  BY <1>3, <1>5, <1>6

(* An event taken, with the activation it says, leaves captures open or    *)
(* ended as they were.                                                     *)
LEMMA EventTaken ==
  ASSUME TInv, evs # <<>>, evs' = Tail(evs),
         \A g \in Session \ {Head(evs).h} : act'[g] = act[g],
         Head(evs).kind = "activated" <=> act'[Head(evs).h] # None
  PROVE  /\ Head(evs) \in Event
         /\ \A g \in Session : Activated(g)' => Activated(g)
         /\ Head(evs).kind = "activated" => Activated(Head(evs).h)
         /\ \A g \in Session : Open(g)' <=> Open(g)
<1>1. /\ Head(evs) \in Event /\ Head(evs) = evs[1]
      /\ Len(evs) \in Nat \ {0} /\ DOMAIN evs = 1..Len(evs) /\ DOMAIN evs' = 1..(Len(evs) - 1)
      /\ \A i \in 1..(Len(evs) - 1) : evs'[i] = evs[i + 1]
  BY Received DEF TInv, TypeOK
<1>2. /\ \A i \in 1..(Len(evs) - 1) : i + 1 \in 1..Len(evs) /\ i + 1 # 1
      /\ \A i \in 1..Len(evs) : i # 1 => i - 1 \in 1..(Len(evs) - 1) /\ evs'[i - 1] = evs[i]
      /\ 1 \in 1..Len(evs)
  BY <1>1
<1>3. \A g \in Session : Activated(g)' => Activated(g)
  BY <1>1, <1>2 DEF Activated
<1>4. Head(evs).kind = "activated" => Activated(Head(evs).h)
  BY <1>1, <1>2 DEF Activated
<1>5. ASSUME NEW g \in Session PROVE Open(g)' <=> Open(g)
  <2>1. \A i \in 1..(Len(evs) - 1) : LastEvent(g, i)' <=> LastEvent(g, i + 1)
    <3> SUFFICES ASSUME NEW i \in 1..(Len(evs) - 1)
                 PROVE  LastEvent(g, i)' <=> LastEvent(g, i + 1)
      OBVIOUS
    <3>1. evs'[i] = evs[i + 1]
      BY <1>1
    <3>2. (\A j \in 1..(Len(evs) - 1) : j > i => evs'[j].h # g)
            <=> \A j \in 1..Len(evs) : j > i + 1 => evs[j].h # g
      <4>1. ASSUME \A j \in 1..(Len(evs) - 1) : j > i => evs'[j].h # g,
                   NEW j \in 1..Len(evs), j > i + 1
            PROVE  evs[j].h # g
        <5>1. j - 1 \in 1..(Len(evs) - 1) /\ j - 1 > i /\ evs'[j - 1] = evs[j]
          BY <1>1, <1>2, <4>1
        <5>2. QED
          BY <4>1, <5>1
      <4>2. ASSUME \A j \in 1..Len(evs) : j > i + 1 => evs[j].h # g,
                   NEW j \in 1..(Len(evs) - 1), j > i
            PROVE  evs'[j].h # g
        <5>1. j + 1 \in 1..Len(evs) /\ j + 1 > i + 1 /\ evs'[j] = evs[j + 1]
          BY <1>1, <1>2, <4>2
        <5>2. QED
          BY <4>2, <5>1
      <4>3. QED
        BY <4>1, <4>2
    <3>3. QED
      BY <1>1, <3>1, <3>2 DEF LastEvent
  <2>2. NoEvent(g)' <=> \A i \in 1..Len(evs) : i # 1 => evs[i].h # g
    <3>1. ASSUME NoEvent(g)', NEW i \in 1..Len(evs), i # 1
          PROVE  evs[i].h # g
      <4>1. i - 1 \in 1..(Len(evs) - 1) /\ evs'[i - 1] = evs[i]
        BY <1>2, <3>1
      <4>2. QED
        BY <1>1, <3>1, <4>1 DEF NoEvent
    <3>2. ASSUME \A i \in 1..Len(evs) : i # 1 => evs[i].h # g
          PROVE  NoEvent(g)'
      BY <1>1, <1>2, <3>2 DEF NoEvent
    <3>3. QED
      BY <3>1, <3>2
  <2>3. (\E i \in 1..(Len(evs) - 1) : LastEvent(g, i)' /\ evs'[i].kind = "activated")
          <=> \E i \in 1..Len(evs) : i # 1 /\ LastEvent(g, i) /\ evs[i].kind = "activated"
    <3>1. ASSUME NEW i \in 1..(Len(evs) - 1), LastEvent(g, i)', evs'[i].kind = "activated"
          PROVE  \E j \in 1..Len(evs) : j # 1 /\ LastEvent(g, j) /\ evs[j].kind = "activated"
      <4>1. i + 1 \in 1..Len(evs) /\ i + 1 # 1 /\ LastEvent(g, i + 1) /\ evs[i + 1].kind = "activated"
        BY <1>1, <1>2, <2>1, <3>1
      <4>2. QED
        BY <4>1
    <3>2. ASSUME NEW i \in 1..Len(evs), i # 1, LastEvent(g, i), evs[i].kind = "activated"
          PROVE  \E j \in 1..(Len(evs) - 1) : LastEvent(g, j)' /\ evs'[j].kind = "activated"
      <4>1. /\ i - 1 \in 1..(Len(evs) - 1) /\ (i - 1) + 1 = i /\ evs'[i - 1] = evs[i]
        BY <1>1, <1>2, <3>2
      <4>2. \E j \in 1..(Len(evs) - 1) : j + 1 = i /\ evs'[j] = evs[i]
        BY <4>1
      <4>3. QED
        BY <2>1, <3>2, <4>2
    <3>3. QED
      BY <3>1, <3>2
  <2>4. CASE g # Head(evs).h
    <3>1. NoEvent(g)' <=> NoEvent(g)
      BY <1>1, <2>2, <2>4 DEF NoEvent
    <3>2. ~LastEvent(g, 1)
      BY <1>1, <2>4 DEF LastEvent
    <3>3. act'[g] = act[g]
      BY <2>4
    <3>4. QED
      BY <1>1, <2>3, <3>1, <3>2, <3>3 DEF Open
  <2>5. CASE g = Head(evs).h
    <3>1. ~NoEvent(g)
      BY <1>1, <1>2, <2>5 DEF NoEvent
    <3>2. \A i \in 1..Len(evs) : i > 1 <=> i # 1
      BY <1>1
    <3>3. LastEvent(g, 1) <=> NoEvent(g)'
      BY <1>1, <2>2, <2>5, <3>2 DEF LastEvent
    <3>4. QED
      BY <1>1, <1>2, <2>3, <2>5, <3>1, <3>3 DEF Open
  <2>6. QED
    BY <2>4, <2>5
<1>6. QED
  BY <1>1, <1>3, <1>4, <1>5

(* A command run or sent, as it counts for the end of a session's locks.   *)
LEMMA EndTaken ==
  ASSUME TInv, cmds # <<>>, cmds' = Tail(cmds)
  PROVE  /\ Head(cmds) \in Command /\ Head(cmds) = cmds[1] /\ Len(cmds) \in Nat \ {0}
         /\ \A g \in Session :
              EndSent(g) <=> EndSent(g)' \/ (Head(cmds).h = g /\ Head(cmds).kind # "create")
<1>1. /\ Head(cmds) \in Command /\ Head(cmds) = cmds[1]
      /\ Len(cmds) \in Nat \ {0} /\ DOMAIN cmds = 1..Len(cmds) /\ DOMAIN cmds' = 1..(Len(cmds) - 1)
      /\ \A i \in 1..(Len(cmds) - 1) : cmds'[i] = cmds[i + 1]
  BY Received DEF TInv, TypeOK
<1>2. /\ \A i \in 1..(Len(cmds) - 1) : i + 1 \in 1..Len(cmds)
      /\ \A i \in 1..Len(cmds) : i # 1 => i - 1 \in 1..(Len(cmds) - 1) /\ cmds'[i - 1] = cmds[i]
      /\ 1 \in 1..Len(cmds)
  BY <1>1
<1>3. ASSUME NEW g \in Session, EndSent(g)
      PROVE  EndSent(g)' \/ (Head(cmds).h = g /\ Head(cmds).kind # "create")
  <2>1. PICK i \in 1..Len(cmds) : cmds[i].h = g /\ cmds[i].kind # "create"
    BY <1>1, <1>3 DEF EndSent
  <2>2. CASE i = 1
    BY <1>1, <2>1, <2>2
  <2>3. CASE i # 1
    <3>1. i - 1 \in DOMAIN cmds' /\ cmds'[i - 1] = cmds[i]
      BY <1>1, <1>2, <2>3
    <3>2. QED
      BY <2>1, <3>1 DEF EndSent
  <2>4. QED
    BY <2>2, <2>3
<1>4. \A g \in Session : EndSent(g)' => EndSent(g)
  BY <1>1, <1>2 DEF EndSent
<1>5. \A g \in Session : Head(cmds).h = g /\ Head(cmds).kind # "create" => EndSent(g)
  BY <1>1, <1>2 DEF EndSent
<1>6. QED
  BY <1>1, <1>3, <1>4, <1>5

(* The same of a command sent.                                             *)
LEMMA EndAdded ==
  ASSUME TInv, NEW m \in Command, cmds' = Append(cmds, m)
  PROVE  \A g \in Session : EndSent(g)' <=> EndSent(g) \/ (m.h = g /\ m.kind # "create")
<1>1. /\ Len(cmds) \in Nat /\ DOMAIN cmds = 1..Len(cmds) /\ DOMAIN cmds' = 1..(Len(cmds) + 1)
      /\ \A i \in 1..Len(cmds) : cmds'[i] = cmds[i]
      /\ cmds'[Len(cmds) + 1] = m
  BY Sent DEF TInv, TypeOK
<1>2. QED
  BY <1>1 DEF EndSent

(* A step that leaves a capture where it is.                               *)
LEMMA CaptureRests ==
  ASSUME CInv, UNCHANGED CaptureVars, \A g \in Session : ctx[g] = "receiver" => ctx'[g] = "receiver"
  PROVE  CInv'
<1>1. UNCHANGED <<live, act, call, cmds, surf, evs, bridge, seen>>
  BY DEF CaptureVars
<1>2. Locks'
  BY <1>1 DEF CInv, Locks, OneLock, LockIsOpen, OpenHasLock, HasLock, Open, Unlocking, EndSent, NoEvent,
              LastEvent
<1>3. EndingIsQuiet' /\ LiveOnly' /\ BridgeEndsIt' /\ CallSteps'
  BY <1>1 DEF CInv, Quiet, EndingIsQuiet, LiveOnly, BridgeEndsIt, CallSteps, Ending, Activated, BridgeEnds
<1>4. ReceiverThere'
  BY <1>1 DEF CInv, Quiet, ReceiverThere, Activated
<1>5. Told'
  BY <1>1 DEF CInv, Told, Telling
<1>6. QED
  BY <1>2, <1>3, <1>4, <1>5 DEF CInv, Quiet

(* A call that ends a capture finds nothing of it on its way, and takes    *)
(* what the client knows of.                                               *)
LEMMA CaptureBegin ==
  ASSUME OneCall, Calm, TInv, CInv, NEW h \in Session, NEW c \in Slot,
         Enable(h, c) \/ Disable(h, c) \/ Release(h, c) \/ Close(h, c)
  PROVE  CInv'
<1>1. PICK k :
        /\ call' = [call EXCEPT ![h][c] = k] /\ call[h][c] = NoCall /\ k.step = "send"
        /\ \/ k.op = "enable" /\ UNCHANGED <<live, act>>
           \/ /\ k.op \in EndOp /\ MayEnd(h) /\ act' = [act EXCEPT ![h] = None]
              /\ k.op # "close" => k.id = act[h] /\ UNCHANGED live
              /\ k.op = "close" => live' = live \ {h}
        /\ UNCHANGED <<cmds, surf, evs, bridge, ctx, seen>>
  <2>1. CASE Enable(h, c)
    <3> DEFINE e == [op |-> "enable", step |-> "send", id |-> None, bars |-> barriers[h]]
    <3>1. e.op = "enable" /\ e.step = "send"
      OBVIOUS
    <3>2. /\ call' = [call EXCEPT ![h][c] = e] /\ call[h][c] = NoCall
          /\ UNCHANGED <<live, act, cmds, surf, evs, bridge, ctx, seen>>
      BY <2>1 DEF Enable, Begin, wlVars, eisVars, sigVars
    <3> HIDE DEF e
    <3>3. QED
      BY <3>1, <3>2
  <2>2. CASE Disable(h, c) \/ Release(h, c)
    <3>1. PICK op \in {"disable", "release"} :
             call' = [call EXCEPT ![h][c] = [op |-> op, step |-> "send", id |-> act[h], bars |-> {}]]
      BY <2>2 DEF Disable, Release, Begin
    <3> DEFINE e == [op |-> op, step |-> "send", id |-> act[h], bars |-> {}]
    <3>2. e.op \in EndOp /\ e.op # "close" /\ e.step = "send" /\ e.id = act[h]
      BY DEF EndOp
    <3>3. /\ call[h][c] = NoCall /\ MayEnd(h) /\ act' = [act EXCEPT ![h] = None]
          /\ UNCHANGED <<live, cmds, surf, evs, bridge, ctx, seen>>
      BY <2>2 DEF Disable, Release, Begin, wlVars, eisVars, sigVars
    <3>4. call' = [call EXCEPT ![h][c] = e]
      BY <3>1
    <3> HIDE DEF e
    <3>5. QED
      BY <3>2, <3>3, <3>4
  <2>3. CASE Close(h, c)
    <3> DEFINE e == [op |-> "close", step |-> "send", id |-> None, bars |-> {}]
    <3>1. e.op \in EndOp /\ e.op = "close" /\ e.step = "send"
      BY DEF EndOp
    <3>2. /\ call' = [call EXCEPT ![h][c] = e] /\ call[h][c] = NoCall
          /\ MayEnd(h) /\ act' = [act EXCEPT ![h] = None] /\ live' = live \ {h}
          /\ UNCHANGED <<cmds, surf, evs, bridge, ctx, seen>>
      BY <2>3 DEF Close, Begin, wlVars, eisVars, sigVars
    <3> HIDE DEF e
    <3>3. QED
      BY <3>1, <3>2
  <2>4. QED
    BY <2>1, <2>2, <2>3
<1>2. /\ call'[h][c] = k /\ \A g \in Session \ {h}, d \in Slot : call'[g][d] = call[g][d]
      /\ \A d \in Slot : d = c
      /\ call[h][c].op = "idle"
  BY <1>1 DEF OneCall, TInv, TypeOK, NoCall
<1>3. /\ \A g \in Session : (HasLock(g)' <=> HasLock(g)) /\ (EndSent(g)' <=> EndSent(g))
      /\ \A g \in Session : (NoEvent(g)' <=> NoEvent(g)) /\ (Activated(g)' <=> Activated(g))
      /\ OneLock'
  BY <1>1 DEF HasLock, EndSent, NoEvent, Activated, CInv, Locks, OneLock
<1>4. CallSteps'
  BY <1>1, <1>2 DEF CInv, Quiet, CallSteps
<1>5. \A g \in Session \ {h} : /\ Ending(g)' <=> Ending(g)
                               /\ Unlocking(g)' <=> Unlocking(g)
                               /\ Telling(g)' <=> Telling(g)
  BY <1>1, <1>2 DEF Ending, Unlocking, Telling, EndSent
<1>6. CASE k.op = "enable" /\ UNCHANGED <<live, act>>
  <2>1. /\ (Ending(h)' <=> Ending(h)) /\ (Unlocking(h)' <=> Unlocking(h)) /\ (Telling(h)' <=> Telling(h))
    BY <1>1, <1>2, <1>6 DEF Ending, Unlocking, Telling, EndSent, EndOp
  <2>2. \A g \in Session : Open(g)' <=> Open(g)
    BY <1>1, <1>6 DEF Open, NoEvent, LastEvent
  <2>3. Locks'
    BY <1>3, <1>5, <2>1, <2>2 DEF CInv, Locks, LockIsOpen, OpenHasLock
  <2>4. Quiet'
    BY <1>1, <1>3, <1>4, <1>5, <1>6, <2>1
       DEF CInv, Quiet, EndingIsQuiet, LiveOnly, ReceiverThere, BridgeEndsIt, BridgeEnds
  <2>5. Told'
    <3>1. \A g \in live : g \in Session
      BY DEF TInv, TypeOK
    <3>2. \A g \in live, d \in Slot :
            call'[g][d].op \in {"disable", "release"} => call'[g][d] = call[g][d]
      BY <1>2, <1>6, <3>1
    <3>3. QED
      BY <1>1, <1>5, <1>6, <2>1, <3>1, <3>2 DEF CInv, Told
  <2>6. QED
    BY <2>3, <2>4, <2>5 DEF CInv
<1>7. CASE k.op \in EndOp /\ MayEnd(h) /\ act' = [act EXCEPT ![h] = None]
  <2>1. NoEvent(h) /\ ~Activated(h) /\ bridge.h # h
    BY <1>7 DEF MayEnd, Coming, Calm, NoEvent, Activated
  <2>2. act'[h] = None /\ \A g \in Session \ {h} : act'[g] = act[g]
    BY <1>7 DEF TInv, TypeOK
  <2>3. live' \subseteq live /\ \A g \in Session \ {h} : g \in live => g \in live'
    BY <1>1, <1>7 DEF EndOp
  <2>4. ~Open(h)' /\ \A g \in Session \ {h} : Open(g)' <=> Open(g)
    <3>1. \A i \in DOMAIN evs : ~LastEvent(h, i)
      BY <2>1 DEF LastEvent, NoEvent
    <3>2. QED
      BY <1>1, <2>2, <3>1 DEF Open, NoEvent, LastEvent
  <2>5. Unlocking(h)'
    BY <1>1, <1>2, <1>7 DEF Unlocking
  <2>6. Locks'
    BY <1>3, <1>5, <2>4, <2>5 DEF CInv, Locks, LockIsOpen, OpenHasLock
  <2>7. EndingIsQuiet' /\ LiveOnly' /\ BridgeEndsIt'
    BY <1>1, <1>3, <1>5, <2>1, <2>2, <2>3
       DEF CInv, Quiet, EndingIsQuiet, LiveOnly, BridgeEndsIt, BridgeEnds
  <2>8. ReceiverThere'
    BY <1>1, <1>3 DEF CInv, Quiet, ReceiverThere
  <2>9. Told'
    <3> SUFFICES ASSUME NEW g \in live'
                 PROVE  /\ ~Telling(g)' => seen[g] = act'[g]
                        /\ \A d \in Slot : call'[g][d].op \in {"disable", "release"} /\ call'[g][d].id = None
                                             => seen[g] = None
      BY <1>1 DEF Told
    <3>1. g \in live /\ g \in Session
      BY <2>3 DEF TInv, TypeOK
    <3>2. CASE g = h
      <4>1. k.op # "close" /\ k.id = act[h]
        BY <1>1, <1>7, <3>2 DEF EndOp
      <4>2. Telling(h)'
        BY <1>2, <1>7, <4>1 DEF Telling, EndOp
      <4>3. seen[h] = act[h]
        BY <1>2, <2>1, <3>1, <3>2 DEF CInv, Told, Telling
      <4>4. QED
        BY <1>2, <3>2, <4>1, <4>2, <4>3
    <3>3. CASE g # h
      BY <1>2, <1>5, <2>2, <3>1, <3>3 DEF CInv, Told
    <3>4. QED
      BY <3>2, <3>3
  <2>10. QED
    BY <1>4, <2>6, <2>7, <2>8, <2>9 DEF CInv, Quiet
<1>8. QED
  BY <1>1, <1>6, <1>7

(* The command of a call that ends a capture goes on with what the call    *)
(* has begun, and its signals tell the client.                             *)
LEMMA CaptureSend ==
  ASSUME OneCall, TInv, CInv, NEW h \in Session, NEW c \in Slot,
         SendCommand(h, c), call[h][c].op # "idle"
  PROVE  CInv'
<1> DEFINE k == call[h][c]
<1>1. PICK n \in Call :
        /\ k.step = "send" /\ call' = [call EXCEPT ![h][c] = n]
        /\ \/ k.op \in {"disable", "release"} /\ n.op = k.op /\ n.id = k.id
           \/ k.op \notin {"disable", "release"} /\ n = NoCall
        /\ UNCHANGED <<live, act, surf, evs, bridge, seen>>
  <2>1. k \in Call /\ NoCall \in Call
    BY DEF TInv, TypeOK, NoCall, Call
  <2>2. /\ [k EXCEPT !.step = "emit"] \in Call /\ [k EXCEPT !.step = "emit"].op = k.op
        /\ [k EXCEPT !.step = "emit"].id = k.id
    BY <2>1 DEF Call
  <2>3. /\ k.step = "send"
        /\ call' = [call EXCEPT ![h][c] =
                      IF k.op \in {"disable", "release"} THEN [k EXCEPT !.step = "emit"] ELSE NoCall]
        /\ UNCHANGED <<live, act, surf, evs, bridge, seen>>
    BY DEF SendCommand, sesVars, wlVars, sigVars
  <2>4. QED
    BY <2>1, <2>2, <2>3
<1>2. /\ call'[h][c] = n /\ \A g \in Session \ {h}, d \in Slot : call'[g][d] = call[g][d]
      /\ \A d \in Slot : d = c
  BY <1>1 DEF OneCall, TInv, TypeOK
<1>3. /\ \A g \in Session \ {h} : EndSent(g)' <=> EndSent(g)
      /\ EndSent(h)' <=> EndSent(h) \/ k.op \in EndOp
  <2>1. CASE k.op = "enable" /\ UNCHANGED cmds
    BY <2>1 DEF EndSent, EndOp
  <2>2. CASE k.op = "enable" /\ Send("create", h, k.bars)
    <3> DEFINE m == [kind |-> "create", h |-> h, bars |-> k.bars]
    <3>1. m \in Command /\ m.h = h /\ m.kind = "create" /\ cmds' = Append(cmds, m)
      BY <2>2 DEF Send, Command, TInv, TypeOK, Call
    <3> HIDE DEF m
    <3>2. QED
      BY <2>2, <3>1, EndAdded DEF EndOp
  <2>3. CASE k.op \in EndOp /\ \E kind \in {"destroy", "release"} : Send(kind, h, {})
    <3>1. PICK kind \in {"destroy", "release"} : Send(kind, h, {})
      BY <2>3
    <3> DEFINE m == [kind |-> kind, h |-> h, bars |-> {}]
    <3>2. m \in Command /\ m.h = h /\ m.kind # "create" /\ cmds' = Append(cmds, m)
      BY <3>1 DEF Send, Command
    <3> HIDE DEF m
    <3>3. QED
      BY <2>3, <3>2, EndAdded
  <2>4. QED
    BY <2>1, <2>2, <2>3 DEF SendCommand, EndCommand, EndOp
<1>4. \A g \in Session :
        /\ (HasLock(g)' <=> HasLock(g)) /\ (Open(g)' <=> Open(g)) /\ (Activated(g)' <=> Activated(g))
  BY <1>1 DEF HasLock, Open, NoEvent, LastEvent, Activated
<1>5. \A g \in Session : /\ Unlocking(g) => Unlocking(g)'
                         /\ Ending(g)' => Ending(g)
                         /\ Telling(g)' <=> Telling(g)
  <2> SUFFICES ASSUME NEW g \in Session
               PROVE  /\ Unlocking(g) => Unlocking(g)'
                      /\ Ending(g)' => Ending(g)
                      /\ Telling(g)' <=> Telling(g)
    OBVIOUS
  <2>1. CASE g # h
    BY <1>1, <1>2, <1>3, <2>1 DEF Unlocking, Ending, EndSent, Telling
  <2>2. CASE g = h
    <3>1. Unlocking(h) => Unlocking(h)'
      BY <1>2, <1>3 DEF Unlocking
    <3>2. Ending(h)' => Ending(h)
      <4>1. n.op \in EndOp => k.op \in EndOp
        BY <1>1 DEF NoCall, EndOp
      <4>2. QED
        BY <1>2, <1>3, <4>1 DEF Ending, EndSent, EndOp
    <3>3. Telling(h)' <=> Telling(h)
      BY <1>1, <1>2 DEF Telling, NoCall
    <3>4. QED
      BY <2>2, <3>1, <3>2, <3>3
  <2>3. QED
    BY <2>1, <2>2
<1>6. Locks'
  BY <1>1, <1>4, <1>5 DEF CInv, Locks, OneLock, LockIsOpen, OpenHasLock
<1>7. EndingIsQuiet' /\ LiveOnly' /\ BridgeEndsIt'
  BY <1>1, <1>4, <1>5 DEF CInv, Quiet, EndingIsQuiet, LiveOnly, BridgeEndsIt, BridgeEnds
<1>8. CallSteps'
  BY <1>1, <1>2 DEF CInv, Quiet, CallSteps, NoCall
<1>9. ReceiverThere'
  <2>1. k.op = "close" => ~Activated(h) /\ bridge.h # h
    BY DEF CInv, Quiet, EndingIsQuiet, Ending
  <2>2. \A g \in Session : ctx'[g] = ctx[g] \/ (g = h /\ k.op = "close")
    BY DEF SendCommand, TInv, TypeOK
  <2>3. QED
    BY <1>1, <1>4, <2>1, <2>2 DEF CInv, Quiet, ReceiverThere
<1>10. Told'
  <2>1. \A g \in live : g \in Session
    BY DEF TInv, TypeOK
  <2>2. \A g \in Session, d \in Slot :
          call'[g][d].op \in {"disable", "release"} =>
            call[g][d].op \in {"disable", "release"} /\ call'[g][d].id = call[g][d].id
    BY <1>1, <1>2 DEF NoCall
  <2>3. QED
    BY <1>1, <1>5, <2>1, <2>2 DEF CInv, Told
<1>11. QED
  BY <1>6, <1>7, <1>8, <1>9, <1>10 DEF CInv, Quiet

(* The signals of a call tell the client of the end it took.               *)
LEMMA CaptureEmit ==
  ASSUME OneCall, TInv, CInv, NEW h \in Session, NEW c \in Slot, EmitSignals(h, c)
  PROVE  CInv'
<1> DEFINE k == call[h][c]
<1>1. /\ k.step = "emit" /\ k.op \in {"disable", "release"}
      /\ call' = [call EXCEPT ![h][c] = NoCall]
      /\ UNCHANGED <<live, act, cmds, surf, evs, bridge, ctx>>
  BY DEF EmitSignals, CInv, Quiet, CallSteps, sesVars, wlVars, eisVars
<1>2. /\ call'[h][c] = NoCall /\ \A g \in Session \ {h}, d \in Slot : call'[g][d] = call[g][d]
      /\ \A d \in Slot : d = c
  BY <1>1 DEF OneCall, TInv, TypeOK
<1>3. act[h] = None /\ bridge.h # h
  BY <1>1 DEF CInv, Quiet, EndingIsQuiet, Ending
<1>4. \A g \in Session :
        /\ (HasLock(g)' <=> HasLock(g)) /\ (Open(g)' <=> Open(g)) /\ (Activated(g)' <=> Activated(g))
        /\ EndSent(g)' <=> EndSent(g)
  BY <1>1 DEF HasLock, Open, NoEvent, LastEvent, Activated, EndSent
<1>5. \A g \in Session : (Unlocking(g) => Unlocking(g)') /\ (Ending(g)' => Ending(g))
  <2>1. \A g \in Session : Unlocking(g) => Unlocking(g)'
    BY <1>1, <1>2, <1>4 DEF Unlocking
  <2>2. \A g \in Session : Ending(g)' => Ending(g)
    BY <1>1, <1>2, <1>4 DEF Ending, EndSent, NoCall
  <2>3. QED
    BY <2>1, <2>2
<1>6. Locks'
  BY <1>1, <1>4, <1>5 DEF CInv, Locks, OneLock, LockIsOpen, OpenHasLock
<1>7. Quiet'
  <2>1. CallSteps'
    BY <1>1, <1>2 DEF CInv, Quiet, CallSteps, NoCall
  <2>2. QED
    BY <1>1, <1>4, <1>5, <2>1
       DEF CInv, Quiet, EndingIsQuiet, LiveOnly, ReceiverThere, BridgeEndsIt, BridgeEnds
<1>8. Told'
  <2> SUFFICES ASSUME NEW g \in live
               PROVE  /\ ~Telling(g)' => seen'[g] = act[g]
                      /\ \A d \in Slot : call'[g][d].op \in {"disable", "release"} /\ call'[g][d].id = None
                                           => seen'[g] = None
    BY <1>1 DEF Told
  <2>1. g \in Session
    BY DEF TInv, TypeOK
  <2>2. CASE g = h
    <3>1. seen'[h] = None
      <4>1. CASE k.id = None
        BY <1>1, <2>2, <4>1 DEF EmitSignals, sigVars, CInv, Told
      <4>2. CASE k.id # None
        BY <4>2 DEF EmitSignals, Deactivated, TInv, TypeOK
      <4>3. QED
        BY <4>1, <4>2
    <3>2. QED
      BY <1>2, <1>3, <2>2, <3>1 DEF NoCall
  <2>3. CASE g # h
    <3>1. seen'[g] = seen[g]
      BY <2>1, <2>3 DEF EmitSignals, Deactivated, sigVars, TInv, TypeOK
    <3>2. Telling(g)' <=> Telling(g)
      BY <1>1, <1>2, <2>1, <2>3 DEF Telling
    <3>3. QED
      BY <1>2, <2>1, <2>3, <3>1, <3>2 DEF CInv, Told
  <2>4. QED
    BY <2>2, <2>3
<1>9. QED
  BY <1>6, <1>7, <1>8 DEF CInv

(* The thread lets go of the locks of a session that is not open, and lays *)
(* out barriers for one that has none.                                     *)
LEMMA CaptureRun ==
  ASSUME TInv, SInv, CInv, RunCommand
  PROVE  CInv'
<1>1. PICK m \in Command :
        /\ m = Head(cmds) /\ cmds # <<>> /\ cmds' = Tail(cmds)
        /\ \/ m.kind = "create" /\ CreateBarrierSurfaces(m.h, m.bars)
           \/ m.kind = "destroy" /\ DestroySession(m.h)
           \/ m.kind = "release" /\ ReleaseActiveLocks(m.h)
        /\ UNCHANGED <<live, act, call, evs, bridge, ctx, seen>>
  BY EndTaken DEF RunCommand, sesVars, eisVars, sigVars
<1>2. /\ m = cmds[1] /\ Len(cmds) \in Nat \ {0}
      /\ \A g \in Session : EndSent(g) <=> EndSent(g)' \/ (m.h = g /\ m.kind # "create")
  BY <1>1, EndTaken
<1>3. m.h \in Session /\ m.bars \subseteq Barrier
  BY DEF Command
<1>4. /\ \A g \in Session \ {m.h} : surf'[g] = surf[g]
      /\ \A b \in Barrier : surf'[m.h][b] # "locked"
      /\ m.kind = "create" => \A b \in Barrier : surf[m.h][b] = "none"
  <2>1. CASE m.kind = "create"
    <3>1. ~LaidAt(m.h, 0)
      BY <1>2, <1>3, <2>1 DEF SInv, CreatesApart, LaidAt, Cleared, Is
    <3>2. \A b \in Barrier : surf[m.h][b] = "none"
      BY <3>1 DEF LaidAt, Surfaces
    <3>3. PICK mapped \in SUBSET m.bars :
            surf' = [surf EXCEPT ![m.h] = [b \in Barrier |-> IF b \in mapped THEN "up" ELSE surf[m.h][b]]]
      BY <1>1, <2>1 DEF CreateBarrierSurfaces
    <3>4. QED
      BY <1>3, <3>2, <3>3 DEF TInv, TypeOK
  <2>2. CASE m.kind = "destroy"
    BY <1>1, <1>3, <2>2 DEF DestroySession, TInv, TypeOK
  <2>3. CASE m.kind = "release"
    <3>1. surf' = [surf EXCEPT ![m.h] = Unlock(m.h)]
      BY <1>1, <2>3 DEF ReleaseActiveLocks
    <3>2. \A b \in Barrier : Unlock(m.h)[b] # "locked"
      BY DEF Unlock
    <3>3. QED
      BY <1>3, <2>3, <3>1, <3>2 DEF TInv, TypeOK
  <2>4. QED
    BY <1>1, <2>1, <2>2, <2>3
<1>5. /\ \A g \in Session \ {m.h} : HasLock(g)' <=> HasLock(g)
      /\ ~HasLock(m.h)'
      /\ m.kind = "create" => ~HasLock(m.h)
  BY <1>3, <1>4 DEF HasLock
<1>6. \A g \in Session : (Open(g)' <=> Open(g)) /\ (Activated(g)' <=> Activated(g))
  BY <1>1 DEF Open, NoEvent, LastEvent, Activated
<1>7. \A g \in Session : /\ g # m.h => (Unlocking(g) => Unlocking(g)')
                         /\ Ending(g)' => Ending(g)
                         /\ m.kind # "create" => Ending(m.h)
  BY <1>1, <1>2, <1>3 DEF Unlocking, Ending, EndSent
<1>8. ~Open(m.h)
  <2>1. CASE m.kind = "create"
    BY <1>3, <1>5, <2>1 DEF CInv, Locks, OpenHasLock
  <2>2. CASE m.kind # "create"
    BY <1>3, <1>7, <2>2 DEF CInv, Quiet, EndingIsQuiet, Open, LastEvent, Activated
  <2>3. QED
    BY <2>1, <2>2
<1>9. Locks'
  <2>1. OneLock'
    BY <1>3, <1>4 DEF CInv, Locks, OneLock
  <2>2. LockIsOpen' /\ OpenHasLock'
    BY <1>3, <1>5, <1>6, <1>7, <1>8 DEF CInv, Locks, LockIsOpen, OpenHasLock
  <2>3. QED
    BY <2>1, <2>2 DEF Locks
<1>10. Quiet'
  BY <1>1, <1>6, <1>7 DEF CInv, Quiet, EndingIsQuiet, LiveOnly, ReceiverThere, BridgeEndsIt, BridgeEnds,
                          CallSteps
<1>11. Told'
  BY <1>1 DEF CInv, Told, Telling
<1>12. QED
  BY <1>9, <1>10, <1>11 DEF CInv

(* A lock opens a capture of a session that is enabled; an unlock, which   *)
(* can only be that of the one lock there is, ends it.                     *)
LEMMA CaptureLock ==
  ASSUME Calm, TInv, SInv, CInv, NEW h \in Session, NEW b \in Barrier,
         PointerEnter(h, b) \/ PointerLeave(h, b) \/ Locked(h, b) \/ Unlocked(h, b)
  PROVE  CInv'
<1>1. PICK to \in Lock : /\ surf' = [surf EXCEPT ![h][b] = to]
                         /\ UNCHANGED <<live, act, call, cmds, bridge, ctx, seen>>
  BY DEF PointerEnter, PointerLeave, Locked, Unlocked, LockStep, Lock, sesVars, eisVars, sigVars
<1>2. surf'[h][b] = to /\ \A g \in Session, a \in Barrier : g # h \/ a # b => surf'[g][a] = surf[g][a]
  BY <1>1 DEF TInv, TypeOK
<1>3. \A g \in Session : /\ Ending(g)' <=> Ending(g)
                         /\ Unlocking(g)' <=> Unlocking(g)
                         /\ Telling(g)' <=> Telling(g)
  BY <1>1 DEF Ending, Unlocking, Telling, EndSent
<1>4. Told' /\ CallSteps' /\ BridgeEndsIt'
  BY <1>1 DEF CInv, Quiet, Told, Telling, CallSteps, BridgeEndsIt, BridgeEnds
<1>5. CASE PointerEnter(h, b) \/ PointerLeave(h, b)
  <2>1. \A g \in Session, a \in Barrier : surf'[g][a] = "locked" <=> surf[g][a] = "locked"
    BY <1>2, <1>1, <1>5 DEF PointerEnter, PointerLeave, LockStep, TInv, TypeOK
  <2>2. UNCHANGED evs
    BY <1>5 DEF PointerEnter, PointerLeave
  <2>3. \A g \in Session :
          (HasLock(g)' <=> HasLock(g)) /\ (Open(g)' <=> Open(g)) /\ (Activated(g)' <=> Activated(g))
    BY <1>1, <2>1, <2>2 DEF HasLock, Open, NoEvent, LastEvent, Activated
  <2>4. Locks'
    BY <1>3, <2>1, <2>3 DEF CInv, Locks, OneLock, LockIsOpen, OpenHasLock
  <2>5. EndingIsQuiet' /\ LiveOnly' /\ ReceiverThere'
    BY <1>1, <1>3, <2>3 DEF CInv, Quiet, EndingIsQuiet, LiveOnly, ReceiverThere
  <2>6. QED
    BY <1>4, <2>4, <2>5 DEF CInv, Quiet
<1>6. CASE Locked(h, b)
  <2>1. /\ to = "locked" /\ ~Ending(h) /\ ctx[h] = "receiver"
        /\ surf[h][b] = "locking" /\ Report("activated", h)
    BY <1>2, <1>6 DEF Locked, LockStep, MayStart, Calm, TInv, TypeOK
  <2>2. \A g \in Session, a \in Barrier : surf[g][a] # "locked"
    <3> SUFFICES ASSUME NEW g \in Session, NEW a \in Barrier, surf[g][a] = "locked"
                 PROVE  <<g, a>> \in LockedOnes
      BY <1>6 DEF Locked
    <3>1. <<g, a>> \in Session \X Barrier /\ <<g, a>>[1] = g /\ <<g, a>>[2] = a
      OBVIOUS
    <3>2. QED
      BY <3>1 DEF LockedOnes
  <2>3. /\ \A g \in Session : Activated(g)' <=> Activated(g) \/ g = h
        /\ \A g \in Session : Open(g)' <=> IF g = h THEN TRUE ELSE Open(g)
    BY <1>1, <2>1, EventSent
  <2>4. HasLock(h)' /\ \A g \in Session \ {h} : HasLock(g)' <=> HasLock(g)
    BY <1>2, <2>1 DEF HasLock
  <2>5. Locks'
    <3>1. OneLock'
      BY <1>2, <2>2 DEF OneLock
    <3>2. LockIsOpen' /\ OpenHasLock'
      BY <1>3, <2>3, <2>4 DEF CInv, Locks, LockIsOpen, OpenHasLock
    <3>3. QED
      BY <3>1, <3>2 DEF Locks
  <2>6. h \in live
    <3>1. LaidAt(h, 0)
      BY <2>1 DEF LaidAt, Surfaces
    <3>2. ~Cleared(h, 0, Len(cmds) + 1)
      <4>1. DOMAIN cmds = 1..Len(cmds) /\ Len(cmds) \in Nat
        BY LenProperties DEF TInv, TypeOK
      <4>2. QED
        BY <2>1, <4>1 DEF Cleared, Is, Ending
    <3>3. ~Clearing(h)
      BY <2>1 DEF Clearing, Ending
    <3>4. 0 \in 0..Len(cmds)
      BY LenProperties DEF TInv, TypeOK
    <3>5. h \in enabled
      BY <3>1, <3>2, <3>3, <3>4 DEF SInv, StaysEnabled, Stays
    <3>6. QED
      BY <3>5 DEF TInv, TypeOK
  <2>7. EndingIsQuiet' /\ LiveOnly' /\ ReceiverThere'
    BY <1>1, <1>3, <2>1, <2>3, <2>6 DEF CInv, Quiet, EndingIsQuiet, LiveOnly, ReceiverThere
  <2>8. QED
    BY <1>4, <2>5, <2>7 DEF CInv, Quiet
<1>7. CASE Unlocked(h, b)
  <2>1. to = "up" /\ surf[h][b] = "locked" /\ Report("deactivated", h)
    BY <1>2, <1>7 DEF Unlocked, LockStep, TInv, TypeOK
  <2>2. \A g \in Session, a \in Barrier : surf'[g][a] # "locked"
    BY <1>2, <2>1 DEF CInv, Locks, OneLock
  <2>3. /\ \A g \in Session : Activated(g)' <=> Activated(g)
        /\ \A g \in Session : Open(g)' <=> IF g = h THEN FALSE ELSE Open(g)
    BY <1>1, <2>1, EventSent
  <2>4. \A g \in Session \ {h} : ~HasLock(g)
    BY <2>1 DEF HasLock, CInv, Locks, OneLock
  <2>5. Locks'
    BY <2>2, <2>3, <2>4 DEF CInv, Locks, OneLock, LockIsOpen, OpenHasLock, HasLock
  <2>6. EndingIsQuiet' /\ LiveOnly' /\ ReceiverThere'
    BY <1>1, <1>3, <2>3 DEF CInv, Quiet, EndingIsQuiet, LiveOnly, ReceiverThere
  <2>7. QED
    BY <1>4, <2>5, <2>6 DEF CInv, Quiet
<1>8. QED
  BY <1>5, <1>6, <1>7

(* The bridge takes an event and gives the session its activation, or      *)
(* takes it: the capture is open as before.                                *)
LEMMA CaptureTake ==
  ASSUME TInv, CInv, TakeActivated \/ TakeDeactivated
  PROVE  CInv'
<1>1. PICK e \in Event :
        /\ e = Head(evs) /\ evs # <<>> /\ evs' = Tail(evs) /\ bridge = Resting
        /\ UNCHANGED <<live, call, cmds, surf, ctx, seen>>
  BY Received DEF TakeActivated, TakeDeactivated, TInv, TypeOK, wlVars, eisVars, sigVars
<1>2. e.h \in Session
  BY DEF Event
<1>3. CASE TakeActivated
  <2>1. e.kind = "activated" /\ Activated(e.h)
    <3>1. e = evs[1] /\ 1 \in DOMAIN evs
      BY <1>1, Received DEF TInv, TypeOK
    <3>2. QED
      BY <1>1, <1>3, <3>1 DEF TakeActivated, Activated
  <2>2. e.h \in live /\ ctx[e.h] = "receiver"
    BY <1>2, <2>1 DEF CInv, Quiet, LiveOnly, ReceiverThere
  <2>3. /\ act' = [act EXCEPT ![e.h] = nextId[e.h]] /\ nextId[e.h] \in Nat
        /\ bridge' = [pc |-> "begun", h |-> e.h, id |-> nextId[e.h]]
    BY <1>1, <1>2, <1>3, <2>2 DEF TakeActivated, Bridging, TInv, TypeOK
  <2>4. act'[e.h] # None
    <3>1. BridgeNamed'
      BY <1>3, TypesOfThreads DEF BridgeTask, TInv
    <3>2. nextId[e.h] \in Id
      BY <2>3, <3>1 DEF BridgeNamed
    <3>3. QED
      BY <1>2, <2>3, <3>2, CaptureAssumption DEF TInv, TypeOK
  <2>5. \A g \in Session \ {e.h} : act'[g] = act[g]
    BY <2>3 DEF TInv, TypeOK
  <2>6. /\ \A g \in Session : Activated(g)' => Activated(g)
        /\ \A g \in Session : Open(g)' <=> Open(g)
    BY <1>1, <2>1, <2>4, <2>5, EventTaken
  <2>7. Locks'
    BY <1>1, <2>6 DEF CInv, Locks, OneLock, LockIsOpen, OpenHasLock, HasLock, Unlocking, EndSent
  <2>8. ~Ending(e.h)
    BY <1>2, <2>1 DEF CInv, Quiet, EndingIsQuiet
  <2>9. \A g \in Session : bridge.h # g
    BY <1>1, CaptureAssumption DEF Resting
  <2>10. Quiet'
    <3>1. bridge'.pc = "begun" /\ bridge'.h = e.h
      BY <2>3
    <3>2. EndingIsQuiet' /\ LiveOnly'
      BY <1>1, <2>2, <2>5, <2>6, <2>8, <3>1 DEF CInv, Quiet, EndingIsQuiet, LiveOnly, Ending
    <3>3. ReceiverThere'
      BY <1>1, <2>2, <2>6, <3>1 DEF CInv, Quiet, ReceiverThere
    <3>4. BridgeEndsIt' /\ CallSteps'
      BY <1>1, <3>1 DEF CInv, Quiet, BridgeEndsIt, BridgeEnds, CallSteps
    <3>5. QED
      BY <3>2, <3>3, <3>4 DEF Quiet
  <2>11. Told'
    <3> SUFFICES ASSUME NEW g \in live
                 PROVE  /\ ~Telling(g)' => seen[g] = act'[g]
                        /\ \A d \in Slot : call[g][d].op \in {"disable", "release"} /\ call[g][d].id = None
                                             => seen[g] = None
      BY <1>1 DEF Told
    <3>1. g \in Session
      BY DEF TInv, TypeOK
    <3>2. Telling(g)' <=> Telling(g) \/ g = e.h
      BY <1>1, <2>3, <2>9, <3>1 DEF Telling
    <3>3. QED
      BY <2>5, <3>1, <3>2 DEF CInv, Told
  <2>12. QED
    BY <2>7, <2>10, <2>11 DEF CInv
<1>4. CASE TakeDeactivated
  <2>1. e.kind = "deactivated"
    BY <1>1, <1>4 DEF TakeDeactivated
  <2>2. /\ \A g \in Session \ {e.h} : act'[g] = act[g]
        /\ act'[e.h] = None
        /\ \/ act[e.h] # None /\ bridge' = [pc |-> "ended", h |-> e.h, id |-> act[e.h]]
           \/ act[e.h] = None /\ UNCHANGED bridge
    <3>1. e.h \notin live => act[e.h] = None
      BY <1>2 DEF CInv, Quiet, LiveOnly
    <3>2. CASE act[e.h] # None
      BY <1>1, <1>2, <1>4, <3>1, <3>2 DEF TakeDeactivated, Bridging, TInv, TypeOK
    <3>3. CASE act[e.h] = None
      BY <1>1, <1>2, <1>4, <3>3 DEF TakeDeactivated
    <3>4. QED
      BY <3>2, <3>3
  <2>3. /\ \A g \in Session : Activated(g)' => Activated(g)
        /\ \A g \in Session : Open(g)' <=> Open(g)
    BY <1>1, <2>1, <2>2, EventTaken
  <2>4. Locks'
    BY <1>1, <2>3 DEF CInv, Locks, OneLock, LockIsOpen, OpenHasLock, HasLock, Unlocking, EndSent
  <2>5. \A g \in Session : bridge.h # g
    BY <1>1, CaptureAssumption DEF Resting
  <2>6. \A g \in Session : bridge'.h = g => g = e.h /\ act[e.h] # None /\ bridge'.pc = "ended"
    BY <2>2, <2>5
  <2>7. EndingIsQuiet' /\ LiveOnly'
    BY <1>1, <1>2, <2>2, <2>3, <2>6 DEF CInv, Quiet, EndingIsQuiet, LiveOnly, Ending
  <2>8. ReceiverThere' /\ BridgeEndsIt' /\ CallSteps'
    <3>1. bridge'.pc # "failed"
      BY <2>2 DEF CInv, Quiet, ReceiverThere
    <3>2. QED
      BY <1>1, <2>2, <2>3, <2>6, <3>1 DEF CInv, Quiet, ReceiverThere, BridgeEndsIt, BridgeEnds, CallSteps
  <2>9. Told'
    <3> SUFFICES ASSUME NEW g \in live
                 PROVE  /\ ~Telling(g)' => seen[g] = act'[g]
                        /\ \A d \in Slot : call[g][d].op \in {"disable", "release"} /\ call[g][d].id = None
                                             => seen[g] = None
      BY <1>1 DEF Told
    <3>1. g \in Session
      BY DEF TInv, TypeOK
    <3>2. CASE g = e.h
      <4>1. Telling(g)' <=> Telling(g) \/ act[e.h] # None
        BY <1>1, <2>2, <2>5, <3>1, <3>2 DEF Telling
      <4>2. QED
        BY <2>2, <3>1, <3>2, <4>1 DEF CInv, Told
    <3>3. CASE g # e.h
      <4>1. Telling(g)' <=> Telling(g)
        BY <1>1, <2>5, <2>6, <3>1, <3>3 DEF Telling
      <4>2. QED
        BY <2>2, <3>1, <3>3, <4>1 DEF CInv, Told
    <3>4. QED
      BY <3>2, <3>3
  <2>10. QED
    BY <2>4, <2>7, <2>8, <2>9 DEF CInv, Quiet
<1>5. QED
  BY <1>3, <1>4

(* The bridge, at work on an activation or its end, tells the client what  *)
(* the session has.                                                        *)
LEMMA CaptureBridge ==
  ASSUME TInv, CInv, AnnouncedIsOpen,
         StartCapture \/ RollBack \/ EmitActivated \/ StopCapture \/ EmitDeactivated
  PROVE  CInv'
<1>1. /\ bridge.pc # "idle" /\ bridge.h \in Session /\ bridge.h \in live
      /\ UNCHANGED <<live, act, call, cmds, surf, evs, ctx>>
  <2>1. bridge.pc \in {"begun", "emit_activated", "ended", "emit_deactivated"}
    BY DEF StartCapture, RollBack, EmitActivated, StopCapture, EmitDeactivated, CInv, Quiet, ReceiverThere
  <2>2. bridge.h \in Session
    BY <2>1 DEF TInv, BridgeNamed
  <2>3. bridge.h \in live
    BY <2>2 DEF CInv, Quiet, LiveOnly
  <2>4. ~RollBack
    BY <2>1 DEF RollBack
  <2>5. UNCHANGED <<live, act, call, cmds, surf, evs, ctx>>
    BY <2>4 DEF StartCapture, EmitActivated, StopCapture, EmitDeactivated, sesVars, wlVars, eisVars
  <2>6. QED
    BY <2>1, <2>2, <2>3, <2>5
<1>2. PICK h \in live : h = bridge.h
  BY <1>1
<1>3. /\ bridge'.h \in {h, None} /\ bridge'.pc # "begun" /\ bridge'.pc # "failed"
      /\ BridgeEnds(h)' => BridgeEnds(h)
  <2>1. CASE StartCapture
    <3>1. ctx[h] = "receiver"
      BY <1>1, <1>2, <2>1 DEF StartCapture, CInv, Quiet, ReceiverThere
    <3>2. bridge' = [pc |-> "emit_activated", h |-> h, id |-> bridge.id]
      BY <1>2, <2>1, <3>1 DEF StartCapture, Bridging
    <3>3. QED
      BY <3>2 DEF BridgeEnds
  <2>2. CASE StopCapture
    BY <1>2, <2>2 DEF StopCapture, Bridging, BridgeEnds
  <2>3. CASE EmitActivated \/ EmitDeactivated
    <3>1. bridge' = Resting
      BY <2>3 DEF EmitActivated, EmitDeactivated
    <3>2. QED
      BY <1>1, <1>2, <3>1, CaptureAssumption DEF Resting, BridgeEnds
  <2>4. CASE RollBack
    BY <2>4 DEF RollBack, CInv, Quiet, ReceiverThere
  <2>5. QED
    BY <2>1, <2>2, <2>3, <2>4
<1>4. h \in Session /\ None \notin Session
  BY <1>1, <1>2, CaptureAssumption
<1>5. Locks'
  BY <1>1 DEF CInv, Locks, OneLock, LockIsOpen, OpenHasLock, HasLock, Open, Unlocking, EndSent, NoEvent,
              LastEvent
<1>6. \A g \in Session : (Ending(g)' <=> Ending(g)) /\ (Activated(g)' <=> Activated(g))
  BY <1>1 DEF Ending, Activated
<1>7. Quiet'
  <2>1. EndingIsQuiet' /\ LiveOnly'
    BY <1>1, <1>2, <1>3, <1>4, <1>6 DEF CInv, Quiet, EndingIsQuiet, LiveOnly
  <2>2. ReceiverThere' /\ CallSteps'
    BY <1>1, <1>3, <1>6 DEF CInv, Quiet, ReceiverThere, CallSteps
  <2>3. BridgeEndsIt'
    BY <1>1, <1>3, <1>4 DEF CInv, Quiet, BridgeEndsIt, BridgeEnds
  <2>4. QED
    BY <2>1, <2>2, <2>3 DEF Quiet
<1>8. Told'
  <2> SUFFICES ASSUME NEW g \in live
               PROVE  /\ ~Telling(g)' => seen'[g] = act[g]
                      /\ \A d \in Slot : call[g][d].op \in {"disable", "release"} /\ call[g][d].id = None
                                           => seen'[g] = None
    BY <1>1 DEF Told
  <2>1. g \in Session
    BY DEF TInv, TypeOK
  <2>2. CASE g = h
    <3>1. \A d \in Slot : call[h][d].op \notin {"disable", "release"}
      BY <1>2, <1>4 DEF CInv, Quiet, EndingIsQuiet, Ending
    <3>2. ~Telling(h)' => seen'[h] = act[h]
      <4>1. CASE StartCapture \/ StopCapture
        BY <1>2, <4>1 DEF StartCapture, StopCapture, Bridging, Telling
      <4>2. CASE EmitActivated
        <5>1. act[h] = bridge.id
          BY <1>2, <1>4, <4>2 DEF EmitActivated, AnnouncedIsOpen
        <5>2. QED
          BY <1>2, <1>4, <4>2, <5>1 DEF EmitActivated, TInv, TypeOK
      <4>3. CASE EmitDeactivated
        <5>1. act[h] = None
          BY <1>2, <1>4, <4>3 DEF EmitDeactivated, CInv, Quiet, BridgeEndsIt, BridgeEnds
        <5>2. QED
          BY <1>2, <1>4, <4>3, <5>1 DEF EmitDeactivated, Deactivated, TInv, TypeOK
      <4>4. CASE RollBack
        BY <4>4 DEF RollBack, CInv, Quiet, ReceiverThere
      <4>5. QED
        BY <4>1, <4>2, <4>3, <4>4
    <3>3. QED
      BY <2>2, <3>1, <3>2
  <2>3. CASE g # h
    <3>1. seen'[g] = seen[g]
      BY <1>2, <2>1, <2>3 DEF StartCapture, RollBack, EmitActivated, StopCapture, EmitDeactivated,
                              Deactivated, sigVars, TInv, TypeOK
    <3>2. Telling(g)' <=> Telling(g)
      BY <1>1, <1>2, <1>3, <1>4, <2>1, <2>3 DEF Telling
    <3>3. QED
      BY <2>1, <3>1, <3>2 DEF CInv, Told
  <2>4. QED
    BY <2>2, <2>3
<1>9. QED
  BY <1>5, <1>7, <1>8 DEF CInv

(* Every step keeps locks, activations and what clients know together.     *)
LEMMA CaptureKept ==
  ASSUME OneCall, Calm, TInv, SInv, CInv, AnnouncedIsOpen, [Next]_vars
  PROVE  CInv'
<1>1. CASE UNCHANGED vars
  BY <1>1, CaptureRests DEF vars, CaptureVars, sesVars, wlVars, eisVars, sigVars
<1>2. CASE RunCommand
  BY <1>2, CaptureRun
<1>3. CASE BridgeTask
  BY <1>3, CaptureTake, CaptureBridge DEF BridgeTask
<1>4. ASSUME NEW h \in Session, ClientCall(h)
      PROVE  CInv'
  <2>1. CASE \E c \in Slot : Enable(h, c) \/ Disable(h, c) \/ Release(h, c) \/ Close(h, c)
    BY <2>1, CaptureBegin
  <2>2. CASE \E bars \in SUBSET Barrier : SetPointerBarriers(h, bars)
    BY <2>2, CaptureRests DEF SetPointerBarriers, CaptureVars, wlVars, eisVars, sigVars
  <2>3. CASE ConnectToEis(h)
    <3>1. UNCHANGED CaptureVars
      BY <2>3 DEF ConnectToEis, CaptureVars, sesVars, wlVars, sigVars
    <3>2. \A g \in Session : ctx[g] = "receiver" => ctx'[g] = "receiver"
      BY <2>3 DEF ConnectToEis, TInv, TypeOK
    <3>3. QED
      BY <3>1, <3>2, CaptureRests
  <2>4. QED
    BY <1>4, <2>1, <2>2, <2>3 DEF ClientCall
<1>5. ASSUME NEW h \in Session, Handler(h)
      PROVE  CInv'
  BY <1>5, CaptureSend, CaptureEmit DEF Handler
<1>6. ASSUME NEW h \in Session, Compositor(h)
      PROVE  CInv'
  BY <1>6, CaptureLock DEF Compositor, SurfaceClosed, Calm
<1>7. ASSUME NEW h \in Session, Handshake(h) \/ HangUp(h)
      PROVE  CInv'
  <2>1. Handshake(h)
    BY <1>7 DEF HangUp, Calm
  <2>2. UNCHANGED CaptureVars
    BY <2>1 DEF Handshake, CaptureVars, sesVars, wlVars, sigVars
  <2>3. \A g \in Session : ctx[g] = "receiver" => ctx'[g] = "receiver"
    BY <2>1 DEF Handshake, TInv, TypeOK
  <2>4. QED
    BY <2>2, <2>3, CaptureRests
<1>8. QED
  BY <1>1, <1>2, <1>3, <1>4, <1>5, <1>6, <1>7 DEF Next

(* At first there is no lock, no activation and nothing to tell.           *)
LEMMA CaptureFirst ==
  Init => CInv /\ AnnouncedIsOpen
<1> SUFFICES ASSUME Init PROVE CInv /\ AnnouncedIsOpen
  OBVIOUS
<1>1. /\ \A h \in Session : ~HasLock(h) /\ act[h] = None /\ seen[h] = None
      /\ DOMAIN cmds = {} /\ DOMAIN evs = {}
      /\ \A h \in Session, c \in Slot : call[h][c] = NoCall
      /\ bridge = Resting /\ None \notin Session
  BY CaptureAssumption DEF Init, HasLock
<1>2. \A h \in Session : ~Open(h) /\ ~Ending(h) /\ ~Activated(h) /\ bridge.h # h
  BY <1>1 DEF Open, Ending, Activated, NoCall, Resting
<1>3. Locks
  BY <1>1, <1>2 DEF Locks, OneLock, LockIsOpen, OpenHasLock, HasLock
<1>4. Quiet /\ AnnouncedIsOpen
  BY <1>1, <1>2 DEF Quiet, EndingIsQuiet, LiveOnly, ReceiverThere, BridgeEndsIt, BridgeEnds, CallSteps,
                    NoCall, Resting, AnnouncedIsOpen
<1>5. Told
  BY <1>1 DEF Told, NoCall, Init
<1>6. QED
  BY <1>3, <1>4, <1>5 DEF CInv

(* With a client that waits for its answers, ends no capture while it      *)
(* comes and does not hang up, and no output that goes away: once all is   *)
(* settled, a client that was told its capture is active has the pointer,  *)
(* and a pointer that is locked has a session that can release it.         *)
THEOREM CaptureHolds ==
  ASSUME OneCall, Calm
  PROVE  Spec => []CaptureAgrees
<1>1. TInv /\ CInv => CaptureAgrees
  <2> SUFFICES ASSUME TInv, CInv, NEW h \in Session, Settled(h)
               PROVE  /\ h \in live /\ seen[h] # None => HasLock(h)
                      /\ HasLock(h) => h \in live /\ act[h] # None /\ seen[h] = act[h]
    BY DEF CaptureAgrees, ToldHasPointer, PointerHasOwner, TInv, TypeOK
  <2>1. NoEvent(h) /\ ~Unlocking(h) /\ ~Telling(h)
    BY DEF Settled, NoEvent, Unlocking, EndSent, Telling, NoCall, EndOp
  <2>2. Open(h) <=> act[h] # None
    BY <2>1 DEF Open, NoEvent, LastEvent
  <2>3. h \in live => seen[h] = act[h]
    BY <2>1 DEF CInv, Told
  <2>4. HasLock(h) <=> act[h] # None
    BY <2>1, <2>2 DEF CInv, Locks, LockIsOpen, OpenHasLock
  <2>5. act[h] # None => h \in live
    BY DEF CInv, Quiet, LiveOnly
  <2>6. QED
    BY <2>3, <2>4, <2>5
<1>2. Init => TInv /\ SInv /\ CInv /\ AnnouncedIsOpen
  BY TypesFirst, ScreenFirst, CaptureFirst
<1>3. TInv /\ SInv /\ CInv /\ AnnouncedIsOpen /\ [Next]_vars
        => TInv' /\ SInv' /\ CInv' /\ AnnouncedIsOpen'
  BY TypesKept, ScreenKept, CaptureKept, AnnouncedKept DEF Calm
<1>4. QED
  BY <1>1, <1>2, <1>3, PTL DEF Spec

=============================================================================
