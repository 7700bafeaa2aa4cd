------------------------ MODULE SessionManagerProofs ------------------------
(***************************************************************************)
(* Theorems about the session registry, for any sets of handles, senders   *)
(* and applications, any limit and any idle time.                          *)
(*                                                                         *)
(* The argument rests on one inductive invariant: the types, the counts    *)
(* being exact, and the map being finite. Finiteness is what makes the     *)
(* cardinalities numbers: only then does taking k sessions out of the map  *)
(* and k off a count keep the two equal.                                   *)
(***************************************************************************)
EXTENDS SessionManager, FiniteSetTheorems, TLAPS

IInv ==
  /\ TypeOK
  /\ IsFiniteSet(Live)
  /\ CountExact

-----------------------------------------------------------------------------
(* The owned sessions of an application are finitely many live sessions.   *)
LEMMA OwnedFinite ==
  ASSUME IsFiniteSet(Live), NEW a \in App
  PROVE  /\ IsFiniteSet(OwnedBy(a))
         /\ OwnedBy(a) \subseteq Live
         /\ Cardinality(OwnedBy(a)) \in Nat
<1>1. OwnedBy(a) \subseteq Live
  BY DEF OwnedBy
<1>2. IsFiniteSet(OwnedBy(a))
  BY <1>1, FS_Subset
<1>3. QED
  BY <1>1, <1>2, FS_CardinalityType

(* A session can be changed in place without changing what anybody owns.   *)
LEMMA SameOwners ==
  ASSUME TypeOK, NEW h \in Live, NEW s \in Session,
         s.app = sessions[h].app,
         sessions' = [sessions EXCEPT ![h] = s]
  PROVE  /\ Live' = Live
         /\ \A a \in App : OwnedBy(a)' = OwnedBy(a)
<1>1. \A g \in Handle : sessions'[g] = IF g = h THEN s ELSE sessions[g]
  BY DEF TypeOK, Live
<1>2. Live' = Live
  BY <1>1, NoneAssumption DEF Live
<1>3. QED
  BY <1>1, <1>2 DEF OwnedBy, Live

(* Taking a set of live sessions out of the map gives back exactly their   *)
(* slots (close_session, close_sender_sessions, cleanup_stale_sessions).   *)
LEMMA RemoveExact ==
  ASSUME IInv, NEW H \in SUBSET Live, Remove(H)
  PROVE  /\ TypeOK'
         /\ Live' = Live \ H
         /\ \A a \in App : /\ OwnedBy(a)' = OwnedBy(a) \ H
                           /\ appCount'[a] = Cardinality(OwnedBy(a) \ H)
<1>1. \A g \in Handle : sessions'[g] = IF g \in H THEN None ELSE sessions[g]
  BY DEF Remove
<1>2. Live' = Live \ H
  BY <1>1 DEF Live
<1>3. ASSUME NEW a \in App
      PROVE  /\ OwnedBy(a)' = OwnedBy(a) \ H
             /\ appCount'[a] = Cardinality(OwnedBy(a) \ H)
             /\ appCount'[a] \in 0..MaxSessions
  <2> DEFINE n == Cardinality(OwnedBy(a))
             k == Cardinality(H \cap OwnedBy(a))
  <2>1. OwnedBy(a)' = OwnedBy(a) \ H
    BY <1>1, <1>2 DEF OwnedBy, Live
  <2>2. IsFiniteSet(OwnedBy(a)) /\ n \in Nat
    BY OwnedFinite DEF IInv
  <2>3. IsFiniteSet(H \cap OwnedBy(a)) /\ k \in Nat /\ k <= n
    <3>1. H \cap OwnedBy(a) \in SUBSET OwnedBy(a)
      OBVIOUS
    <3>2. IsFiniteSet(H \cap OwnedBy(a)) /\ k <= n
      BY <2>2, <3>1, FS_Subset
    <3>3. QED
      BY <3>2, FS_CardinalityType
  <2>4. Cardinality(OwnedBy(a) \ H) = n - k
    <3>1. OwnedBy(a) \cap H = H \cap OwnedBy(a)
      OBVIOUS
    <3>2. /\ IsFiniteSet(OwnedBy(a) \ H)
          /\ Cardinality(OwnedBy(a) \ H) = n - Cardinality(OwnedBy(a) \cap H)
      BY <2>2, FS_Difference
    <3>3. QED
      BY <3>1, <3>2
  <2>5. appCount[a] = n /\ n \in 0..MaxSessions
    BY DEF IInv, CountExact, TypeOK
  <2>6. appCount'[a] = SaturatingSub(n, k)
    BY <2>5 DEF Remove
  <2>7. appCount'[a] = n - k
    BY <2>2, <2>3, <2>6 DEF SaturatingSub
  <2>8. appCount'[a] \in 0..MaxSessions
    BY <2>2, <2>3, <2>5, <2>7, LimitAssumption
  <2>9. QED
    BY <2>1, <2>4, <2>7, <2>8
<1>4. TypeOK'
  <2>1. sessions' \in [Handle -> Session \cup {None}]
    BY DEF IInv, TypeOK, Remove
  <2>2. appCount' \in [App -> 0..MaxSessions]
    BY <1>3 DEF Remove
  <2>3. age' \in [Handle -> 0..MaxAge]
    BY TimeAssumption DEF IInv, TypeOK, Remove
  <2>4. QED
    BY <2>1, <2>2, <2>3 DEF TypeOK
<1>5. QED
  BY <1>2, <1>3, <1>4

(* So a removal preserves the inductive invariant.                         *)
LEMMA RemoveKeepsIInv ==
  ASSUME IInv, NEW H \in SUBSET Live, Remove(H)
  PROVE  IInv'
<1>1. TypeOK' /\ Live' = Live \ H
  BY RemoveExact
<1>2. IsFiniteSet(Live')
  BY <1>1, FS_Difference DEF IInv
<1>3. CountExact'
  BY RemoveExact DEF CountExact
<1>4. QED
  BY <1>1, <1>2, <1>3 DEF IInv

(* And so does changing a session in place, as every selection does.       *)
LEMMA UpdateKeepsIInv ==
  ASSUME IInv, NEW h \in Live, NEW s \in Session,
         s.app = sessions[h].app,
         sessions' = [sessions EXCEPT ![h] = s],
         UNCHANGED <<appCount, age>>
  PROVE  IInv'
<1>1. Live' = Live /\ \A a \in App : OwnedBy(a)' = OwnedBy(a)
  BY SameOwners DEF IInv
<1>2. TypeOK'
  BY DEF IInv, TypeOK
<1>3. CountExact'
  BY <1>1 DEF IInv, CountExact
<1>4. QED
  BY <1>1, <1>2, <1>3 DEF IInv

(* The session a selection, a start or an EIS connection leaves behind.    *)
LEMMA UpdatedSession ==
  ASSUME TypeOK, NEW h \in Live
  PROVE  /\ sessions[h] \in Session
         /\ [sessions[h] EXCEPT !.devices = TRUE] \in Session
         /\ [sessions[h] EXCEPT !.sources = TRUE] \in Session
         /\ [sessions[h] EXCEPT !.state = "Started"] \in Session
         /\ [sessions[h] EXCEPT !.uses_eis = TRUE] \in Session
  BY DEF TypeOK, Live, Session, SessionState

-----------------------------------------------------------------------------
(* The initial state satisfies the inductive invariant.                    *)
LEMMA InitIInv == Init => IInv
<1> SUFFICES ASSUME Init PROVE IInv
  OBVIOUS
<1>1. Live = {}
  BY DEF Init, Live
<1>2. \A a \in App : OwnedBy(a) = {}
  BY <1>1 DEF OwnedBy
<1>3. TypeOK
  BY LimitAssumption, TimeAssumption DEF Init, TypeOK
<1>4. CountExact
  BY <1>2, FS_EmptySet DEF CountExact, Init
<1>5. QED
  BY <1>1, <1>3, <1>4, FS_EmptySet DEF IInv

(* Admitting a session adds one to what its application owns and to the    *)
(* count, and the count was below the limit.                               *)
LEMMA CreateKeepsIInv ==
  ASSUME IInv, NEW h \in Handle, NEW s \in Sender, NEW a \in App,
         CreateSession(h, s, a)
  PROVE  IInv'
<1>1. NewSession(s, a) \in Session /\ NewSession(s, a).app = a
  BY DEF NewSession, Session, SessionState
<1>2. NewSession(s, a) # None
  BY <1>1, NoneAssumption
<1>3. \A g \in Handle : sessions'[g] = IF g = h THEN NewSession(s, a) ELSE sessions[g]
  BY DEF CreateSession, IInv, TypeOK
<1>4. Live' = Live \cup {h} /\ h \notin Live
  BY <1>2, <1>3 DEF CreateSession, Live
<1>5. OwnedBy(a)' = OwnedBy(a) \cup {h} /\ h \notin OwnedBy(a)
  BY <1>1, <1>3, <1>4 DEF OwnedBy, Live
<1>6. \A b \in App \ {a} : OwnedBy(b)' = OwnedBy(b)
  BY <1>1, <1>3, <1>4 DEF OwnedBy, Live
<1>7. IsFiniteSet(Live')
  BY <1>4, FS_AddElement DEF IInv
<1>8. Cardinality(OwnedBy(a)') = Cardinality(OwnedBy(a)) + 1
  BY <1>5, OwnedFinite, FS_AddElement DEF IInv
<1>9. CountExact'
  <2>1. appCount'[a] = Cardinality(OwnedBy(a)')
    BY <1>8 DEF IInv, TypeOK, CountExact, CreateSession
  <2>2. \A b \in App \ {a} : appCount'[b] = Cardinality(OwnedBy(b)')
    BY <1>6 DEF IInv, TypeOK, CountExact, CreateSession
  <2>3. QED
    BY <2>1, <2>2 DEF CountExact
<1>10. TypeOK'
  <2>1. appCount' \in [App -> 0..MaxSessions]
    BY LimitAssumption DEF IInv, TypeOK, CreateSession, UnderLimit
  <2>2. sessions' \in [Handle -> Session \cup {None}]
    BY <1>1 DEF IInv, TypeOK, CreateSession
  <2>3. age' \in [Handle -> 0..MaxAge]
    BY TimeAssumption DEF IInv, TypeOK, CreateSession
  <2>4. QED
    BY <2>1, <2>2, <2>3 DEF TypeOK
<1>11. QED
  BY <1>7, <1>9, <1>10 DEF IInv

(* A bulk close leaves the application nothing, and its count at zero.     *)
LEMMA CloseAppKeepsIInv ==
  ASSUME IInv, NEW a \in App, CloseAppSessions(a)
  PROVE  IInv'
<1>1. \A g \in Handle : sessions'[g] = IF g \in OwnedBy(a) THEN None ELSE sessions[g]
  BY DEF CloseAppSessions
<1>2. Live' = Live \ OwnedBy(a)
  BY <1>1 DEF Live, OwnedBy
<1>3. OwnedBy(a)' = {}
  BY <1>1, <1>2 DEF OwnedBy, Live
<1>4. \A b \in App \ {a} : OwnedBy(b)' = OwnedBy(b)
  BY <1>1, <1>2 DEF OwnedBy, Live
<1>5. CountExact'
  <2>1. appCount'[a] = Cardinality(OwnedBy(a)')
    BY <1>3, FS_EmptySet DEF IInv, TypeOK, CloseAppSessions
  <2>2. \A b \in App \ {a} : appCount'[b] = Cardinality(OwnedBy(b)')
    BY <1>4 DEF IInv, TypeOK, CountExact, CloseAppSessions
  <2>3. QED
    BY <2>1, <2>2 DEF CountExact
<1>6. IsFiniteSet(Live')
  BY <1>2, FS_Difference DEF IInv
<1>7. TypeOK'
  <2>1. sessions' \in [Handle -> Session \cup {None}]
    BY DEF IInv, TypeOK, CloseAppSessions
  <2>2. appCount' \in [App -> 0..MaxSessions]
    BY LimitAssumption DEF IInv, TypeOK, CloseAppSessions
  <2>3. age' \in [Handle -> 0..MaxAge]
    BY TimeAssumption DEF IInv, TypeOK, CloseAppSessions
  <2>4. QED
    BY <2>1, <2>2, <2>3 DEF TypeOK
<1>8. QED
  BY <1>5, <1>6, <1>7 DEF IInv

(* Every method preserves the inductive invariant.                         *)
LEMMA NextIInv == IInv /\ [Next]_smVars => IInv'
<1> SUFFICES ASSUME IInv, [Next]_smVars
             PROVE  IInv'
  OBVIOUS
<1>1. ASSUME NEW h \in Handle, NEW s \in Sender, NEW a \in App, CreateSession(h, s, a)
      PROVE  IInv'
  BY <1>1, CreateKeepsIInv
<1>2. ASSUME NEW h \in Handle, SelectDevices(h)
      PROVE  IInv'
  <2> DEFINE t == [sessions[h] EXCEPT !.devices = TRUE]
  <2>1. h \in Live /\ t \in Session /\ t.app = sessions[h].app
    BY <1>2, UpdatedSession DEF SelectDevices, IInv, Session
  <2>2. sessions' = [sessions EXCEPT ![h] = t]
    BY <1>2 DEF SelectDevices
  <2>3. QED
    BY <1>2, <2>1, <2>2, UpdateKeepsIInv DEF SelectDevices
<1>3. ASSUME NEW h \in Handle, SelectSources(h)
      PROVE  IInv'
  <2> DEFINE t == [sessions[h] EXCEPT !.sources = TRUE]
  <2>1. h \in Live /\ t \in Session /\ t.app = sessions[h].app
    BY <1>3, UpdatedSession DEF SelectSources, IInv, Session
  <2>2. sessions' = [sessions EXCEPT ![h] = t]
    BY <1>3 DEF SelectSources
  <2>3. QED
    BY <1>3, <2>1, <2>2, UpdateKeepsIInv DEF SelectSources
<1>4. ASSUME NEW h \in Handle, Start(h)
      PROVE  IInv'
  <2> DEFINE t == [sessions[h] EXCEPT !.state = "Started"]
  <2>1. h \in Live /\ t \in Session /\ t.app = sessions[h].app
    BY <1>4, UpdatedSession DEF Start, IInv, Session
  <2>2. sessions' = [sessions EXCEPT ![h] = t]
    BY <1>4 DEF Start
  <2>3. QED
    BY <1>4, <2>1, <2>2, UpdateKeepsIInv DEF Start
<1>5. ASSUME NEW h \in Handle, ConnectToEis(h)
      PROVE  IInv'
  <2> DEFINE t == [sessions[h] EXCEPT !.uses_eis = TRUE]
  <2>1. h \in Live /\ t \in Session /\ t.app = sessions[h].app
    BY <1>5, UpdatedSession DEF ConnectToEis, IInv, Session
  <2>2. sessions' = [sessions EXCEPT ![h] = t]
    BY <1>5 DEF ConnectToEis
  <2>3. QED
    BY <1>5, <2>1, <2>2, UpdateKeepsIInv DEF ConnectToEis
<1>6. ASSUME NEW h \in Handle, CloseSession(h)
      PROVE  IInv'
  BY <1>6, RemoveKeepsIInv DEF CloseSession
<1>7. ASSUME NEW s \in Sender, CloseSenderSessions(s)
      PROVE  IInv'
  <2>1. SentBy(s) \in SUBSET Live
    BY DEF SentBy
  <2>2. QED
    BY <1>7, <2>1, RemoveKeepsIInv DEF CloseSenderSessions
<1>8. ASSUME NEW a \in App, CloseAppSessions(a)
      PROVE  IInv'
  BY <1>8, CloseAppKeepsIInv
<1>9. ASSUME CleanupStaleSessions
      PROVE  IInv'
  BY <1>9, RemoveKeepsIInv DEF CleanupStaleSessions
<1>10. ASSUME Tick
       PROVE  IInv'
  <2>1. Live' = Live /\ \A a \in App : OwnedBy(a)' = OwnedBy(a)
    BY <1>10 DEF Tick, Live, OwnedBy
  <2>2. age' \in [Handle -> 0..MaxAge]
    BY <1>10, TimeAssumption DEF Tick, IInv, TypeOK
  <2>3. QED
    BY <1>10, <2>1, <2>2 DEF Tick, IInv, TypeOK, CountExact
<1>11. ASSUME UNCHANGED smVars
       PROVE  IInv'
  <2>1. Live' = Live /\ \A a \in App : OwnedBy(a)' = OwnedBy(a)
    BY <1>11 DEF smVars, Live, OwnedBy
  <2>2. QED
    BY <1>11, <2>1 DEF smVars, IInv, TypeOK, CountExact
<1>12. QED
  BY <1>1, <1>2, <1>3, <1>4, <1>5, <1>6, <1>7, <1>8, <1>9, <1>10, <1>11 DEF Next

(* The inductive invariant holds in every reachable state.                 *)
THEOREM Inductive == Spec => []IInv
<1>1. QED
  BY InitIInv, NextIInv, PTL DEF Spec

(* Type correctness of the registry: in particular no session in the map   *)
(* is Closed and no count is above the limit or below zero.                *)
THEOREM TypeCorrect == Spec => []TypeOK
<1>1. IInv => TypeOK
  BY DEF IInv
<1>2. QED
  BY <1>1, Inductive, PTL

(* The count kept per application is exactly the number of its sessions,   *)
(* whatever closes them (app_session_count in manager.rs).                 *)
THEOREM CountsExact == Spec => []CountExact
<1>1. IInv => CountExact
  BY DEF IInv
<1>2. QED
  BY <1>1, Inductive, PTL

(* No application ever holds more sessions than max_sessions_per_app.      *)
THEOREM LimitHolds == Spec => []LimitRespected
<1>1. IInv => LimitRespected
  BY LimitAssumption DEF IInv, TypeOK, CountExact, LimitRespected
<1>2. QED
  BY <1>1, Inductive, PTL

(* Whatever is started has a selection, and EIS only what has devices.     *)
THEOREM SelectionHolds == Spec => []StartedHasSelection
<1>1. Init => StartedHasSelection
  BY DEF Init, StartedHasSelection, Live
<1>2. TypeOK /\ StartedHasSelection /\ [Next]_smVars => StartedHasSelection'
  <2> SUFFICES ASSUME TypeOK, StartedHasSelection, [Next]_smVars
               PROVE  StartedHasSelection'
    OBVIOUS
  <2> USE NoneAssumption DEF TypeOK, StartedHasSelection, Live, Session, SessionState
  <2>1. ASSUME NEW h \in Handle, NEW s \in Sender, NEW a \in App, CreateSession(h, s, a)
        PROVE  StartedHasSelection'
    BY <2>1 DEF CreateSession, NewSession
  <2>2. ASSUME NEW h \in Handle, SelectDevices(h)
        PROVE  StartedHasSelection'
    BY <2>2 DEF SelectDevices, CanSelect
  <2>3. ASSUME NEW h \in Handle, SelectSources(h)
        PROVE  StartedHasSelection'
    BY <2>3 DEF SelectSources, CanSelect
  <2>4. ASSUME NEW h \in Handle, Start(h)
        PROVE  StartedHasSelection'
    BY <2>4 DEF Start, CanStart
  <2>5. ASSUME NEW h \in Handle, ConnectToEis(h)
        PROVE  StartedHasSelection'
    BY <2>5 DEF ConnectToEis, CanConnectToEis
  <2>6. ASSUME NEW H, Remove(H)
        PROVE  StartedHasSelection'
    BY <2>6 DEF Remove
  <2>7. ASSUME NEW a \in App, CloseAppSessions(a)
        PROVE  StartedHasSelection'
    BY <2>7 DEF CloseAppSessions
  <2>8. CASE UNCHANGED sessions
    BY <2>8
  <2>9. QED
    BY <2>1, <2>2, <2>3, <2>4, <2>5, <2>6, <2>7, <2>8
       DEF Next, smVars, CloseSession, CloseSenderSessions, CleanupStaleSessions, Tick
<1>3. QED
  BY <1>1, <1>2, TypeCorrect, PTL DEF Spec

(* What the registry promises of its sessions, together.                   *)
THEOREM RegistryHolds == Spec => []RegistrySound
<1>1. CountExact /\ LimitRespected /\ StartedHasSelection => RegistrySound
  BY DEF RegistrySound
<1>2. QED
  BY <1>1, CountsExact, LimitHolds, SelectionHolds, PTL

-----------------------------------------------------------------------------
(* A session that stays in the map keeps its owner, its selection once     *)
(* started and its EIS connection (transition_to, can_select_devices and   *)
(* can_select_sources in state.rs).                                        *)
THEOREM NeverReopened == Spec => OnlyForward
<1>1. TypeOK /\ [Next]_smVars =>
        [\A h \in Handle : h \in Live /\ h \in Live' => Forward(sessions[h], sessions'[h])]_smVars
  <2> SUFFICES ASSUME TypeOK, [Next]_smVars, NEW h \in Live, h \in Live'
               PROVE  Forward(sessions[h], sessions'[h])
    BY DEF Live
  <2> USE NoneAssumption DEF TypeOK, Live, Session, SessionState, Forward
  <2>1. ASSUME NEW g \in Handle, NEW s \in Sender, NEW a \in App, CreateSession(g, s, a)
        PROVE  Forward(sessions[h], sessions'[h])
    BY <2>1 DEF CreateSession
  <2>2. ASSUME NEW g \in Handle, SelectDevices(g)
        PROVE  Forward(sessions[h], sessions'[h])
    BY <2>2 DEF SelectDevices, CanSelect
  <2>3. ASSUME NEW g \in Handle, SelectSources(g)
        PROVE  Forward(sessions[h], sessions'[h])
    BY <2>3 DEF SelectSources, CanSelect
  <2>4. ASSUME NEW g \in Handle, Start(g)
        PROVE  Forward(sessions[h], sessions'[h])
    BY <2>4 DEF Start, CanStart
  <2>5. ASSUME NEW g \in Handle, ConnectToEis(g)
        PROVE  Forward(sessions[h], sessions'[h])
    BY <2>5 DEF ConnectToEis
  <2>6. ASSUME NEW H, Remove(H)
        PROVE  Forward(sessions[h], sessions'[h])
    BY <2>6 DEF Remove
  <2>7. ASSUME NEW a \in App, CloseAppSessions(a)
        PROVE  Forward(sessions[h], sessions'[h])
    BY <2>7 DEF CloseAppSessions
  <2>8. CASE UNCHANGED sessions
    BY <2>8
  <2>9. QED
    BY <2>1, <2>2, <2>3, <2>4, <2>5, <2>6, <2>7, <2>8
       DEF Next, smVars, CloseSession, CloseSenderSessions, CleanupStaleSessions, Tick
<1>2. QED
  BY <1>1, TypeCorrect, PTL DEF Spec, OnlyForward

(* Sessions that leave the map in one step are one sender's, one           *)
(* application's, or all stale (close_sender_sessions, close_app_sessions, *)
(* cleanup_stale_sessions and close_session in manager.rs).                *)
THEOREM LeaveTogether == Spec => RemovedTogether
<1> DEFINE gone == Live \ Live'
<1> DEFINE Together == \/ \E s \in Sender : gone \subseteq SentBy(s)
                       \/ \E a \in App : gone = OwnedBy(a)
                       \/ \A h \in gone : Stale(h)
<1>1. TypeOK /\ [Next]_smVars => (Cardinality(gone) > 1 => Together)
  <2> SUFFICES ASSUME TypeOK, [Next]_smVars, Cardinality(gone) > 1
               PROVE  Together
    OBVIOUS
  <2>1. gone # {}
    BY FS_EmptySet
  <2>2. ASSUME NEW h \in Live, Remove({h})
        PROVE  Together
    <3>1. gone = {h}
      BY <2>2, NoneAssumption DEF Remove, Live
    <3>2. QED
      BY <3>1, FS_Singleton
  <2>3. ASSUME NEW s \in Sender, Remove(SentBy(s))
        PROVE  Together
    <3>1. gone \subseteq SentBy(s)
      BY <2>3 DEF Remove, Live
    <3>2. QED
      BY <3>1
  <2>4. ASSUME NEW a \in App, CloseAppSessions(a)
        PROVE  Together
    <3>1. gone = OwnedBy(a)
      BY <2>4 DEF CloseAppSessions, OwnedBy, Live
    <3>2. QED
      BY <3>1
  <2>5. ASSUME Remove({h \in Live : Stale(h)})
        PROVE  Together
    <3>1. gone \subseteq {h \in Live : Stale(h)}
      BY <2>5 DEF Remove, Live
    <3>2. QED
      BY <3>1
  <2>6. ASSUME NEW h \in Handle, NEW s \in Sender, NEW a \in App, CreateSession(h, s, a)
        PROVE  FALSE
    <3>1. Live \subseteq Live'
      BY <2>6 DEF CreateSession, Live, TypeOK
    <3>2. QED
      BY <2>1, <3>1
  <2>7. ASSUME NEW h \in Live, NEW t \in Session, sessions' = [sessions EXCEPT ![h] = t]
        PROVE  FALSE
    <3>1. Live \subseteq Live'
      BY <2>7, NoneAssumption DEF Live, TypeOK
    <3>2. QED
      BY <2>1, <3>1
  <2>8. CASE \E h \in Handle : SelectDevices(h) \/ SelectSources(h) \/ Start(h) \/ ConnectToEis(h)
    BY <2>7, <2>8, UpdatedSession DEF SelectDevices, SelectSources, Start, ConnectToEis
  <2>9. CASE UNCHANGED sessions
    BY <2>1, <2>9 DEF Live
  <2>10. QED
    BY <2>2, <2>3, <2>4, <2>5, <2>6, <2>8, <2>9
       DEF Next, smVars, CloseSession, CloseSenderSessions, CleanupStaleSessions, Tick
<1>2. TypeOK /\ [Next]_smVars =>
        [LET left == Live \ Live'
         IN  Cardinality(left) > 1 =>
               \/ \E s \in Sender : left \subseteq SentBy(s)
               \/ \E a \in App : left = OwnedBy(a)
               \/ \A h \in left : Stale(h)]_smVars
  BY <1>1
<1>3. QED
  BY <1>2, TypeCorrect, PTL DEF Spec, RemovedTogether

(* No step reopens a choice or takes more sessions than it is to.          *)
THEOREM StepsHold == Spec => StepsSound
<1>1. QED
  BY NeverReopened, LeaveTogether DEF StepsSound

-----------------------------------------------------------------------------
(* The owner of a live session is an owner, never None.                    *)
LEMMA OwnersTyped ==
  ASSUME TypeOK, NEW h \in Live
  PROVE  /\ Owner[h] = [sender |-> sessions[h].sender, app |-> sessions[h].app]
         /\ Owner[h] # None
<1>1. sessions[h] \in Session
  BY DEF TypeOK, Live
<1>2. Owner[h] = [sender |-> sessions[h].sender, app |-> sessions[h].app]
  BY DEF Owner, Live
<1>3. Owner[h] \in OwnerId
  BY <1>1, <1>2 DEF Session, OwnerId
<1>4. QED
  BY <1>2, <1>3, NoneAssumption

(* The two modules count alike: each has FiniteSets' Cardinality under a   *)
(* name of its own.                                                        *)
LEMMA SameCardinality == ASSUME NEW S PROVE Registry!Cardinality(S) = Cardinality(S)
  BY DEF Registry!Cardinality, Cardinality

(* In the abstract registry an application holds what it owns here.        *)
LEMMA HeldIsOwned ==
  ASSUME TypeOK, NEW a \in App
  PROVE  Registry!HeldBy(a) = OwnedBy(a)
<1>1. \A h \in Live : Owner[h] # None /\ Owner[h].app = sessions[h].app
  BY OwnersTyped DEF Owner, Live
<1>2. \A h \in Handle \ Live : Owner[h] = None
  BY DEF Owner
<1>3. QED
  BY <1>1, <1>2 DEF Registry!HeldBy, OwnedBy, Live

(* Taking live sessions out of the map is a release, or nothing at all.    *)
LEMMA RemovalIsRelease ==
  ASSUME TypeOK, NEW H \in SUBSET Live,
         sessions' = [h \in Handle |-> IF h \in H THEN None ELSE sessions[h]]
  PROVE  Registry!Release(H) \/ UNCHANGED Owner
<1>1. CASE H = {}
  <2>1. sessions' = sessions
    BY <1>1 DEF TypeOK
  <2>2. QED
    BY <2>1 DEF Owner, Live
<1>2. CASE H # {}
  <2>1. \A h \in H : Owner[h] # None
    BY OwnersTyped
  <2>2. Owner' = [h \in Handle |-> IF h \in H THEN None ELSE Owner[h]]
    BY DEF Owner, Live
  <2>3. QED
    BY <1>2, <2>1, <2>2 DEF Registry!Release
<1>3. QED
  BY <1>1, <1>2

(* The registry with its counters implements the one without: it admits by *)
(* its counter exactly when the number of sessions allows it, and never    *)
(* changes the owner of a session.                                         *)
THEOREM ImplementsRegistry == Spec => RegistrySpec
<1>1. Init => Registry!Init
  BY DEF Init, Registry!Init, Owner, Live
<1>2. IInv /\ [Next]_smVars => [Registry!Next]_Owner
  <2> SUFFICES ASSUME IInv, [Next]_smVars
               PROVE  Registry!Next \/ UNCHANGED Owner
    OBVIOUS
  <2>1. ASSUME NEW h \in Handle, NEW s \in Sender, NEW a \in App, CreateSession(h, s, a)
        PROVE  Registry!Next
    <3>1. Owner[h] = None
      BY <2>1 DEF CreateSession, Owner
    <3>2. Cardinality(Registry!HeldBy(a)) < MaxSessions
      BY <2>1, HeldIsOwned DEF CreateSession, UnderLimit, IInv, CountExact
    <3>3. Owner' = [Owner EXCEPT ![h] = [sender |-> s, app |-> a]]
      <4>1. NewSession(s, a) # None /\ NewSession(s, a).sender = s /\ NewSession(s, a).app = a
        <5>1. NewSession(s, a) \in Session
          BY DEF NewSession, Session, SessionState
        <5>2. QED
          BY <5>1, NoneAssumption DEF NewSession
      <4>2. sessions' = [sessions EXCEPT ![h] = NewSession(s, a)]
        BY <2>1 DEF CreateSession
      <4>3. QED
        BY <4>1, <4>2 DEF Owner, Live, IInv, TypeOK
    <3>4. QED
      BY <3>1, <3>2, <3>3, SameCardinality DEF Registry!Next, Registry!Admit
  <2>2. ASSUME NEW h \in Live, NEW s \in Session,
               s.app = sessions[h].app, s.sender = sessions[h].sender,
               sessions' = [sessions EXCEPT ![h] = s]
        PROVE  UNCHANGED Owner
    BY <2>2, NoneAssumption DEF IInv, TypeOK, Owner, Live
  <2>3. ASSUME NEW h \in Handle,
               SelectDevices(h) \/ SelectSources(h) \/ Start(h) \/ ConnectToEis(h)
        PROVE  UNCHANGED Owner
    <3>1. h \in Live
      BY <2>3 DEF SelectDevices, SelectSources, Start, ConnectToEis
    <3>2. \E s \in Session : /\ s.app = sessions[h].app /\ s.sender = sessions[h].sender
                             /\ sessions' = [sessions EXCEPT ![h] = s]
      BY <2>3, <3>1, UpdatedSession
         DEF SelectDevices, SelectSources, Start, ConnectToEis, IInv, Session
    <3>3. QED
      BY <3>1, <3>2, <2>2
  <2>4. ASSUME NEW H \in SUBSET Live, Remove(H)
        PROVE  Registry!Next \/ UNCHANGED Owner
    BY <2>4, RemovalIsRelease DEF Remove, IInv, Registry!Next, Live
  <2>5. ASSUME NEW a \in App, CloseAppSessions(a)
        PROVE  Registry!Next \/ UNCHANGED Owner
    <3>1. OwnedBy(a) \in SUBSET Live
      BY DEF OwnedBy
    <3>2. QED
      BY <2>5, <3>1, RemovalIsRelease DEF CloseAppSessions, IInv, Registry!Next, Live
  <2>6. CASE UNCHANGED sessions
    BY <2>6 DEF Owner, Live
  <2>7. QED
    <3>1. \A s \in Sender : SentBy(s) \in SUBSET Live
      BY DEF SentBy
    <3>2. QED
      BY <2>1, <2>3, <2>4, <2>5, <2>6, <3>1
         DEF Next, smVars, CloseSession, CloseSenderSessions, CleanupStaleSessions, Tick
<1>3. QED
  BY <1>1, <1>2, Inductive, PTL DEF Spec, RegistrySpec, Registry!Spec
=============================================================================
