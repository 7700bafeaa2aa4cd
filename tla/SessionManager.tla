--------------------------- MODULE SessionManager ---------------------------
(***************************************************************************)
(* The session registry (src/src/session/manager.rs) and the life cycle of *)
(* one portal session (src/src/session/state.rs).                          *)
(*                                                                         *)
(* Every method of the registry runs while its caller holds the one tokio  *)
(* mutex around the SessionManager, so a method is one atomic action here. *)
(* The D-Bus handlers that call several methods under one lock hold, and   *)
(* what they do between two holds, are the subject of PortalResources.     *)
(*                                                                         *)
(* The two timestamps of a session are its age in ticks of a discrete      *)
(* clock: created_at and last_activity are set together by Session::new    *)
(* and Session::touch, the only other writer of last_activity, has no      *)
(* caller, so one age stands for both.                                     *)
(***************************************************************************)
EXTENDS Integers, FiniteSets

CONSTANTS
  Handle,        \* D-Bus object paths of sessions
  Sender,        \* unique bus names of the callers
  App,           \* application ids
  None,          \* the session of a handle that is not in the map
  MaxSessions,   \* SessionManagerConfig::max_sessions_per_app
  MaxIdle,       \* ticks in the max_idle of cleanup_stale_sessions
  MaxAge         \* bound of the model: ages stop counting here

SessionState == {"Init", "Started"}

(* A session in the map. Session::close sets the third state, Closed, on a *)
(* session that has just been taken out of the map, so no session in the   *)
(* map is ever Closed: that is part of what TypeOK says.                   *)
Session == [sender   : Sender,
            app      : App,
            state    : SessionState,
            devices  : BOOLEAN,       \* devices_selected
            sources  : BOOLEAN,       \* sources_selected
            uses_eis : BOOLEAN]

(* Whose a session is, in the terms of SessionRegistry.                    *)
OwnerId == [sender : Sender, app : App]

ASSUME NoneAssumption == None \notin Session \cup OwnerId
ASSUME LimitAssumption == MaxSessions \in Nat
ASSUME TimeAssumption == MaxIdle \in Nat /\ MaxAge \in Nat /\ 2 * MaxIdle < MaxAge

VARIABLES
  sessions,      \* the sessions map: None where the map has no entry
  appCount,      \* app_session_count: 0 where the map has no entry
  age            \* ticks since the session of a handle was created

smVars == <<sessions, appCount, age>>

Live == {h \in Handle : sessions[h] # None}
OwnedBy(a) == {h \in Live : sessions[h].app = a}
SentBy(s) == {h \in Live : sessions[h].sender = s}

NewSession(s, a) == [sender |-> s, app |-> a, state |-> "Init",
                     devices |-> FALSE, sources |-> FALSE, uses_eis |-> FALSE]

(* Here and below, an operator called a variant has the parameters of the  *)
(* one that follows it and a mistake its code could have; no specification *)
(* uses it, and a property is known to tell it from the real one.          *)

CanSelect(s) == s.state = "Init"

CanStart(s) == s.state = "Init" /\ (s.devices \/ s.sources)
CanConnectToEis(s) == s.state = "Started" /\ s.devices /\ ~s.uses_eis

(* saturating_sub(1), done once for each of k sessions. *)
SaturatingSub(n, k) == IF n >= k THEN n - k ELSE 0

(* Variant: off by one. *)
UnderLimitOffByOne(a) == appCount[a] <= MaxSessions
UnderLimit(a) == appCount[a] < MaxSessions

(* Take the sessions H out of the map and give their slots back. *)
Remove(H) ==
  /\ sessions' = [h \in Handle |-> IF h \in H THEN None ELSE sessions[h]]
  /\ appCount' = [a \in App |-> SaturatingSub(appCount[a], Cardinality(H \cap OwnedBy(a)))]
  /\ age' = [h \in Handle |-> IF h \in H THEN 0 ELSE age[h]]

-----------------------------------------------------------------------------
CreateSession(h, s, a) ==
  /\ UnderLimit(a)
  /\ h \notin Live
  /\ appCount' = [appCount EXCEPT ![a] = @ + 1]
  /\ sessions' = [sessions EXCEPT ![h] = NewSession(s, a)]
  /\ age' = [age EXCEPT ![h] = 0]

SelectDevices(h) ==
  /\ h \in Live /\ CanSelect(sessions[h])
  /\ sessions' = [sessions EXCEPT ![h].devices = TRUE]
  /\ UNCHANGED <<appCount, age>>

SelectSources(h) ==
  /\ h \in Live /\ CanSelect(sessions[h])
  /\ sessions' = [sessions EXCEPT ![h].sources = TRUE]
  /\ UNCHANGED <<appCount, age>>

Start(h) ==
  /\ h \in Live /\ CanStart(sessions[h])
  /\ sessions' = [sessions EXCEPT ![h].state = "Started"]
  /\ UNCHANGED <<appCount, age>>

ConnectToEis(h) ==
  /\ h \in Live /\ CanConnectToEis(sessions[h])
  /\ sessions' = [sessions EXCEPT ![h].uses_eis = TRUE]
  /\ UNCHANGED <<appCount, age>>

CloseSession(h) == h \in Live /\ Remove({h})

CloseSenderSessions(s) == SentBy(s) # {} /\ Remove(SentBy(s))

(* Variant: the whole table of counts is dropped. *)
CloseAppSessionsClearing(a) ==
  /\ OwnedBy(a) # {}
  /\ sessions' = [h \in Handle |-> IF h \in OwnedBy(a) THEN None ELSE sessions[h]]
  /\ appCount' = [b \in App |-> 0]
  /\ age' = [h \in Handle |-> IF h \in OwnedBy(a) THEN 0 ELSE age[h]]

(* The app's entry of app_session_count is dropped, whatever its value. *)
CloseAppSessions(a) ==
  /\ OwnedBy(a) # {}
  /\ sessions' = [h \in Handle |-> IF h \in OwnedBy(a) THEN None ELSE sessions[h]]
  /\ appCount' = [appCount EXCEPT ![a] = 0]
  /\ age' = [h \in Handle |-> IF h \in OwnedBy(a) THEN 0 ELSE age[h]]

(* Variant: started sessions are never stale. *)
StaleInitOnly(h) == sessions[h].state = "Init" /\ age[h] > MaxIdle

Stale(h) == age[h] > IF sessions[h].state = "Init" THEN MaxIdle ELSE 2 * MaxIdle

(* Variant: one stale session takes the others with it. *)
CleanupStaleAll == (\E h \in Live : Stale(h)) /\ Remove(Live)

CleanupStaleSessions ==
  LET stale == {h \in Live : Stale(h)}
  IN  stale # {} /\ Remove(stale)

(* The clock the two timestamps are read against. *)
Tick ==
  /\ \E h \in Live : age[h] < MaxAge
  /\ age' = [h \in Handle |-> IF h \in Live /\ age[h] < MaxAge THEN age[h] + 1 ELSE age[h]]
  /\ UNCHANGED <<sessions, appCount>>

-----------------------------------------------------------------------------
Init ==
  /\ sessions = [h \in Handle |-> None]
  /\ appCount = [a \in App |-> 0]
  /\ age = [h \in Handle |-> 0]

Next ==
  \/ \E h \in Handle, s \in Sender, a \in App : CreateSession(h, s, a)
  \/ \E h \in Handle : SelectDevices(h)
  \/ \E h \in Handle : SelectSources(h)
  \/ \E h \in Handle : Start(h)
  \/ \E h \in Handle : ConnectToEis(h)
  \/ \E h \in Handle : CloseSession(h)
  \/ \E s \in Sender : CloseSenderSessions(s)
  \/ \E a \in App : CloseAppSessions(a)
  \/ CleanupStaleSessions
  \/ Tick

Spec == Init /\ [][Next]_smVars

(* periodic_session_cleanup (src/src/lib.rs) is a tokio interval that      *)
(* fires for as long as the daemon runs, and time passes; no client is     *)
(* obliged to do anything.                                                 *)
FairSpec == Spec /\ WF_smVars(CleanupStaleSessions) /\ WF_smVars(Tick)

-----------------------------------------------------------------------------
(* Types. The count of an app never passes the limit.                      *)
TypeOK ==
  /\ sessions \in [Handle -> Session \cup {None}]
  /\ appCount \in [App -> 0..MaxSessions]
  /\ age \in [Handle -> 0..MaxAge]

(* The count kept per application is the number of its sessions in the     *)
(* map, through every way a session can leave it: a close, the             *)
(* disconnection of a sender with sessions of several applications, a bulk *)
(* close, a cleanup. A count too high locks the application out for ever   *)
(* (SessionLimitExceeded with no session to close); one too low lets it    *)
(* pass the limit.                                                         *)
CountExact == \A a \in App : appCount[a] = Cardinality(OwnedBy(a))

(* The limit bounds the sessions themselves, not the counter.              *)
LimitRespected == \A a \in App : Cardinality(OwnedBy(a)) <= MaxSessions

(* A session acts for its client only on what was selected while it was    *)
(* Init: a started session has a selection, and EIS only with devices.     *)
StartedHasSelection ==
  \A h \in Live :
    /\ sessions[h].state = "Started" => sessions[h].devices \/ sessions[h].sources
    /\ sessions[h].uses_eis => sessions[h].state = "Started" /\ sessions[h].devices

(* What the registry promises of the sessions it has.                      *)
RegistrySound == CountExact /\ LimitRespected /\ StartedHasSelection

(* A session that stays in the map keeps its owner, never goes back to     *)
(* Init, keeps its selection once started, and keeps its EIS connection:   *)
(* no call reopens a choice the user has made.                             *)
Forward(s, t) ==
  /\ t.sender = s.sender /\ t.app = s.app
  /\ s.state = "Started" =>
       t.state = "Started" /\ t.devices = s.devices /\ t.sources = s.sources
  /\ s.uses_eis => t.uses_eis

OnlyForward ==
  [][\A h \in Handle : h \in Live /\ h \in Live' => Forward(sessions[h], sessions'[h])]_smVars

(* Sessions that leave together have one owner or one cause: they are one  *)
(* sender's, one application's, or each has outlived its idle time. A      *)
(* client's disconnection never costs another client its session.          *)
RemovedTogether ==
  [][LET gone == Live \ Live'
     IN  Cardinality(gone) > 1 =>
           \/ \E s \in Sender : gone \subseteq SentBy(s)
           \/ \E a \in App : gone = OwnedBy(a)
           \/ \A h \in gone : Stale(h)]_smVars

(* No call reopens a choice or takes another client's sessions with its    *)
(* own.                                                                    *)
StepsSound == OnlyForward /\ RemovedTogether

(* The registry implements the one of module SessionRegistry, which admits *)
(* by the number of sessions an application really has and knows no        *)
(* counter.                                                                *)
Owner == [h \in Handle |->
            IF h \in Live THEN [sender |-> sessions[h].sender, app |-> sessions[h].app] ELSE None]

Registry == INSTANCE SessionRegistry WITH owner <- Owner

RegistrySpec == Registry!Spec

(* A session its client forgot does not hold its slot for ever.            *)
SlotReclaimed == \A h \in Handle : (h \in Live) ~> (h \notin Live)

=============================================================================
