--------------------------- MODULE SessionRegistry --------------------------
(***************************************************************************)
(* What the session manager promises, said without its counters, session   *)
(* states or clock: a session has one owner from its admission to its      *)
(* release, an application never holds more than MaxSessions of them, and  *)
(* sessions are released in groups of one owner or one cause.              *)
(***************************************************************************)
EXTENDS Integers, FiniteSets

CONSTANTS Handle, Sender, App, None, MaxSessions

VARIABLE owner   \* the owner of a live session, None for a free handle

HeldBy(a) == {h \in Handle : owner[h] # None /\ owner[h].app = a}

Admit(h, s, a) ==
  /\ owner[h] = None
  /\ Cardinality(HeldBy(a)) < MaxSessions
  /\ owner' = [owner EXCEPT ![h] = [sender |-> s, app |-> a]]

(* Any set of live sessions may be released at once: which ones is up to   *)
(* the clients, their disconnections and the clock.                        *)
Release(H) ==
  /\ H # {} /\ \A h \in H : owner[h] # None
  /\ owner' = [h \in Handle |-> IF h \in H THEN None ELSE owner[h]]

Init == owner = [h \in Handle |-> None]

Next ==
  \/ \E h \in Handle, s \in Sender, a \in App : Admit(h, s, a)
  \/ \E H \in SUBSET Handle : Release(H)

Spec == Init /\ [][Next]_owner

=============================================================================
