-------------------------- MODULE PrivateKeyboards --------------------------
(***************************************************************************)
(* What injection promises, said without keymaps, keycodes, a pool or      *)
(* modifiers: a session has a keyboard to itself, and it types what that   *)
(* session's client asks for, no more and no less: what comes by D-Bus at  *)
(* once, what comes by EIS at the next frame.                              *)
(***************************************************************************)
EXTENDS Integers, Sequences

CONSTANTS Sessions, Keysyms, Texts, None

VARIABLES
  typing,     \* session -> the keysyms its keyboard has down, None without one
  waiting     \* session -> what its client asked for since the last frame

Asked(k, pressed) == [kind |-> "key", asked |-> k, pressed |-> pressed]
Pointer == [kind |-> "pointer"]

\* A text: every character pressed and released, one after the other.
Keystrokes(text) == [i \in 1 .. 2 * Len(text) |-> Asked(text[(i + 1) \div 2], i % 2 = 1)]

\* What is down after the events: of those of one keysym the last one counts.
Left(downs, events) ==
  LET Of(i, k) == events[i].kind = "key" /\ events[i].asked = k
  IN  {k \in Keysyms :
         \/ k \in downs /\ \A i \in DOMAIN events : ~Of(i, k)
         \/ \E i \in DOMAIN events : /\ Of(i, k) /\ events[i].pressed
                                     /\ \A j \in DOMAIN events : j > i => ~Of(j, k)}

Open(s) ==
  /\ typing[s] = None
  /\ typing' = [typing EXCEPT ![s] = {}]
  /\ UNCHANGED waiting

Close(s) ==
  /\ typing[s] # None
  /\ typing' = [typing EXCEPT ![s] = None]
  /\ waiting' = [waiting EXCEPT ![s] = <<>>]

Wait(s, events) ==
  /\ typing[s] # None
  /\ waiting' = [waiting EXCEPT ![s] = @ \o events]
  /\ UNCHANGED typing

Frame(s) ==
  /\ typing[s] # None
  /\ typing' = [typing EXCEPT ![s] = Left(@, waiting[s])]
  /\ waiting' = [waiting EXCEPT ![s] = <<>>]

Type(s, k, pressed) ==
  /\ typing[s] # None
  /\ typing' = [typing EXCEPT ![s] = IF pressed THEN @ \cup {k} ELSE @ \ {k}]
  /\ UNCHANGED waiting

Init == typing = [s \in Sessions |-> None] /\ waiting = [s \in Sessions |-> <<>>]

Next ==
  \E s \in Sessions :
    \/ Open(s) \/ Close(s) \/ Frame(s) \/ Wait(s, <<Pointer>>)
    \/ \E k \in Keysyms, pressed \in BOOLEAN : Wait(s, <<Asked(k, pressed)>>) \/ Type(s, k, pressed)
    \/ \E text \in Texts : Wait(s, Keystrokes(text))

Spec == Init /\ [][Next]_<<typing, waiting>>
=============================================================================
