-------------------------- MODULE ClipboardProofs ---------------------------
(***************************************************************************)
(* Theorems about the clipboard: ClipboardPortal over DataControl, for any *)
(* number of selections, pastes, sessions and types.                       *)
(*                                                                         *)
(* TInv  the types, of the events and commands on their way too;           *)
(* PInv  each paste is in one place, and what it waits for will come;      *)
(* DInv  what the consumer brings meets the source it was made for;        *)
(* AInv  what the worker has still to read tells it of the selection;      *)
(* FInv  what the portal has still to pass on tells the sessions.          *)
(*                                                                         *)
(* DInv needs an update_data that is not given the data of an earlier      *)
(* selection, FInv a compositor that cancels a source before it reports    *)
(* the selection that replaces it. The others hold with every fault. How   *)
(* a type is chosen (Nearest) depends on no state.                         *)
(***************************************************************************)
EXTENDS ClipboardPortal, QueueLemmas

Event ==
  {e \in [k : {"offer", "selection", "null", "primary", "cancelled", "send", "finished"},
          id : Selection \cup {None}, m : Wanted \cup {None}, p : Paste \cup {None}] :
     /\ e.k \in {"offer", "selection", "primary"} => e.id \in Selection
     /\ e.k \in {"cancelled", "send"} => e.id \in Own
     /\ e.k = "null" => e.id = None
     /\ IF e.k = "send" THEN e.m \in Wanted /\ e.p \in Paste ELSE e.p = None}

Order ==
  {c \in [k : {"set", "update", "clear", "complete", "receive"}, sel : Own \cup {None},
          full : BOOLEAN, m : Wanted \cup {None}, p : Paste \cup {None}, serial : Nat] :
     /\ c.k \in {"set", "update"} => c.sel \in Own
     /\ c.k = "update" => c.m \in Wanted
     /\ IF c.k = "receive" THEN c.m \in Wanted /\ c.p \in Paste ELSE c.p = None}

(* A selection that is set, or asked about, has been made.               *)
Made ==
  /\ source # None => source <= nSel
  /\ \A i \in DOMAIN cmds : cmds[i].k = "set" => cmds[i].sel <= nSel
  /\ asked # {} => nSel >= 1

DTypes == TypeOK /\ wire \in Seq(Event) /\ cmds \in Seq(Order) /\ Made
TInv == DTypes /\ PortalTypeOK

(* The worker sets selections in the order the consumer made them...     *)
SetAt(i) == cmds[i].k = "set"
Newer(x) == \A i \in DOMAIN cmds : SetAt(i) => cmds[i].sel > x
SetsGrow ==
  \A i, j \in DOMAIN cmds : SetAt(i) /\ SetAt(j) /\ i < j => cmds[i].sel < cmds[j].sel

(* ...and when it comes to the command at place i, the source it has, if *)
(* any, is that of s.                                                    *)
Known(i, s) ==
  \/ \E j \in 1..(i - 1) : SetAt(j) /\ cmds[j].sel = s /\ \A k \in (j + 1)..(i - 1) : ~SetAt(k)
  \/ (\A j \in 1..(i - 1) : ~SetAt(j)) /\ source \in {None, s}

Brings(i) == cmds[i].k = "update" \/ (cmds[i].k = "complete" /\ cmds[i].sel # None)
BroughtInOrder ==
  /\ \A i \in DOMAIN cmds : Brings(i) => Known(i, cmds[i].sel)
  /\ Known(Len(cmds) + 1, nSel)

SourceNeedsDevice == ~device => source = None
DataOfSource == source # None => \A m \in Wanted : data[m] \in {None, source}

DInv == BroughtInOrder /\ DataOfSource

(* Each paste is in one place.                                           *)
InWire(p) == \E i \in DOMAIN wire : wire[i].p = p
InCmds(p) == \E i \in DOMAIN cmds : cmds[i].p = p
WirePastes ==
  \A i \in DOMAIN wire : wire[i].k = "send" =>
    LET q == paste[wire[i].p] IN q.st = "sent" /\ q.sel = wire[i].id /\ q.m = wire[i].m
CmdPastes ==
  \A i \in DOMAIN cmds : cmds[i].k = "receive" =>
    LET q == paste[cmds[i].p] IN q.st = "sent" /\ q.m = cmds[i].m
OnceInWire == \A i, j \in DOMAIN wire : wire[i].p = wire[j].p /\ wire[i].p # None => i = j
OnceInCmds == \A i, j \in DOMAIN cmds : cmds[i].p = cmds[j].p /\ cmds[i].p # None => i = j
Once == OnceInWire /\ OnceInCmds /\ \A p \in Paste : ~(InWire(p) /\ InCmds(p))
HeldPastes ==
  /\ source = None => \A m \in Wanted : ~Held(m)
  /\ \A m \in Wanted : \A p \in held[m].waiters :
       paste[p].st = "held" /\ paste[p].m = m /\ paste[p].sel = source
Requested(m) ==
  \/ [serial |-> held[m].serial, m |-> m] \in asked
  \/ \E i \in DOMAIN cmds : cmds[i].k = "complete" /\ cmds[i].serial = held[m].serial
SentOrHeld ==
  /\ \A p \in Paste : paste[p].st = "sent" => InWire(p) \/ InCmds(p)
  /\ \A p \in Paste : paste[p].st = "held" => p \in Waiting
  /\ \A m \in Wanted : Held(m) => Requested(m)

PInv == WirePastes /\ CmdPastes /\ Once /\ HeldPastes /\ SentOrHeld

(* What the worker has not read yet.                                     *)
CancelAt(i) == wire[i].k = "cancelled" /\ wire[i].id = source
ReportAt(i) == wire[i].k \in {"selection", "null"}
LastReport(i) == ReportAt(i) /\ \A j \in DOMAIN wire : j > i => ~ReportAt(j)

OldOnes ==
  /\ SetsGrow
  /\ source # None => Newer(source)
  /\ sel \in Own => Newer(sel)
  /\ \A i \in DOMAIN wire : wire[i].k = "cancelled" =>
       Newer(wire[i].id) /\ wire[i].id # sel /\ wire[i].id <= nSel

SourceIsSelection ==
  /\ sel \in Own => source = sel
  /\ source # None /\ sel # source => \E i \in DOMAIN wire : CancelAt(i)
  /\ running => (own_live <=> source # None)

Listening == running /\ Reporting
OffersFirst ==
  Listening => \A i \in DOMAIN wire : wire[i].k = "selection" =>
    IF i = 1 THEN pending = wire[i].id
    ELSE wire[i - 1].k = "offer" /\ wire[i - 1].id = wire[i].id
Reported ==
  Listening => /\ \A i \in DOMAIN wire : LastReport(i) => wire[i].id = sel
               /\ (\A i \in DOMAIN wire : ~ReportAt(i)) => current = sel

AInv == OldOnes /\ SourceIsSelection /\ SourceNeedsDevice /\ OffersFirst /\ Reported

(* The cancelled event of a source comes before the report of the foreign *)
(* selection.                                                            *)
CancelledFirst ==
  /\ sel = None => source = None
  /\ Listening /\ sel \in Foreign /\ source # None =>
       \E i, j \in DOMAIN wire : i < j /\ CancelAt(i) /\ ReportAt(j)
Announced ==
  Listening /\ sel \in Foreign /\ (\A i \in DOMAIN wire : ~ReportAt(i)) => told = sel
SessionsTold ==
  portal => IF signals = <<>> THEN \A h \in enabled : heard[h] \in {told, Unheard}
            ELSE signals[Len(signals)] = told

FInv == CancelledFirst /\ Announced /\ SessionsTold

-----------------------------------------------------------------------------
(* An event, or a command, has what its kind needs.                      *)
LEMMA EventFields ==
  ASSUME NEW k \in {"offer", "selection", "null", "primary", "cancelled", "finished"},
         NEW id \in Selection \cup {None},
         k \in {"offer", "selection", "primary"} => id \in Selection,
         k = "cancelled" => id \in Own,
         k = "null" => id = None
  PROVE  Ev(k, id) \in Event /\ Ev(k, id).k = k /\ Ev(k, id).id = id /\ Ev(k, id).p = None
BY DEF Ev, Event

(* A send names our source, the type asked for and the pipe.             *)
LEMMA SendFields ==
  ASSUME NEW id \in Own, NEW m \in Wanted, NEW p \in Paste
  PROVE  [k |-> "send", id |-> id, m |-> m, p |-> p] \in Event
BY DEF Event, Selection

(* The type found for a paste (cached_key) is one whose data is cached.  *)
LEMMA MatchIsCached ==
  ASSUME NEW m, NEW cached
  PROVE  cached_key(m, cached) # NoMatch => cached_key(m, cached) \in cached
BY DEF cached_key

(* A paste answered has an answer, and the others are as they were.      *)
LEMMA Answered ==
  ASSUME TypeOK, NEW P, NEW s \in Selection \cup {None}
  PROVE  /\ DOMAIN Answer(P, s) = Paste
         /\ \A p \in Paste : p \notin P => Answer(P, s)[p] = paste[p]
         /\ \A p \in Paste : p \in P =>
              /\ Answer(P, s)[p].st = IF s = None THEN "eof" ELSE "data"
              /\ Answer(P, s)[p].sel = paste[p].sel /\ Answer(P, s)[p].m = paste[p].m
              /\ Answer(P, s)[p].of = s
         /\ Answer(P, s) \in [Paste -> [st : {"idle", "sent", "held", "data", "eof"},
                                        sel : Selection \cup {None}, m : Wanted \cup {None},
                                        of : Selection \cup {None}]]
<1> DEFINE T == [st : {"idle", "sent", "held", "data", "eof"}, sel : Selection \cup {None},
                 m : Wanted \cup {None}, of : Selection \cup {None}]
           E(p) == [paste[p] EXCEPT !.st = IF s = None THEN "eof" ELSE "data", !.of = s]
<1>1. paste \in [Paste -> T]
  BY DEF TypeOK
<1>2. \A p \in Paste : Answer(P, s)[p] = IF p \in P THEN E(p) ELSE paste[p]
  BY DEF Answer
<1>3. ASSUME NEW p \in Paste
      PROVE  /\ E(p) \in T
             /\ E(p).st = (IF s = None THEN "eof" ELSE "data") /\ E(p).of = s
             /\ E(p).sel = paste[p].sel /\ E(p).m = paste[p].m
  <2>1. paste[p] \in T
    BY <1>1
  <2>2. QED
    BY <2>1
<1> HIDE DEF T, E
<1>4. \A p \in Paste : Answer(P, s)[p] \in T
  BY <1>1, <1>2, <1>3
<1>5. DOMAIN Answer(P, s) = Paste /\ Answer(P, s) = [p \in Paste |-> Answer(P, s)[p]]
  BY DEF Answer
<1>6. Answer(P, s) \in [Paste -> T]
  BY <1>4, <1>5
<1>7. QED
  BY <1>2, <1>3, <1>5, <1>6 DEF T

(* What the compositor sends of a change: it cancels the old source if it *)
(* is ours, and reports the new selection, its offer first, while there is *)
(* a device.                                                             *)
ReportKinds == {"selection", "null"}

LEMMA ChangeReported ==
  ASSUME sel \in Selection \cup {None}, NEW new \in Selection \cup {None},
         NEW evs \in ChangeEvents(new)
  PROVE  /\ evs \in Seq(Event) /\ Len(evs) \in Nat
         /\ \A i \in 1..Len(evs) :
              /\ evs[i].k \in ReportKinds \cup {"cancelled", "offer"} /\ evs[i].p = None
              /\ evs[i].k = "cancelled" => evs[i].id = sel /\ sel \in Own
              /\ evs[i].k \in ReportKinds => evs[i].id = new /\ Reporting
              /\ evs[i].k = "selection" =>
                   i > 1 /\ i - 1 \in 1..Len(evs) /\ evs[i - 1].k = "offer" /\ evs[i - 1].id = new
         /\ sel \in Own => \E i \in 1..Len(evs) : evs[i].k = "cancelled"
         /\ Reporting => \E i \in 1..Len(evs) : evs[i].k \in ReportKinds
         /\ sel \in Own /\ Reporting /\ "selection_first" \notin Faults =>
              \E i, j \in 1..Len(evs) : i < j /\ evs[i].k = "cancelled" /\ evs[j].k \in ReportKinds
<1> DEFINE C == IF sel \in Own THEN <<Ev("cancelled", sel)>> ELSE <<>>
           R == IF ~Reporting THEN <<>>
                ELSE IF new = None THEN <<Ev("null", None)>>
                ELSE <<Ev("offer", new), Ev("selection", new)>>
<1>1. /\ sel \in Own => /\ Ev("cancelled", sel) \in Event /\ Ev("cancelled", sel).k = "cancelled"
                        /\ Ev("cancelled", sel).id = sel /\ Ev("cancelled", sel).p = None
      /\ Ev("null", None) \in Event /\ Ev("null", None).k = "null"
      /\ Ev("null", None).id = None /\ Ev("null", None).p = None
      /\ new # None => /\ Ev("offer", new) \in Event /\ Ev("offer", new).k = "offer"
                       /\ Ev("offer", new).id = new /\ Ev("offer", new).p = None
                       /\ Ev("selection", new) \in Event /\ Ev("selection", new).k = "selection"
                       /\ Ev("selection", new).id = new /\ Ev("selection", new).p = None
  BY EventFields
<1>2. /\ C \in Seq(Event) /\ Len(C) = IF sel \in Own THEN 1 ELSE 0
      /\ \A i \in 1..Len(C) : C[i].k = "cancelled" /\ C[i].id = sel /\ C[i].p = None /\ sel \in Own
  BY <1>1
<1>3. /\ R \in Seq(Event) /\ Len(R) \in 0..2
      /\ \A i \in 1..Len(R) : /\ R[i].k \in ReportKinds \cup {"offer"} /\ R[i].p = None
                              /\ R[i].id = new /\ Reporting
                              /\ R[i].k = "selection" => i = 2 /\ R[1].k = "offer" /\ R[1].id = new
      /\ Reporting => Len(R) > 0 /\ R[Len(R)].k \in ReportKinds
  BY <1>1 DEF ReportKinds
<1>4. evs = C \o R \/ (evs = R \o C /\ "selection_first" \in Faults)
  BY DEF ChangeEvents
<1> HIDE DEF C, R
<1>5. CASE evs = C \o R
  <2>1. /\ evs \in Seq(Event) /\ Len(C) \in Nat /\ Len(R) \in Nat /\ Len(evs) = Len(C) + Len(R)
        /\ \A i \in 1..Len(C) : evs[i] = C[i]
        /\ \A i \in 1..Len(R) : evs[Len(C) + i] = R[i]
    <3>1. C \in Seq(Event) /\ R \in Seq(Event) /\ evs = C \o R
      BY <1>2, <1>3, <1>5
    <3>2. QED
      BY <3>1, SentTogether
  <2>2. \A i \in 1..Len(evs) : i \in 1..Len(C) \/ \E j \in 1..Len(R) : i = Len(C) + j
    <3> SUFFICES ASSUME NEW i \in 1..Len(evs), i \notin 1..Len(C)
                 PROVE  \E j \in 1..Len(R) : i = Len(C) + j
      OBVIOUS
    <3>1. i - Len(C) \in 1..Len(R) /\ i = Len(C) + (i - Len(C))
      BY <2>1
    <3>2. QED
      BY <3>1
  <2>3. QED
    <3>1. ASSUME NEW i \in 1..Len(evs)
          PROVE  /\ evs[i].k \in ReportKinds \cup {"cancelled", "offer"} /\ evs[i].p = None
                 /\ evs[i].k = "cancelled" => evs[i].id = sel /\ sel \in Own
                 /\ evs[i].k \in ReportKinds => evs[i].id = new /\ Reporting
                 /\ evs[i].k = "selection" =>
                      i > 1 /\ i - 1 \in 1..Len(evs) /\ evs[i - 1].k = "offer" /\ evs[i - 1].id = new
      <4>1. CASE i \in 1..Len(C)
        BY <1>2, <2>1, <4>1 DEF ReportKinds
      <4>2. ASSUME NEW j \in 1..Len(R), i = Len(C) + j
            PROVE  /\ evs[i].k \in ReportKinds \cup {"cancelled", "offer"} /\ evs[i].p = None
                   /\ evs[i].k = "cancelled" => evs[i].id = sel /\ sel \in Own
                   /\ evs[i].k \in ReportKinds => evs[i].id = new /\ Reporting
                   /\ evs[i].k = "selection" =>
                        i > 1 /\ i - 1 \in 1..Len(evs) /\ evs[i - 1].k = "offer" /\ evs[i - 1].id = new
        <5>1. evs[i] = R[j]
          BY <2>1, <4>2
        <5>2. CASE R[j].k = "selection"
          <6>1. j = 2 /\ 1 \in 1..Len(R) /\ i - 1 = Len(C) + 1
            BY <1>2, <1>3, <2>1, <4>2, <5>2
          <6>2. evs[i - 1] = R[1]
            BY <2>1, <6>1
          <6>3. i > 1 /\ i - 1 \in 1..Len(evs)
            BY <2>1, <6>1
          <6>4. QED
            BY <1>3, <5>1, <5>2, <6>1, <6>2, <6>3 DEF ReportKinds
        <5>3. QED
          BY <1>3, <5>1, <5>2 DEF ReportKinds
      <4>3. QED
        BY <2>2, <4>1, <4>2
    <3>2. sel \in Own => 1 \in 1..Len(evs) /\ evs[1].k = "cancelled" /\ Len(C) = 1
      BY <1>2, <2>1
    <3>3. Reporting => Len(C) + Len(R) \in 1..Len(evs) /\ evs[Len(C) + Len(R)].k \in ReportKinds
      BY <1>2, <1>3, <2>1
    <3>4. Reporting /\ sel \in Own => 1 < Len(C) + Len(R)
      BY <1>3, <2>1, <3>2
    <3>5. QED
      BY <2>1, <3>1, <3>2, <3>3, <3>4
<1>6. CASE evs = R \o C /\ "selection_first" \in Faults
  <2>1. /\ evs \in Seq(Event) /\ Len(C) \in Nat /\ Len(R) \in Nat /\ Len(evs) = Len(R) + Len(C)
        /\ \A i \in 1..Len(R) : evs[i] = R[i]
        /\ \A i \in 1..Len(C) : evs[Len(R) + i] = C[i]
    <3>1. C \in Seq(Event) /\ R \in Seq(Event) /\ evs = R \o C
      BY <1>2, <1>3, <1>6
    <3>2. QED
      BY <3>1, SentTogether
  <2>2. \A i \in 1..Len(evs) : i \in 1..Len(R) \/ \E j \in 1..Len(C) : i = Len(R) + j
    <3> SUFFICES ASSUME NEW i \in 1..Len(evs), i \notin 1..Len(R)
                 PROVE  \E j \in 1..Len(C) : i = Len(R) + j
      OBVIOUS
    <3>1. i - Len(R) \in 1..Len(C) /\ i = Len(R) + (i - Len(R))
      BY <2>1
    <3>2. QED
      BY <3>1
  <2>3. QED
    <3>1. ASSUME NEW i \in 1..Len(evs)
          PROVE  /\ evs[i].k \in ReportKinds \cup {"cancelled", "offer"} /\ evs[i].p = None
                 /\ evs[i].k = "cancelled" => evs[i].id = sel /\ sel \in Own
                 /\ evs[i].k \in ReportKinds => evs[i].id = new /\ Reporting
                 /\ evs[i].k = "selection" =>
                      i > 1 /\ i - 1 \in 1..Len(evs) /\ evs[i - 1].k = "offer" /\ evs[i - 1].id = new
      <4>1. CASE i \in 1..Len(R)
        <5>1. evs[i] = R[i]
          BY <2>1, <4>1
        <5>2. CASE R[i].k = "selection"
          <6>1. i = 2 /\ 1 \in 1..Len(R)
            BY <1>3, <2>1, <4>1, <5>2
          <6>2. evs[1] = R[1] /\ 1 \in 1..Len(evs) /\ i - 1 = 1 /\ i > 1
            BY <2>1, <6>1
          <6>3. QED
            BY <1>3, <4>1, <5>1, <5>2, <6>1, <6>2 DEF ReportKinds
        <5>3. QED
          BY <1>3, <4>1, <5>1, <5>2 DEF ReportKinds
      <4>2. ASSUME NEW j \in 1..Len(C), i = Len(R) + j
            PROVE  evs[i] = C[j]
        BY <2>1, <4>2
      <4>3. QED
        BY <1>2, <2>2, <4>1, <4>2 DEF ReportKinds
    <3>2. sel \in Own => Len(R) + 1 \in 1..Len(evs) /\ evs[Len(R) + 1].k = "cancelled"
      BY <1>2, <2>1
    <3>3. Reporting => Len(R) \in 1..Len(evs) /\ evs[Len(R)].k \in ReportKinds
      BY <1>2, <1>3, <2>1
    <3>4. QED
      BY <1>6, <2>1, <3>1, <3>2, <3>3, SMTT(20)
<1>7. QED
  BY <1>4, <1>5, <1>6


(* What is sent to the worker, or by it, is well typed.                  *)
LEMMA TypesSent ==
  ASSUME DTypes, NEW new \in Selection \cup {None}, Deliver(new)
  PROVE  wire' \in Seq(Event)
<1>1. PICK evs \in ChangeEvents(new) : wire' = wire \o evs
  BY DEF Deliver
<1>2. evs \in Seq(Event)
  BY ChangeReported DEF DTypes, TypeOK
<1>3. QED
  BY <1>1, <1>2, SentTogether DEF DTypes

(* A command that is sent is well typed, a selection it sets has been made. *)
LEMMA TypesCommanded ==
  ASSUME DTypes, NEW c \in Order, Command(c), nSel' >= nSel, nSel' \in Nat,
         c.k = "set" => c.sel <= nSel'
  PROVE  cmds' \in Seq(Order) /\ \A i \in DOMAIN cmds' : cmds'[i].k = "set" => cmds'[i].sel <= nSel'
<1>1. /\ cmds' \in Seq(Order) /\ Len(cmds) \in Nat
      /\ DOMAIN cmds = 1..Len(cmds) /\ DOMAIN cmds' = 1..(Len(cmds) + 1)
      /\ \A i \in 1..Len(cmds) : cmds'[i] = cmds[i]
      /\ cmds'[Len(cmds) + 1] = c
  BY Sent DEF Command, DTypes
<1>2. \A i \in 1..Len(cmds) : cmds[i] \in Order
  BY ElementOfSeq DEF DTypes
<1>3. \A i \in 1..Len(cmds) : cmds[i].k = "set" => cmds[i].sel \in Int
  BY <1>2 DEF Order, Own
<1>4. \A i \in 1..Len(cmds) : cmds[i].k = "set" => cmds[i].sel <= nSel
  BY <1>1 DEF DTypes, Made
<1>5. nSel \in Int
  BY DEF DTypes, TypeOK
<1>6. \A i \in 1..Len(cmds) : cmds[i].k = "set" => cmds[i].sel <= nSel'
  BY <1>3, <1>4, <1>5
<1>7. QED
  BY <1>1, <1>6

(* Other clients, the compositor and the loss of the connection.         *)
LEMMA TypesOfOutside ==
  ASSUME DTypes, Outside
  PROVE  DTypes'
<1>1. ASSUME NEW f \in Foreign, NEW ts \in Offers, Copy(f, ts)
      PROVE  DTypes'
  <2>1. wire' \in Seq(Event)
    BY <1>1, TypesSent DEF Copy, Selection
  <2>2. left' \in 0..MaxCopy
    BY <1>1, DataControlAssumption DEF Copy, NextCopy, DTypes, TypeOK
  <2>3. offered' \in [Selection -> Offers \cup {<<>>}] /\ sel' \in Selection
    BY <1>1 DEF Copy, DTypes, TypeOK, Selection
  <2>4. QED
    BY <1>1, <2>1, <2>2, <2>3 DEF Copy, DTypes, TypeOK, Made, srcVars, offVars, conVars
<1>2. ASSUME NEW f \in Foreign, NEW ts \in Offers, PrimaryCopy(f, ts)
      PROVE  DTypes'
  <2>1. wire' \in Seq(Event)
    <3> DEFINE o == Ev("offer", f)
               q == Ev("primary", f)
    <3>1. o \in Event /\ q \in Event /\ wire' = wire \o <<o, q>> /\ wire \in Seq(Event)
      BY <1>2, EventFields DEF PrimaryCopy, Selection, DTypes
    <3> HIDE DEF o, q
    <3>2. <<o, q>> \in Seq(Event)
      BY <3>1
    <3>3. QED
      BY <3>1, <3>2, SentTogether
  <2>2. left' \in 0..MaxCopy
    BY <1>2, DataControlAssumption DEF PrimaryCopy, NextCopy, DTypes, TypeOK
  <2>3. offered' \in [Selection -> Offers \cup {<<>>}]
    BY <1>2 DEF PrimaryCopy, DTypes, TypeOK, Selection
  <2>4. QED
    BY <1>2, <2>1, <2>2, <2>3 DEF PrimaryCopy, DTypes, TypeOK, Made, srcVars, offVars, conVars
<1>3. ASSUME NEW p \in Paste, NEW m \in Wanted, PasteOwn(p, m)
      PROVE  DTypes'
  <2>1. wire' \in Seq(Event) /\ sel \in Own
    BY <1>3, SendFields, Sent DEF PasteOwn, DTypes
  <2>2. paste' \in [Paste -> [st : {"idle", "sent", "held", "data", "eof"}, sel : Selection \cup {None},
                              m : Wanted \cup {None}, of : Selection \cup {None}]]
    BY <1>3, <2>1 DEF PasteOwn, DTypes, TypeOK, Selection
  <2>3. QED
    BY <1>3, <2>1, <2>2 DEF PasteOwn, DTypes, TypeOK, Made, compVars, srcVars, offVars, conVars
<1>4. CASE FinishDevice
  <2>1. wire' \in Seq(Event)
    <3> DEFINE e == Ev("finished", None)
    <3>1. e \in Event /\ wire' = <<e>>
      BY <1>4, EventFields DEF FinishDevice
    <3> HIDE DEF e
    <3>2. QED
      BY <3>1
  <2>2. QED
    BY <1>4, <2>1 DEF FinishDevice, DTypes, TypeOK, Made, compVars, srcVars, offVars, conVars
<1>5. CASE Stop
  <2>1. paste' \in [Paste -> [st : {"idle", "sent", "held", "data", "eof"}, sel : Selection \cup {None},
                              m : Wanted \cup {None}, of : Selection \cup {None}]]
    BY <1>5, Answered DEF Stop, DTypes
  <2>2. data' \in [Wanted -> Own \cup {None}]
        /\ held' \in [Wanted -> [serial : Nat, waiters : SUBSET Paste]]
    BY <1>5 DEF Stop, NoData, NoTransfers
  <2>3. wire' \in Seq(Event) /\ cmds' \in Seq(Order) /\ DOMAIN cmds' = {}
    BY <1>5 DEF Stop
  <2>4. QED
    BY <1>5, <2>1, <2>2, <2>3 DEF Stop, DTypes, TypeOK, Made, conVars
<1>6. QED
  BY <1>1, <1>2, <1>3, <1>4, <1>5 DEF Outside

(* The calls of the handle.                                              *)
LEMMA TypesOfConsumer ==
  ASSUME DTypes, Consumer
  PROVE  DTypes'
<1> USE DataControlAssumption
<1>1. ASSUME NEW ts \in Offers, NEW full \in BOOLEAN, SetSelection(ts, full)
      PROVE  DTypes'
  <2> DEFINE c == [NoCommand EXCEPT !.k = "set", !.sel = nSel + 1, !.full = full]
  <2>1. nSel + 1 \in Own /\ nSel \in Nat /\ nSel' = nSel + 1 /\ nSel' \in 0..MaxSel
    BY <1>1 DEF SetSelection, DTypes, TypeOK, Own
  <2>2. c \in Order /\ c.k = "set" /\ c.sel = nSel + 1
    BY <2>1 DEF Order, NoCommand
  <2>3. Command(c)
    BY <1>1 DEF SetSelection
  <2> HIDE DEF c
  <2>4. cmds' \in Seq(Order) /\ \A i \in DOMAIN cmds' : cmds'[i].k = "set" => cmds'[i].sel <= nSel'
    BY <2>1, <2>2, <2>3, TypesCommanded
  <2>5. source # None => source <= nSel'
    BY <1>1, <2>1 DEF DTypes, TypeOK, Made, Own
  <2>6. offered' \in [Selection -> Offers \cup {<<>>}]
    BY <1>1, <2>1 DEF SetSelection, DTypes, TypeOK, Selection
  <2>7. QED
    BY <1>1, <2>1, <2>4, <2>5, <2>6, SMTT(20)
       DEF SetSelection, DTypes, TypeOK, Made, srcVars, offVars
<1>2. ASSUME UNCHANGED <<compVars, wire, running, device, srcVars, offVars, nSel, told>>,
             asked' \subseteq asked, NEW c \in Order, Command(c), c.k # "set",
             paste' \in [Paste -> [st : {"idle", "sent", "held", "data", "eof"},
                                   sel : Selection \cup {None}, m : Wanted \cup {None},
                                   of : Selection \cup {None}]]
      PROVE  DTypes'
  <2>1. cmds' \in Seq(Order) /\ \A i \in DOMAIN cmds' : cmds'[i].k = "set" => cmds'[i].sel <= nSel'
    BY <1>2, TypesCommanded DEF DTypes, TypeOK
  <2>2. QED
    BY <1>2, <2>1 DEF DTypes, TypeOK, Made, compVars, srcVars, offVars
<1>3. ASSUME NEW m \in Wanted, NEW s \in Own, UpdateData(m, s)
      PROVE  DTypes'
  <2> DEFINE c == [NoCommand EXCEPT !.k = "update", !.sel = s, !.m = m]
  <2>1. c \in Order /\ c.k # "set"
    BY DEF Order, NoCommand
  <2> HIDE DEF c
  <2>2. QED
    BY <1>2, <1>3, <2>1 DEF UpdateData, conVars, c, DTypes, TypeOK
<1>4. CASE ClearSelection
  <2> DEFINE c == [NoCommand EXCEPT !.k = "clear"]
  <2>1. c \in Order /\ c.k # "set"
    BY DEF Order, NoCommand
  <2> HIDE DEF c
  <2>2. QED
    BY <1>2, <1>4, <2>1 DEF ClearSelection, conVars, c, DTypes, TypeOK
<1>5. ASSUME NEW r \in asked, NEW ok \in BOOLEAN, CompleteTransfer(r, ok)
      PROVE  DTypes'
  <2> DEFINE c == [NoCommand EXCEPT !.k = "complete", !.serial = r.serial,
                                    !.sel = IF ok THEN nSel ELSE None]
  <2>1. nSel \in Own /\ r.serial \in Nat
    BY DEF DTypes, TypeOK, Made, Own
  <2>2. c \in Order /\ c.k # "set"
    BY <2>1 DEF Order, NoCommand
  <2> HIDE DEF c
  <2>3. QED
    BY <1>2, <1>5, <2>2 DEF CompleteTransfer, c, DTypes, TypeOK
<1>6. ASSUME NEW p \in Paste, NEW m \in Wanted, Read(p, m)
      PROVE  DTypes'
  <2>1. PICK found \in Wanted :
          /\ paste' = [paste EXCEPT ![p] = [st |-> "sent", sel |-> None, m |-> found, of |-> None]]
          /\ Command([NoCommand EXCEPT !.k = "receive", !.m = found, !.p = p])
    BY <1>6 DEF Read
  <2> DEFINE c == [NoCommand EXCEPT !.k = "receive", !.m = found, !.p = p]
  <2>2. c \in Order /\ c.k # "set"
    BY DEF Order, NoCommand
  <2> HIDE DEF c
  <2>3. paste' \in [Paste -> [st : {"idle", "sent", "held", "data", "eof"}, sel : Selection \cup {None},
                              m : Wanted \cup {None}, of : Selection \cup {None}]]
    BY <2>1 DEF DTypes, TypeOK
  <2>4. QED
    BY <1>2, <1>6, <2>1, <2>2, <2>3 DEF Read, conVars, c
<1>7. QED
  BY <1>1, <1>3, <1>4, <1>5, <1>6 DEF Consumer

(* The types of the pastes and of the transfers held.                    *)
PasteType ==
  [Paste -> [st : {"idle", "sent", "held", "data", "eof"}, sel : Selection \cup {None},
             m : Wanted \cup {None}, of : Selection \cup {None}]]
HeldType == [Wanted -> [serial : Nat, waiters : SUBSET Paste]]

(* What is forgotten with a source is well typed.                        *)
LEMMA TypesOfForget ==
  ASSUME DTypes
  PROVE  /\ NoData \in [Wanted -> Own \cup {None}] /\ NoTransfers \in HeldType
         /\ Answer(Waiting, None) \in PasteType
BY Answered DEF NoData, NoTransfers, HeldType, PasteType, DTypes

(* The worker takes an event, or a command, that is well typed.          *)
LEMMA EventRead ==
  ASSUME DTypes, wire # <<>>, wire' = Tail(wire)
  PROVE  /\ wire' \in Seq(Event) /\ Head(wire) \in Event /\ Head(wire) = wire[1]
         /\ Len(wire) \in Nat \ {0} /\ DOMAIN wire = 1..Len(wire)
         /\ Len(wire') = Len(wire) - 1 /\ DOMAIN wire' = 1..(Len(wire) - 1)
         /\ \A i \in 1..(Len(wire) - 1) : wire'[i] = wire[i + 1]
BY Received DEF DTypes

(* The worker takes a command.                                           *)
LEMMA CommandTaken ==
  ASSUME DTypes, cmds # <<>>, cmds' = Tail(cmds)
  PROVE  /\ cmds' \in Seq(Order) /\ Head(cmds) \in Order /\ Head(cmds) = cmds[1]
         /\ Len(cmds) \in Nat \ {0} /\ DOMAIN cmds = 1..Len(cmds)
         /\ Len(cmds') = Len(cmds) - 1 /\ DOMAIN cmds' = 1..(Len(cmds) - 1)
         /\ \A i \in 1..(Len(cmds) - 1) : cmds'[i] = cmds[i + 1]
BY Received DEF DTypes

(* The events the worker dispatches.                                     *)
LEMMA TypesOfEvents ==
  ASSUME DTypes, WorkerEvent
  PROVE  DTypes'
<1>1. ASSUME NEW k, Dispatch(k)
      PROVE  /\ wire' \in Seq(Event) /\ Head(wire) \in Event /\ Head(wire).k = k
             /\ UNCHANGED <<compVars, cmds, running, nSel>>
  BY <1>1, EventRead DEF Dispatch
<1>2. CASE set_pending_offer
  <2>1. Head(wire).id \in Selection
    BY <1>1, <1>2 DEF set_pending_offer, Event
  <2>2. QED
    BY <1>1, <1>2, <2>1 DEF set_pending_offer, DTypes, TypeOK, Made, compVars, srcVars
<1>3. CASE on_selection
  <2>1. types' \in Offers \cup {<<>>} /\ told' \in Selection \cup {None}
    BY <1>3 DEF on_selection, DTypes, TypeOK
  <2>2. QED
    BY <1>1, <1>3, <2>1 DEF on_selection, DTypes, TypeOK, Made, compVars, srcVars
<1>4. CASE on_selection_cleared
  BY <1>1, <1>4 DEF on_selection_cleared, DTypes, TypeOK, Made, compVars, srcVars
<1>5. CASE on_primary_selection
  BY <1>1, <1>5 DEF on_primary_selection, DTypes, TypeOK, Made, compVars, srcVars, offVars
<1>6. ASSUME NEW k, Discard(k)
      PROVE  DTypes'
  <2>1. paste' \in PasteType
    BY <1>6, Answered DEF Discard, DTypes, PasteType
  <2>2. /\ wire' \in Seq(Event)
        /\ UNCHANGED <<compVars, cmds, running, nSel, device, srcVars, offVars, asked, told>>
    BY <1>1, <1>6 DEF Discard
  <2>3. Made'
    BY <2>2 DEF DTypes, Made, srcVars
  <2>4. QED
    BY <2>1, <2>2, <2>3 DEF DTypes, TypeOK, compVars, srcVars, offVars, PasteType
<1>7. CASE on_source_send
  <2> DEFINE ev == Head(wire)  m == ev.m  p == ev.p
             key == cached_key(m, {c \in Wanted : data[c] # None})
  <2>1. /\ m \in Wanted /\ p \in Paste /\ wire' \in Seq(Event) /\ ev.id = source
        /\ source \in Own
        /\ UNCHANGED <<compVars, cmds, running, nSel>>
    BY <1>1, <1>7 DEF on_source_send, Event
  <2>2. UNCHANGED <<device, source, data, own_live, offVars, told>>
    BY <1>7 DEF on_source_send
  <2>3. key # NoMatch => data[key] \in Selection
    <3>1. key # NoMatch => key \in {c \in Wanted : data[c] # None}
      BY MatchIsCached
    <3>2. QED
      BY <3>1 DEF DTypes, TypeOK, Selection
  <2>4. serial \in Nat /\ serial + 1 \in Nat
    BY DEF DTypes, TypeOK
  <2>5. paste' \in PasteType
    <3> HIDE DEF key, p
    <3>1. paste' = Answer({p}, data[key]) /\ key # NoMatch => paste' \in PasteType
      BY <2>3, Answered DEF DTypes, PasteType
    <3>2. paste' = [paste EXCEPT ![p].st = "held"] => paste' \in PasteType
      <4>1. paste \in PasteType
        BY DEF DTypes, TypeOK, PasteType
      <4>2. QED
        BY <2>1, <4>1, SMTT(20) DEF PasteType
    <3>3. paste' = Answer({p}, None) => paste' \in PasteType
      BY Answered DEF DTypes, PasteType
    <3>4. QED
      BY <1>7, <3>1, <3>2, <3>3 DEF on_source_send, key, p
  <2>6. /\ held' \in HeldType /\ serial' \in Nat /\ asked' \subseteq [serial : Nat, m : Wanted]
        /\ asked' # {} => nSel >= 1
    <3>1. source \in Int /\ source >= 1 /\ nSel \in Int /\ source # None
      BY <2>1, DataControlAssumption DEF Own, DTypes, TypeOK
    <3> source <= nSel
      BY <3>1 DEF DTypes, Made
    <3>2. nSel >= 1
      BY <3>1
    <3> HIDE DEF key
    <3>3. CASE UNCHANGED <<held, serial, asked>>
      BY <3>3, <3>2 DEF DTypes, TypeOK, HeldType
    <3>4. CASE held' = [held EXCEPT ![m].waiters = @ \cup {p}] /\ UNCHANGED <<serial, asked>>
      BY <2>1, <3>4, <3>2 DEF DTypes, TypeOK, HeldType
    <3>5. CASE /\ held' = [held EXCEPT ![m] = [serial |-> serial, waiters |-> {p}]]
               /\ serial' = serial + 1
               /\ asked' = asked \cup {[serial |-> serial, m |-> m]}
      BY <2>1, <2>4, <3>5, <3>2 DEF DTypes, TypeOK, HeldType
    <3>6. QED
      BY <1>7, <3>3, <3>4, <3>5 DEF on_source_send, key
  <2>7. QED
    BY <2>1, <2>2, <2>5, <2>6 DEF DTypes, TypeOK, Made, compVars, offVars, PasteType, HeldType
<1>8. CASE on_source_cancelled
  <2>1. source' = None /\ data' = NoData /\ held' = NoTransfers /\ own_live' = FALSE
        /\ paste' = Answer(Waiting, None) /\ serial' = serial
    BY <1>8 DEF on_source_cancelled, Forget
  <2>2. /\ wire' \in Seq(Event)
        /\ UNCHANGED <<compVars, cmds, running, nSel, device, offVars, asked, told>>
    BY <1>1, <1>8 DEF on_source_cancelled
  <2>3. Made'
    BY <2>1, <2>2 DEF DTypes, Made
  <2>4. /\ data' \in [Wanted -> Own \cup {None}] /\ held' \in HeldType /\ paste' \in PasteType
    BY <2>1, TypesOfForget
  <2>5. QED
    BY <2>1, <2>2, <2>3, <2>4 DEF DTypes, TypeOK, compVars, offVars, PasteType, HeldType
<1>9. CASE on_device_finished
  <2>1. source' = None /\ data' = NoData /\ held' = NoTransfers /\ own_live' = FALSE
        /\ paste' = Answer(Waiting, None) /\ serial' = serial
    BY <1>9 DEF on_device_finished, Forget
  <2>2. wire' \in Seq(Event)
    BY <1>9, EventRead DEF on_device_finished
  <2>3. sel' \in Selection \cup {None}
    BY <1>9 DEF on_device_finished, DTypes, TypeOK
  <2>4. QED
    BY <1>9, <2>1, <2>2, <2>3, TypesOfForget
       DEF on_device_finished, DTypes, TypeOK, Made, PasteType, HeldType
<1>10. QED
  BY <1>2, <1>3, <1>4, <1>5, <1>6, <1>7, <1>8, <1>9 DEF WorkerEvent

(* The commands the worker processes.                                    *)
LEMMA TypesOfCommands ==
  ASSUME DTypes, WorkerCommand
  PROVE  DTypes'
<1> DEFINE c == Head(cmds)
<1>1. ASSUME NEW k, Process(k)
      PROVE  /\ cmds' \in Seq(Order) /\ c \in Order /\ c.k = k
             /\ \A i \in DOMAIN cmds' : cmds'[i].k = "set" => cmds'[i].sel <= nSel
             /\ k = "set" => c.sel <= nSel
             /\ UNCHANGED <<offered, left, running, device, offVars, serial, conVars, told>>
  <2>1. cmds # <<>> /\ cmds' = Tail(cmds)
    BY <1>1 DEF Process
  <2>2. \A i \in 1..(Len(cmds) - 1) : i + 1 \in DOMAIN cmds /\ cmds'[i] = cmds[i + 1]
    BY <2>1, CommandTaken
  <2>3. 1 \in DOMAIN cmds /\ c = cmds[1] /\ DOMAIN cmds' = 1..(Len(cmds) - 1)
    BY <2>1, CommandTaken
  <2>4. QED
    BY <1>1, <2>1, <2>2, <2>3, CommandTaken DEF Process, DTypes, Made
<1>2. CASE set_selection
  <2>1. c.sel \in Own /\ sel' = c.sel /\ source' = c.sel /\ own_live' = TRUE /\ Process("set")
    BY <1>1, <1>2 DEF set_selection, Order
  <2>2. wire' \in Seq(Event)
    BY <1>2, <2>1, TypesSent DEF set_selection, Selection
  <2>3. data' \in [Wanted -> Own \cup {None}]
    BY <1>2, <2>1 DEF set_selection
  <2>4. held' = NoTransfers /\ paste' = Answer(Waiting, None)
    BY <1>2 DEF set_selection
  <2>5. source' <= nSel
    BY <1>1, <2>1
  <2>6. QED
    BY <1>1, <2>1, <2>2, <2>3, <2>4, <2>5, TypesOfForget
       DEF DTypes, TypeOK, Made, offVars, conVars, PasteType, HeldType, Selection
<1>3. CASE set_selection_fails
  BY <1>1, <1>3 DEF set_selection_fails, DTypes, TypeOK, Made, offVars, conVars
<1>4. CASE update_source_data
  <2>1. c.sel \in Own /\ c.m \in Wanted
    BY <1>1, <1>4 DEF update_source_data, Order
  <2>2. data' \in [Wanted -> Own \cup {None}]
    BY <1>4, <2>1 DEF update_source_data, DTypes, TypeOK
  <2>3. QED
    BY <1>1, <1>4, <2>2 DEF update_source_data, DTypes, TypeOK, Made, offVars, conVars
<1>5. CASE clear_selection
  <2>1. CASE UNCHANGED <<sel, wire, source, data, held, own_live, paste>>
    BY <1>1, <1>5, <2>1 DEF clear_selection, DTypes, TypeOK, Made, offVars, conVars
  <2>2. CASE /\ wire' \in Seq(Event) /\ sel' \in Selection \cup {None}
             /\ source' = None /\ data' = NoData /\ held' = NoTransfers /\ own_live' = FALSE
             /\ paste' = Answer(Waiting, None)
    <3>1. /\ cmds' \in Seq(Order)
          /\ \A i \in DOMAIN cmds' : cmds'[i].k = "set" => cmds'[i].sel <= nSel
          /\ UNCHANGED <<offered, left, running, device, offVars, serial, conVars, told>>
      BY <1>1, <1>5 DEF clear_selection
    <3>2. Made'
      BY <2>2, <3>1 DEF DTypes, Made, conVars
    <3>3. /\ data' \in [Wanted -> Own \cup {None}] /\ held' \in HeldType /\ paste' \in PasteType
      BY <2>2, TypesOfForget
    <3>4. QED
      BY <2>2, <3>1, <3>2, <3>3 DEF DTypes, TypeOK, offVars, conVars, PasteType, HeldType
  <2>3. ASSUME sel' = None, Deliver(None)
        PROVE  wire' \in Seq(Event)
    BY <2>3, TypesSent
  <2>4. QED
    BY <1>5, <2>1, <2>2, <2>3 DEF clear_selection, DTypes, TypeOK
<1>6. CASE complete_transfer
  <2>1. c.sel \in Own \cup {None} /\ Process("complete")
    BY <1>1, <1>6 DEF complete_transfer, Order
  <2>2. held' \in HeldType
    BY <1>6 DEF complete_transfer, DTypes, TypeOK, HeldType, NoTransfers
  <2>3. data' \in [Wanted -> Own \cup {None}]
    BY <1>6, <2>1 DEF complete_transfer, DTypes, TypeOK
  <2>4. paste' \in PasteType
    BY <1>6, <2>1, Answered DEF complete_transfer, DTypes, PasteType, Selection
  <2>5. /\ cmds' \in Seq(Order)
        /\ \A i \in DOMAIN cmds' : cmds'[i].k = "set" => cmds'[i].sel <= nSel
        /\ UNCHANGED <<offered, left, running, device, offVars, serial, conVars, told>>
    BY <1>1, <2>1
  <2>6. UNCHANGED <<sel, wire, source, own_live>>
    BY <1>6 DEF complete_transfer
  <2>7. Made'
    BY <2>5, <2>6 DEF DTypes, Made, conVars
  <2>8. QED
    BY <2>2, <2>3, <2>4, <2>5, <2>6, <2>7
       DEF DTypes, TypeOK, offVars, conVars, PasteType, HeldType
<1>7. CASE receive_from_offer
  <2>1. c.p \in Paste /\ c.m \in Wanted /\ Process("receive")
    BY <1>1, <1>7 DEF receive_from_offer, Order
  <2>2. wire' \in Seq(Event)
    <3>1. CASE wire' = wire
      BY <3>1 DEF DTypes
    <3>2. CASE sel \in Own /\ wire' = Append(wire, [k |-> "send", id |-> sel, m |-> c.m, p |-> c.p])
      BY <2>1, <3>2, SendFields, Sent DEF DTypes
    <3>3. QED
      BY <1>7, <3>1, <3>2 DEF receive_from_offer
  <2>3. paste' \in PasteType
    <3>1. CASE sel \in Selection /\ paste' = [paste EXCEPT ![c.p].sel = sel]
      <4>1. paste \in PasteType
        BY DEF DTypes, TypeOK, PasteType
      <4>2. QED
        BY <2>1, <3>1, <4>1 DEF PasteType
    <3>2. CASE sel \in Selection /\ paste' = [Answer({c.p}, sel) EXCEPT ![c.p].sel = sel]
      <4>1. Answer({c.p}, sel) \in PasteType
        BY <3>2, Answered DEF DTypes, PasteType
      <4>2. QED
        BY <2>1, <3>2, <4>1 DEF PasteType
    <3>3. CASE paste' = Answer({c.p}, None)
      BY <3>3, Answered DEF DTypes, PasteType
    <3>4. QED
      BY <1>7, <3>1, <3>2, <3>3 DEF receive_from_offer, Selection
  <2>4. QED
    BY <1>1, <1>7, <2>1, <2>2, <2>3
       DEF receive_from_offer, DTypes, TypeOK, Made, srcVars, offVars, conVars, PasteType
<1>8. QED
  BY <1>2, <1>3, <1>4, <1>5, <1>6, <1>7 DEF WorkerCommand

(* What the portal's step is to the client: one of the client's own, a   *)
(* read of the portal's, which is answered at once, or none.             *)
ReadAtOnce ==
  \E p \in Paste, m \in Wanted :
    /\ paste[p] = NoPaste
    /\ paste' = [paste EXCEPT ![p] = [st |-> "eof", sel |-> current, m |-> m, of |-> None]]
    /\ UNCHANGED <<compVars, wire, cmds, running, device, srcVars, offVars, conVars, told>>

(* Every step of the portal is one of these.                             *)
LEMMA ClientStep ==
  ASSUME [PortalNext]_allVars
  PROVE  Outside \/ Consumer \/ WorkerEvent \/ WorkerCommand \/ ReadAtOnce \/ UNCHANGED vars
<1>1. CASE Sessions
  <2>1. ASSUME NEW h \in Session, NEW p \in Paste, NEW m \in Wanted, SelectionRead(h, p, m)
        PROVE  ReadAtOnce
    BY <2>1 DEF SelectionRead, ReadAtOnce, Starts
  <2>2. ASSUME NEW h \in Session, NEW ts \in Offers, PortalSetSelection(h, ts)
        PROVE  Consumer
    BY <2>2 DEF PortalSetSelection, Consumer
  <2>3. ASSUME NEW h \in Session, RequestClipboard(h) \/ CloseSession(h)
        PROVE  UNCHANGED vars
    BY <2>3 DEF RequestClipboard, CloseSession
  <2>4. QED
    BY <1>1, <2>1, <2>2, <2>3 DEF Sessions
<1>2. CASE UNCHANGED allVars
  BY <1>2 DEF allVars
<1>3. CASE PortalNext /\ ~Sessions
  BY <1>3 DEF PortalNext, Direct, Worker, clipboard_signal_bridge
<1>4. QED
  BY <1>1, <1>2, <1>3

(* A stutter of the client, or a read the portal answers.                *)
LEMMA TypesUnchanged ==
  ASSUME DTypes, UNCHANGED vars \/ ReadAtOnce
  PROVE  DTypes'
<1>1. CASE UNCHANGED vars
  BY <1>1 DEF vars, compVars, srcVars, offVars, conVars, DTypes, TypeOK, Made
<1>2. CASE ReadAtOnce
  <2>1. PICK p \in Paste, m \in Wanted :
          paste' = [paste EXCEPT ![p] = [st |-> "eof", sel |-> current, m |-> m, of |-> None]]
    BY <1>2 DEF ReadAtOnce
  <2>2. paste \in PasteType /\ current \in Selection \cup {None}
    BY DEF DTypes, TypeOK, PasteType
  <2>3. paste' \in PasteType
    BY <2>1, <2>2 DEF PasteType
  <2>4. QED
    BY <1>2, <2>3
       DEF ReadAtOnce, compVars, srcVars, offVars, conVars, DTypes, TypeOK, Made, PasteType
<1>3. QED
  BY <1>1, <1>2

(* The client starts well typed.                                         *)
LEMMA TypesFirst ==
  ASSUME PortalInit
  PROVE  TInv
<1> USE DataControlAssumption
<1>1. left \in 0..MaxCopy
  BY DEF PortalInit, Init
<1>2. TypeOK
  <2>1. data \in [Wanted -> Own \cup {None}] /\ held \in HeldType /\ paste \in PasteType
    BY DEF PortalInit, Init, NoData, NoTransfers, NoPaste, HeldType, PasteType
  <2>2. nSel \in 0..MaxSel /\ serial \in Nat /\ asked = {}
    BY DEF PortalInit, Init
  <2>3. offered \in [Selection -> Offers \cup {<<>>}] /\ types = <<>>
    BY DEF PortalInit, Init
  <2>4. QED
    BY <1>1, <2>1, <2>2, <2>3 DEF PortalInit, Init, TypeOK, HeldType, PasteType
<1>3. wire \in Seq(Event) /\ cmds \in Seq(Order) /\ DOMAIN cmds = {}
  BY DEF PortalInit, Init
<1>4. DTypes
  BY <1>2, <1>3 DEF PortalInit, Init, DTypes, Made
<1>5. QED
  BY <1>4 DEF PortalInit, TInv, PortalTypeOK, DTypes

(* Every step keeps the types, of the client and of the portal.          *)
LEMMA TypesNext ==
  ASSUME TInv, [PortalNext]_allVars
  PROVE  TInv'
<1>1. DTypes /\ DTypes'
  BY ClientStep, TypesOfOutside, TypesOfConsumer, TypesOfEvents, TypesOfCommands, TypesUnchanged
     DEF TInv
<1> DEFINE K == Selection \cup {None}
<1>2. /\ portal \in BOOLEAN /\ enabled \subseteq Session /\ reads \subseteq Paste
      /\ signals \in Seq(K) /\ heard \in [Session -> K \cup {Unheard}]
  BY DEF TInv, PortalTypeOK
<1> DEFINE P == /\ portal' \in BOOLEAN /\ enabled' \subseteq Session /\ reads' \subseteq Paste
                /\ signals' \in Seq(K) /\ heard' \in [Session -> K \cup {Unheard}]
<1>3. ASSUME UNCHANGED portalVars PROVE P
  BY <1>2, <1>3 DEF portalVars
<1>4. ASSUME Sessions PROVE P
  BY <1>2, <1>4
     DEF Sessions, RequestClipboard, CloseSession, PortalSetSelection, SelectionRead, portalVars
<1>5. ASSUME Worker(WorkerEvent) \/ Worker(WorkerCommand) PROVE P
  <2>1. signals' \in {signals, Append(signals, told')} /\ UNCHANGED <<portal, enabled, heard, reads>>
    BY <1>5 DEF Worker
  <2>2. told' \in K
    BY <1>1 DEF DTypes, TypeOK
  <2>3. signals' \in Seq(K)
    BY <1>2, <2>1, <2>2, Sent
  <2>4. QED
    BY <1>2, <2>1, <2>3
<1>6. ASSUME clipboard_signal_bridge PROVE P
  <2>1. Head(signals) \in K /\ signals' \in Seq(K)
    BY <1>2, <1>6, Received DEF clipboard_signal_bridge
  <2>2. QED
    BY <1>2, <1>6, <2>1 DEF clipboard_signal_bridge
<1>7. P
  <2>1. \/ UNCHANGED portalVars \/ Sessions \/ Worker(WorkerEvent) \/ Worker(WorkerCommand)
        \/ clipboard_signal_bridge
    BY DEF PortalNext, Direct, allVars
  <2>2. QED
    BY <2>1, <1>3, <1>4, <1>5, <1>6
<1>8. QED
  BY <1>1, <1>7 DEF TInv, PortalTypeOK, DTypes

(* Every variable of the client and of the portal keeps its type         *)
(* (PortalTypeOK), whatever the others do.                               *)
THEOREM ClipboardTypes == PortalSpec => []PortalTypeOK
<1>1. PortalInit => TInv
  BY TypesFirst
<1>2. TInv /\ [PortalNext]_allVars => TInv'
  BY TypesNext
<1>3. TInv => PortalTypeOK
  BY DEF TInv
<1>4. QED
  BY <1>1, <1>2, <1>3, PTL DEF PortalSpec

-----------------------------------------------------------------------------
(* Events that are no sends bring no paste.                              *)
LEMMA PastesNotSent ==
  ASSUME DTypes, OnceInWire, NEW evs \in Seq(Event), wire' = wire \o evs,
         \A i \in 1..Len(evs) : evs[i].p = None /\ evs[i].k # "send"
  PROVE  /\ \A p \in Paste : InWire(p)' <=> InWire(p)
         /\ \A i \in DOMAIN wire' : wire'[i].k = "send" => \E j \in DOMAIN wire : wire[j] = wire'[i]
         /\ OnceInWire'
<1>1. /\ Len(wire) \in Nat /\ DOMAIN wire = 1..Len(wire)
      /\ Len(evs) \in Nat /\ DOMAIN wire' = 1..(Len(wire) + Len(evs))
      /\ \A i \in 1..Len(wire) : wire'[i] = wire[i]
      /\ \A i \in 1..Len(evs) : wire'[Len(wire) + i] = evs[i]
  BY SentTogether DEF DTypes
<1>2. ASSUME NEW i \in DOMAIN wire', i \notin DOMAIN wire
      PROVE  wire'[i].p = None /\ wire'[i].k # "send"
  <2>1. i - Len(wire) \in 1..Len(evs) /\ i = Len(wire) + (i - Len(wire))
    BY <1>1, <1>2
  <2>2. QED
    BY <1>1, <2>1
<1>3. DOMAIN wire \subseteq DOMAIN wire' /\ \A i \in DOMAIN wire : wire'[i] = wire[i]
  BY <1>1
<1>4. None \notin Paste
  BY DataControlAssumption DEF Paste
<1>5. QED
  BY <1>2, <1>3, <1>4 DEF InWire, OnceInWire

(* A send brings its own.                                                *)
LEMMA PasteSent ==
  ASSUME DTypes, OnceInWire, NEW e \in Event, wire' = Append(wire, e), ~InWire(e.p)
  PROVE  /\ \A p \in Paste : InWire(p)' <=> InWire(p) \/ p = e.p
         /\ \A i \in DOMAIN wire' : wire'[i] = e \/ \E j \in DOMAIN wire : wire[j] = wire'[i]
         /\ OnceInWire'
<1>1. /\ Len(wire) \in Nat /\ DOMAIN wire = 1..Len(wire)
      /\ DOMAIN wire' = 1..(Len(wire) + 1)
      /\ \A i \in 1..Len(wire) : wire'[i] = wire[i]
      /\ wire'[Len(wire) + 1] = e
  BY Sent DEF DTypes
<1>2. \A i \in DOMAIN wire' : i \in DOMAIN wire \/ i = Len(wire) + 1
  BY <1>1
<1>3. QED
  BY <1>1, <1>2 DEF InWire, OnceInWire

(* An event that is read takes its paste with it.                        *)
LEMMA PasteRead ==
  ASSUME DTypes, OnceInWire, wire # <<>>, wire' = Tail(wire)
  PROVE  /\ \A p \in Paste : InWire(p)' <=> InWire(p) /\ p # Head(wire).p
         /\ \A i \in DOMAIN wire' : \E j \in DOMAIN wire : wire[j] = wire'[i]
         /\ OnceInWire'
         /\ 1 \in DOMAIN wire /\ Head(wire) = wire[1]
<1>1. /\ Len(wire) \in Nat /\ DOMAIN wire = 1..Len(wire) /\ 1 \in DOMAIN wire
      /\ Head(wire) = wire[1] /\ DOMAIN wire' = 1..(Len(wire) - 1)
      /\ \A i \in DOMAIN wire' : i + 1 \in DOMAIN wire /\ wire'[i] = wire[i + 1] /\ i + 1 # 1
  BY EventRead
<1>2. \A i \in DOMAIN wire : i = 1 \/ (i - 1 \in DOMAIN wire' /\ wire'[i - 1] = wire[i])
  BY <1>1
<1>3. None \notin Paste
  BY DataControlAssumption DEF Paste
<1>4. \A i, j \in DOMAIN wire' : i + 1 = j + 1 => i = j
  BY <1>1
<1>5. OnceInWire'
  BY <1>1, <1>4 DEF OnceInWire
<1>6. ASSUME NEW p \in Paste, InWire(p)'
      PROVE  InWire(p) /\ p # Head(wire).p
  <2>1. PICK i \in DOMAIN wire' : wire'[i].p = p
    BY <1>6 DEF InWire
  <2>2. QED
    BY <1>1, <1>3, <2>1 DEF InWire, OnceInWire
<1>7. ASSUME NEW p \in Paste, InWire(p), p # Head(wire).p
      PROVE  InWire(p)'
  <2>1. PICK i \in DOMAIN wire : wire[i].p = p
    BY <1>7 DEF InWire
  <2>2. i # 1
    BY <1>1, <1>7, <2>1
  <2>3. QED
    BY <1>2, <2>1, <2>2 DEF InWire
<1>8. QED
  BY <1>1, <1>5, <1>6, <1>7

(* The same of commands.                                                 *)
LEMMA PasteCommanded ==
  ASSUME DTypes, OnceInCmds, NEW c \in Order, cmds' = Append(cmds, c), c.p = None \/ ~InCmds(c.p)
  PROVE  /\ \A p \in Paste : InCmds(p)' <=> InCmds(p) \/ p = c.p
         /\ \A i \in DOMAIN cmds' : cmds'[i] = c \/ \E j \in DOMAIN cmds : cmds[j] = cmds'[i]
         /\ OnceInCmds'
         /\ \E i \in DOMAIN cmds' : cmds'[i] = c
         /\ \A i \in DOMAIN cmds : i \in DOMAIN cmds' /\ cmds'[i] = cmds[i]
<1>1. /\ Len(cmds) \in Nat /\ DOMAIN cmds = 1..Len(cmds)
      /\ DOMAIN cmds' = 1..(Len(cmds) + 1)
      /\ \A i \in 1..Len(cmds) : cmds'[i] = cmds[i]
      /\ cmds'[Len(cmds) + 1] = c
  BY Sent DEF DTypes
<1>2. /\ \A i \in DOMAIN cmds' : i \in DOMAIN cmds \/ i = Len(cmds) + 1
      /\ Len(cmds) + 1 \in DOMAIN cmds' /\ DOMAIN cmds \subseteq DOMAIN cmds'
  BY <1>1
<1>3. None \notin Paste
  BY DataControlAssumption DEF Paste
<1>4. QED
  BY <1>1, <1>2, <1>3 DEF InCmds, OnceInCmds

(* A command that is processed takes its paste with it.                  *)
LEMMA PasteTaken ==
  ASSUME DTypes, OnceInCmds, cmds # <<>>, cmds' = Tail(cmds)
  PROVE  /\ \A p \in Paste : InCmds(p)' <=> InCmds(p) /\ p # Head(cmds).p
         /\ \A i \in DOMAIN cmds' : \E j \in DOMAIN cmds : cmds[j] = cmds'[i]
         /\ OnceInCmds'
         /\ \A i \in DOMAIN cmds : cmds[i] = Head(cmds) \/ \E j \in DOMAIN cmds' : cmds'[j] = cmds[i]
         /\ 1 \in DOMAIN cmds /\ Head(cmds) = cmds[1]
<1>1. /\ Len(cmds) \in Nat /\ DOMAIN cmds = 1..Len(cmds) /\ 1 \in DOMAIN cmds
      /\ Head(cmds) = cmds[1] /\ DOMAIN cmds' = 1..(Len(cmds) - 1)
      /\ \A i \in DOMAIN cmds' : i + 1 \in DOMAIN cmds /\ cmds'[i] = cmds[i + 1] /\ i + 1 # 1
  BY CommandTaken
<1>2. \A i \in DOMAIN cmds : i = 1 \/ (i - 1 \in DOMAIN cmds' /\ cmds'[i - 1] = cmds[i])
  BY <1>1
<1>3. None \notin Paste
  BY DataControlAssumption DEF Paste
<1>4. \A i, j \in DOMAIN cmds' : i + 1 = j + 1 => i = j
  BY <1>1
<1>5. OnceInCmds'
  BY <1>1, <1>4 DEF OnceInCmds
<1>6. ASSUME NEW p \in Paste, InCmds(p)'
      PROVE  InCmds(p) /\ p # Head(cmds).p
  <2>1. PICK i \in DOMAIN cmds' : cmds'[i].p = p
    BY <1>6 DEF InCmds
  <2>2. QED
    BY <1>1, <1>3, <2>1 DEF InCmds, OnceInCmds
<1>7. ASSUME NEW p \in Paste, InCmds(p), p # Head(cmds).p
      PROVE  InCmds(p)'
  <2>1. PICK i \in DOMAIN cmds : cmds[i].p = p
    BY <1>7 DEF InCmds
  <2>2. i # 1
    BY <1>1, <1>7, <2>1
  <2>3. QED
    BY <1>2, <2>1, <2>2 DEF InCmds
<1>8. QED
  BY <1>1, <1>2, <1>5, <1>6, <1>7

(* A paste that is not sent is in no queue.                              *)
LEMMA QueuedIsSent ==
  ASSUME DTypes, PInv, NEW p \in Paste, InWire(p) \/ InCmds(p)
  PROVE  paste[p].st = "sent" /\ p \notin Waiting
<1>1. \A i \in DOMAIN wire : wire[i].p # None => wire[i].k = "send"
  BY ElementOfSeq, LenProperties DEF DTypes, Event
<1>2. \A i \in DOMAIN cmds : cmds[i].p # None => cmds[i].k = "receive"
  BY ElementOfSeq, LenProperties DEF DTypes, Order
<1>3. p # None
  BY DataControlAssumption DEF Paste
<1>4. paste[p].st = "sent"
  BY <1>1, <1>2, <1>3 DEF InWire, InCmds, PInv, WirePastes, CmdPastes
<1>5. QED
  BY <1>4 DEF Waiting, PInv, HeldPastes

(* Pastes that stay in their queue, and as they are there, are in order. *)
LEMMA QueuesKept ==
  ASSUME DTypes, DTypes', PInv, OnceInWire', OnceInCmds',
         \A p \in Paste : InWire(p)' => InWire(p) /\ paste'[p] = paste[p],
         \A p \in Paste : InCmds(p)' => InCmds(p) /\ paste'[p] = paste[p],
         \A i \in DOMAIN wire' : wire'[i].k = "send" => \E j \in DOMAIN wire : wire[j] = wire'[i],
         \A i \in DOMAIN cmds' : cmds'[i].k = "receive" => \E j \in DOMAIN cmds : cmds[j] = cmds'[i]
  PROVE  WirePastes' /\ CmdPastes' /\ Once'
<1>1. \A i \in DOMAIN wire : wire[i].k = "send" => wire[i].p \in Paste
  BY ElementOfSeq, LenProperties DEF DTypes, Event
<1>2. \A i \in DOMAIN cmds : cmds[i].k = "receive" => cmds[i].p \in Paste
  BY ElementOfSeq, LenProperties DEF DTypes, Order
<1>3. ASSUME NEW i \in DOMAIN wire', wire'[i].k = "send"
      PROVE  /\ paste'[wire'[i].p].st = "sent" /\ paste'[wire'[i].p].sel = wire'[i].id
             /\ paste'[wire'[i].p].m = wire'[i].m
  <2>1. PICK j \in DOMAIN wire : wire[j] = wire'[i]
    BY <1>3
  <2>2. wire'[i].p \in Paste /\ InWire(wire[j].p)
    BY <1>1, <1>3, <2>1 DEF InWire
  <2>3. PICK p \in Paste : p = wire'[i].p
    BY <2>2
  <2>4. InWire(p)'
    BY <1>3, <2>3 DEF InWire
  <2>5. paste'[p] = paste[p]
    BY <2>4
  <2>6. QED
    BY <1>3, <2>1, <2>3, <2>5 DEF PInv, WirePastes
<1>4. ASSUME NEW i \in DOMAIN cmds', cmds'[i].k = "receive"
      PROVE  paste'[cmds'[i].p].st = "sent" /\ paste'[cmds'[i].p].m = cmds'[i].m
  <2>1. PICK j \in DOMAIN cmds : cmds[j] = cmds'[i]
    BY <1>4
  <2>2. cmds'[i].p \in Paste
    BY <1>2, <1>4, <2>1
  <2>3. PICK p \in Paste : p = cmds'[i].p
    BY <2>2
  <2>4. InCmds(p)'
    BY <1>4, <2>3 DEF InCmds
  <2>5. paste'[p] = paste[p]
    BY <2>4
  <2>6. QED
    BY <1>4, <2>1, <2>3, <2>5 DEF PInv, CmdPastes
<1>5. Once'
  BY DEF PInv, Once
<1>6. QED
  BY <1>3, <1>4, <1>5 DEF WirePastes, CmdPastes

(* Pastes that stay held are in order.                                   *)
LEMMA HeldKept ==
  ASSUME DTypes, PInv, UNCHANGED <<source, held>>,
         \A p \in Paste : paste[p].st = "held" => paste'[p] = paste[p],
         \A p \in Paste : paste'[p].st = "held" => paste[p].st = "held",
         \A p \in Paste : paste'[p].st = "sent" => InWire(p)' \/ InCmds(p)',
         \A m \in Wanted : Held(m) => Requested(m)'
  PROVE  HeldPastes' /\ SentOrHeld'
<1>1. \A m \in Wanted : held[m].waiters \subseteq Paste
  BY DEF DTypes, TypeOK
<1>2. HeldPastes'
  BY <1>1 DEF PInv, HeldPastes, Held
<1>3. SentOrHeld'
  BY DEF PInv, SentOrHeld, Held, Waiting
<1>4. QED
  BY <1>2, <1>3

(* When a source is forgotten, so are the pastes held for it.            *)
LEMMA HeldForgotten ==
  ASSUME DTypes, PInv, held' = NoTransfers, paste' = Answer(Waiting, None),
         \A p \in Paste : paste[p].st = "sent" => InWire(p)' \/ InCmds(p)'
  PROVE  /\ HeldPastes' /\ SentOrHeld'
         /\ \A p \in Paste : InWire(p) \/ InCmds(p) => paste'[p] = paste[p]
<1>1. \A m \in Wanted : held'[m].waiters = {}
  BY DEF NoTransfers
<1>2. \A p \in Paste : paste'[p] = paste[p] \/ paste'[p].st = "eof"
  BY Answered DEF DTypes
<1>3. \A p \in Paste : paste'[p].st # "held"
  <2>1. \A p \in Paste : paste[p].st = "held" => p \in Waiting
    BY DEF PInv, SentOrHeld
  <2>2. QED
    BY <2>1, Answered DEF DTypes
<1>4. HeldPastes'
  BY <1>1 DEF HeldPastes, Held
<1>5. SentOrHeld'
  <2>1. \A p \in Paste : paste'[p].st = "sent" => paste[p].st = "sent"
    BY <1>2
  <2>2. \A p \in Paste : paste'[p].st = "sent" => InWire(p)' \/ InCmds(p)'
    BY <2>1
  <2>3. QED
    BY <1>1, <1>3, <2>2 DEF SentOrHeld, Held
<1>6. ASSUME NEW p \in Paste, InWire(p) \/ InCmds(p)
      PROVE  paste'[p] = paste[p]
  <2>1. p \notin Waiting
    BY <1>6, QueuedIsSent
  <2>2. QED
    BY <2>1, Answered DEF DTypes
<1>7. QED
  BY <1>4, <1>5, <1>6

(* Steps that move no paste: what is sent, read or commanded has none.   *)
NoPasteMoves ==
  /\ \A p \in Paste : (InWire(p)' <=> InWire(p)) /\ (InCmds(p)' <=> InCmds(p))
  /\ \A i \in DOMAIN wire' : wire'[i].k = "send" => \E j \in DOMAIN wire : wire[j] = wire'[i]
  /\ \A i \in DOMAIN cmds' : cmds'[i].k = "receive" => \E j \in DOMAIN cmds : cmds[j] = cmds'[i]
  /\ OnceInWire' /\ OnceInCmds'

(* A step that moves no paste keeps them in order,                       *)
LEMMA NothingMoves ==
  ASSUME DTypes, DTypes', PInv, NoPasteMoves, UNCHANGED <<source, held, paste>>,
         \A m \in Wanted : Held(m) => Requested(m)'
  PROVE  PInv'
<1>1. \A p \in Paste : paste[p].st = "sent" => InWire(p) \/ InCmds(p)
  BY DEF PInv, SentOrHeld
<1>2. \A p \in Paste : paste'[p].st = "sent" => InWire(p)' \/ InCmds(p)'
  BY <1>1 DEF NoPasteMoves
<1>3. WirePastes' /\ CmdPastes' /\ Once'
  BY QueuesKept DEF NoPasteMoves
<1>4. HeldPastes' /\ SentOrHeld'
  BY <1>2, HeldKept
<1>5. QED
  BY <1>3, <1>4 DEF PInv

(* and so does one that forgets the source besides.                      *)
LEMMA NothingMovesForgotten ==
  ASSUME DTypes, DTypes', PInv, NoPasteMoves,
         held' = NoTransfers, paste' = Answer(Waiting, None)
  PROVE  PInv'
<1>1. \A p \in Paste : paste[p].st = "sent" => InWire(p) \/ InCmds(p)
  BY DEF PInv, SentOrHeld
<1>2. \A p \in Paste : paste[p].st = "sent" => InWire(p)' \/ InCmds(p)'
  BY <1>1 DEF NoPasteMoves
<1>3. /\ HeldPastes' /\ SentOrHeld'
      /\ \A p \in Paste : InWire(p) \/ InCmds(p) => paste'[p] = paste[p]
  BY <1>2, HeldForgotten
<1>4. WirePastes' /\ CmdPastes' /\ Once'
  BY <1>3, QueuesKept DEF NoPasteMoves
<1>5. QED
  BY <1>3, <1>4 DEF PInv

(* A queue that is left alone moves none.                                *)
LEMMA QueuesUnchanged ==
  ASSUME PInv
  PROVE  /\ UNCHANGED wire =>
              /\ \A p \in Paste : InWire(p)' <=> InWire(p)
              /\ \A i \in DOMAIN wire' : wire'[i].k = "send" => \E j \in DOMAIN wire : wire[j] = wire'[i]
              /\ OnceInWire'
         /\ UNCHANGED cmds =>
              /\ \A p \in Paste : InCmds(p)' <=> InCmds(p)
              /\ \A i \in DOMAIN cmds' : cmds'[i].k = "receive" => \E j \in DOMAIN cmds : cmds[j] = cmds'[i]
              /\ OnceInCmds'
BY DEF PInv, Once, OnceInWire, OnceInCmds, InWire, InCmds

(* The compositor's events bring no paste, and no request is lost when the *)
(* queue of commands is left alone.                                      *)
LEMMA ChangeMovesNone ==
  ASSUME DTypes, PInv, NEW new \in Selection \cup {None}, Deliver(new)
  PROVE  /\ \A p \in Paste : InWire(p)' <=> InWire(p)
         /\ \A i \in DOMAIN wire' : wire'[i].k = "send" => \E j \in DOMAIN wire : wire[j] = wire'[i]
         /\ OnceInWire'
<1>1. PICK evs \in ChangeEvents(new) : wire' = wire \o evs
  BY DEF Deliver
<1>2. sel \in Selection \cup {None}
  BY DEF DTypes, TypeOK
<1>3. /\ evs \in Seq(Event)
      /\ \A i \in 1..Len(evs) : evs[i].k \in ReportKinds \cup {"cancelled", "offer"} /\ evs[i].p = None
  BY <1>2, ChangeReported
<1>4. \A i \in 1..Len(evs) : evs[i].k # "send"
  BY <1>3 DEF ReportKinds
<1>5. QED
  BY <1>1, <1>3, <1>4, PastesNotSent DEF PInv, Once

(* A request the consumer or the queue has is kept while they keep it.   *)
LEMMA RequestsKept ==
  ASSUME PInv, UNCHANGED held, asked \subseteq asked',
         \A i \in DOMAIN cmds : cmds[i].k = "complete" => \E j \in DOMAIN cmds' : cmds'[j] = cmds[i]
  PROVE  \A m \in Wanted : Held(m) => Requested(m)'
BY DEF PInv, SentOrHeld, Requested

(* Other clients, the compositor and the loss of the connection lose no  *)
(* paste.                                                                *)
LEMMA PastesOfOutside ==
  ASSUME DTypes, DTypes', PInv, Outside
  PROVE  PInv'
<1>1. ASSUME UNCHANGED <<cmds, source, held, asked, paste>>,
             \A p \in Paste : InWire(p)' <=> InWire(p),
             \A i \in DOMAIN wire' : wire'[i].k = "send" => \E j \in DOMAIN wire : wire[j] = wire'[i],
             OnceInWire'
      PROVE  PInv'
  <2>1. NoPasteMoves
    BY <1>1, QueuesUnchanged DEF NoPasteMoves
  <2>2. \A m \in Wanted : Held(m) => Requested(m)'
    BY <1>1, RequestsKept
  <2>3. QED
    BY <1>1, <2>1, <2>2, NothingMoves
<1>2. ASSUME NEW f \in Foreign, NEW ts \in Offers, Copy(f, ts)
      PROVE  PInv'
  BY <1>1, <1>2, ChangeMovesNone DEF Copy, srcVars, conVars, Selection
<1>3. ASSUME NEW f \in Foreign, NEW ts \in Offers, PrimaryCopy(f, ts)
      PROVE  PInv'
  <2> DEFINE o == Ev("offer", f)
             q == Ev("primary", f)
  <2>1. /\ o \in Event /\ q \in Event /\ wire' = wire \o <<o, q>>
        /\ o.p = None /\ q.p = None /\ o.k = "offer" /\ q.k = "primary"
    BY <1>3, EventFields DEF PrimaryCopy, Selection
  <2> HIDE DEF o, q
  <2>2. /\ <<o, q>> \in Seq(Event)
        /\ \A i \in 1..Len(<<o, q>>) : <<o, q>>[i].p = None /\ <<o, q>>[i].k # "send"
    BY <2>1
  <2>3. QED
    BY <1>1, <1>3, <2>1, <2>2, PastesNotSent DEF PrimaryCopy, srcVars, conVars, PInv, Once
<1>4. CASE FinishDevice
  <2> DEFINE e == Ev("finished", None)
  <2>1. e \in Event /\ wire = <<>> /\ wire' = <<e>> /\ e.p = None /\ e.k = "finished"
    BY <1>4, EventFields DEF FinishDevice
  <2> HIDE DEF e
  <2>2. \A p \in Paste : InWire(p)' <=> InWire(p)
    BY <2>1, DataControlAssumption DEF InWire, Paste
  <2>3. OnceInWire' /\ \A i \in DOMAIN wire' : wire'[i].k # "send"
    BY <2>1 DEF OnceInWire
  <2>4. QED
    BY <1>1, <1>4, <2>2, <2>3 DEF FinishDevice, srcVars, conVars
<1>5. ASSUME NEW p \in Paste, NEW m \in Wanted, PasteOwn(p, m)
      PROVE  PInv'
  <2> DEFINE e == [k |-> "send", id |-> sel, m |-> m, p |-> p]
  <2>1. /\ e \in Event /\ wire' = Append(wire, e) /\ e.p = p /\ paste[p].st = "idle" /\ e.k = "send"
        /\ e.id = sel /\ e.m = m
        /\ paste' = [paste EXCEPT ![p] = [st |-> "sent", sel |-> sel, m |-> m, of |-> None]]
        /\ UNCHANGED <<cmds, source, held, asked>>
    BY <1>5, SendFields DEF PasteOwn, Starts, NoPaste, srcVars, conVars
  <2> HIDE DEF e
  <2>2. ~InWire(p) /\ ~InCmds(p) /\ p \notin Waiting
    <3>1. ~InWire(p) /\ ~InCmds(p)
      BY <2>1, QueuedIsSent
    <3>2. p \notin Waiting
      BY <2>1 DEF Waiting, PInv, HeldPastes
    <3>3. QED
      BY <3>1, <3>2
  <2>3. /\ \A q \in Paste : InWire(q)' <=> InWire(q) \/ q = p
        /\ \A i \in DOMAIN wire' : wire'[i] = e \/ \E j \in DOMAIN wire : wire[j] = wire'[i]
        /\ OnceInWire'
    BY <2>1, <2>2, PasteSent DEF PInv, Once
  <2>4. \A q \in Paste : q # p => paste'[q] = paste[q]
    BY <2>1 DEF DTypes, TypeOK
  <2>5. paste'[p].st = "sent" /\ paste'[p].sel = sel /\ paste'[p].m = m
    BY <2>1 DEF DTypes, TypeOK
  <2>6. WirePastes'
    <3>1. \A i \in DOMAIN wire : wire[i].k = "send" => wire[i].p \in Paste
      BY ElementOfSeq, LenProperties DEF DTypes, Event
    <3>2. ASSUME NEW i \in DOMAIN wire', wire'[i].k = "send"
          PROVE  /\ paste'[wire'[i].p].st = "sent" /\ paste'[wire'[i].p].sel = wire'[i].id
                 /\ paste'[wire'[i].p].m = wire'[i].m
      <4>1. CASE wire'[i] = e
        BY <2>1, <2>5, <4>1
      <4>2. ASSUME NEW j \in DOMAIN wire, wire[j] = wire'[i]
            PROVE  /\ paste'[wire'[i].p].st = "sent" /\ paste'[wire'[i].p].sel = wire'[i].id
                   /\ paste'[wire'[i].p].m = wire'[i].m
        <5>1. wire[j].p \in Paste /\ wire[j].p # p
          BY <2>2, <3>1, <3>2, <4>2 DEF InWire
        <5>2. QED
          BY <2>4, <3>2, <4>2, <5>1 DEF PInv, WirePastes
      <4>3. QED
        BY <2>3, <4>1, <4>2
    <3>3. QED
      BY <3>2 DEF WirePastes
  <2>7. CmdPastes'
    <3>1. \A i \in DOMAIN cmds : cmds[i].k = "receive" => cmds[i].p \in Paste /\ cmds[i].p # p
      <4>1. \A i \in DOMAIN cmds : cmds[i].k = "receive" => cmds[i].p \in Paste
        BY ElementOfSeq, LenProperties DEF DTypes, Order
      <4>2. QED
        BY <2>2, <4>1 DEF InCmds
    <3>2. QED
      BY <2>1, <2>4, <3>1 DEF PInv, CmdPastes
  <2>8. Once'
    BY <2>1, <2>2, <2>3, QueuesUnchanged DEF PInv, Once
  <2>9. HeldPastes' /\ SentOrHeld'
    <3>1. \A q \in Paste : paste'[q].st = "sent" => InWire(q)' \/ InCmds(q)'
      <4>1. \A q \in Paste : InCmds(q)' <=> InCmds(q)
        BY <2>1, QueuesUnchanged
      <4>2. QED
        BY <2>3, <2>4, <4>1 DEF PInv, SentOrHeld
    <3>2. \A n \in Wanted : Held(n) => Requested(n)'
      BY <2>1, RequestsKept
    <3>3. QED
      BY <2>1, <2>4, <2>5, <3>1, <3>2, HeldKept
  <2>10. QED
    BY <2>6, <2>7, <2>8, <2>9 DEF PInv
<1>6. CASE Stop
  <2>1. wire' = <<>> /\ cmds' = <<>> /\ held' = NoTransfers
        /\ paste' = Answer({p \in Paste : paste[p].st \in {"sent", "held"}}, None)
    BY <1>6 DEF Stop
  <2>2. \A p \in Paste : paste'[p].st # "sent" /\ paste'[p].st # "held"
    BY <2>1, Answered DEF DTypes
  <2>3. \A m \in Wanted : held'[m].waiters = {}
    BY <2>1 DEF NoTransfers
  <2>4. QED
    BY <2>1, <2>2, <2>3
       DEF PInv, WirePastes, CmdPastes, Once, OnceInWire, OnceInCmds, InWire, InCmds,
           HeldPastes, SentOrHeld, Held
<1>7. QED
  BY <1>2, <1>3, <1>4, <1>5, <1>6 DEF Outside

(* No call of the handle loses a paste.                                  *)
LEMMA PastesOfConsumer ==
  ASSUME DTypes, DTypes', PInv, Consumer
  PROVE  PInv'
<1>1. ASSUME NEW c \in Order, cmds' = Append(cmds, c), c.p = None, c.k # "receive",
             UNCHANGED <<wire, source, held, paste>>,
             \A m \in Wanted : Held(m) /\ [serial |-> held[m].serial, m |-> m] \in asked =>
               \/ [serial |-> held[m].serial, m |-> m] \in asked'
               \/ c.k = "complete" /\ c.serial = held[m].serial
      PROVE  PInv'
  <2>1. /\ \A p \in Paste : InCmds(p)' <=> InCmds(p) \/ p = c.p
        /\ \A i \in DOMAIN cmds' : cmds'[i] = c \/ \E j \in DOMAIN cmds : cmds[j] = cmds'[i]
        /\ OnceInCmds'
        /\ \E i \in DOMAIN cmds' : cmds'[i] = c
        /\ \A i \in DOMAIN cmds : i \in DOMAIN cmds' /\ cmds'[i] = cmds[i]
    BY <1>1, PasteCommanded DEF PInv, Once
  <2>2. NoPasteMoves
    <3>1. None \notin Paste
      BY DataControlAssumption DEF Paste
    <3>2. QED
      BY <1>1, <2>1, <3>1, QueuesUnchanged DEF NoPasteMoves
  <2>3. \A m \in Wanted : Held(m) => Requested(m)'
    BY <1>1, <2>1 DEF PInv, SentOrHeld, Requested
  <2>4. QED
    BY <1>1, <2>2, <2>3, NothingMoves
<1>2. ASSUME NEW ts \in Offers, NEW full \in BOOLEAN, SetSelection(ts, full)
      PROVE  PInv'
  <2> DEFINE c == [NoCommand EXCEPT !.k = "set", !.sel = nSel + 1, !.full = full]
  <2>1. nSel + 1 \in Own
    BY <1>2, DataControlAssumption DEF SetSelection, DTypes, TypeOK, Own
  <2>2. c \in Order /\ c.p = None /\ c.k = "set"
    BY <2>1 DEF Order, NoCommand
  <2>3. cmds' = Append(cmds, c)
    BY <1>2 DEF SetSelection, Command
  <2> HIDE DEF c
  <2>4. QED
    BY <1>1, <1>2, <2>2, <2>3 DEF SetSelection, srcVars
<1>3. ASSUME NEW m \in Wanted, NEW s \in Own, UpdateData(m, s)
      PROVE  PInv'
  <2> DEFINE c == [NoCommand EXCEPT !.k = "update", !.sel = s, !.m = m]
  <2>1. c \in Order /\ c.p = None /\ c.k = "update"
    BY DEF Order, NoCommand
  <2>2. cmds' = Append(cmds, c)
    BY <1>3 DEF UpdateData, Command
  <2> HIDE DEF c
  <2>3. QED
    BY <1>1, <1>3, <2>1, <2>2 DEF UpdateData, srcVars, conVars
<1>4. CASE ClearSelection
  <2> DEFINE c == [NoCommand EXCEPT !.k = "clear"]
  <2>1. c \in Order /\ c.p = None /\ c.k = "clear"
    BY DEF Order, NoCommand
  <2>2. cmds' = Append(cmds, c)
    BY <1>4 DEF ClearSelection, Command
  <2> HIDE DEF c
  <2>3. QED
    BY <1>1, <1>4, <2>1, <2>2 DEF ClearSelection, srcVars, conVars
<1>5. ASSUME NEW r \in asked, NEW ok \in BOOLEAN, CompleteTransfer(r, ok)
      PROVE  PInv'
  <2> DEFINE c == [NoCommand EXCEPT !.k = "complete", !.serial = r.serial,
                                    !.sel = IF ok THEN nSel ELSE None]
  <2>1. nSel \in Own /\ r.serial \in Nat
    <3>1. nSel \in 0..MaxSel /\ nSel >= 1 /\ MaxSel \in Nat
      BY DataControlAssumption DEF DTypes, TypeOK, Made
    <3>2. r \in [serial : Nat, m : Wanted]
      BY DEF DTypes, TypeOK
    <3>3. QED
      BY <3>1, <3>2 DEF Own
  <2>2. c \in Order /\ c.p = None /\ c.k = "complete" /\ c.serial = r.serial
    BY <2>1 DEF Order, NoCommand
  <2>3. cmds' = Append(cmds, c)
    BY <1>5 DEF CompleteTransfer, Command
  <2> HIDE DEF c
  <2>4. asked' = asked \ {r} /\ UNCHANGED <<wire, source, held, paste>>
    BY <1>5 DEF CompleteTransfer, srcVars
  <2>5. QED
    BY <1>1, <2>2, <2>3, <2>4
<1>6. ASSUME NEW p \in Paste, NEW n \in Wanted, Read(p, n)
      PROVE  PInv'
  <2>1. PICK m \in Wanted :
          /\ paste' = [paste EXCEPT ![p] = [st |-> "sent", sel |-> None, m |-> m, of |-> None]]
          /\ Command([NoCommand EXCEPT !.k = "receive", !.m = m, !.p = p])
    BY <1>6 DEF Read
  <2> DEFINE c == [NoCommand EXCEPT !.k = "receive", !.m = m, !.p = p]
  <2>2. c \in Order /\ c.p = p /\ c.k = "receive" /\ c.m = m
    BY DEF Order, NoCommand
  <2>3. cmds' = Append(cmds, c)
    BY <2>1 DEF Command
  <2> HIDE DEF c
  <2>4. UNCHANGED <<wire, source, held, asked>> /\ paste[p].st = "idle"
    BY <1>6 DEF Read, Starts, NoPaste, srcVars, conVars
  <2>5. ~InWire(p) /\ ~InCmds(p) /\ p \notin Waiting
    <3>1. ~InWire(p) /\ ~InCmds(p)
      BY <2>4, QueuedIsSent
    <3>2. p \notin Waiting
      BY <2>4 DEF Waiting, PInv, HeldPastes
    <3>3. QED
      BY <3>1, <3>2
  <2>6. /\ \A q \in Paste : InCmds(q)' <=> InCmds(q) \/ q = p
        /\ \A i \in DOMAIN cmds' : cmds'[i] = c \/ \E j \in DOMAIN cmds : cmds[j] = cmds'[i]
        /\ OnceInCmds'
        /\ \A i \in DOMAIN cmds : i \in DOMAIN cmds' /\ cmds'[i] = cmds[i]
    BY <2>2, <2>3, <2>5, PasteCommanded DEF PInv, Once
  <2>7. \A q \in Paste : q # p => paste'[q] = paste[q]
    BY <2>1 DEF DTypes, TypeOK
  <2>8. paste'[p].st = "sent" /\ paste'[p].m = m
    BY <2>1 DEF DTypes, TypeOK
  <2>9. CmdPastes'
    <3>1. \A i \in DOMAIN cmds : cmds[i].k = "receive" => cmds[i].p \in Paste
      BY ElementOfSeq, LenProperties DEF DTypes, Order
    <3>2. ASSUME NEW i \in DOMAIN cmds', cmds'[i].k = "receive"
          PROVE  paste'[cmds'[i].p].st = "sent" /\ paste'[cmds'[i].p].m = cmds'[i].m
      <4>1. CASE cmds'[i] = c
        BY <2>2, <2>8, <4>1
      <4>2. ASSUME NEW j \in DOMAIN cmds, cmds[j] = cmds'[i]
            PROVE  paste'[cmds'[i].p].st = "sent" /\ paste'[cmds'[i].p].m = cmds'[i].m
        <5>1. cmds[j].p \in Paste /\ cmds[j].p # p
          BY <2>5, <3>1, <3>2, <4>2 DEF InCmds
        <5>2. QED
          BY <2>7, <3>2, <4>2, <5>1 DEF PInv, CmdPastes
      <4>3. QED
        BY <2>6, <4>1, <4>2
    <3>3. QED
      BY <3>2 DEF CmdPastes
  <2>10. WirePastes'
    <3>1. \A i \in DOMAIN wire : wire[i].k = "send" => wire[i].p \in Paste /\ wire[i].p # p
      <4>1. \A i \in DOMAIN wire : wire[i].k = "send" => wire[i].p \in Paste
        BY ElementOfSeq, LenProperties DEF DTypes, Event
      <4>2. QED
        BY <2>5, <4>1 DEF InWire
    <3>2. QED
      BY <2>4, <2>7, <3>1 DEF PInv, WirePastes
  <2>11. \A q \in Paste : InWire(q)' <=> InWire(q)
    BY <2>4, QueuesUnchanged
  <2>12. Once'
    BY <2>4, <2>5, <2>6, <2>11, QueuesUnchanged DEF PInv, Once
  <2>13. HeldPastes' /\ SentOrHeld'
    <3>1. \A q \in Paste : paste'[q].st = "sent" => InWire(q)' \/ InCmds(q)'
      BY <2>6, <2>7, <2>11 DEF PInv, SentOrHeld
    <3>2. \A k \in Wanted : Held(k) => Requested(k)'
      BY <2>4, <2>6, RequestsKept
    <3>3. QED
      BY <2>4, <2>7, <2>8, <3>1, <3>2, HeldKept
  <2>14. QED
    BY <2>9, <2>10, <2>12, <2>13 DEF PInv
<1>7. QED
  BY <1>2, <1>3, <1>4, <1>5, <1>6 DEF Consumer

(* Nor does a stutter of the client.                                     *)
LEMMA PastesUnchanged ==
  ASSUME DTypes, DTypes', PInv, UNCHANGED vars \/ ReadAtOnce
  PROVE  PInv'
<1>1. UNCHANGED <<wire, cmds, source, held, asked>>
  BY DEF vars, srcVars, conVars, ReadAtOnce
<1>2. \A p \in Paste : paste'[p] = paste[p] \/ (paste[p].st = "idle" /\ paste'[p].st = "eof")
  BY DEF vars, ReadAtOnce, NoPaste, DTypes, TypeOK
<1>3. /\ \A p \in Paste : (InWire(p)' <=> InWire(p)) /\ (InCmds(p)' <=> InCmds(p))
      /\ OnceInWire' /\ OnceInCmds'
      /\ \A i \in DOMAIN wire' : wire'[i].k = "send" => \E j \in DOMAIN wire : wire[j] = wire'[i]
      /\ \A i \in DOMAIN cmds' : cmds'[i].k = "receive" => \E j \in DOMAIN cmds : cmds[j] = cmds'[i]
  BY <1>1, QueuesUnchanged
<1>4. WirePastes' /\ CmdPastes' /\ Once'
  <2>1. \A p \in Paste : InWire(p) \/ InCmds(p) => paste'[p] = paste[p]
    BY <1>2, QueuedIsSent
  <2>2. QED
    BY <1>3, <2>1, QueuesKept
<1>5. HeldPastes' /\ SentOrHeld'
  <2>1. \A p \in Paste : paste'[p].st = "sent" => InWire(p)' \/ InCmds(p)'
    BY <1>2, <1>3 DEF PInv, SentOrHeld
  <2>2. \A m \in Wanted : Held(m) => Requested(m)'
    BY <1>1, RequestsKept
  <2>3. QED
    BY <1>1, <1>2, <2>1, <2>2, HeldKept
<1>6. QED
  BY <1>4, <1>5 DEF PInv

(* An event, or a command, without a paste is taken from its queue.      *)
LEMMA PlainRead ==
  ASSUME DTypes, PInv, wire # <<>>, wire' = Tail(wire), Head(wire).k # "send"
  PROVE  /\ \A p \in Paste : InWire(p)' <=> InWire(p)
         /\ \A i \in DOMAIN wire' : wire'[i].k = "send" => \E j \in DOMAIN wire : wire[j] = wire'[i]
         /\ OnceInWire'
<1>1. Head(wire).p = None
  BY EventRead DEF Event
<1>2. None \notin Paste
  BY DataControlAssumption DEF Paste
<1>3. QED
  BY <1>1, <1>2, PasteRead DEF PInv, Once

(* The same of a command.                                                *)
LEMMA PlainTaken ==
  ASSUME DTypes, PInv, cmds # <<>>, cmds' = Tail(cmds), Head(cmds).k # "receive"
  PROVE  /\ \A p \in Paste : InCmds(p)' <=> InCmds(p)
         /\ \A i \in DOMAIN cmds' : cmds'[i].k = "receive" => \E j \in DOMAIN cmds : cmds[j] = cmds'[i]
         /\ OnceInCmds'
         /\ \A i \in DOMAIN cmds : cmds[i] = Head(cmds) \/ \E j \in DOMAIN cmds' : cmds'[j] = cmds[i]
<1>1. Head(cmds).p = None
  BY CommandTaken DEF Order
<1>2. None \notin Paste
  BY DataControlAssumption DEF Paste
<1>3. QED
  BY <1>1, <1>2, PasteTaken DEF PInv, Once

(* A paste that is sent to our source is answered, or it is held with a  *)
(* request that is raised or was.                                        *)
LEMMA PastesOfSend ==
  ASSUME DTypes, DTypes', PInv, on_source_send
  PROVE  PInv'
<1> DEFINE ev == Head(wire)
<1>1. /\ ev \in Event /\ ev.k = "send" /\ ev.id = source /\ wire # <<>> /\ wire' = Tail(wire)
      /\ cmds' = cmds /\ source' = source
  BY EventRead DEF on_source_send, Dispatch
<1>2. PICK m \in Wanted, p \in Paste : ev.m = m /\ ev.p = p /\ source \in Own /\ source # None
  BY <1>1, DataControlAssumption DEF Event, Own
<1> DEFINE key == cached_key(m, {c \in Wanted : data[c] # None})
<1>3. /\ \A q \in Paste : InWire(q)' <=> InWire(q) /\ q # p
      /\ \A i \in DOMAIN wire' : \E j \in DOMAIN wire : wire[j] = wire'[i]
      /\ OnceInWire'
      /\ 1 \in DOMAIN wire /\ ev = wire[1]
  BY <1>1, <1>2, PasteRead DEF PInv, Once
<1>4. /\ InWire(p) /\ ~InCmds(p)
      /\ paste[p].st = "sent" /\ paste[p].sel = source /\ paste[p].m = m /\ p \notin Waiting
  <2>1. InWire(p)
    BY <1>2, <1>3 DEF InWire
  <2>2. paste[p].st = "sent" /\ paste[p].sel = source /\ paste[p].m = m
    BY <1>1, <1>2, <1>3 DEF PInv, WirePastes
  <2>3. QED
    BY <1>2, <2>1, <2>2, QueuedIsSent DEF PInv, Once
<1>5. /\ \A q \in Paste : InCmds(q)' <=> InCmds(q)
      /\ \A i \in DOMAIN cmds' : cmds'[i].k = "receive" => \E j \in DOMAIN cmds : cmds[j] = cmds'[i]
      /\ OnceInCmds'
  BY <1>1, QueuesUnchanged
<1>6. \/ /\ UNCHANGED <<held, asked>>
         /\ \E s \in Selection \cup {None} : paste' = Answer({p}, s)
      \/ /\ Held(m) /\ asked' = asked
         /\ held' = [held EXCEPT ![m].waiters = @ \cup {p}]
         /\ paste' = [paste EXCEPT ![p].st = "held"]
      \/ /\ ~Held(m)
         /\ held' = [held EXCEPT ![m] = [serial |-> serial, waiters |-> {p}]]
         /\ asked' = asked \cup {[serial |-> serial, m |-> m]}
         /\ paste' = [paste EXCEPT ![p].st = "held"]
  <2>1. key # NoMatch => data[key] \in Selection \cup {None}
    <3>1. key # NoMatch => key \in {c \in Wanted : data[c] # None}
      BY MatchIsCached
    <3>2. QED
      BY <3>1 DEF DTypes, TypeOK, Selection
  <2> HIDE DEF key
  <2>2. QED
    BY <1>2, <2>1 DEF on_source_send, key
<1> HIDE DEF key, ev
<1>7. (\A q \in Paste : q # p => paste'[q] = paste[q]) /\ paste'[p].st # "sent"
  <2>1. ASSUME NEW s \in Selection \cup {None}, paste' = Answer({p}, s)
        PROVE  (\A q \in Paste : q # p => paste'[q] = paste[q]) /\ paste'[p].st # "sent"
    BY <1>2, <2>1, Answered DEF DTypes
  <2>2. CASE paste' = [paste EXCEPT ![p].st = "held"]
    BY <1>2, <2>2 DEF DTypes, TypeOK
  <2>3. QED
    BY <1>6, <2>1, <2>2
<1>9. WirePastes' /\ CmdPastes' /\ Once'
  <2>1. \A q \in Paste : InWire(q)' \/ InCmds(q)' => q # p
    BY <1>3, <1>4, <1>5
  <2>2. QED
    BY <1>3, <1>5, <1>7, <2>1, QueuesKept
<1>10. \A q \in Paste : paste'[q].st = "sent" => InWire(q)' \/ InCmds(q)'
  BY <1>3, <1>5, <1>7, <1>7 DEF PInv, SentOrHeld
<1>11. HeldPastes' /\ SentOrHeld'
  <2>1. ASSUME NEW s \in Selection \cup {None}, UNCHANGED <<held, asked>>, paste' = Answer({p}, s)
        PROVE  HeldPastes' /\ SentOrHeld'
    <3>1. paste'[p].st # "held"
      BY <1>2, <2>1, Answered DEF DTypes
    <3>2. \A n \in Wanted : Held(n) => Requested(n)'
      BY <1>1, <2>1, RequestsKept
    <3>3. QED
      BY <1>1, <1>4, <1>7, <1>10, <2>1, <3>1, <3>2, HeldKept
  <2>2. ASSUME NEW r \in Nat, NEW W,
               held' = [held EXCEPT ![m] = [serial |-> r, waiters |-> W]], W = held[m].waiters \cup {p},
               paste' = [paste EXCEPT ![p].st = "held"],
               asked \subseteq asked', Requested(m)'
        PROVE  HeldPastes' /\ SentOrHeld'
    <3>1. paste'[p].st = "held" /\ paste'[p].sel = source /\ paste'[p].m = m
      BY <1>2, <1>4, <2>2 DEF DTypes, TypeOK
    <3>2. /\ held'[m].waiters = held[m].waiters \cup {p}
          /\ \A n \in Wanted : n # m => held'[n] = held[n]
      BY <1>2, <2>2 DEF DTypes, TypeOK
    <3>3. \A n \in Wanted : held[n].waiters \subseteq Paste /\ p \notin held[n].waiters
      BY <1>4 DEF DTypes, TypeOK, Waiting
    <3>4. HeldPastes'
      <4>1. source' # None
        BY <1>1, <1>2
      <4>2. ASSUME NEW n \in Wanted, NEW q \in held'[n].waiters
            PROVE  paste'[q].st = "held" /\ paste'[q].m = n /\ paste'[q].sel = source'
        <5>1. CASE q = p
          <6>1. n = m
            BY <3>2, <3>3, <4>2, <5>1
          <6>2. QED
            BY <1>1, <3>1, <5>1, <6>1
        <5>2. CASE q # p
          <6>1. q \in held[n].waiters
            BY <3>2, <4>2, <5>2
          <6>2. QED
            BY <1>1, <1>7, <3>3, <5>2, <6>1 DEF PInv, HeldPastes
        <5>3. QED
          BY <5>1, <5>2
      <4>3. QED
        BY <4>1, <4>2 DEF HeldPastes
    <3>5. \A q \in Paste : paste'[q].st = "held" => q \in Waiting'
      <4>1. ASSUME NEW q \in Paste, paste'[q].st = "held", q # p
            PROVE  \E n \in Wanted : q \in held[n].waiters
        BY <1>7, <4>1 DEF PInv, SentOrHeld, Waiting
      <4>2. \A n \in Wanted : held[n].waiters \subseteq held'[n].waiters
        BY <3>2
      <4>3. QED
        BY <1>2, <3>2, <4>1, <4>2 DEF Waiting
    <3>6. ASSUME NEW n \in Wanted, Held(n)', n # m
          PROVE  Requested(n)'
      <4>1. Held(n) /\ held'[n] = held[n]
        BY <3>2, <3>6 DEF Held
      <4>2. QED
        BY <1>1, <2>2, <4>1 DEF PInv, SentOrHeld, Requested
    <3>7. SentOrHeld'
      BY <1>10, <2>2, <3>5, <3>6 DEF SentOrHeld
    <3>8. QED
      BY <3>4, <3>7
  <2>3. CASE /\ Held(m) /\ asked' = asked
             /\ held' = [held EXCEPT ![m].waiters = @ \cup {p}]
             /\ paste' = [paste EXCEPT ![p].st = "held"]
    <3>1. held[m].serial \in Nat /\ held \in HeldType
      BY <1>2 DEF DTypes, TypeOK, HeldType
    <3>2. held' = [held EXCEPT ![m] = [serial |-> held[m].serial, waiters |-> held[m].waiters \cup {p}]]
      <4>1. held[m] \in [serial : Nat, waiters : SUBSET Paste]
        BY <1>2, <3>1 DEF HeldType
      <4>2. [held[m] EXCEPT !.waiters = held[m].waiters \cup {p}]
              = [serial |-> held[m].serial, waiters |-> held[m].waiters \cup {p}]
        BY <4>1
      <4>3. QED
        BY <2>3, <4>2
    <3>3. held'[m].serial = held[m].serial
      BY <1>2, <3>1, <3>2 DEF HeldType
    <3>4. Requested(m)'
      BY <1>1, <1>2, <2>3, <3>3 DEF PInv, SentOrHeld, Requested
    <3>5. QED
      BY <2>2, <2>3, <3>1, <3>2, <3>4
  <2>4. CASE /\ ~Held(m)
             /\ held' = [held EXCEPT ![m] = [serial |-> serial, waiters |-> {p}]]
             /\ asked' = asked \cup {[serial |-> serial, m |-> m]}
             /\ paste' = [paste EXCEPT ![p].st = "held"]
    <3>1. serial \in Nat /\ held'[m].serial = serial
      BY <1>2, <2>4 DEF DTypes, TypeOK
    <3>2. Requested(m)'
      BY <2>4, <3>1 DEF Requested
    <3>3. {p} = held[m].waiters \cup {p}
      BY <2>4 DEF Held
    <3>4. QED
      BY <2>2, <2>4, <3>1, <3>2, <3>3
  <2>5. QED
    BY <1>6, <2>1, <2>3, <2>4
<1>12. QED
  BY <1>9, <1>11 DEF PInv

(* No event loses a paste.                                               *)
LEMMA PastesOfEvents ==
  ASSUME DTypes, DTypes', PInv, WorkerEvent
  PROVE  PInv'
<1>1. ASSUME wire # <<>>, wire' = Tail(wire), Head(wire).k # "send", UNCHANGED cmds
      PROVE  NoPasteMoves
  BY <1>1, PlainRead, QueuesUnchanged DEF NoPasteMoves
<1>2. ASSUME NEW k, Dispatch(k), k # "send", UNCHANGED <<source, held, paste, asked>>
      PROVE  PInv'
  <2>1. NoPasteMoves
    BY <1>1, <1>2 DEF Dispatch
  <2>2. \A m \in Wanted : Held(m) => Requested(m)'
    BY <1>2, RequestsKept DEF Dispatch
  <2>3. QED
    BY <1>2, <2>1, <2>2, NothingMoves
<1>3. CASE set_pending_offer \/ on_selection \/ on_selection_cleared \/ on_primary_selection
  BY <1>2, <1>3
     DEF set_pending_offer, on_selection, on_selection_cleared, on_primary_selection, srcVars
<1>4. CASE Discard("cancelled")
  <2>1. Head(wire).p = None
    BY <1>4, EventRead DEF Discard, Dispatch, Event
  <2>2. {Head(wire).p} \cap Paste = {}
    BY <2>1, DataControlAssumption DEF Paste
  <2>3. paste' = Answer({}, None)
    BY <1>4, <2>2 DEF Discard
  <2>4. paste' = paste
    BY <2>3 DEF Answer, DTypes, TypeOK
  <2>5. QED
    BY <1>2, <1>4, <2>4 DEF Discard, srcVars
<1>5. CASE Discard("send")
  <2> DEFINE p == Head(wire).p
  <2>1. /\ wire # <<>> /\ wire' = Tail(wire) /\ Head(wire).k = "send" /\ cmds' = cmds
        /\ UNCHANGED <<source, held, asked>>
    BY <1>5 DEF Discard, Dispatch, srcVars
  <2>2. p \in Paste
    BY <2>1, EventRead DEF Event
  <2>3. paste' = Answer({p}, None)
    <3>1. {p} \cap Paste = {p}
      BY <2>2
    <3>2. QED
      BY <1>5, <3>1 DEF Discard
  <2>4. /\ \A q \in Paste : InWire(q)' <=> InWire(q) /\ q # p
        /\ \A i \in DOMAIN wire' : \E j \in DOMAIN wire : wire[j] = wire'[i]
        /\ OnceInWire'
        /\ 1 \in DOMAIN wire /\ Head(wire) = wire[1]
    BY <2>1, PasteRead DEF PInv, Once
  <2>5. InWire(p)
    BY <2>4 DEF InWire
  <2> HIDE DEF p
  <2>6. ~InCmds(p) /\ p \notin Waiting /\ paste[p].st = "sent"
    BY <2>2, <2>5, QueuedIsSent DEF PInv, Once
  <2>7. \A q \in Paste : IF q = p THEN paste'[q].st = "eof" ELSE paste'[q] = paste[q]
    BY <2>3, Answered DEF DTypes
  <2>8. /\ \A q \in Paste : InCmds(q)' <=> InCmds(q)
        /\ \A i \in DOMAIN cmds' : cmds'[i].k = "receive" => \E j \in DOMAIN cmds : cmds[j] = cmds'[i]
        /\ OnceInCmds'
    BY <2>1, QueuesUnchanged
  <2>9. WirePastes' /\ CmdPastes' /\ Once'
    <3>1. \A q \in Paste : InWire(q)' \/ InCmds(q)' => q # p
      BY <2>4, <2>6, <2>8
    <3>2. QED
      BY <2>4, <2>7, <2>8, <3>1, QueuesKept
  <2>10. \A q \in Paste : paste'[q].st = "sent" => InWire(q)' \/ InCmds(q)'
    BY <2>4, <2>7, <2>8 DEF PInv, SentOrHeld
  <2>11. \A n \in Wanted : Held(n) => Requested(n)'
    BY <2>1, RequestsKept
  <2>12. HeldPastes' /\ SentOrHeld'
    BY <2>1, <2>6, <2>7, <2>10, <2>11, HeldKept
  <2>13. QED
    BY <2>9, <2>12 DEF PInv
<1>6. CASE on_source_cancelled
  <2>1. wire # <<>> /\ wire' = Tail(wire) /\ Head(wire).k # "send" /\ cmds' = cmds
    BY <1>6 DEF on_source_cancelled, Dispatch
  <2>2. QED
    BY <1>1, <1>6, <2>1, NothingMovesForgotten DEF on_source_cancelled, Forget
<1>7. CASE on_device_finished
  BY <1>1, <1>7, NothingMovesForgotten DEF on_device_finished, Forget
<1>8. QED
  BY <1>3, <1>4, <1>5, <1>6, <1>7, PastesOfSend DEF WorkerEvent

(* A transfer that is completed answers the pastes held for it.          *)
LEMMA PastesOfComplete ==
  ASSUME DTypes, DTypes', PInv, complete_transfer
  PROVE  PInv'
<1>1. /\ cmds # <<>> /\ cmds' = Tail(cmds) /\ Head(cmds).k = "complete"
      /\ UNCHANGED <<wire, source, asked>> /\ Head(cmds) \in Order
  BY CommandTaken DEF complete_transfer, Process, conVars
<1>2. PICK n \in Nat, s \in Own \cup {None} : n = Head(cmds).serial /\ s = Head(cmds).sel
  BY <1>1 DEF Order
<1>3. PICK hit \in SUBSET Wanted : hit = {m \in Wanted : Held(m) /\ held[m].serial = n}
  OBVIOUS
<1>4. PICK H \in SUBSET Paste : H = UNION {held[m].waiters : m \in hit}
  <2>1. \A m \in hit : held[m].waiters \subseteq Paste
    BY DEF DTypes, TypeOK
  <2>2. UNION {held[m].waiters : m \in hit} \in SUBSET Paste
    BY <2>1
  <2>3. QED
    BY <2>2
<1>5. /\ paste' = Answer(H, s)
      /\ held' = [m \in Wanted |-> IF m \in hit THEN NoTransfers[m] ELSE held[m]]
  BY <1>2, <1>3, <1>4 DEF complete_transfer
<1>6. /\ \A m \in Wanted : m \in hit => held'[m].waiters = {}
      /\ \A m \in Wanted : m \notin hit => held'[m] = held[m]
  BY <1>5 DEF NoTransfers
<1>7. /\ \A q \in Paste : q \notin H => paste'[q] = paste[q]
      /\ \A q \in Paste : q \in H => paste'[q].st \in {"data", "eof"}
  BY <1>5, Answered DEF DTypes, Selection
<1>8. \A q \in Paste : q \in H => q \in Waiting
  BY <1>4 DEF Waiting
<1>9. /\ \A q \in Paste : (InWire(q)' <=> InWire(q)) /\ (InCmds(q)' <=> InCmds(q))
      /\ \A i \in DOMAIN wire' : wire'[i].k = "send" => \E j \in DOMAIN wire : wire[j] = wire'[i]
      /\ \A i \in DOMAIN cmds' : cmds'[i].k = "receive" => \E j \in DOMAIN cmds : cmds[j] = cmds'[i]
      /\ OnceInWire' /\ OnceInCmds'
      /\ \A i \in DOMAIN cmds : cmds[i] = Head(cmds) \/ \E j \in DOMAIN cmds' : cmds'[j] = cmds[i]
  BY <1>1, PlainTaken, QueuesUnchanged
<1>10. WirePastes' /\ CmdPastes' /\ Once'
  <2>1. \A q \in Paste : InWire(q)' \/ InCmds(q)' => q \notin H
    BY <1>8, <1>9, QueuedIsSent
  <2>2. QED
    BY <1>7, <1>9, <2>1, QueuesKept
<1>11. HeldPastes'
  <2>1. source' = None => \A m \in Wanted : ~Held(m)'
    BY <1>1, <1>6 DEF PInv, HeldPastes, Held
  <2>2. ASSUME NEW m \in Wanted, NEW q \in held'[m].waiters
        PROVE  paste'[q].st = "held" /\ paste'[q].m = m /\ paste'[q].sel = source'
    <3>1. m \notin hit /\ q \in held[m].waiters /\ q \in Paste
      BY <1>6, <2>2 DEF DTypes, TypeOK
    <3>2. paste[q].st = "held" /\ paste[q].m = m /\ paste[q].sel = source
      BY <3>1 DEF PInv, HeldPastes
    <3>3. q \notin H
      <4>1. \A k \in hit : q \in held[k].waiters => paste[q].m = k
        BY DEF PInv, HeldPastes
      <4>2. QED
        BY <1>4, <3>1, <3>2, <4>1
    <3>4. QED
      BY <1>1, <1>7, <3>1, <3>2, <3>3
  <2>3. QED
    BY <2>1, <2>2 DEF HeldPastes
<1>12. SentOrHeld'
  <2>1. \A q \in Paste : paste'[q].st = "sent" => InWire(q)' \/ InCmds(q)'
    BY <1>7, <1>9 DEF PInv, SentOrHeld
  <2>2. ASSUME NEW q \in Paste, paste'[q].st = "held"
        PROVE  q \in Waiting'
    <3>1. q \notin H /\ paste[q].st = "held"
      BY <1>7, <2>2
    <3>2. PICK m \in Wanted : q \in held[m].waiters
      BY <3>1 DEF PInv, SentOrHeld, Waiting
    <3>3. m \notin hit
      BY <1>4, <3>1, <3>2
    <3>4. q \in held'[m].waiters
      BY <1>6, <3>2, <3>3
    <3>5. QED
      BY <3>4 DEF Waiting
  <2>3. ASSUME NEW m \in Wanted, Held(m)'
        PROVE  Requested(m)'
    <3>1. m \notin hit /\ Held(m) /\ held'[m] = held[m]
      BY <1>6, <2>3 DEF Held
    <3>2. held[m].serial # Head(cmds).serial
      BY <1>2, <1>3, <3>1
    <3>3. QED
      BY <1>1, <1>9, <3>1, <3>2 DEF PInv, SentOrHeld, Requested
  <2>4. QED
    BY <2>1, <2>2, <2>3 DEF SentOrHeld
<1>13. QED
  BY <1>10, <1>11, <1>12 DEF PInv

(* A read is sent on to our source, or answered.                         *)
LEMMA PastesOfReceive ==
  ASSUME DTypes, DTypes', PInv, receive_from_offer
  PROVE  PInv'
<1>1. /\ cmds # <<>> /\ cmds' = Tail(cmds) /\ Head(cmds).k = "receive"
      /\ UNCHANGED <<source, held, asked>> /\ Head(cmds) \in Order
  BY CommandTaken DEF receive_from_offer, Process, conVars, srcVars
<1>2. PICK p \in Paste, m \in Wanted : Head(cmds).p = p /\ Head(cmds).m = m
  BY <1>1 DEF Order
<1>3. /\ \A q \in Paste : InCmds(q)' <=> InCmds(q) /\ q # p
      /\ \A i \in DOMAIN cmds' : \E j \in DOMAIN cmds : cmds[j] = cmds'[i]
      /\ OnceInCmds'
      /\ \A i \in DOMAIN cmds : cmds[i] = Head(cmds) \/ \E j \in DOMAIN cmds' : cmds'[j] = cmds[i]
      /\ 1 \in DOMAIN cmds /\ Head(cmds) = cmds[1]
  BY <1>1, <1>2, PasteTaken DEF PInv, Once
<1>4. /\ InCmds(p) /\ ~InWire(p)
      /\ paste[p].st = "sent" /\ paste[p].m = m /\ p \notin Waiting
  <2>1. InCmds(p)
    BY <1>2, <1>3 DEF InCmds
  <2>2. paste[p].st = "sent" /\ paste[p].m = m
    BY <1>1, <1>2, <1>3 DEF PInv, CmdPastes
  <2>3. QED
    BY <2>1, <2>2, QueuedIsSent DEF PInv, Once
<1>5. \A k \in Wanted : Held(k) => Requested(k)'
  BY <1>1, <1>3, RequestsKept
<1>6. ASSUME wire' = wire, paste'[p].st \in {"data", "eof"},
             \A q \in Paste : q # p => paste'[q] = paste[q]
      PROVE  PInv'
  <2>1. /\ \A q \in Paste : InWire(q)' <=> InWire(q)
        /\ \A i \in DOMAIN wire' : wire'[i].k = "send" => \E j \in DOMAIN wire : wire[j] = wire'[i]
        /\ OnceInWire'
    BY <1>6, QueuesUnchanged
  <2>2. WirePastes' /\ CmdPastes' /\ Once'
    <3>1. \A q \in Paste : InWire(q)' \/ InCmds(q)' => q # p
      BY <1>3, <1>4, <2>1
    <3>2. QED
      BY <1>3, <1>6, <2>1, <3>1, QueuesKept
  <2>3. \A q \in Paste : paste'[q].st = "sent" => InWire(q)' \/ InCmds(q)'
    BY <1>3, <1>6, <2>1 DEF PInv, SentOrHeld
  <2>4. HeldPastes' /\ SentOrHeld'
    BY <1>1, <1>4, <1>5, <1>6, <2>3, HeldKept
  <2>5. QED
    BY <2>2, <2>4 DEF PInv
<1>7. ASSUME sel \in Own, wire' = Append(wire, [k |-> "send", id |-> sel, m |-> m, p |-> p]),
             paste' = [paste EXCEPT ![p].sel = sel]
      PROVE  PInv'
  <2> DEFINE e == [k |-> "send", id |-> sel, m |-> m, p |-> p]
  <2>1. e \in Event /\ wire' = Append(wire, e) /\ e.p = p /\ e.k = "send" /\ e.id = sel /\ e.m = m
    BY <1>7, SendFields
  <2> HIDE DEF e
  <2>2. /\ \A q \in Paste : InWire(q)' <=> InWire(q) \/ q = p
        /\ \A i \in DOMAIN wire' : wire'[i] = e \/ \E j \in DOMAIN wire : wire[j] = wire'[i]
        /\ OnceInWire'
    BY <1>4, <2>1, PasteSent DEF PInv, Once
  <2>3. /\ \A q \in Paste : q # p => paste'[q] = paste[q]
        /\ paste'[p].st = "sent" /\ paste'[p].sel = sel /\ paste'[p].m = m
    BY <1>4, <1>7 DEF DTypes, TypeOK
  <2>4. WirePastes'
    <3>1. \A i \in DOMAIN wire : wire[i].k = "send" => wire[i].p \in Paste
      BY ElementOfSeq, LenProperties DEF DTypes, Event
    <3>2. ASSUME NEW i \in DOMAIN wire', wire'[i].k = "send"
          PROVE  /\ paste'[wire'[i].p].st = "sent" /\ paste'[wire'[i].p].sel = wire'[i].id
                 /\ paste'[wire'[i].p].m = wire'[i].m
      <4>1. CASE wire'[i] = e
        BY <2>1, <2>3, <4>1
      <4>2. ASSUME NEW j \in DOMAIN wire, wire[j] = wire'[i]
            PROVE  /\ paste'[wire'[i].p].st = "sent" /\ paste'[wire'[i].p].sel = wire'[i].id
                   /\ paste'[wire'[i].p].m = wire'[i].m
        <5>1. wire[j].p \in Paste /\ wire[j].p # p
          BY <1>4, <3>1, <3>2, <4>2 DEF InWire
        <5>2. QED
          BY <2>3, <3>2, <4>2, <5>1 DEF PInv, WirePastes
      <4>3. QED
        BY <2>2, <4>1, <4>2
    <3>3. QED
      BY <3>2 DEF WirePastes
  <2>5. CmdPastes'
    <3>1. \A i \in DOMAIN cmds' : cmds'[i].k = "receive" => cmds'[i].p \in Paste
      BY ElementOfSeq, LenProperties DEF DTypes, Order
    <3>2. \A i \in DOMAIN cmds' : cmds'[i].k = "receive" => cmds'[i].p # p
      BY <1>3 DEF InCmds
    <3>3. QED
      BY <1>3, <2>3, <3>1, <3>2 DEF PInv, CmdPastes
  <2>6. Once'
    BY <1>3, <2>2 DEF PInv, Once
  <2>7. \A q \in Paste : paste'[q].st = "sent" => InWire(q)' \/ InCmds(q)'
    BY <1>3, <2>2, <2>3 DEF PInv, SentOrHeld
  <2>8. HeldPastes' /\ SentOrHeld'
    BY <1>1, <1>4, <1>5, <2>3, <2>7, HeldKept
  <2>9. QED
    BY <2>4, <2>5, <2>6, <2>8 DEF PInv
<1>8. ASSUME NEW s \in Selection \cup {None}, wire' = wire,
             \/ paste' = Answer({p}, s)
             \/ sel \in Selection /\ paste' = [Answer({p}, s) EXCEPT ![p].sel = sel]
      PROVE  PInv'
  <2> DEFINE A == Answer({p}, s)
  <2>1. /\ \A q \in Paste : q # p => A[q] = paste[q]
        /\ A[p].st \in {"data", "eof"} /\ A \in PasteType
    <3>1. TypeOK /\ p \in {p} /\ \A q : q # p => q \notin {p}
      BY DEF DTypes
    <3>2. /\ \A q \in Paste : q \notin {p} => A[q] = paste[q]
          /\ A[p].st = IF s = None THEN "eof" ELSE "data"
      BY <1>2, <3>1, Answered
    <3>3. A \in PasteType
      BY <3>1, Answered DEF PasteType
    <3>4. QED
      BY <3>1, <3>2, <3>3
  <2> HIDE DEF A
  <2>2. ASSUME NEW x
        PROVE  LET B == [A EXCEPT ![p].sel = x]
               IN  B[p].st = A[p].st /\ \A q \in Paste : q # p => B[q] = A[q]
    <3>1. A[p] = [st |-> A[p].st, sel |-> A[p].sel, m |-> A[p].m, of |-> A[p].of]
      BY <1>2, <2>1 DEF PasteType
    <3>2. [A[p] EXCEPT !.sel = x].st = A[p].st
      BY <3>1
    <3>3. QED
      BY <1>2, <2>1, <3>2 DEF PasteType
  <2>3. paste' = A \/ paste' = [A EXCEPT ![p].sel = sel]
    BY <1>8 DEF A
  <2>4. paste'[p].st \in {"data", "eof"} /\ \A q \in Paste : q # p => paste'[q] = paste[q]
    <3>1. CASE paste' = A
      BY <2>1, <3>1
    <3>2. CASE paste' = [A EXCEPT ![p].sel = sel]
      BY <2>1, <2>2, <3>2
    <3>3. QED
      BY <2>3, <3>1, <3>2
  <2>5. QED
    BY <1>6, <1>8, <2>4
<1>9. QED
  <2>1. Foreign \subseteq Selection
    BY DEF Selection
  <2>2. QED
    BY <1>2, <1>7, <1>8, <2>1 DEF receive_from_offer

(* No command loses a paste.                                             *)
LEMMA PastesOfCommands ==
  ASSUME DTypes, DTypes', PInv, WorkerCommand
  PROVE  PInv'
<1>1. ASSUME NEW k, Process(k), k # "receive"
      PROVE  /\ \A p \in Paste : InCmds(p)' <=> InCmds(p)
             /\ \A i \in DOMAIN cmds' : cmds'[i].k = "receive" => \E j \in DOMAIN cmds : cmds[j] = cmds'[i]
             /\ OnceInCmds' /\ asked' = asked
             /\ \A i \in DOMAIN cmds : cmds[i].k = k \/ \E j \in DOMAIN cmds' : cmds'[j] = cmds[i]
  BY <1>1, PlainTaken DEF Process, conVars
<1>2. ASSUME NEW k, Process(k), k \notin {"receive", "complete"},
             UNCHANGED <<wire, source, held, paste>>
      PROVE  PInv'
  <2>1. NoPasteMoves
    BY <1>1, <1>2, QueuesUnchanged DEF NoPasteMoves
  <2>2. \A m \in Wanted : Held(m) => Requested(m)'
    BY <1>1, <1>2, RequestsKept
  <2>3. QED
    BY <1>2, <2>1, <2>2, NothingMoves
<1>3. CASE set_selection
  <2>1. /\ Process("set") /\ Deliver(Head(cmds).sel) /\ Head(cmds).sel \in Selection
        /\ held' = NoTransfers /\ paste' = Answer(Waiting, None)
    <3>1. Head(cmds).sel \in Selection
      BY <1>3, CommandTaken DEF set_selection, Process, Order, Selection
    <3>2. QED
      BY <1>3, <3>1 DEF set_selection
  <2>2. NoPasteMoves
    BY <1>1, <2>1, ChangeMovesNone DEF NoPasteMoves
  <2>3. QED
    BY <2>1, <2>2, NothingMovesForgotten
<1>4. CASE set_selection_fails
  BY <1>2, <1>4 DEF set_selection_fails
<1>5. CASE update_source_data
  BY <1>2, <1>5 DEF update_source_data
<1>6. CASE clear_selection
  <2>1. CASE UNCHANGED <<sel, wire, source, data, held, own_live, paste>>
    BY <1>2, <1>6, <2>1 DEF clear_selection
  <2>2. CASE /\ wire' = wire \/ Deliver(None)
             /\ held' = NoTransfers /\ paste' = Answer(Waiting, None)
    <3>1. NoPasteMoves
      BY <1>1, <1>6, <2>2, ChangeMovesNone, QueuesUnchanged DEF clear_selection, NoPasteMoves
    <3>2. QED
      BY <2>2, <3>1, NothingMovesForgotten
  <2>3. QED
    BY <1>6, <2>1, <2>2 DEF clear_selection
<1>7. QED
  BY <1>3, <1>4, <1>5, <1>6, PastesOfComplete, PastesOfReceive DEF WorkerCommand

(* No step loses a paste.                                                *)
LEMMA PastesNext ==
  ASSUME DTypes, DTypes', PInv, [PortalNext]_allVars
  PROVE  PInv'
BY ClientStep, PastesOfOutside, PastesOfConsumer, PastesOfEvents, PastesOfCommands,
   PastesUnchanged

(* There is no paste at first.                                           *)
LEMMA PastesFirst ==
  ASSUME PortalInit
  PROVE  PInv
<1>1. /\ wire = <<>> /\ cmds = <<>>
      /\ \A p \in Paste : paste[p].st = "idle"
      /\ \A m \in Wanted : held[m].waiters = {}
  BY DEF PortalInit, Init, NoPaste, NoTransfers
<1>2. QED
  BY <1>1 DEF PInv, WirePastes, CmdPastes, Once, OnceInWire, OnceInCmds, InWire, InCmds,
              HeldPastes, SentOrHeld, Held

(* Pastes in order are accounted for.                                    *)
LEMMA PastesTold ==
  ASSUME DTypes, PInv
  PROVE  PasteAccounted
<1>1. \A p \in Paste : paste[p].st = "sent" => InWire(p) \/ InCmds(p)
  BY DEF PInv, SentOrHeld
<1>2. \A p \in Paste : p \in Waiting =>
        \E m \in Wanted : p \in held[m].waiters /\ Held(m) /\ paste[p].st = "held" /\ paste[p].m = m
                          /\ paste[p].sel = source
  BY DEF PInv, HeldPastes, Waiting, Held
<1>3. \A p \in Paste : paste[p].st = "held" => p \in Waiting
  BY DEF PInv, SentOrHeld
<1>4. \A m \in Wanted : Held(m) => Requested(m)
  BY DEF PInv, SentOrHeld
<1>5. QED
  BY <1>1, <1>2, <1>3, <1>4 DEF PasteAccounted, InWire, InCmds, Requested

(* No paste is lost (PasteAccounted), whatever the others do: one that is *)
(* sent is still in a queue, and one that is held is held once, for the  *)
(* source that is there, with a request that will be answered.           *)
THEOREM ClipboardPastesAccounted == PortalSpec => []PasteAccounted
<1>1. PortalInit => TInv /\ PInv
  BY TypesFirst, PastesFirst
<1>2. TInv /\ PInv /\ [PortalNext]_allVars => (TInv /\ PInv)'
  <2> SUFFICES ASSUME TInv, PInv, [PortalNext]_allVars
               PROVE  TInv' /\ PInv'
    OBVIOUS
  <2>1. TInv'
    BY TypesNext
  <2>2. DTypes /\ DTypes'
    BY <2>1 DEF TInv
  <2>3. QED
    BY <2>1, <2>2, PastesNext
<1>3. TInv /\ PInv => PasteAccounted
  BY PastesTold DEF TInv
<1>4. QED
  BY <1>1, <1>2, <1>3, PTL DEF PortalSpec

-----------------------------------------------------------------------------
(* What a step does to the queue of commands.                            *)
QuietStep == UNCHANGED <<cmds, nSel>> /\ source' \in {source, None}
SentStep ==
  \E c \in Order :
    /\ cmds' = Append(cmds, c) /\ source' = source
    /\ IF c.k = "set" THEN c.sel = nSel + 1 /\ nSel' = nSel + 1 ELSE nSel' = nSel
    /\ c.k = "update" => c.sel = nSel \/ "late_update" \in Faults
    /\ c.k = "complete" => c.sel \in {nSel, None}
TakenStep ==
  /\ cmds # <<>> /\ cmds' = Tail(cmds) /\ nSel' = nSel
  /\ IF Head(cmds).k = "set" THEN source' = Head(cmds).sel \/ (source' = source /\ ~device)
     ELSE source' \in {source, None}
StopStep == cmds' = <<>> /\ nSel' = nSel /\ source' = None

(* Every step is one of these.                                           *)
LEMMA QueueMoves ==
  ASSUME DTypes, [PortalNext]_allVars
  PROVE  QuietStep \/ SentStep \/ TakenStep \/ StopStep
<1>1. CASE Outside
  BY <1>1 DEF Outside, Copy, PrimaryCopy, PasteOwn, FinishDevice, Stop, conVars, srcVars,
              QuietStep, StopStep
<1>2. CASE WorkerEvent
  BY <1>2 DEF WorkerEvent, set_pending_offer, on_selection, on_selection_cleared,
              on_primary_selection, Discard, on_source_send, on_source_cancelled,
              on_device_finished, Forget, Dispatch, srcVars, QuietStep
<1>3. CASE WorkerCommand
  BY <1>3 DEF WorkerCommand, set_selection, set_selection_fails, update_source_data,
              clear_selection, complete_transfer, receive_from_offer, Process, srcVars,
              conVars, TakenStep
<1>4. CASE ReadAtOnce \/ UNCHANGED vars
  BY <1>4 DEF ReadAtOnce, vars, conVars, srcVars, QuietStep
<1>5. CASE Consumer
  <2>1. ASSUME NEW ts \in Offers, NEW full \in BOOLEAN, SetSelection(ts, full)
        PROVE  SentStep
    <3> DEFINE c == [NoCommand EXCEPT !.k = "set", !.sel = nSel + 1, !.full = full]
    <3>1. nSel + 1 \in Own
      BY <2>1, DataControlAssumption DEF SetSelection, DTypes, TypeOK, Own
    <3>2. c \in Order /\ c.k = "set" /\ c.sel = nSel + 1
      BY <3>1 DEF Order, NoCommand
    <3>3. cmds' = Append(cmds, c) /\ source' = source /\ nSel' = nSel + 1
      BY <2>1 DEF SetSelection, Command, srcVars
    <3> HIDE DEF c
    <3>4. QED
      BY <3>2, <3>3 DEF SentStep
  <2>2. ASSUME NEW m \in Wanted, NEW s \in Own, UpdateData(m, s)
        PROVE  SentStep
    <3> DEFINE c == [NoCommand EXCEPT !.k = "update", !.sel = s, !.m = m]
    <3>1. c \in Order /\ c.k = "update" /\ c.sel = s
      BY DEF Order, NoCommand
    <3>2. /\ cmds' = Append(cmds, c) /\ source' = source /\ nSel' = nSel
          /\ s = nSel \/ "late_update" \in Faults
      BY <2>2 DEF UpdateData, Command, srcVars, conVars
    <3> HIDE DEF c
    <3>3. QED
      BY <3>1, <3>2 DEF SentStep
  <2>3. ASSUME ClearSelection
        PROVE  SentStep
    <3> DEFINE c == [NoCommand EXCEPT !.k = "clear"]
    <3>1. c \in Order /\ c.k = "clear"
      BY DEF Order, NoCommand
    <3>2. cmds' = Append(cmds, c) /\ source' = source /\ nSel' = nSel
      BY <2>3 DEF ClearSelection, Command, srcVars, conVars
    <3> HIDE DEF c
    <3>3. QED
      BY <3>1, <3>2 DEF SentStep
  <2>4. ASSUME NEW r \in asked, NEW ok \in BOOLEAN, CompleteTransfer(r, ok)
        PROVE  SentStep
    <3> DEFINE c == [NoCommand EXCEPT !.k = "complete", !.serial = r.serial,
                                      !.sel = IF ok THEN nSel ELSE None]
    <3>1. nSel \in Own /\ r.serial \in Nat
      BY DataControlAssumption DEF DTypes, TypeOK, Made, Own
    <3>2. c \in Order /\ c.k = "complete" /\ c.sel \in {nSel, None}
      BY <3>1 DEF Order, NoCommand
    <3>3. cmds' = Append(cmds, c) /\ source' = source /\ nSel' = nSel
      BY <2>4 DEF CompleteTransfer, Command, srcVars
    <3> HIDE DEF c
    <3>4. QED
      BY <3>2, <3>3 DEF SentStep
  <2>5. ASSUME NEW p \in Paste, NEW n \in Wanted, Read(p, n)
        PROVE  SentStep
    <3>1. PICK m \in Wanted : Command([NoCommand EXCEPT !.k = "receive", !.m = m, !.p = p])
      BY <2>5 DEF Read
    <3> DEFINE c == [NoCommand EXCEPT !.k = "receive", !.m = m, !.p = p]
    <3>2. c \in Order /\ c.k = "receive"
      BY DEF Order, NoCommand
    <3>3. cmds' = Append(cmds, c) /\ source' = source /\ nSel' = nSel
      BY <2>5, <3>1 DEF Read, Command, srcVars, conVars
    <3> HIDE DEF c
    <3>4. QED
      BY <3>2, <3>3 DEF SentStep
  <2>6. QED
    BY <1>5, <2>1, <2>2, <2>3, <2>4, <2>5 DEF Consumer
<1>6. QED
  BY <1>1, <1>2, <1>3, <1>4, <1>5, ClientStep

(* What is known of the source at a place of the queue stays known, as the *)
(* place moves up.                                                       *)
LEMMA KnownKept ==
  ASSUME DTypes, QuietStep \/ SentStep, NEW i \in 1..(Len(cmds) + 1), NEW s, Known(i, s)
  PROVE  Known(i, s)'
<1>1. Len(cmds) \in Nat
  BY LenProperties DEF DTypes
<1>2. \A j \in 1..(i - 1) : cmds'[j] = cmds[j]
  BY <1>1, Sent DEF QuietStep, SentStep, DTypes
<1>3. \A j \in 1..(i - 1) : SetAt(j)' <=> SetAt(j)
  BY <1>2 DEF SetAt
<1>4. \A j \in 1..(i - 1) : \A k \in (j + 1)..(i - 1) : k \in 1..(i - 1)
  BY <1>1
<1>5. source' \in {source, None}
  BY DEF QuietStep, SentStep
<1>6. QED
  BY <1>2, <1>3, <1>4, <1>5 DEF Known

(* What is known at the end of the queue, with a command more.           *)
LEMMA KnownLast ==
  ASSUME DTypes, SentStep, Known(Len(cmds) + 1, nSel)
  PROVE  Known(Len(cmds) + 1, nSel)'
<1>1. PICK c \in Order : /\ cmds' = Append(cmds, c) /\ source' = source
                         /\ IF c.k = "set" THEN c.sel = nSel + 1 /\ nSel' = nSel + 1 ELSE nSel' = nSel
  BY DEF SentStep
<1>2. PICK n \in Nat : n = Len(cmds)
  BY LenProperties DEF DTypes
<1>3. /\ Len(cmds') = n + 1 /\ cmds'[n + 1] = c
      /\ \A j \in 1..n : cmds'[j] = cmds[j]
  BY <1>1, <1>2, Sent DEF DTypes
<1> SUFFICES Known(n + 2, nSel)'
  <2>1. Len(cmds') + 1 = n + 2
    BY <1>2, <1>3
  <2>2. QED
    BY <2>1 DEF Known
<1>4. CASE c.k = "set"
  <2>1. n + 1 \in 1..(n + 1) /\ SetAt(n + 1)' /\ cmds'[n + 1].sel = nSel' /\ (n + 2) - 1 = n + 1
    BY <1>1, <1>3, <1>4 DEF SetAt
  <2>2. ((n + 1) + 1)..(n + 1) = {}
    BY <1>2
  <2>3. QED
    BY <2>1, <2>2 DEF Known
<1>5. CASE c.k # "set"
  <2>1. \A j \in 1..n : SetAt(j)' <=> SetAt(j)
    BY <1>3 DEF SetAt
  <2>2. ~SetAt(n + 1)' /\ nSel' = nSel /\ source' = source
    BY <1>1, <1>3, <1>5 DEF SetAt
  <2>3. (n + 1) - 1 = n /\ (n + 2) - 1 = n + 1
    OBVIOUS
  <2>4. /\ \A j \in 1..(n + 1) : j \in 1..n \/ j = n + 1
        /\ \A j \in 1..n : j \in 1..(n + 1)
        /\ \A j \in 1..n : \A k \in (j + 1)..(n + 1) : k \in (j + 1)..n \/ k = n + 1
        /\ \A j \in 1..n : \A k \in (j + 1)..n : k \in 1..n
    BY <1>2
  <2>5. Known(n + 1, nSel)
    BY <1>2
  <2>6. CASE \E j \in 1..n : SetAt(j) /\ cmds[j].sel = nSel /\ \A k \in (j + 1)..n : ~SetAt(k)
    <3>1. PICK j \in 1..n : SetAt(j) /\ cmds[j].sel = nSel /\ \A k \in (j + 1)..n : ~SetAt(k)
      BY <2>6
    <3>2. /\ j \in 1..(n + 1) /\ SetAt(j)' /\ cmds'[j].sel = nSel'
          /\ \A k \in (j + 1)..(n + 1) : ~SetAt(k)'
      BY <1>3, <2>1, <2>2, <2>4, <3>1
    <3>3. QED
      BY <2>3, <3>2 DEF Known
  <2>7. CASE (\A j \in 1..n : ~SetAt(j)) /\ source \in {None, nSel}
    <3>1. (\A j \in 1..(n + 1) : ~SetAt(j)') /\ source' \in {None, nSel'}
      BY <2>1, <2>2, <2>4, <2>7
    <3>2. QED
      BY <2>3, <3>1 DEF Known
  <2>8. QED
    BY <2>3, <2>5, <2>6, <2>7 DEF Known
<1>6. QED
  BY <1>4, <1>5

(* The same when the worker takes a command.                             *)
LEMMA KnownNext ==
  ASSUME DTypes, SourceNeedsDevice, TakenStep, NEW i \in 2..(Len(cmds) + 1), NEW s, Known(i, s)
  PROVE  Known(i - 1, s)'
<1>1. PICK n \in Nat : n = Len(cmds) /\ i \in 2..(n + 1)
  BY LenProperties DEF DTypes
<1>2. /\ Head(cmds) = cmds[1] /\ \A j \in 1..(n - 1) : cmds'[j] = cmds[j + 1]
  BY <1>1, CommandTaken DEF TakenStep
<1>3. \A j \in 1..(n - 1) : SetAt(j)' <=> SetAt(j + 1)
  BY <1>2 DEF SetAt
<1>4. /\ i - 1 \in 1..n /\ (i - 1) - 1 \in 0..(n - 1)
      /\ \A j \in 1..(i - 1) : j = 1 \/ j - 1 \in 1..((i - 1) - 1)
      /\ \A j \in 1..((i - 1) - 1) : j \in 1..(n - 1) /\ j + 1 \in 1..(i - 1)
      /\ 1 \in 1..(i - 1)
  BY <1>1
<1>5. SetAt(1) => source' = cmds[1].sel \/ source' = None
  BY <1>2 DEF TakenStep, SourceNeedsDevice, SetAt
<1>6. ~SetAt(1) => source' \in {source, None}
  BY <1>2 DEF TakenStep, SetAt
<1>7. ASSUME NEW j \in 1..(i - 1), SetAt(j), cmds[j].sel = s, \A k \in (j + 1)..(i - 1) : ~SetAt(k)
      PROVE  Known(i - 1, s)'
  <2>1. CASE j = 1
    <3>1. \A k \in 1..((i - 1) - 1) : k + 1 \in 2..(i - 1)
      BY <1>1
    <3>2. \A k \in 1..((i - 1) - 1) : ~SetAt(k)'
      BY <1>3, <1>4, <1>7, <2>1, <3>1
    <3>3. source' \in {None, s}
      BY <1>5, <1>7, <2>1
    <3>4. QED
      BY <3>2, <3>3 DEF Known
  <2>2. CASE j # 1
    <3>1. PICK h \in 1..((i - 1) - 1) : h = j - 1 /\ h + 1 = j /\ h \in 1..(n - 1)
      BY <1>1, <1>4, <2>2
    <3>2. SetAt(h)' /\ cmds'[h].sel = s
      BY <1>2, <1>3, <1>7, <3>1
    <3>3. \A k \in (h + 1)..((i - 1) - 1) : k \in 1..(n - 1) /\ k + 1 \in (j + 1)..(i - 1)
      BY <1>1, <3>1
    <3>4. \A k \in (h + 1)..((i - 1) - 1) : ~SetAt(k)'
      BY <1>3, <1>7, <3>3
    <3>5. QED
      BY <3>1, <3>2, <3>4 DEF Known
  <2>3. QED
    BY <2>1, <2>2
<1>8. ASSUME \A j \in 1..(i - 1) : ~SetAt(j), source \in {None, s}
      PROVE  Known(i - 1, s)'
  <2>1. \A j \in 1..((i - 1) - 1) : ~SetAt(j)'
    BY <1>3, <1>4, <1>8
  <2>2. source' \in {None, s}
    BY <1>4, <1>6, <1>8
  <2>3. QED
    BY <2>1, <2>2 DEF Known
<1>9. QED
  BY <1>7, <1>8 DEF Known

(* What the consumer brings, it brings for the source that will be there. *)
LEMMA BroughtNext ==
  ASSUME DTypes, SourceNeedsDevice, BroughtInOrder, "late_update" \notin Faults,
         [PortalNext]_allVars
  PROVE  BroughtInOrder'
<1>1. PICK n \in Nat : n = Len(cmds) /\ DOMAIN cmds = 1..n
  BY LenProperties DEF DTypes
<1>2. \A s : s = nSel => Known(n + 1, s)
  BY <1>1 DEF BroughtInOrder
<1>3. ASSUME \A i \in DOMAIN cmds' : Brings(i)' => \E s : s = cmds'[i].sel /\ Known(i, s)',
             \E s, i : s = nSel' /\ i = Len(cmds') + 1 /\ Known(i, s)'
      PROVE  BroughtInOrder'
  BY <1>3 DEF BroughtInOrder, Known
<1>4. CASE QuietStep
  <2>1. cmds' = cmds /\ nSel' = nSel
    BY <1>4 DEF QuietStep
  <2>2. ASSUME NEW i \in DOMAIN cmds', Brings(i)'
        PROVE  \E s : s = cmds'[i].sel /\ Known(i, s)'
    <3>1. PICK s : s = cmds'[i].sel
      OBVIOUS
    <3>2. Known(i, s) /\ i \in 1..(n + 1)
      BY <1>1, <2>1, <2>2, <3>1 DEF BroughtInOrder, Brings
    <3>3. QED
      BY <1>1, <1>4, <3>1, <3>2, KnownKept
  <2>3. PICK s : s = nSel
    OBVIOUS
  <2>4. n + 1 \in 1..(n + 1) /\ Known(n + 1, s) /\ n + 1 = Len(cmds') + 1 /\ s = nSel'
    BY <1>1, <1>2, <2>1, <2>3
  <2>5. Known(n + 1, s)'
    BY <1>1, <1>4, <2>4, KnownKept
  <2>6. QED
    BY <1>3, <2>2, <2>4, <2>5
<1>5. CASE SentStep
  <2>1. PICK c \in Order :
          /\ cmds' = Append(cmds, c) /\ source' = source
          /\ IF c.k = "set" THEN c.sel = nSel + 1 /\ nSel' = nSel + 1 ELSE nSel' = nSel
          /\ c.k = "update" => c.sel = nSel
          /\ c.k = "complete" => c.sel \in {nSel, None}
    BY <1>5 DEF SentStep
  <2>2. /\ DOMAIN cmds' = 1..(n + 1) /\ cmds'[n + 1] = c
        /\ \A i \in 1..n : cmds'[i] = cmds[i]
    BY <1>1, <2>1, Sent DEF DTypes
  <2>3. ASSUME NEW i \in DOMAIN cmds', Brings(i)'
        PROVE  \E s : s = cmds'[i].sel /\ Known(i, s)'
    <3>1. PICK s : s = cmds'[i].sel
      OBVIOUS
    <3>2. CASE i \in 1..n
      <4>1. Known(i, s) /\ i \in 1..(n + 1)
        BY <1>1, <2>2, <2>3, <3>1, <3>2 DEF BroughtInOrder, Brings
      <4>2. QED
        BY <1>1, <1>5, <3>1, <4>1, KnownKept
    <3>3. CASE i = n + 1
      <4>1. s = nSel
        BY <2>1, <2>2, <2>3, <3>1, <3>3 DEF Brings
      <4>2. Known(i, s) /\ i \in 1..(n + 1)
        BY <1>1, <1>2, <3>3, <4>1
      <4>3. QED
        BY <1>1, <1>5, <3>1, <4>2, KnownKept
    <3>4. QED
      BY <1>1, <2>2, <3>2, <3>3
  <2>4. Known(Len(cmds) + 1, nSel)'
    BY <1>5, KnownLast DEF BroughtInOrder
  <2>5. QED
    BY <2>3, <2>4 DEF BroughtInOrder, Known
<1>6. CASE TakenStep
  <2>1. /\ n >= 1 /\ DOMAIN cmds' = 1..(n - 1) /\ Len(cmds') = n - 1 /\ nSel' = nSel
        /\ \A i \in 1..(n - 1) : cmds'[i] = cmds[i + 1]
    BY <1>1, <1>6, CommandTaken DEF TakenStep
  <2>2. ASSUME NEW i \in DOMAIN cmds', Brings(i)'
        PROVE  \E s : s = cmds'[i].sel /\ Known(i, s)'
    <3>1. PICK s : s = cmds'[i].sel
      OBVIOUS
    <3>2. PICK k \in 2..(n + 1) : k = i + 1 /\ k - 1 = i /\ k \in 1..n
      BY <1>1, <2>1
    <3>3. Known(k, s)
      BY <1>1, <2>1, <2>2, <3>1, <3>2 DEF BroughtInOrder, Brings
    <3>4. Known(k - 1, s)'
      BY <1>1, <1>6, <3>2, <3>3, KnownNext
    <3>5. QED
      BY <3>1, <3>2, <3>4
  <2>3. PICK s : s = nSel
    OBVIOUS
  <2>4. PICK k \in 2..(n + 1) : k = n + 1 /\ k - 1 = n
    BY <2>1
  <2>5. Known(k - 1, s)'
    BY <1>1, <1>2, <1>6, <2>3, <2>4, KnownNext
  <2>6. n = Len(cmds') + 1
    BY <2>1
  <2>7. QED
    BY <1>3, <2>1, <2>2, <2>3, <2>4, <2>5, <2>6
<1>7. CASE StopStep
  <2>1. cmds' = <<>> /\ source' = None /\ DOMAIN cmds' = {} /\ Len(cmds') = 0
    BY <1>7 DEF StopStep
  <2>2. PICK s, i : s = nSel' /\ i = 1
    OBVIOUS
  <2>3. 1..(i - 1) = {}
    BY <2>2
  <2>4. Known(i, s)'
    BY <2>1, <2>3 DEF Known
  <2>5. QED
    BY <1>3, <2>1, <2>2, <2>4
<1>8. QED
  BY <1>4, <1>5, <1>6, <1>7, QueueMoves

(* A source needs a device, and what is cached is its data.              *)
LEMMA DeviceNext ==
  ASSUME DTypes, SourceNeedsDevice, [PortalNext]_allVars
  PROVE  SourceNeedsDevice'
<1>1. CASE Outside
  BY <1>1 DEF Outside, Copy, PrimaryCopy, PasteOwn, FinishDevice, Stop, srcVars, SourceNeedsDevice
<1>2. CASE WorkerEvent
  BY <1>2 DEF WorkerEvent, set_pending_offer, on_selection, on_selection_cleared,
              on_primary_selection, Discard, on_source_send, on_source_cancelled,
              on_device_finished, Forget, srcVars, SourceNeedsDevice
<1>3. CASE WorkerCommand
  BY <1>3 DEF WorkerCommand, set_selection, set_selection_fails, update_source_data,
              clear_selection, complete_transfer, receive_from_offer, Process, srcVars,
              SourceNeedsDevice
<1>4. CASE Consumer
  BY <1>4 DEF Consumer, SetSelection, UpdateData, ClearSelection, CompleteTransfer, Read,
              srcVars, SourceNeedsDevice
<1>5. CASE ReadAtOnce \/ UNCHANGED vars
  BY <1>5 DEF ReadAtOnce, vars, srcVars, SourceNeedsDevice
<1>6. QED
  BY <1>1, <1>2, <1>3, <1>4, <1>5, ClientStep

(* What is known at the head is the source.                              *)
LEMMA SourceAtHead ==
  ASSUME DTypes, BroughtInOrder, cmds # <<>>, Brings(1)
  PROVE  source \in {None, Head(cmds).sel}
<1>1. 1 \in DOMAIN cmds /\ Head(cmds) = cmds[1]
  BY Received DEF DTypes
<1>2. Known(1, cmds[1].sel)
  BY <1>1 DEF BroughtInOrder
<1>3. 1..(1 - 1) = {}
  OBVIOUS
<1>4. QED
  BY <1>1, <1>2, <1>3 DEF Known

(* The cached data stays the source's.                                   *)
LEMMA DataNext ==
  ASSUME DTypes, DTypes', DInv, [PortalNext]_allVars
  PROVE  DataOfSource'
<1>1. ASSUME data' = data, source' \in {source, None}
      PROVE  DataOfSource'
  BY <1>1 DEF DInv, DataOfSource
<1>2. ASSUME source' = None
      PROVE  DataOfSource'
  BY <1>2 DEF DataOfSource
<1>3. CASE Outside
  BY <1>1, <1>2, <1>3 DEF Outside, Copy, PrimaryCopy, PasteOwn, FinishDevice, Stop, srcVars
<1>4. CASE WorkerEvent
  BY <1>1, <1>2, <1>4
     DEF WorkerEvent, set_pending_offer, on_selection, on_selection_cleared,
         on_primary_selection, Discard, on_source_send, on_source_cancelled,
         on_device_finished, Forget, srcVars
<1>5. CASE WorkerCommand
  <2>1. CASE set_selection_fails \/ clear_selection \/ receive_from_offer
    BY <1>1, <1>2, <2>1 DEF set_selection_fails, clear_selection, receive_from_offer, srcVars
  <2>2. CASE set_selection
    BY <2>2 DEF set_selection, DataOfSource
  <2>3. CASE update_source_data
    <3>1. cmds # <<>> /\ Brings(1) /\ Head(cmds) = cmds[1]
      BY <2>3, CommandTaken DEF update_source_data, Process, Brings
    <3>2. source \in {None, Head(cmds).sel} /\ source' = source
      BY <2>3, <3>1, SourceAtHead DEF update_source_data, DInv
    <3>3. \A m \in Wanted : data'[m] \in {data[m], Head(cmds).sel}
      BY <2>3 DEF update_source_data, DTypes, TypeOK
    <3>4. QED
      BY <3>2, <3>3 DEF DInv, DataOfSource
  <2>4. CASE complete_transfer
    <3>1. cmds # <<>> /\ Head(cmds) = cmds[1] /\ (Head(cmds).sel # None => Brings(1))
      BY <2>4, CommandTaken DEF complete_transfer, Process, Brings
    <3>2. source' = source /\ (Head(cmds).sel # None => source \in {None, Head(cmds).sel})
      BY <2>4, <3>1, SourceAtHead DEF complete_transfer, DInv
    <3>3. \A m \in Wanted : data'[m] = data[m] \/ (data'[m] = Head(cmds).sel /\ Head(cmds).sel # None)
      BY <2>4 DEF complete_transfer
    <3>4. QED
      BY <3>2, <3>3 DEF DInv, DataOfSource
  <2>5. QED
    BY <1>5, <2>1, <2>2, <2>3, <2>4 DEF WorkerCommand
<1>6. CASE Consumer
  BY <1>1, <1>6
     DEF Consumer, SetSelection, UpdateData, ClearSelection, CompleteTransfer, Read, srcVars
<1>7. CASE ReadAtOnce \/ UNCHANGED vars
  BY <1>1, <1>7 DEF ReadAtOnce, vars, srcVars
<1>8. QED
  BY <1>3, <1>4, <1>5, <1>6, <1>7, ClientStep

(* A paste is answered with the data of the selection it was made on.    *)
LEMMA AnsweredNext ==
  ASSUME DTypes, DTypes', PInv, DInv, AnsweredFromItsSelection, [PortalNext]_allVars
  PROVE  AnsweredFromItsSelection'
<1>1. ASSUME \A p \in Paste : \/ paste'[p] = paste[p] \/ paste'[p].st # "data"
                              \/ paste'[p].of = paste'[p].sel
      PROVE  AnsweredFromItsSelection'
  BY <1>1 DEF AnsweredFromItsSelection
<1>2. ASSUME NEW P, paste' = Answer(P, None)
      PROVE  AnsweredFromItsSelection'
  BY <1>1, <1>2, Answered DEF DTypes
<1>3. ASSUME paste' = paste
      PROVE  AnsweredFromItsSelection'
  BY <1>1, <1>3
<1>4. ASSUME NEW p \in Paste, NEW r, r.st # "data", paste' = [paste EXCEPT ![p] = r]
      PROVE  AnsweredFromItsSelection'
  BY <1>1, <1>4 DEF DTypes, TypeOK
<1>5. CASE Outside
  <2>1. ASSUME NEW p \in Paste, NEW m \in Wanted, PasteOwn(p, m)
        PROVE  AnsweredFromItsSelection'
    BY <1>4, <2>1 DEF PasteOwn
  <2>2. QED
    BY <1>2, <1>3, <1>5, <2>1 DEF Outside, Copy, PrimaryCopy, FinishDevice, Stop
<1>6. CASE Consumer
  <2>1. ASSUME NEW p \in Paste, NEW m \in Wanted, Read(p, m)
        PROVE  AnsweredFromItsSelection'
    BY <1>4, <2>1 DEF Read
  <2>2. QED
    BY <1>3, <1>6, <2>1 DEF Consumer, SetSelection, UpdateData, ClearSelection, CompleteTransfer
<1>7. CASE ReadAtOnce \/ UNCHANGED vars
  BY <1>3, <1>4, <1>7 DEF ReadAtOnce, vars
<1>8. CASE on_source_send
  <2> DEFINE ev == Head(wire)
  <2>1. /\ ev \in Event /\ ev.k = "send" /\ ev.id = source /\ wire # <<>> /\ wire' = Tail(wire)
    BY <1>8, EventRead DEF on_source_send, Dispatch
  <2>2. PICK m \in Wanted, p \in Paste : ev.m = m /\ ev.p = p /\ source \in Own /\ source # None
    BY <2>1, DataControlAssumption DEF Event, Own
  <2>3. paste[p].sel = source
    <3>1. 1 \in DOMAIN wire /\ ev = wire[1]
      BY <2>1, EventRead
    <3>2. QED
      BY <2>1, <2>2, <3>1 DEF PInv, WirePastes
  <2> DEFINE key == cached_key(m, {c \in Wanted : data[c] # None})
  <2>4. key # NoMatch => data[key] = source
    <3>1. key # NoMatch => key \in {c \in Wanted : data[c] # None}
      BY MatchIsCached
    <3>2. QED
      BY <2>2, <3>1 DEF DInv, DataOfSource
  <2> HIDE DEF key, ev
  <2>5. CASE key # NoMatch /\ paste' = Answer({p}, data[key])
    <3>1. paste' = Answer({p}, source) /\ source \in Selection \cup {None}
      BY <2>2, <2>4, <2>5 DEF Selection
    <3>2. /\ \A q \in Paste : q \notin {p} => paste'[q] = paste[q]
          /\ paste'[p].sel = paste[p].sel /\ paste'[p].of = source
      BY <3>1, Answered DEF DTypes
    <3>3. QED
      BY <1>1, <2>3, <3>2
  <2>6. CASE paste' = [paste EXCEPT ![p].st = "held"]
    <3>1. /\ \A q \in Paste : q # p => paste'[q] = paste[q]
          /\ paste'[p].st # "data"
      BY <2>2, <2>6 DEF DTypes, TypeOK
    <3>2. QED
      BY <1>1, <3>1
  <2>7. QED
    BY <1>2, <1>8, <2>2, <2>5, <2>6 DEF on_source_send, key, ev
<1>9. CASE WorkerEvent /\ ~on_source_send
  BY <1>2, <1>3, <1>9
     DEF WorkerEvent, set_pending_offer, on_selection, on_selection_cleared,
         on_primary_selection, Discard, on_source_cancelled, on_device_finished, Forget
<1>10. CASE complete_transfer
  <2>1. cmds # <<>> /\ Head(cmds) = cmds[1] /\ (Head(cmds).sel # None => Brings(1))
    BY <1>10, CommandTaken DEF complete_transfer, Process, Brings
  <2>2. PICK s \in Own \cup {None} : s = Head(cmds).sel
    BY <1>10, CommandTaken DEF complete_transfer, Process, Order
  <2>3. s # None => source \in {None, s}
    BY <2>1, <2>2, SourceAtHead DEF DInv
  <2>4. PICK H : H \subseteq Waiting /\ paste' = Answer(H, s)
    <3> DEFINE hit == {m \in Wanted : Held(m) /\ held[m].serial = Head(cmds).serial}
               G == UNION {held[m].waiters : m \in hit}
    <3>1. G \subseteq Waiting
      BY DEF Waiting
    <3>2. paste' = Answer(G, s)
      BY <1>10, <2>2 DEF complete_transfer
    <3>3. QED
      BY <3>1, <3>2
  <2>5. ASSUME NEW p \in Paste
        PROVE  \/ paste'[p] = paste[p] \/ paste'[p].st # "data" \/ paste'[p].of = paste'[p].sel
    <3>1. CASE p \notin H
      BY <2>4, <3>1, Answered DEF DTypes, Selection
    <3>2. CASE p \in H /\ s = None
      BY <2>4, <3>2, Answered DEF DTypes
    <3>3. CASE p \in H /\ s # None
      <4>1. PICK m \in Wanted : p \in held[m].waiters
        BY <2>4, <3>3 DEF Waiting
      <4>2. paste[p].sel = source /\ source # None
        BY <4>1 DEF PInv, HeldPastes, Held
      <4>3. paste'[p].of = s /\ paste'[p].sel = paste[p].sel
        BY <2>4, <3>3, Answered DEF DTypes, Selection
      <4>4. QED
        BY <2>3, <3>3, <4>2, <4>3
    <3>4. QED
      BY <3>1, <3>2, <3>3
  <2>6. QED
    BY <1>1, <2>5
<1>11. CASE receive_from_offer
  <2>1. PICK p \in Paste : Head(cmds).p = p
    BY <1>11, CommandTaken DEF receive_from_offer, Process, Order
  <2>2. paste[p].st = "sent"
    <3>1. 1 \in DOMAIN cmds /\ Head(cmds) = cmds[1] /\ Head(cmds).k = "receive"
      BY <1>11, CommandTaken DEF receive_from_offer, Process
    <3>2. QED
      BY <2>1, <3>1 DEF PInv, CmdPastes
  <2>3. CASE paste' = [paste EXCEPT ![p].sel = sel]
    <3>1. /\ \A q \in Paste : q # p => paste'[q] = paste[q]
          /\ paste'[p].st # "data"
      BY <2>1, <2>2, <2>3 DEF DTypes, TypeOK
    <3>2. QED
      BY <1>1, <3>1
  <2>4. CASE sel \in Foreign /\ paste' = [Answer({p}, sel) EXCEPT ![p].sel = sel]
    <3> DEFINE A == Answer({p}, sel)
    <3>1. sel \in Selection \cup {None}
      BY <2>4 DEF Selection
    <3>2. A \in PasteType /\ A[p].of = sel /\ \A q \in Paste : q \notin {p} => A[q] = paste[q]
      <4>1. A \in PasteType
        BY <3>1, Answered DEF DTypes, PasteType
      <4>2. A[p].of = sel /\ \A q \in Paste : q \notin {p} => A[q] = paste[q]
        BY <2>1, <3>1, Answered DEF DTypes
      <4>3. QED
        BY <4>1, <4>2
    <3> HIDE DEF A
    <3>3. paste' = [A EXCEPT ![p].sel = sel]
      BY <2>4 DEF A
    <3>4. /\ \A q \in Paste : q # p => paste'[q] = A[q]
          /\ paste'[p].sel = sel /\ paste'[p].of = A[p].of
      <4>1. A[p] = [st |-> A[p].st, sel |-> A[p].sel, m |-> A[p].m, of |-> A[p].of]
        BY <2>1, <3>2 DEF PasteType
      <4>2. [A[p] EXCEPT !.sel = sel].sel = sel /\ [A[p] EXCEPT !.sel = sel].of = A[p].of
        BY <4>1
      <4>3. QED
        BY <2>1, <3>2, <3>3, <4>2 DEF PasteType
    <3>5. QED
      BY <1>1, <3>2, <3>4
  <2>5. QED
    BY <1>2, <1>11, <2>1, <2>3, <2>4 DEF receive_from_offer
<1>12. CASE set_selection \/ set_selection_fails \/ update_source_data \/ clear_selection
  BY <1>2, <1>3, <1>12 DEF set_selection, set_selection_fails, update_source_data, clear_selection
<1>13. QED
  BY <1>5, <1>6, <1>7, <1>8, <1>9, <1>10, <1>11, <1>12, ClientStep DEF WorkerCommand

(* Unless update_data is late, a paste is answered with the data of the  *)
(* selection it was made on, or it is still accounted for (PastesServed). *)
THEOREM ClipboardPastesServed ==
  ASSUME "late_update" \notin Faults
  PROVE  PortalSpec => []PastesServed
<1> DEFINE I == TInv /\ PInv /\ DInv /\ SourceNeedsDevice /\ AnsweredFromItsSelection
<1>1. PortalInit => I
  <2> SUFFICES ASSUME PortalInit PROVE I
    OBVIOUS
  <2>1. cmds = <<>> /\ source = None /\ nSel = 0 /\ \A p \in Paste : paste[p].st = "idle"
    BY DEF PortalInit, Init, NoPaste
  <2>2. DOMAIN cmds = {} /\ Len(cmds) + 1 = 1 /\ 1..(1 - 1) = {}
    BY <2>1
  <2>3. DInv /\ SourceNeedsDevice /\ AnsweredFromItsSelection
    BY <2>1, <2>2 DEF DInv, BroughtInOrder, Known, DataOfSource, SourceNeedsDevice,
                      AnsweredFromItsSelection
  <2>4. QED
    BY <2>3, TypesFirst, PastesFirst
<1>2. I /\ [PortalNext]_allVars => I'
  <2> SUFFICES ASSUME I, [PortalNext]_allVars PROVE I'
    OBVIOUS
  <2>1. TInv' /\ DTypes /\ DTypes'
    BY TypesNext DEF TInv
  <2>2. PInv' /\ SourceNeedsDevice' /\ AnsweredFromItsSelection'
    BY <2>1, PastesNext, DeviceNext, AnsweredNext
  <2>3. DInv'
    BY <2>1, BroughtNext, DataNext DEF DInv
  <2>4. QED
    BY <2>1, <2>2, <2>3
<1>3. I => PastesServed
  BY PastesTold DEF TInv, PastesServed
<1>4. QED
  BY <1>1, <1>2, <1>3, PTL DEF PortalSpec

-----------------------------------------------------------------------------
(* What a step does to the events on their way, and to what they tell.   *)
Heard == <<pending, current, told>>

AddsStep ==
  /\ \E t \in Seq(Event) : /\ wire' = wire \o t
                           /\ \A i \in 1..Len(t) : t[i].k \notin ReportKinds \cup {"cancelled"}
  /\ UNCHANGED <<Heard, sel, running, device, source, own_live>>

ChangeStep ==
  /\ UNCHANGED <<Heard, running, device>>
  /\ \E new \in Selection \cup {None} : sel' = new /\ Deliver(new)
  /\ \/ sel' \in Foreign /\ UNCHANGED <<source, own_live>>
     \/ /\ cmds # <<>> /\ cmds' = Tail(cmds) /\ Head(cmds).k = "set" /\ Head(cmds).sel = sel'
        /\ sel' \in Own /\ source' = sel' /\ own_live' = TRUE
     \/ sel' = None /\ source' = None /\ own_live' = FALSE

ReadStep ==
  /\ wire # <<>> /\ wire' = Tail(wire) /\ UNCHANGED running
  /\ \/ /\ Head(wire).k = "finished" /\ device' = FALSE /\ source' = None /\ own_live' = FALSE
        /\ sel' = IF sel = source THEN None ELSE sel
     \/ /\ Head(wire).k # "finished" /\ UNCHANGED <<sel, device>>
        /\ Head(wire).k = "offer" => pending' = Head(wire).id
        /\ IF Head(wire).k = "selection" THEN current' = pending
           ELSE IF Head(wire).k = "null" THEN current' = None ELSE current' = current
        /\ IF Head(wire).k = "selection"
             THEN told' = IF pending # None /\ is_own_selection(pending) THEN told ELSE pending
           ELSE IF Head(wire).k = "null" THEN told' = None ELSE told' = told
        /\ IF Head(wire).k = "cancelled" /\ Head(wire).id = source
             THEN source' = None /\ own_live' = FALSE ELSE UNCHANGED <<source, own_live>>

EndStep ==
  /\ running' = FALSE /\ wire' = <<>> /\ source' = None /\ sel' \notin Own
  /\ UNCHANGED <<told, device>>

(* Every step is one of these.                                           *)
LEMMA WireMoves ==
  ASSUME DTypes, SourceNeedsDevice, [PortalNext]_allVars
  PROVE  AddsStep \/ ChangeStep \/ ReadStep \/ EndStep
<1>1. ASSUME wire' = wire, UNCHANGED <<Heard, sel, running, device, source, own_live>>
      PROVE  AddsStep
  <2>1. <<>> \in Seq(Event) /\ wire' = wire \o <<>> /\ 1..Len(<<>>) = {}
    BY <1>1 DEF DTypes
  <2>2. QED
    BY <1>1, <2>1 DEF AddsStep
<1>2. ASSUME NEW e \in Event, e.k \notin ReportKinds \cup {"cancelled"}, wire' = Append(wire, e),
             UNCHANGED <<Heard, sel, running, device, source, own_live>>
      PROVE  AddsStep
  <2>1. /\ <<e>> \in Seq(Event) /\ wire' = wire \o <<e>>
        /\ \A i \in 1..Len(<<e>>) : <<e>>[i].k \notin ReportKinds \cup {"cancelled"}
    <3>1. wire \in Seq(Event)
      BY DEF DTypes
    <3>2. wire' = wire \o <<e>>
      BY <1>2, <3>1
    <3>3. QED
      BY <1>2, <3>2
  <2>2. QED
    BY <1>2, <2>1 DEF AddsStep
<1>3. CASE Outside
  <2>1. ASSUME NEW f \in Foreign, NEW ts \in Offers, Copy(f, ts)
        PROVE  ChangeStep
    BY <2>1 DEF Copy, ChangeStep, Heard, offVars, srcVars, Selection
  <2>2. ASSUME NEW f \in Foreign, NEW ts \in Offers, PrimaryCopy(f, ts)
        PROVE  AddsStep
    <3> DEFINE o == Ev("offer", f)
               q == Ev("primary", f)
    <3>1. /\ o \in Event /\ q \in Event /\ wire' = wire \o <<o, q>>
          /\ o.k = "offer" /\ q.k = "primary"
      BY <2>2, EventFields DEF PrimaryCopy, Selection
    <3> HIDE DEF o, q
    <3>2. /\ <<o, q>> \in Seq(Event)
          /\ \A i \in 1..Len(<<o, q>>) : <<o, q>>[i].k \notin ReportKinds \cup {"cancelled"}
      BY <3>1 DEF ReportKinds
    <3>3. UNCHANGED <<Heard, sel, running, device, source, own_live>>
      BY <2>2 DEF PrimaryCopy, offVars, srcVars, Heard
    <3>4. QED
      BY <3>1, <3>2, <3>3 DEF AddsStep
  <2>3. ASSUME NEW p \in Paste, NEW m \in Wanted, PasteOwn(p, m)
        PROVE  AddsStep
    <3> DEFINE e == [k |-> "send", id |-> sel, m |-> m, p |-> p]
    <3>1. e \in Event /\ e.k = "send" /\ wire' = Append(wire, e)
      BY <2>3, SendFields DEF PasteOwn
    <3> HIDE DEF e
    <3>2. QED
      BY <1>2, <2>3, <3>1 DEF PasteOwn, compVars, offVars, srcVars, Heard, ReportKinds
  <2>4. CASE FinishDevice
    <3> DEFINE e == Ev("finished", None)
    <3>1. e \in Event /\ e.k = "finished" /\ wire = <<>> /\ wire' = <<e>>
      BY <2>4, EventFields DEF FinishDevice
    <3> HIDE DEF e
    <3>2. wire' = Append(wire, e)
      BY <3>1
    <3>3. QED
      BY <1>2, <2>4, <3>1, <3>2 DEF FinishDevice, compVars, offVars, srcVars, Heard, ReportKinds
  <2>5. CASE Stop
    <3>1. sel' \notin Own
      BY <2>5, DataControlAssumption DEF Stop, Own
    <3>2. QED
      BY <2>5, <3>1 DEF Stop, EndStep
  <2>6. QED
    BY <1>3, <2>1, <2>2, <2>3, <2>4, <2>5 DEF Outside
<1>4. CASE Consumer
  BY <1>1, <1>4 DEF Consumer, SetSelection, UpdateData, ClearSelection, CompleteTransfer, Read,
                    compVars, offVars, srcVars, Heard
<1>5. CASE ReadAtOnce \/ UNCHANGED vars
  BY <1>1, <1>5 DEF ReadAtOnce, vars, compVars, offVars, srcVars, Heard
<1>6. CASE WorkerEvent
  <2>1. CASE set_pending_offer
    BY <2>1 DEF set_pending_offer, Dispatch, compVars, srcVars, ReadStep
  <2>2. CASE on_selection
    BY <2>2 DEF on_selection, Dispatch, compVars, srcVars, ReadStep
  <2>3. CASE on_selection_cleared
    BY <2>3 DEF on_selection_cleared, Dispatch, compVars, srcVars, ReadStep
  <2>4. CASE on_primary_selection
    BY <2>4 DEF on_primary_selection, Dispatch, compVars, srcVars, offVars, ReadStep
  <2>5. CASE Discard("send") \/ Discard("cancelled")
    BY <2>5 DEF Discard, Dispatch, compVars, srcVars, offVars, ReadStep
  <2>6. CASE on_source_send
    BY <2>6 DEF on_source_send, Dispatch, compVars, offVars, ReadStep
  <2>7. CASE on_source_cancelled
    BY <2>7 DEF on_source_cancelled, Forget, Dispatch, compVars, offVars, ReadStep
  <2>8. CASE on_device_finished
    BY <2>8 DEF on_device_finished, Forget, ReadStep
  <2>9. QED
    BY <1>6, <2>1, <2>2, <2>3, <2>4, <2>5, <2>6, <2>7, <2>8 DEF WorkerEvent
<1>7. CASE WorkerCommand
  <2>1. CASE set_selection
    <3>1. Head(cmds).sel \in Own
      BY <2>1, CommandTaken DEF set_selection, Process, Order
    <3>2. QED
      BY <2>1, <3>1 DEF set_selection, Process, offVars, Heard, ChangeStep, Selection
  <2>2. CASE set_selection_fails \/ update_source_data \/ complete_transfer
    BY <1>1, <2>2 DEF set_selection_fails, update_source_data, complete_transfer, Process,
                      offVars, Heard
  <2>3. CASE clear_selection
    <3>1. CASE UNCHANGED <<sel, wire, source, data, held, own_live, paste>>
      BY <1>1, <2>3, <3>1 DEF clear_selection, Process, offVars, Heard
    <3>2. CASE source # None /\ device /\ sel' = None /\ Deliver(None) /\ source' = None
               /\ own_live' = FALSE
      BY <2>3, <3>2 DEF clear_selection, Process, offVars, Heard, ChangeStep
    <3>3. QED
      BY <2>3, <3>1, <3>2 DEF clear_selection, SourceNeedsDevice
  <2>4. CASE receive_from_offer
    <3>1. UNCHANGED <<Heard, sel, running, device, source, own_live>>
      BY <2>4 DEF receive_from_offer, Process, offVars, srcVars, Heard
    <3>2. CASE wire' = wire
      BY <1>1, <3>1, <3>2
    <3>3. CASE wire' # wire
      <4>1. Head(cmds).m \in Wanted /\ Head(cmds).p \in Paste
        BY <2>4, CommandTaken DEF receive_from_offer, Process, Order
      <4> DEFINE e == [k |-> "send", id |-> sel, m |-> Head(cmds).m, p |-> Head(cmds).p]
      <4>2. sel \in Own /\ wire' = Append(wire, e)
        BY <2>4, <3>3 DEF receive_from_offer
      <4>3. e \in Event /\ e.k = "send"
        BY <4>1, <4>2, SendFields
      <4> HIDE DEF e
      <4>4. QED
        BY <1>2, <3>1, <4>2, <4>3 DEF ReportKinds
    <3>4. QED
      BY <3>2, <3>3
  <2>5. QED
    BY <1>7, <2>1, <2>2, <2>3, <2>4 DEF WorkerCommand
<1>8. QED
  BY <1>3, <1>4, <1>5, <1>6, <1>7, ClientStep

(* A selection that was set before all that wait stays so.               *)
LEMMA NewerKept ==
  ASSUME DTypes, [PortalNext]_allVars, NEW x \in Int, x <= nSel, Newer(x)
  PROVE  Newer(x)'
<1>1. CASE QuietStep
  BY <1>1 DEF QuietStep, Newer, SetAt
<1>2. CASE SentStep
  <2>1. PICK c \in Order : /\ cmds' = Append(cmds, c)
                           /\ c.k = "set" => c.sel = nSel + 1
    BY <1>2 DEF SentStep
  <2>2. /\ Len(cmds) \in Nat /\ DOMAIN cmds = 1..Len(cmds) /\ DOMAIN cmds' = 1..(Len(cmds) + 1)
        /\ \A i \in 1..Len(cmds) : cmds'[i] = cmds[i]
        /\ cmds'[Len(cmds) + 1] = c
    BY <2>1, Sent DEF DTypes
  <2>3. nSel \in Int
    BY DEF DTypes, TypeOK
  <2>4. c.k = "set" => c.sel > x
    BY <2>1, <2>3
  <2>5. \A i \in DOMAIN cmds' : i \in DOMAIN cmds \/ i = Len(cmds) + 1
    BY <2>2
  <2>6. QED
    BY <2>2, <2>4, <2>5 DEF Newer, SetAt
<1>3. CASE TakenStep
  <2>1. \A i \in DOMAIN cmds' : i + 1 \in DOMAIN cmds /\ cmds'[i] = cmds[i + 1]
    BY <1>3, CommandTaken DEF TakenStep
  <2>2. QED
    BY <2>1 DEF Newer, SetAt
<1>4. CASE StopStep
  BY <1>4 DEF StopStep, Newer
<1>5. QED
  BY <1>1, <1>2, <1>3, <1>4, QueueMoves

(* The one that is set next is older than those that wait.               *)
LEMMA NewerThanHead ==
  ASSUME DTypes, SetsGrow, cmds # <<>>, cmds' = Tail(cmds), Head(cmds).k = "set"
  PROVE  \A x : x = Head(cmds).sel => Newer(x)'
<1>1. /\ 1 \in DOMAIN cmds /\ Head(cmds) = cmds[1]
      /\ \A i \in DOMAIN cmds' : i + 1 \in DOMAIN cmds /\ cmds'[i] = cmds[i + 1] /\ i + 1 > 1
  BY CommandTaken
<1>2. \A i \in DOMAIN cmds : cmds[i].k = "set" => cmds[i].sel \in Int
  <2>1. \A i \in DOMAIN cmds : cmds[i] \in Order
    BY ElementOfSeq, LenProperties DEF DTypes
  <2>2. QED
    BY <2>1 DEF Order, Own
<1>3. \A i \in DOMAIN cmds' : cmds'[i].k = "set" => cmds[1].sel < cmds'[i].sel
  BY <1>1 DEF SetsGrow, SetAt
<1>4. \A i \in DOMAIN cmds' : cmds'[i].k = "set" => cmds'[i].sel > cmds[1].sel
  BY <1>1, <1>2, <1>3
<1>5. QED
  BY <1>1, <1>4 DEF Newer, SetAt

(* Selections wait in the order they were made.                          *)
LEMMA SetsGrowNext ==
  ASSUME DTypes, SetsGrow, [PortalNext]_allVars
  PROVE  SetsGrow'
<1>1. CASE QuietStep
  BY <1>1 DEF QuietStep, SetsGrow, SetAt
<1>2. CASE SentStep
  <2>1. PICK c \in Order : /\ cmds' = Append(cmds, c)
                           /\ c.k = "set" => c.sel = nSel + 1
    BY <1>2 DEF SentStep
  <2>2. PICK n \in Nat : /\ DOMAIN cmds = 1..n /\ DOMAIN cmds' = 1..(n + 1)
                         /\ \A i \in 1..n : cmds'[i] = cmds[i]
                         /\ cmds'[n + 1] = c
    BY <2>1, Sent DEF DTypes
  <2>3. \A i \in 1..n : cmds[i].k = "set" => cmds[i].sel \in Int /\ cmds[i].sel <= nSel
    <3>1. \A i \in 1..n : cmds[i] \in Order
      BY <2>2, ElementOfSeq, LenProperties DEF DTypes
    <3>2. \A i \in 1..n : cmds[i].k = "set" => cmds[i].sel \in Int
      BY <3>1 DEF Order, Own
    <3>3. \A i \in 1..n : cmds[i].k = "set" => cmds[i].sel <= nSel
      BY <2>2 DEF DTypes, Made
    <3>4. QED
      BY <3>2, <3>3
  <2>4. nSel \in Int
    BY DEF DTypes, TypeOK
  <2>5. ASSUME NEW i \in 1..(n + 1), NEW j \in 1..(n + 1), SetAt(i)', SetAt(j)', i < j
        PROVE  cmds'[i].sel < cmds'[j].sel
    <3>1. i \in 1..n
      BY <2>5
    <3>2. CASE j \in 1..n
      BY <2>2, <2>5, <3>1, <3>2 DEF SetsGrow, SetAt
    <3>3. CASE j = n + 1
      <4>1. cmds'[j].sel = nSel + 1 /\ cmds'[i].sel <= nSel /\ cmds'[i].sel \in Int
        BY <2>1, <2>2, <2>3, <2>5, <3>1, <3>3 DEF SetAt
      <4>2. QED
        BY <2>4, <4>1
    <3>4. QED
      BY <3>2, <3>3
  <2>6. QED
    BY <2>2, <2>5 DEF SetsGrow
<1>3. CASE TakenStep
  <2>1. \A i \in DOMAIN cmds' : i \in Int /\ i + 1 \in DOMAIN cmds /\ cmds'[i] = cmds[i + 1]
    BY <1>3, CommandTaken DEF TakenStep
  <2>2. \A i, j \in DOMAIN cmds' : i < j => i + 1 < j + 1
    BY <2>1
  <2>3. QED
    BY <2>1, <2>2 DEF SetsGrow, SetAt
<1>4. CASE StopStep
  BY <1>4 DEF StopStep, SetsGrow
<1>5. QED
  BY <1>1, <1>2, <1>3, <1>4, QueueMoves

(* Own selections and others' are told apart.                            *)
LEMMA OwnOrForeign == Own \cap Foreign = {} /\ None \notin Own /\ None \notin Foreign
BY DataControlAssumption DEF Own, Foreign

(* The events after a step: those that were there, and new ones.         *)
LEMMA WireAfter ==
  ASSUME DTypes, NEW t \in Seq(Event), wire' = wire \o t
  PROVE  \E n \in Nat : \E k \in Nat :
           /\ n = Len(wire) /\ k = Len(t)
           /\ DOMAIN wire = 1..n /\ DOMAIN wire' = 1..(n + k) /\ DOMAIN t = 1..k
           /\ \A i \in 1..n : wire'[i] = wire[i]
           /\ \A i \in 1..k : wire'[n + i] = t[i]
           /\ \A i \in 1..(n + k) : i \in 1..n \/ \E j \in 1..k : i = n + j
<1>1. /\ Len(wire) \in Nat /\ DOMAIN wire = 1..Len(wire)
      /\ Len(t) \in Nat /\ DOMAIN t = 1..Len(t)
      /\ DOMAIN wire' = 1..(Len(wire) + Len(t))
      /\ \A i \in 1..Len(wire) : wire'[i] = wire[i]
      /\ \A i \in 1..Len(t) : wire'[Len(wire) + i] = t[i]
  BY SentTogether DEF DTypes
<1>2. ASSUME NEW n \in Nat, NEW k \in Nat, NEW i \in 1..(n + k), i \notin 1..n
      PROVE  \E j \in 1..k : i = n + j
  <2>1. i - n \in 1..k /\ i = n + (i - n)
    BY <1>2
  <2>2. QED
    BY <2>1
<1> WITNESS Len(wire) \in Nat
<1> WITNESS Len(t) \in Nat
<1>3. QED
  BY <1>1, <1>2

(* The compositor's selection and the client's source.                   *)
LEMMA SourceNext ==
  ASSUME DTypes, SourceNeedsDevice, OldOnes, SourceIsSelection, [PortalNext]_allVars
  PROVE  SourceIsSelection'
<1>1. CASE AddsStep
  <2>1. PICK t \in Seq(Event) : wire' = wire \o t
    BY <1>1 DEF AddsStep
  <2>2. \A i \in DOMAIN wire : i \in DOMAIN wire' /\ wire'[i] = wire[i]
    BY <2>1, WireAfter
  <2>3. QED
    BY <1>1, <2>2 DEF AddsStep, SourceIsSelection, CancelAt
<1>2. CASE ChangeStep
  <2>1. PICK new \in Selection \cup {None} : sel' = new /\ Deliver(new)
    BY <1>2 DEF ChangeStep
  <2>2. PICK t \in ChangeEvents(new) : wire' = wire \o t
    BY <2>1 DEF Deliver
  <2>3. sel \in Selection \cup {None}
    BY DEF DTypes, TypeOK
  <2>4. /\ t \in Seq(Event)
        /\ sel \in Own => \E i \in 1..Len(t) : t[i].k = "cancelled" /\ t[i].id = sel
    BY <2>2, <2>3, ChangeReported
  <2>5. /\ \A i \in DOMAIN wire : i \in DOMAIN wire' /\ wire'[i] = wire[i]
        /\ sel \in Own => \E i \in DOMAIN wire' : wire'[i].k = "cancelled" /\ wire'[i].id = sel
    <3>1. PICK n \in Nat, k \in Nat :
             /\ k = Len(t) /\ DOMAIN wire = 1..n /\ DOMAIN wire' = 1..(n + k)
             /\ \A i \in 1..n : wire'[i] = wire[i]
             /\ \A i \in 1..k : wire'[n + i] = t[i]
      BY <2>2, <2>4, WireAfter
    <3>2. \A i \in 1..k : n + i \in DOMAIN wire'
      BY <3>1
    <3>3. \A i \in 1..n : i \in 1..(n + k)
      BY <3>1
    <3>4. sel \in Own => \E i \in DOMAIN wire' : wire'[i].k = "cancelled" /\ wire'[i].id = sel
      <4> SUFFICES ASSUME sel \in Own
                   PROVE  \E i \in DOMAIN wire' : wire'[i].k = "cancelled" /\ wire'[i].id = sel
        OBVIOUS
      <4>1. PICK i \in 1..k : t[i].k = "cancelled" /\ t[i].id = sel
        BY <2>4, <3>1
      <4>2. n + i \in DOMAIN wire' /\ wire'[n + i] = t[i]
        BY <3>1, <3>2
      <4>3. QED
        BY <4>1, <4>2
    <3>5. QED
      BY <3>1, <3>3, <3>4
  <2>6. CASE sel' \in Foreign /\ UNCHANGED <<source, own_live>>
    <3>1. source \in Own \cup {None}
      BY DEF DTypes, TypeOK
    <3>2. source # None => \E i \in DOMAIN wire' : CancelAt(i)'
      <4>1. CASE sel \in Own
        BY <2>5, <2>6, <4>1 DEF SourceIsSelection, CancelAt
      <4>2. CASE sel \notin Own
        BY <2>5, <2>6, <3>1, <4>2 DEF SourceIsSelection, CancelAt
      <4>3. QED
        BY <4>1, <4>2
    <3>3. running' = running
      BY <1>2 DEF ChangeStep
    <3>4. QED
      BY <2>6, <3>2, <3>3, OwnOrForeign DEF SourceIsSelection
  <2>7. CASE sel' \in Own /\ source' = sel' /\ own_live' = TRUE
    BY <2>7, OwnOrForeign DEF SourceIsSelection
  <2>8. CASE sel' = None /\ source' = None /\ own_live' = FALSE
    BY <2>8, OwnOrForeign DEF SourceIsSelection
  <2>9. QED
    BY <1>2, <2>6, <2>7, <2>8 DEF ChangeStep
<1>3. CASE ReadStep
  <2>1. /\ 1 \in DOMAIN wire /\ Head(wire) = wire[1]
        /\ \A i \in DOMAIN wire : i = 1 \/ (i - 1 \in DOMAIN wire' /\ wire'[i - 1] = wire[i])
    BY <1>3, EventRead DEF ReadStep
  <2>2. CASE source' = None /\ own_live' = FALSE /\ sel' \notin Own
    BY <2>2 DEF SourceIsSelection
  <2>3. CASE UNCHANGED <<sel, source, own_live>> /\ ~CancelAt(1)
    <3>1. source # None /\ sel # source => \E i \in DOMAIN wire : CancelAt(i) /\ i # 1
      BY <2>3 DEF SourceIsSelection
    <3>2. source' # None /\ sel' # source' => \E i \in DOMAIN wire' : CancelAt(i)'
      BY <2>1, <2>3, <3>1 DEF CancelAt
    <3>3. QED
      BY <1>3, <2>3, <3>2 DEF SourceIsSelection, ReadStep
  <2>4. CASE Head(wire).k = "finished"
    <3>1. sel' \notin Own
      BY <1>3, <2>4, OwnOrForeign DEF ReadStep, SourceIsSelection
    <3>2. QED
      BY <1>3, <2>2, <2>4, <3>1 DEF ReadStep
  <2>5. CASE CancelAt(1) /\ Head(wire).k # "finished"
    <3>1. sel # source
      BY <2>1, <2>5 DEF OldOnes, CancelAt
    <3>2. sel' \notin Own /\ source' = None /\ own_live' = FALSE
      BY <1>3, <2>1, <2>5, <3>1 DEF ReadStep, SourceIsSelection, CancelAt
    <3>3. QED
      BY <2>2, <3>2
  <2>6. CASE ~CancelAt(1) /\ Head(wire).k # "finished"
    BY <1>3, <2>1, <2>3, <2>6 DEF ReadStep, CancelAt
  <2>7. QED
    BY <2>4, <2>5, <2>6
<1>4. CASE EndStep
  BY <1>4 DEF EndStep, SourceIsSelection
<1>5. QED
  BY <1>1, <1>2, <1>3, <1>4, WireMoves

(* A selection that was cancelled, or replaced, is not set again.        *)
LEMMA OldOnesNext ==
  ASSUME DTypes, DTypes', SourceNeedsDevice, OldOnes, SourceIsSelection, SourceIsSelection',
         [PortalNext]_allVars
  PROVE  OldOnes'
<1>1. SetsGrow'
  BY SetsGrowNext DEF OldOnes
<1>2. nSel \in Int /\ nSel' \in Int /\ nSel <= nSel'
  <2>1. nSel \in Int /\ nSel' \in Int
    BY DEF DTypes, TypeOK
  <2>2. nSel' = nSel \/ nSel' = nSel + 1
    BY QueueMoves DEF QuietStep, SentStep, TakenStep, StopStep
  <2>3. QED
    BY <2>1, <2>2
<1>3. source \in Own => source \in Int /\ source <= nSel /\ Newer(source)
  BY OwnOrForeign DEF DTypes, Made, Own, OldOnes
<1>4. ASSUME NEW x, x = source', source' # None
      PROVE  Newer(x)'
  <2>1. CASE source' = source
    <3>1. source \in Own
      BY <1>4, <2>1 DEF DTypes, TypeOK
    <3>2. x \in Int /\ x <= nSel /\ Newer(x)
      BY <1>3, <1>4, <2>1, <3>1
    <3>3. QED
      BY <3>2, NewerKept
  <2>2. CASE source' # source
    <3>1. cmds # <<>> /\ cmds' = Tail(cmds) /\ Head(cmds).k = "set" /\ source' = Head(cmds).sel
      BY <1>4, <2>2, QueueMoves DEF QuietStep, SentStep, TakenStep, StopStep
    <3>2. QED
      BY <1>4, <3>1, NewerThanHead DEF OldOnes
  <2>3. QED
    BY <2>1, <2>2
<1>5. ASSUME NEW x, x = sel', sel' \in Own
      PROVE  Newer(x)'
  <2>1. x = source' /\ source' # None
    BY <1>5, OwnOrForeign DEF SourceIsSelection
  <2>2. QED
    BY <1>4, <2>1
<1>6. ASSUME NEW x \in Own, Newer(x), x <= nSel,
             \/ sel' # sel \/ x # sel
      PROVE  Newer(x)' /\ x # sel' /\ x <= nSel'
  <2>1. x \in Int
    BY DEF Own
  <2>2. Newer(x)' /\ x <= nSel'
    BY <1>2, <1>6, <2>1, NewerKept
  <2>3. x # sel'
    <3>1. CASE sel' = sel
      BY <1>6, <3>1
    <3>2. CASE sel' \in Foreign \cup {None}
      BY <3>2, OwnOrForeign
    <3>3. CASE cmds # <<>> /\ Head(cmds).k = "set" /\ Head(cmds).sel = sel' /\ sel' \in Own
      <4>1. 1 \in DOMAIN cmds /\ Head(cmds) = cmds[1]
        BY <3>3, Received DEF DTypes
      <4>2. Head(cmds).sel > x /\ Head(cmds).sel \in Int
        BY <1>6, <3>3, <4>1 DEF Newer, SetAt, Own
      <4>3. QED
        BY <2>1, <3>3, <4>2
    <3>4. CASE sel' \notin Own
      BY <3>4
    <3>5. QED
      BY <3>1, <3>2, <3>3, <3>4, WireMoves DEF AddsStep, ChangeStep, ReadStep, EndStep
  <2>4. QED
    BY <2>2, <2>3
<1>7. \A i \in DOMAIN wire : wire[i].k = "cancelled" =>
        wire[i].id \in Own /\ Newer(wire[i].id) /\ wire[i].id # sel /\ wire[i].id <= nSel
  <2>1. \A i \in DOMAIN wire : wire[i] \in Event
    BY ElementOfSeq, LenProperties DEF DTypes
  <2>2. QED
    BY <2>1 DEF OldOnes, Event
<1>8. ASSUME NEW i \in DOMAIN wire', wire'[i].k = "cancelled"
      PROVE  \E x \in Own : x = wire'[i].id /\ Newer(x)' /\ x # sel' /\ x <= nSel'
  <2>1. ASSUME NEW j \in DOMAIN wire, wire'[i] = wire[j]
        PROVE  \E x \in Own : x = wire'[i].id /\ Newer(x)' /\ x # sel' /\ x <= nSel'
    <3>1. PICK x \in Own : x = wire[j].id
      BY <1>7, <1>8, <2>1
    <3>2. Newer(x) /\ x # sel /\ x <= nSel
      BY <1>7, <1>8, <2>1, <3>1
    <3>3. QED
      BY <1>6, <2>1, <3>1, <3>2
  <2>2. CASE AddsStep
    <3>1. PICK t \in Seq(Event) : /\ wire' = wire \o t
                                  /\ \A k \in 1..Len(t) : t[k].k # "cancelled"
      BY <2>2 DEF AddsStep
    <3>2. \E j \in DOMAIN wire : wire'[i] = wire[j]
      BY <1>8, <3>1, WireAfter
    <3>3. QED
      BY <2>1, <3>2
  <2>3. CASE ChangeStep
    <3>1. PICK new \in Selection \cup {None} : sel' = new /\ Deliver(new)
      BY <2>3 DEF ChangeStep
    <3>2. PICK t \in ChangeEvents(new) : wire' = wire \o t
      BY <3>1 DEF Deliver
    <3>3. sel \in Selection \cup {None}
      BY DEF DTypes, TypeOK
    <3>4. /\ t \in Seq(Event)
          /\ \A k \in 1..Len(t) : t[k].k = "cancelled" => t[k].id = sel /\ sel \in Own
      BY <3>2, <3>3, ChangeReported
    <3>5. (\E j \in DOMAIN wire : wire'[i] = wire[j]) \/ (wire'[i].id = sel /\ sel \in Own)
      BY <1>8, <3>2, <3>4, WireAfter
    <3>6. CASE wire'[i].id = sel /\ sel \in Own
      <4>1. PICK x \in Own : x = sel
        BY <3>6
      <4>2. Newer(x) /\ x <= nSel
        BY <1>3, <4>1 DEF OldOnes, SourceIsSelection
      <4>3. sel' # sel
        <5>1. CASE sel' \in Foreign \cup {None}
          BY <3>6, <5>1, OwnOrForeign
        <5>2. CASE cmds # <<>> /\ Head(cmds).k = "set" /\ Head(cmds).sel = sel' /\ sel' \in Own
          <6>1. 1 \in DOMAIN cmds /\ Head(cmds) = cmds[1]
            BY <5>2, Received DEF DTypes
          <6>2. Head(cmds).sel > x /\ Head(cmds).sel \in Int /\ x \in Int
            BY <4>1, <4>2, <5>2, <6>1 DEF Newer, SetAt, Own
          <6>3. QED
            BY <4>1, <5>2, <6>2
        <5>3. QED
          BY <2>3, <5>1, <5>2 DEF ChangeStep
      <4>4. QED
        BY <1>6, <3>6, <4>1, <4>2, <4>3
    <3>7. QED
      BY <2>1, <3>5, <3>6
  <2>4. CASE ReadStep
    <3>1. \E j \in DOMAIN wire : wire'[i] = wire[j]
      <4>1. i + 1 \in DOMAIN wire /\ wire'[i] = wire[i + 1]
        BY <2>4, EventRead DEF ReadStep
      <4>2. QED
        BY <4>1
    <3>2. QED
      BY <2>1, <3>1
  <2>5. CASE EndStep
    BY <2>5 DEF EndStep
  <2>6. QED
    BY <2>2, <2>3, <2>4, <2>5, WireMoves
<1>9. QED
  <2>1. \A x : x = source' /\ source' # None => Newer(x)'
    BY <1>4
  <2>2. \A x : x = sel' /\ sel' \in Own => Newer(x)'
    BY <1>5
  <2>3. QED
    BY <1>1, <1>8, <2>1, <2>2 DEF OldOnes, Newer

(* A worker that listens did so before.                                  *)
LEMMA ListenedBefore ==
  ASSUME DTypes, SourceNeedsDevice, [PortalNext]_allVars, Listening'
  PROVE  Listening
<1>1. CASE AddsStep
  <2>1. PICK t \in Seq(Event) : wire' = wire \o t
    BY <1>1 DEF AddsStep
  <2>2. \A i \in DOMAIN wire : i \in DOMAIN wire' /\ wire'[i] = wire[i]
    BY <2>1, WireAfter
  <2>3. QED
    BY <1>1, <2>2 DEF AddsStep, Listening, Reporting
<1>2. CASE ChangeStep
  <2>1. PICK new \in Selection \cup {None} : sel' = new /\ Deliver(new)
    BY <1>2 DEF ChangeStep
  <2>2. PICK t \in ChangeEvents(new) : wire' = wire \o t
    BY <2>1 DEF Deliver
  <2>3. t \in Seq(Event)
    BY <2>2, ChangeReported DEF DTypes, TypeOK
  <2>4. \A i \in DOMAIN wire : i \in DOMAIN wire' /\ wire'[i] = wire[i]
    BY <2>2, <2>3, WireAfter
  <2>5. QED
    BY <1>2, <2>4 DEF ChangeStep, Listening, Reporting
<1>3. CASE ReadStep
  <2>1. /\ 1 \in DOMAIN wire /\ Head(wire) = wire[1]
        /\ \A i \in DOMAIN wire : i = 1 \/ (i - 1 \in DOMAIN wire' /\ wire'[i - 1] = wire[i])
    BY <1>3, EventRead DEF ReadStep
  <2>2. QED
    BY <1>3, <2>1 DEF ReadStep, Listening, Reporting
<1>4. CASE EndStep
  BY <1>4 DEF EndStep, Listening
<1>5. QED
  BY <1>1, <1>2, <1>3, <1>4, WireMoves

(* A selection is reported after its offer.                              *)
LEMMA OffersNext ==
  ASSUME DTypes, SourceNeedsDevice, OffersFirst, [PortalNext]_allVars
  PROVE  OffersFirst'
<1> SUFFICES ASSUME Listening', NEW i \in DOMAIN wire', wire'[i].k = "selection"
             PROVE  IF i = 1 THEN pending' = wire'[i].id
                    ELSE wire'[i - 1].k = "offer" /\ wire'[i - 1].id = wire'[i].id
  BY DEF OffersFirst
<1>1. Listening
  BY ListenedBefore
<1>2. ASSUME NEW t \in Seq(Event), wire' = wire \o t, pending' = pending,
             \A j \in 1..Len(t) : t[j].k = "selection" =>
               j > 1 /\ j - 1 \in 1..Len(t) /\ t[j - 1].k = "offer" /\ t[j - 1].id = t[j].id
      PROVE  IF i = 1 THEN pending' = wire'[i].id
             ELSE wire'[i - 1].k = "offer" /\ wire'[i - 1].id = wire'[i].id
  <2>1. PICK n \in Nat, k \in Nat :
           /\ n = Len(wire) /\ k = Len(t)
           /\ DOMAIN wire = 1..n /\ DOMAIN wire' = 1..(n + k) /\ DOMAIN t = 1..k
           /\ \A j \in 1..n : wire'[j] = wire[j]
           /\ \A j \in 1..k : wire'[n + j] = t[j]
           /\ \A m \in 1..(n + k) : m \in 1..n \/ \E j \in 1..k : m = n + j
    BY <1>2, WireAfter
  <2>2. CASE i \in 1..n
    <3>1. i # 1 => i - 1 \in 1..n
      BY <2>2
    <3>2. QED
      BY <1>1, <1>2, <2>1, <2>2, <3>1 DEF OffersFirst
  <2>3. ASSUME NEW j \in 1..k, i = n + j
        PROVE  i # 1 /\ wire'[i - 1].k = "offer" /\ wire'[i - 1].id = wire'[i].id
    <3>1. t[j].k = "selection"
      BY <2>1, <2>3
    <3>2. j > 1 /\ j - 1 \in 1..k /\ t[j - 1].k = "offer" /\ t[j - 1].id = t[j].id
      BY <1>2, <2>1, <3>1
    <3>3. i - 1 = n + (j - 1) /\ i # 1
      <4>1. n \in Nat /\ j \in Nat /\ j > 1
        BY <3>2
      <4>2. QED
        BY <2>3, <4>1
    <3>4. wire'[i - 1] = t[j - 1] /\ wire'[i] = t[j]
      BY <2>1, <2>3, <3>2, <3>3
    <3>5. QED
      BY <3>2, <3>3, <3>4
  <2>4. QED
    BY <2>1, <2>2, <2>3
<1>3. CASE AddsStep
  <2>1. PICK t \in Seq(Event) : /\ wire' = wire \o t
                                /\ \A j \in 1..Len(t) : t[j].k \notin ReportKinds
    BY <1>3 DEF AddsStep
  <2>2. \A j \in 1..Len(t) : t[j].k # "selection"
    BY <2>1 DEF ReportKinds
  <2>3. pending' = pending
    BY <1>3 DEF AddsStep, Heard
  <2>4. QED
    BY <1>2, <2>1, <2>2, <2>3
<1>4. CASE ChangeStep
  <2>1. PICK new \in Selection \cup {None} : sel' = new /\ Deliver(new)
    BY <1>4 DEF ChangeStep
  <2>2. PICK t \in ChangeEvents(new) : wire' = wire \o t
    BY <2>1 DEF Deliver
  <2>3. sel \in Selection \cup {None}
    BY DEF DTypes, TypeOK
  <2>4. /\ t \in Seq(Event)
        /\ \A j \in 1..Len(t) :
             /\ t[j].k \in ReportKinds => t[j].id = new
             /\ t[j].k = "selection" =>
                  j > 1 /\ j - 1 \in 1..Len(t) /\ t[j - 1].k = "offer" /\ t[j - 1].id = new
    BY <2>2, <2>3, ChangeReported
  <2>5. \A j \in 1..Len(t) : t[j].k = "selection" => t[j].id = new
    BY <2>4 DEF ReportKinds
  <2>6. pending' = pending
    BY <1>4 DEF ChangeStep, Heard
  <2>7. QED
    BY <1>2, <2>2, <2>4, <2>5, <2>6
<1>5. CASE ReadStep
  <2>1. /\ Head(wire) = wire[1] /\ Len(wire) \in Nat
        /\ DOMAIN wire = 1..Len(wire) /\ DOMAIN wire' = 1..(Len(wire) - 1)
        /\ \A j \in 1..(Len(wire) - 1) : wire'[j] = wire[j + 1]
    BY <1>5, EventRead DEF ReadStep
  <2>2. /\ i + 1 \in DOMAIN wire /\ wire'[i] = wire[i + 1] /\ i + 1 # 1 /\ (i + 1) - 1 = i
        /\ i # 1 => i - 1 \in DOMAIN wire' /\ (i - 1) + 1 = i
    BY <2>1
  <2>3. wire[i].k = "offer" /\ wire[i].id = wire'[i].id
    <3>1. /\ wire[(i + 1) - 1].k = "offer" /\ wire[(i + 1) - 1].id = wire[i + 1].id
      BY <1>1, <2>2 DEF OffersFirst
    <3>2. QED
      BY <2>2, <3>1
  <2>4. CASE i = 1
    <3>1. Head(wire).k = "offer" /\ Head(wire).id = wire'[i].id
      BY <2>1, <2>3, <2>4
    <3>2. QED
      BY <1>5, <2>4, <3>1 DEF ReadStep
  <2>5. CASE i # 1
    <3>1. wire'[i - 1] = wire[i]
      BY <2>1, <2>2, <2>5
    <3>2. QED
      BY <2>3, <2>5, <3>1
  <2>6. QED
    BY <2>4, <2>5
<1>6. CASE EndStep
  BY <1>6 DEF EndStep
<1>7. QED
  BY <1>3, <1>4, <1>5, <1>6, WireMoves

(* The last report is of the selection there is, and without one the     *)
(* current offer is.                                                     *)
LEMMA ReportedNext ==
  ASSUME DTypes, SourceNeedsDevice, OffersFirst, Reported, [PortalNext]_allVars
  PROVE  Reported'
<1> SUFFICES ASSUME Listening'
             PROVE  /\ \A i \in DOMAIN wire' : LastReport(i)' => wire'[i].id = sel'
                    /\ (\A i \in DOMAIN wire' : ~ReportAt(i)') => current' = sel'
  BY DEF Reported
<1>1. Listening
  BY ListenedBefore
<1>2. CASE AddsStep
  <2>1. PICK t \in Seq(Event) : /\ wire' = wire \o t
                                /\ \A j \in 1..Len(t) : t[j].k \notin ReportKinds
    BY <1>2 DEF AddsStep
  <2>2. PICK n \in Nat, k \in Nat :
           /\ n = Len(wire) /\ k = Len(t)
           /\ DOMAIN wire = 1..n /\ DOMAIN wire' = 1..(n + k) /\ DOMAIN t = 1..k
           /\ \A j \in 1..n : wire'[j] = wire[j]
           /\ \A j \in 1..k : wire'[n + j] = t[j]
           /\ \A m \in 1..(n + k) : m \in 1..n \/ \E j \in 1..k : m = n + j
    BY <2>1, WireAfter
  <2>3. /\ \A i \in DOMAIN wire' : ReportAt(i)' => i \in DOMAIN wire /\ ReportAt(i)
        /\ \A i \in DOMAIN wire : i \in DOMAIN wire' /\ wire'[i] = wire[i]
        /\ \A i \in DOMAIN wire : ReportAt(i) => ReportAt(i)'
    <3>1. \A i \in 1..n : i \in 1..(n + k)
      BY <2>2
    <3>2. \A j \in 1..k : t[j].k \notin {"selection", "null"}
      BY <2>1, <2>2 DEF ReportKinds
    <3>3. QED
      BY <2>2, <3>1, <3>2 DEF ReportAt
  <2>4. current' = current /\ sel' = sel
    BY <1>2 DEF AddsStep, Heard
  <2>5. ASSUME NEW i \in DOMAIN wire', LastReport(i)'
        PROVE  wire'[i].id = sel'
    <3>1. i \in DOMAIN wire /\ ReportAt(i) /\ \A j \in DOMAIN wire : j > i => ~ReportAt(j)
      BY <2>3, <2>5 DEF LastReport
    <3>2. QED
      BY <1>1, <2>3, <2>4, <3>1 DEF Reported, LastReport
  <2>6. QED
    BY <1>1, <2>3, <2>4, <2>5 DEF Reported
<1>3. CASE ChangeStep
  <2>1. PICK new \in Selection \cup {None} : sel' = new /\ Deliver(new)
    BY <1>3 DEF ChangeStep
  <2>2. PICK t \in ChangeEvents(new) : wire' = wire \o t
    BY <2>1 DEF Deliver
  <2>3. sel \in Selection \cup {None} /\ Reporting
    BY <1>1 DEF DTypes, TypeOK, Listening
  <2>4. /\ t \in Seq(Event)
        /\ \A j \in 1..Len(t) : t[j].k \in ReportKinds => t[j].id = new
        /\ \E j \in 1..Len(t) : t[j].k \in ReportKinds
    BY <2>2, <2>3, ChangeReported
  <2>5. PICK n \in Nat, k \in Nat :
           /\ n = Len(wire) /\ k = Len(t)
           /\ DOMAIN wire = 1..n /\ DOMAIN wire' = 1..(n + k) /\ DOMAIN t = 1..k
           /\ \A j \in 1..n : wire'[j] = wire[j]
           /\ \A j \in 1..k : wire'[n + j] = t[j]
           /\ \A m \in 1..(n + k) : m \in 1..n \/ \E j \in 1..k : m = n + j
    BY <2>2, <2>4, WireAfter
  <2>6. PICK j \in 1..k : t[j].k \in ReportKinds
    BY <2>4, <2>5
  <2>7. n + j \in DOMAIN wire' /\ ReportAt(n + j)'
    <3>1. n + j \in 1..(n + k)
      OBVIOUS
    <3>2. QED
      BY <2>5, <2>6, <3>1 DEF ReportAt, ReportKinds
  <2>8. ASSUME NEW i \in DOMAIN wire', LastReport(i)'
        PROVE  wire'[i].id = sel'
    <3>1. ~(n + j > i) /\ ReportAt(i)'
      BY <2>7, <2>8 DEF LastReport
    <3>2. i \in 1..(n + k) /\ i \notin 1..n
      BY <2>5, <3>1
    <3>3. PICK h \in 1..k : i = n + h
      BY <2>5, <3>2
    <3>4. wire'[i] = t[h] /\ t[h].k \in ReportKinds
      BY <2>5, <3>1, <3>3 DEF ReportAt, ReportKinds
    <3>5. QED
      BY <2>1, <2>4, <2>5, <3>4
  <2>9. QED
    BY <2>7, <2>8
<1>4. CASE ReadStep
  <2>1. PICK n \in Nat \ {0} :
           /\ Head(wire) = wire[1] /\ DOMAIN wire = 1..n /\ DOMAIN wire' = 1..(n - 1)
           /\ \A j \in 1..(n - 1) : wire'[j] = wire[j + 1]
    <3>1. /\ Len(wire) \in Nat \ {0} /\ Head(wire) = wire[1] /\ DOMAIN wire = 1..Len(wire)
          /\ DOMAIN wire' = 1..(Len(wire) - 1)
          /\ \A j \in 1..(Len(wire) - 1) : wire'[j] = wire[j + 1]
      BY <1>4, EventRead DEF ReadStep
    <3>2. QED
      BY <3>1
  <2>2. /\ \A i \in 1..(n - 1) : i + 1 \in 1..n /\ (ReportAt(i)' <=> ReportAt(i + 1))
        /\ \A i \in 1..n : i = 1 \/ (i - 1 \in 1..(n - 1) /\ (i - 1) + 1 = i)
        /\ \A i, j \in 1..(n - 1) : j > i <=> j + 1 > i + 1
    BY <2>1 DEF ReportAt
  <2>3. Head(wire).k # "finished" /\ sel' = sel
    <3>1. 1 \in DOMAIN wire
      BY <2>1
    <3>2. QED
      BY <1>1, <1>4, <2>1, <3>1 DEF ReadStep, Listening, Reporting
  <2>4. ASSUME NEW i \in DOMAIN wire', LastReport(i)'
        PROVE  wire'[i].id = sel'
    <3>1. i \in 1..(n - 1) /\ i + 1 \in 1..n /\ ReportAt(i + 1)
      BY <2>1, <2>2, <2>4 DEF LastReport
    <3>2. ASSUME NEW j \in 1..n, j > i + 1
          PROVE  ~ReportAt(j)
      <4>1. j - 1 \in 1..(n - 1) /\ (j - 1) + 1 = j /\ j - 1 > i
        BY <3>1, <3>2
      <4>2. ~ReportAt(j - 1)'
        BY <2>1, <2>4, <4>1 DEF LastReport
      <4>3. QED
        BY <2>2, <4>1, <4>2
    <3>3. wire[i + 1].id = sel
      BY <1>1, <2>1, <3>1, <3>2 DEF Reported, LastReport
    <3>4. QED
      BY <2>1, <2>3, <3>1, <3>3
  <2>5. ASSUME \A i \in DOMAIN wire' : ~ReportAt(i)'
        PROVE  current' = sel'
    <3>1. ASSUME NEW i \in DOMAIN wire, i # 1
          PROVE  ~ReportAt(i)
      <4>1. i - 1 \in 1..(n - 1) /\ (i - 1) + 1 = i
        BY <2>1, <3>1
      <4>2. ~ReportAt(i - 1)'
        BY <2>1, <2>5, <4>1
      <4>3. QED
        BY <2>2, <4>1, <4>2
    <3>2. 1 \in DOMAIN wire /\ \A j \in DOMAIN wire : j > 1 => j # 1
      BY <2>1
    <3>3. CASE ReportAt(1)
      <4>1. wire[1].id = sel
        BY <1>1, <3>1, <3>2, <3>3 DEF Reported, LastReport
      <4>2. CASE wire[1].k = "selection"
        BY <1>1, <1>4, <2>1, <2>3, <3>2, <4>1, <4>2 DEF ReadStep, OffersFirst
      <4>3. CASE wire[1].k = "null"
        <5>1. wire[1] \in Event
          BY <1>4, <2>1, EventRead DEF ReadStep
        <5>2. wire[1].id = None
          BY <4>3, <5>1 DEF Event
        <5>3. QED
          BY <1>4, <2>1, <2>3, <4>1, <4>3, <5>2 DEF ReadStep
      <4>4. QED
        BY <3>3, <4>2, <4>3 DEF ReportAt
    <3>4. CASE ~ReportAt(1)
      <4>1. current = sel
        BY <1>1, <3>1, <3>4 DEF Reported
      <4>2. QED
        BY <1>4, <2>1, <2>3, <3>4, <4>1 DEF ReadStep, ReportAt
    <3>5. QED
      BY <3>3, <3>4
  <2>6. QED
    BY <2>4, <2>5
<1>5. CASE EndStep
  BY <1>5 DEF EndStep, Listening
<1>6. QED
  BY <1>2, <1>3, <1>4, <1>5, WireMoves

(* There is no selection at first.                                       *)
LEMMA AgreesFirst ==
  ASSUME PortalInit
  PROVE  AInv
<1>1. /\ wire = <<>> /\ cmds = <<>> /\ sel = None /\ source = None /\ own_live = FALSE
      /\ current = None
  BY DEF PortalInit, Init
<1>2. DOMAIN wire = {} /\ DOMAIN cmds = {}
  BY <1>1
<1>3. QED
  BY <1>1, <1>2, OwnOrForeign
     DEF AInv, OldOnes, SetsGrow, SourceIsSelection, SourceNeedsDevice, OffersFirst, Reported

(* Every step keeps what is known of the selection and its events.       *)
LEMMA AgreesNext ==
  ASSUME DTypes, DTypes', AInv, [PortalNext]_allVars
  PROVE  AInv'
<1>1. SourceNeedsDevice' /\ SourceIsSelection'
  BY DeviceNext, SourceNext DEF AInv
<1>2. OldOnes' /\ OffersFirst' /\ Reported'
  BY <1>1, OldOnesNext, OffersNext, ReportedNext DEF AInv
<1>3. QED
  BY <1>1, <1>2 DEF AInv

(* Once its events are read the worker agrees with the compositor on the *)
(* selection (AgreesWithCompositor), whatever the others do, and in      *)
(* whichever order the compositor reports and cancels.                   *)
THEOREM ClipboardAgrees == PortalSpec => []AgreesWithCompositor
<1>1. PortalInit => TInv /\ AInv
  BY TypesFirst, AgreesFirst
<1>2. TInv /\ AInv /\ [PortalNext]_allVars => (TInv /\ AInv)'
  <2> SUFFICES ASSUME TInv, AInv, [PortalNext]_allVars
               PROVE  TInv' /\ AInv'
    OBVIOUS
  <2>1. TInv' /\ DTypes /\ DTypes'
    BY TypesNext DEF TInv
  <2>2. QED
    BY <2>1, AgreesNext
<1>3. TInv /\ AInv => AgreesWithCompositor
  <2> SUFFICES ASSUME TInv, AInv, Settled
               PROVE  /\ source = (IF sel \in Own THEN sel ELSE None)
                      /\ own_live <=> source # None
                      /\ current = sel
    BY DEF AgreesWithCompositor
  <2>1. DOMAIN wire = {} /\ running /\ Listening
    BY DEF Settled, Listening, Reporting
  <2>2. source \in Own \cup {None}
    BY DEF TInv, DTypes, TypeOK
  <2>3. source = (IF sel \in Own THEN sel ELSE None)
    BY <2>1, <2>2 DEF AInv, SourceIsSelection
  <2>4. own_live <=> source # None
    BY <2>1 DEF AInv, SourceIsSelection
  <2>5. current = sel
    BY <2>1 DEF AInv, Reported
  <2>6. QED
    BY <2>3, <2>4, <2>5
<1>4. QED
  BY <1>1, <1>2, <1>3, PTL DEF PortalSpec

-----------------------------------------------------------------------------
(* Where a cancel of the source comes before a report of the foreign     *)
(* selection, it still does when the worker has read another event.      *)
LEMMA CancelledFirstNext ==
  ASSUME "selection_first" \notin Faults, DTypes, AInv, CancelledFirst, [PortalNext]_allVars
  PROVE  CancelledFirst'
<1>1. sel' = None => source' = None
  <2>1. CASE AddsStep
    BY <2>1 DEF AddsStep, CancelledFirst
  <2>2. CASE ChangeStep
    BY <2>2, OwnOrForeign DEF ChangeStep, CancelledFirst
  <2>3. CASE ReadStep
    BY <2>3 DEF ReadStep, CancelledFirst
  <2>4. CASE EndStep
    BY <2>4 DEF EndStep
  <2>5. QED
    BY <2>1, <2>2, <2>3, <2>4, WireMoves DEF AInv
<1> SUFFICES ASSUME Listening', sel' \in Foreign, source' # None
             PROVE  \E i, j \in DOMAIN wire' : i < j /\ CancelAt(i)' /\ ReportAt(j)'
  BY <1>1 DEF CancelledFirst
<1>2. Listening
  BY ListenedBefore DEF AInv
<1>3. ASSUME NEW t \in Seq(Event), wire' = wire \o t, source' = source, sel \in Foreign
      PROVE  \E i, j \in DOMAIN wire' : i < j /\ CancelAt(i)' /\ ReportAt(j)'
  <2>1. \A i \in DOMAIN wire : i \in DOMAIN wire' /\ wire'[i] = wire[i]
    BY <1>3, WireAfter
  <2>2. PICK i \in DOMAIN wire, j \in DOMAIN wire : i < j /\ CancelAt(i) /\ ReportAt(j)
    BY <1>2, <1>3 DEF CancelledFirst
  <2>3. CancelAt(i)' /\ ReportAt(j)'
    BY <1>3, <2>1, <2>2 DEF CancelAt, ReportAt
  <2>4. QED
    BY <2>1, <2>2, <2>3
<1>4. CASE AddsStep
  <2>1. PICK t \in Seq(Event) : wire' = wire \o t
    BY <1>4 DEF AddsStep
  <2>2. QED
    BY <1>3, <1>4, <2>1 DEF AddsStep
<1>5. CASE ChangeStep
  <2>1. PICK new \in Selection \cup {None} : sel' = new /\ Deliver(new)
    BY <1>5 DEF ChangeStep
  <2>2. PICK t \in ChangeEvents(new) : wire' = wire \o t
    BY <2>1 DEF Deliver
  <2>3. sel \in Selection \cup {None} /\ Reporting
    BY <1>2 DEF DTypes, TypeOK, Listening
  <2>4. t \in Seq(Event)
    BY <2>2, <2>3, ChangeReported
  <2>5. source' = source
    BY <1>5, OwnOrForeign DEF ChangeStep
  <2>6. CASE sel \in Foreign
    BY <1>3, <2>2, <2>4, <2>5, <2>6
  <2>7. CASE sel \in Own
    <3>1. source = sel
      BY <2>7 DEF AInv, SourceIsSelection
    <3>2. PICK a \in 1..Len(t), b \in 1..Len(t) :
             a < b /\ t[a].k = "cancelled" /\ t[b].k \in ReportKinds
      BY <2>2, <2>3, <2>7, ChangeReported
    <3>3. t[a].id = sel
      BY <2>2, <2>3, <3>2, ChangeReported
    <3>4. PICK n \in Nat, k \in Nat :
             /\ n = Len(wire) /\ k = Len(t)
             /\ DOMAIN wire = 1..n /\ DOMAIN wire' = 1..(n + k) /\ DOMAIN t = 1..k
             /\ \A m \in 1..n : wire'[m] = wire[m]
             /\ \A m \in 1..k : wire'[n + m] = t[m]
             /\ \A m \in 1..(n + k) : m \in 1..n \/ \E j \in 1..k : m = n + j
      BY <2>2, <2>4, WireAfter
    <3>5. a \in 1..k /\ b \in 1..k
      BY <3>2, <3>4
    <3>6. n + a \in 1..(n + k) /\ n + b \in 1..(n + k) /\ n + a < n + b
      BY <3>2, <3>5
    <3>7. wire'[n + a] = t[a] /\ wire'[n + b] = t[b]
      BY <3>4, <3>5
    <3>8. CancelAt(n + a)' /\ ReportAt(n + b)'
      BY <2>5, <3>1, <3>2, <3>3, <3>7 DEF CancelAt, ReportAt, ReportKinds
    <3>9. QED
      BY <3>4, <3>6, <3>8
  <2>8. CASE sel = None
    BY <2>5, <2>8 DEF CancelledFirst
  <2>9. QED
    BY <2>3, <2>6, <2>7, <2>8 DEF Selection
<1>6. CASE ReadStep
  <2>1. /\ Head(wire) = wire[1] /\ Len(wire) \in Nat \ {0} /\ DOMAIN wire = 1..Len(wire)
        /\ DOMAIN wire' = 1..(Len(wire) - 1)
        /\ \A m \in 1..(Len(wire) - 1) : wire'[m] = wire[m + 1]
    BY <1>6, EventRead DEF ReadStep
  <2>2. wire[1].k # "finished"
    BY <1>2, <2>1 DEF Listening, Reporting
  <2>3. sel' = sel /\ source' = source /\ ~CancelAt(1)
    BY <1>6, <2>1, <2>2 DEF ReadStep, CancelAt
  <2>4. PICK i \in DOMAIN wire, j \in DOMAIN wire : i < j /\ CancelAt(i) /\ ReportAt(j)
    BY <1>2, <2>3 DEF CancelledFirst
  <2>5. i \in 1..Len(wire) /\ j \in 1..Len(wire) /\ i # 1
    BY <2>1, <2>3, <2>4
  <2>6. /\ i - 1 \in 1..(Len(wire) - 1) /\ (i - 1) + 1 = i
        /\ j - 1 \in 1..(Len(wire) - 1) /\ (j - 1) + 1 = j /\ i - 1 < j - 1
    BY <2>1, <2>4, <2>5
  <2>7. wire'[i - 1] = wire[i] /\ wire'[j - 1] = wire[j]
    BY <2>1, <2>6
  <2>8. CancelAt(i - 1)' /\ ReportAt(j - 1)'
    BY <2>3, <2>4, <2>7 DEF CancelAt, ReportAt
  <2>9. QED
    BY <2>1, <2>6, <2>8
<1>7. CASE EndStep
  BY <1>7 DEF EndStep, Listening
<1>8. QED
  BY <1>4, <1>5, <1>6, <1>7, WireMoves DEF AInv

(* A foreign selection has been announced when its report is read.       *)
LEMMA AnnouncedNext ==
  ASSUME DTypes, AInv, CancelledFirst, Announced, [PortalNext]_allVars
  PROVE  Announced'
<1> SUFFICES ASSUME Listening', sel' \in Foreign, \A i \in DOMAIN wire' : ~ReportAt(i)'
             PROVE  told' = sel'
  BY DEF Announced
<1>1. Listening
  BY ListenedBefore DEF AInv
<1>2. CASE AddsStep
  <2>1. PICK t \in Seq(Event) : wire' = wire \o t
    BY <1>2 DEF AddsStep
  <2>2. \A i \in DOMAIN wire : i \in DOMAIN wire' /\ wire'[i] = wire[i]
    BY <2>1, WireAfter
  <2>3. \A i \in DOMAIN wire : ~ReportAt(i)
    BY <2>2 DEF ReportAt
  <2>4. QED
    BY <1>1, <1>2, <2>3 DEF AddsStep, Heard, Announced
<1>3. CASE ChangeStep
  <2>1. PICK new \in Selection \cup {None} : sel' = new /\ Deliver(new)
    BY <1>3 DEF ChangeStep
  <2>2. PICK t \in ChangeEvents(new) : wire' = wire \o t
    BY <2>1 DEF Deliver
  <2>3. sel \in Selection \cup {None} /\ Reporting
    BY <1>1 DEF DTypes, TypeOK, Listening
  <2>4. t \in Seq(Event) /\ \E b \in 1..Len(t) : t[b].k \in ReportKinds
    BY <2>2, <2>3, ChangeReported
  <2>5. PICK n \in Nat, k \in Nat :
           /\ n = Len(wire) /\ k = Len(t)
           /\ DOMAIN wire = 1..n /\ DOMAIN wire' = 1..(n + k) /\ DOMAIN t = 1..k
           /\ \A m \in 1..n : wire'[m] = wire[m]
           /\ \A m \in 1..k : wire'[n + m] = t[m]
           /\ \A m \in 1..(n + k) : m \in 1..n \/ \E j \in 1..k : m = n + j
    BY <2>2, <2>4, WireAfter
  <2>6. PICK b \in 1..k : t[b].k \in ReportKinds
    BY <2>4, <2>5
  <2>7. n + b \in 1..(n + k)
    OBVIOUS
  <2>8. n + b \in DOMAIN wire' /\ ReportAt(n + b)'
    BY <2>5, <2>6, <2>7 DEF ReportAt, ReportKinds
  <2>9. QED
    BY <2>8
<1>4. CASE ReadStep
  <2>1. /\ wire[1] \in Event /\ Head(wire) = wire[1] /\ Len(wire) \in Nat \ {0}
        /\ DOMAIN wire = 1..Len(wire) /\ DOMAIN wire' = 1..(Len(wire) - 1)
        /\ \A m \in 1..(Len(wire) - 1) : wire'[m] = wire[m + 1]
    BY <1>4, EventRead DEF ReadStep
  <2>2. wire[1].k # "finished" /\ 1 \in DOMAIN wire
    BY <1>1, <2>1 DEF Listening, Reporting
  <2>3. ASSUME NEW i \in DOMAIN wire, i # 1
        PROVE  ~ReportAt(i)
    <3>1. i - 1 \in DOMAIN wire' /\ (i - 1) + 1 = i /\ wire'[i - 1] = wire[(i - 1) + 1]
      BY <2>1, <2>3
    <3>2. ~ReportAt(i - 1)'
      BY <3>1
    <3>3. QED
      BY <3>1, <3>2 DEF ReportAt
  <2>4. sel' = sel
    BY <1>4, <2>1, <2>2 DEF ReadStep
  <2>5. CASE ~ReportAt(1)
    <3>1. told = sel
      BY <1>1, <2>3, <2>4, <2>5 DEF Announced
    <3>2. told' = told
      BY <1>4, <2>1, <2>2, <2>5 DEF ReadStep, ReportAt
    <3>3. QED
      BY <2>4, <3>1, <3>2
  <2>6. CASE ReportAt(1)
    <3>1. \A j \in DOMAIN wire : j > 1 => j # 1
      BY <2>1
    <3>2. wire[1].id = sel
      BY <1>1, <2>2, <2>3, <2>6, <3>1 DEF AInv, Reported, LastReport
    <3>3. wire[1].k = "selection"
      BY <2>1, <2>4, <2>6, <3>2, OwnOrForeign DEF ReportAt, Event
    <3>4. pending = sel
      BY <1>1, <2>2, <3>2, <3>3 DEF AInv, OffersFirst
    <3>5. source = None
      <4>1. SUFFICES ASSUME source # None
                     PROVE  FALSE
        OBVIOUS
      <4>2. PICK i \in DOMAIN wire, j \in DOMAIN wire : i < j /\ CancelAt(i) /\ ReportAt(j)
        BY <1>1, <2>4, <4>1 DEF CancelledFirst
      <4>3. j # 1
        BY <2>1, <4>2
      <4>4. QED
        BY <2>3, <4>2, <4>3
    <3>6. ~is_own_selection(pending)
      BY <3>5 DEF is_own_selection
    <3>7. pending # None
      BY <2>4, <3>4, OwnOrForeign
    <3>8. told' = pending
      BY <1>4, <2>1, <2>2, <3>3, <3>6, <3>7 DEF ReadStep
    <3>9. QED
      BY <2>4, <3>4, <3>8
  <2>7. QED
    BY <2>5, <2>6
<1>5. CASE EndStep
  BY <1>5 DEF EndStep, Listening
<1>6. QED
  BY <1>2, <1>3, <1>4, <1>5, WireMoves DEF AInv

(* The last signal is of what the worker told last, and without one the  *)
(* sessions have heard of it.                                            *)
LEMMA SessionsToldNext ==
  ASSUME TInv, SessionsTold, [PortalNext]_allVars
  PROVE  SessionsTold'
<1> SUFFICES ASSUME portal'
             PROVE  /\ signals' = <<>> => \A h \in enabled' : heard'[h] \in {told', Unheard}
                    /\ signals' # <<>> => signals'[Len(signals')] = told'
  BY DEF SessionsTold
<1>1. portal = portal'
  BY DEF PortalNext, Sessions, RequestClipboard, CloseSession, PortalSetSelection, SelectionRead,
         Direct, Worker, clipboard_signal_bridge, portalVars, allVars
<1>2. /\ signals = <<>> => \A h \in enabled : heard[h] \in {told, Unheard}
      /\ signals # <<>> => signals[Len(signals)] = told
  BY <1>1 DEF SessionsTold
<1>3. /\ signals \in Seq(Selection \cup {None}) /\ told \in Selection \cup {None}
      /\ heard \in [Session -> Selection \cup {None, Unheard}] /\ enabled \subseteq Session
  BY DEF TInv, PortalTypeOK, TypeOK
<1>4. ASSUME UNCHANGED <<told, enabled, signals, heard>>
      PROVE  SessionsTold'
  BY <1>1, <1>2, <1>4 DEF SessionsTold
<1>5. CASE UNCHANGED allVars
  BY <1>4, <1>5 DEF allVars, vars, portalVars, SessionsTold
<1>6. ASSUME NEW h \in Session, RequestClipboard(h)
      PROVE  SessionsTold'
  <2>1. UNCHANGED <<told, signals>> /\ enabled' = enabled \cup {h}
        /\ heard' = [heard EXCEPT ![h] = Unheard]
    BY <1>6 DEF RequestClipboard, vars
  <2>2. \A g \in Session : heard'[g] = IF g = h THEN Unheard ELSE heard[g]
    BY <1>3, <2>1
  <2>3. QED
    BY <1>2, <1>3, <2>1, <2>2 DEF SessionsTold
<1>7. ASSUME NEW h \in Session, CloseSession(h)
      PROVE  SessionsTold'
  <2>1. UNCHANGED <<told, signals, heard>> /\ enabled' \subseteq enabled
    BY <1>7 DEF CloseSession, vars
  <2>2. QED
    BY <1>2, <2>1 DEF SessionsTold
<1>8. ASSUME NEW h \in Session, NEW ts \in Offers, PortalSetSelection(h, ts)
      PROVE  SessionsTold'
  BY <1>4, <1>8 DEF PortalSetSelection, SetSelection, portalVars
<1>9. ASSUME NEW h \in Session, NEW p \in Paste, NEW m \in Wanted, SelectionRead(h, p, m)
      PROVE  SessionsTold'
  BY <1>4, <1>9 DEF SelectionRead
<1>10. CASE Direct
  BY <1>1, <1>10 DEF Direct
<1>11. CASE Outside /\ UNCHANGED portalVars
  <2>1. told' = told
    BY <1>11 DEF Outside, Copy, PrimaryCopy, PasteOwn, FinishDevice, Stop
  <2>2. UNCHANGED <<enabled, signals, heard>>
    BY <1>11 DEF portalVars
  <2>3. QED
    BY <1>4, <2>1, <2>2 DEF SessionsTold
<1>12. ASSUME /\ UNCHANGED <<enabled, heard>>
              /\ signals' = IF portal /\ told' # told THEN Append(signals, told') ELSE signals
       PROVE  SessionsTold'
  <2>1. CASE told' = told
    BY <1>4, <1>12, <2>1
  <2>2. CASE told' # told
    <3>1. signals' = Append(signals, told')
      BY <1>1, <1>12, <2>2
    <3>2. Len(signals') = Len(signals) + 1 /\ Len(signals) \in Nat
          /\ signals'[Len(signals) + 1] = told'
      BY <1>3, <3>1
    <3>3. signals' # <<>> /\ signals'[Len(signals')] = told'
      BY <3>1, <3>2
    <3>4. QED
      BY <3>3 DEF SessionsTold
  <2>3. QED
    BY <2>1, <2>2
<1>13. CASE Worker(WorkerEvent)
  <2>1. /\ UNCHANGED <<enabled, heard>>
        /\ signals' = IF portal /\ told' # told THEN Append(signals, told') ELSE signals
    BY <1>13 DEF Worker
  <2>2. QED
    BY <1>12, <2>1 DEF SessionsTold
<1>14. CASE Worker(WorkerCommand)
  <2>1. /\ UNCHANGED <<enabled, heard>>
        /\ signals' = IF portal /\ told' # told THEN Append(signals, told') ELSE signals
    BY <1>14 DEF Worker
  <2>2. QED
    BY <1>12, <2>1 DEF SessionsTold
<1>15. CASE clipboard_signal_bridge
  <2>1. /\ signals # <<>> /\ signals' = Tail(signals) /\ UNCHANGED <<told, enabled>>
        /\ heard' = [h \in Session |-> IF h \in enabled THEN Head(signals) ELSE heard[h]]
    BY <1>15 DEF clipboard_signal_bridge, vars
  <2>2. /\ Head(signals) = signals[1] /\ Len(signals) \in Nat \ {0}
        /\ Len(signals') = Len(signals) - 1
        /\ \A i \in 1..(Len(signals) - 1) : signals'[i] = signals[i + 1]
    BY <1>3, <2>1, Received
  <2>3. signals' = <<>> => Len(signals) = 1
    BY <2>2
  <2>4. signals' # <<>> => /\ Len(signals) - 1 \in 1..(Len(signals) - 1)
                           /\ (Len(signals) - 1) + 1 = Len(signals)
    <3>1. signals' \in Seq(Selection \cup {None})
      BY <1>3, <2>1
    <3>2. signals' # <<>> => Len(signals') # 0
      BY <3>1
    <3>3. QED
      BY <2>2, <3>2
  <2>5. signals' # <<>> => signals'[Len(signals')] = told'
    BY <1>2, <2>1, <2>2, <2>4
  <2>6. signals' = <<>> => \A h \in enabled' : heard'[h] = told'
    BY <1>2, <1>3, <2>1, <2>2, <2>3
  <2>7. QED
    BY <2>5, <2>6 DEF SessionsTold
<1>16. QED
  BY <1>5, <1>6, <1>7, <1>8, <1>9, <1>10, <1>11, <1>13, <1>14, <1>15 DEF PortalNext, Sessions, SessionsTold

(* No session is there at first.                                         *)
LEMMA OwnerFirst ==
  ASSUME PortalInit
  PROVE  FInv
<1>1. wire = <<>> /\ source = None /\ sel = None /\ signals = <<>> /\ enabled = {} /\ told = None
  BY DEF PortalInit, Init
<1>2. QED
  BY <1>1, OwnOrForeign DEF FInv, CancelledFirst, Announced, SessionsTold

(* Another client's copy is reported to the portal, and by it to its     *)
(* sessions (OwnerKnown), where the compositor cancels a source before it *)
(* reports the next selection.                                           *)
THEOREM ClipboardOwnerKnown ==
  ASSUME "selection_first" \notin Faults
  PROVE  PortalSpec => []OwnerKnown
<1>1. PortalInit => TInv /\ AInv /\ FInv
  BY TypesFirst, AgreesFirst, OwnerFirst
<1>2. TInv /\ AInv /\ FInv /\ [PortalNext]_allVars => (TInv /\ AInv /\ FInv)'
  <2> SUFFICES ASSUME TInv, AInv, FInv, [PortalNext]_allVars
               PROVE  TInv' /\ AInv' /\ FInv'
    OBVIOUS
  <2>1. TInv' /\ DTypes /\ DTypes'
    BY TypesNext DEF TInv
  <2>2. AInv'
    BY <2>1, AgreesNext
  <2>3. CancelledFirst' /\ Announced'
    BY <2>1, CancelledFirstNext, AnnouncedNext DEF FInv
  <2>4. SessionsTold'
    BY SessionsToldNext DEF FInv
  <2>5. QED
    BY <2>1, <2>2, <2>3, <2>4 DEF FInv
<1>3. TInv /\ FInv => OwnerKnown
  <2> SUFFICES ASSUME TInv, FInv, Settled, sel \in Foreign
               PROVE  /\ told = sel
                      /\ portal /\ signals = <<>> => \A h \in enabled : heard[h] \in {sel, Unheard}
    BY DEF OwnerKnown, ForeignCopyReported, SessionsKnowOwner
  <2>1. DOMAIN wire = {} /\ Listening
    BY DEF Settled, Listening, Reporting
  <2>2. told = sel
    BY <2>1 DEF FInv, Announced
  <2>3. QED
    BY <2>2 DEF FInv, SessionsTold
<1>4. QED
  BY <1>1, <1>2, <1>3, PTL DEF PortalSpec

-----------------------------------------------------------------------------
(* Choosing a type.                                                        *)

(* What is looked for first and offered is found.                          *)
LEMMA FirstFound ==
  ASSUME NEW available \in Seq(Mime), NEW requested, NEW n \in Nat,
         DOMAIN Candidates(requested) = 1..n
  PROVE  LET C == Candidates(requested)
             found == find_mime_match(requested, available)
             mimes == ToSet(available)
         IN  /\ \A i \in 1..n : mimes \cap C[i] # {} /\ (\A k \in 1..(i - 1) : mimes \cap C[k] = {})
                                   => found \in mimes \cap C[i]
             /\ (\A i \in 1..n : mimes \cap C[i] = {}) => found = NoMatch
<1> DEFINE C == Candidates(requested)
           mimes == ToSet(available)
           hits(i) == {j \in DOMAIN available : available[j] \in C[i]}
           good == {i \in DOMAIN C : hits(i) # {}}
<1>1. Len(available) \in Nat /\ DOMAIN available = 1..Len(available)
  BY LenProperties
<1>2. \A i : hits(i) = {} <=> mimes \cap C[i] = {}
  BY DEF ToSet
<1>3. find_mime_match(requested, available) = IF good = {} THEN NoMatch ELSE available[Min(hits(Min(good)))]
  BY DEF find_mime_match
<1> HIDE DEF C
<1>4. DOMAIN C = 1..n
  BY DEF C
<1>5. ASSUME NEW i \in 1..n, mimes \cap C[i] # {}, \A k \in 1..(i - 1) : mimes \cap C[k] = {}
      PROVE  find_mime_match(requested, available) \in mimes \cap C[i]
  <2>1. i \in good /\ good \subseteq 1..n /\ \A k \in 1..(i - 1) : k \notin good
    BY <1>2, <1>4, <1>5
  <2>2. \A k \in good : i <= k
    BY <2>1
  <2>3. Min(good) = i
    <3> HIDE DEF good
    <3>1. Min(good) \in good /\ \A k \in good : Min(good) <= k
      BY <2>1, <2>2 DEF Min
    <3>2. PICK m : m = Min(good)
      OBVIOUS
    <3>3. m \in 1..n /\ m <= i /\ i <= m
      BY <2>1, <2>2, <3>1, <3>2
    <3> QED BY <3>2, <3>3
  <2>4. hits(i) \subseteq Nat /\ hits(i) # {}
    BY <1>1, <1>2, <1>5
  <2>5. Min(hits(i)) \in hits(i)
    <3> DEFINE T == hits(i)
    <3> HIDE DEF T
    <3>1. T \subseteq Nat /\ T # {}
      BY <2>4 DEF T
    <3>2. \E x \in T : \A y \in T : x <= y
      BY <3>1, Least
    <3>3. Min(T) \in T
      BY <3>2 DEF Min
    <3> QED BY <3>3 DEF T
  <2>6. available[Min(hits(i))] \in mimes \cap C[i]
    BY <2>5 DEF ToSet
  <2>7. good # {}
    BY <2>1
  <2> QED BY <1>3, <2>3, <2>6, <2>7
<1>6. ASSUME \A i \in 1..n : mimes \cap C[i] = {}
      PROVE  find_mime_match(requested, available) = NoMatch
  <2>1. good = {}
    BY <1>2, <1>4, <1>6
  <2> QED BY <1>3, <2>1
<1> QED BY <1>5, <1>6 DEF C

(* What is looked for, by the kind of the request.                         *)
LEMMA LookedFor ==
  ASSUME NEW requested \in Mime
  PROVE  LET C == Candidates(requested)
             all == [base : {requested.base}, cs : Charset]
         IN  /\ requested.base \notin TextBase => DOMAIN C = 1..1 /\ C[1] = {requested}
             /\ requested.base \in TextBase /\ requested.cs # "" =>
                  DOMAIN C = 1..3 /\ C[1] = {requested} /\ C[2] = {Bare(requested)} /\ C[3] = all
             /\ requested.base \in TextBase /\ requested.cs = "" =>
                  /\ DOMAIN C = 1..4 /\ C[1] = {requested}
                  /\ C[2] = {[requested EXCEPT !.cs = "utf-8"]} /\ C[3] = {[requested EXCEPT !.cs = "UTF-8"]}
                  /\ C[4] = all
<1> DEFINE C == Candidates(requested)
           all == [base : {requested.base}, cs : Charset]
<1>1. CASE requested.base \notin TextBase
  <2>1. C = <<{requested}>>
    BY <1>1 DEF Candidates
  <2> HIDE DEF C, all
  <2>2. DOMAIN C = 1..1 /\ C[1] = {requested}
    BY <2>1
  <2> QED BY <1>1, <2>2, Zenon DEF C
<1>2. CASE requested.base \in TextBase /\ requested.cs # ""
  <2>1. C = <<{requested}, {Bare(requested)}, all>>
    BY <1>2 DEF Candidates
  <2> HIDE DEF C, all
  <2>2. DOMAIN C = 1..3 /\ C[1] = {requested} /\ C[2] = {Bare(requested)} /\ C[3] = all
    BY <2>1
  <2> QED BY <1>2, <2>2 DEF C, all
<1>3. CASE requested.base \in TextBase /\ requested.cs = ""
  <2> DEFINE u == [requested EXCEPT !.cs = "utf-8"]
             v == [requested EXCEPT !.cs = "UTF-8"]
  <2>1. C = <<{requested}, {u}, {v}, all>>
    BY <1>3 DEF Candidates
  <2> HIDE DEF C, all, u, v
  <2>2. DOMAIN C = 1..4 /\ C[1] = {requested} /\ C[2] = {u} /\ C[3] = {v} /\ C[4] = all
    BY <2>1
  <2> QED BY <1>3, <2>2 DEF C, all, u, v
<1> QED BY <1>1, <1>2, <1>3

(* Of any offers the nearest is found, for any request.                    *)
LEMMA Nearest ==
  ASSUME NEW available \in Seq(Mime)
  PROVE  NearestOf(available)
<1> SUFFICES ASSUME NEW requested \in Mime
             PROVE  LET match == find_mime_match(requested, available)
                        akin == {m \in ToSet(available) : m.base = requested.base}
                        plain == IF requested.cs = "" THEN [requested EXCEPT !.cs = "utf-8"] ELSE Bare(requested)
                    IN  IF requested \in akin THEN match = requested
                        ELSE IF requested.base \notin TextBase \/ akin = {} THEN match = NoMatch
                        ELSE IF plain \in akin THEN match = plain ELSE match \in akin
  BY DEF NearestOf
<1> DEFINE C == Candidates(requested)
           mimes == ToSet(available)
           match == find_mime_match(requested, available)
           akin == {m \in mimes : m.base = requested.base}
           all == [base : {requested.base}, cs : Charset]
           u == [requested EXCEPT !.cs = "utf-8"]
           v == [requested EXCEPT !.cs = "UTF-8"]
<1>1. mimes \subseteq Mime
  BY LenProperties DEF ToSet
<1>2. mimes \cap all = akin
  BY <1>1 DEF Mime
<1>3. u \in Mime /\ v \in Mime /\ u.base = requested.base /\ v.base = requested.base
  BY MimeAssumption DEF Mime
<1>4. Bare(requested).base = requested.base
  BY DEF Mime, Bare
<1>5. CASE requested.base \notin TextBase
  <2>1. DOMAIN C = 1..1 /\ C[1] = {requested}
    BY <1>5, LookedFor
  <2>2. /\ mimes \cap C[1] # {} => match \in mimes \cap C[1]
        /\ mimes \cap C[1] = {} => match = NoMatch
    BY <2>1, FirstFound
  <2> QED BY <1>5, <2>1, <2>2
<1>6. CASE requested.base \in TextBase /\ requested.cs # ""
  <2>0. 3 \in Nat /\ 1..3 = {1, 2, 3} /\ 1..(1 - 1) = {} /\ 1..(2 - 1) = {1} /\ 1..(3 - 1) = {1, 2}
    OBVIOUS
  <2>1. DOMAIN C = 1..3 /\ C[1] = {requested} /\ C[2] = {Bare(requested)} /\ C[3] = all
    BY <1>6, LookedFor
  <2>3. /\ \A i \in 1..3 : mimes \cap C[i] # {} /\ (\A k \in 1..(i - 1) : mimes \cap C[k] = {})
                         => match \in mimes \cap C[i]
        /\ (\A i \in 1..3 : mimes \cap C[i] = {}) => match = NoMatch
    BY <2>0, <2>1, FirstFound
  <2> HIDE DEF C, match, mimes, akin, all, u, v
  <2>2. /\ mimes \cap C[1] # {} => match \in mimes \cap C[1]
        /\ mimes \cap C[1] = {} /\ mimes \cap C[2] # {} => match \in mimes \cap C[2]
        /\ mimes \cap C[1] = {} /\ mimes \cap C[2] = {} /\ mimes \cap C[3] # {} => match \in mimes \cap C[3]
        /\ mimes \cap C[1] = {} /\ mimes \cap C[2] = {} /\ mimes \cap C[3] = {} => match = NoMatch
    BY <2>0, <2>3
  <2> QED BY <1>2, <1>4, <1>6, <2>1, <2>2 DEF akin, u, v, match, mimes, all
<1>7. CASE requested.base \in TextBase /\ requested.cs = ""
  <2>0. /\ 4 \in Nat /\ 1..4 = {1, 2, 3, 4}
        /\ 1..(1 - 1) = {} /\ 1..(2 - 1) = {1} /\ 1..(3 - 1) = {1, 2} /\ 1..(4 - 1) = {1, 2, 3}
    OBVIOUS
  <2>1. DOMAIN C = 1..4 /\ C[1] = {requested} /\ C[2] = {u} /\ C[3] = {v} /\ C[4] = all
    BY <1>7, LookedFor
  <2>3. /\ \A i \in 1..4 : mimes \cap C[i] # {} /\ (\A k \in 1..(i - 1) : mimes \cap C[k] = {})
                         => match \in mimes \cap C[i]
        /\ (\A i \in 1..4 : mimes \cap C[i] = {}) => match = NoMatch
    BY <2>0, <2>1, FirstFound
  <2> HIDE DEF C, match, mimes, akin, all, u, v
  <2>2. /\ mimes \cap C[1] # {} => match \in mimes \cap C[1]
        /\ mimes \cap C[1] = {} /\ mimes \cap C[2] # {} => match \in mimes \cap C[2]
        /\ mimes \cap C[1] = {} /\ mimes \cap C[2] = {} /\ mimes \cap C[3] # {} => match \in mimes \cap C[3]
        /\ mimes \cap C[1] = {} /\ mimes \cap C[2] = {} /\ mimes \cap C[3] = {} /\ mimes \cap C[4] # {}
             => match \in mimes \cap C[4]
        /\ mimes \cap C[1] = {} /\ mimes \cap C[2] = {} /\ mimes \cap C[3] = {} /\ mimes \cap C[4] = {}
             => match = NoMatch
    BY <2>0, <2>3
  <2> QED BY <1>2, <1>3, <1>7, <2>1, <2>2 DEF akin, u, v, match, mimes, all
<1> QED BY <1>5, <1>6, <1>7

(* Whatever is offered and asked for, find_mime_match finds what was asked *)
(* for if it is there, else, for text only, the same with its charset      *)
(* added or stripped, else an offer of the same base, else nothing. The    *)
(* lemma is about offers of any length, the property about short ones.     *)
THEOREM MatchIsNearestHolds == PortalSpec => []MatchIsNearest
<1>1. NearestMatch
  <2>1. BoundedSeq(Mime, 3) \subseteq Seq(Mime)
    <3>1. Seq(Mime) = UNION {[1..m -> Mime] : m \in Nat} /\ 0..3 \subseteq Nat
      BY SeqDef
    <3> QED BY <3>1 DEF BoundedSeq, SeqOf
  <2> QED BY <2>1, Nearest DEF NearestMatch
<1>2. MatchIsNearest
  BY <1>1 DEF MatchIsNearest
<1>3. TRUE => MatchIsNearest
  BY <1>2
<1> QED BY <1>3, PTL
=============================================================================
