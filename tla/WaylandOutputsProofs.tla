------------------------ MODULE WaylandOutputsProofs ------------------------
(***************************************************************************)
(* The outputs, for any clients, layouts, protocols and numbers of globals *)
(* and moves.                                                              *)
(*                                                                         *)
(* 1. Barriers are accepted on current zones only, with every fault.       *)
(* partition_barriers compares the number of the zone set and nothing of   *)
(* the zones. So the number must tell zone sets apart: what a client was   *)
(* given with the number of now is the zones of now (ViewInv). It holds as *)
(* update_shared_state takes the next number whenever the zones differ and *)
(* as nobody can ask before the first roundtrip, which sets the number.    *)
(*                                                                         *)
(* 2. The types, and no output listed twice, with every fault (OTypes): a  *)
(* global is announced once, and only what was announced is listed, so the *)
(* announcements still on the wire are of none that is listed.             *)
(*                                                                         *)
(* 3. Once all is read, what is published is what there is (Caught). The   *)
(* invariant looks ahead: apply all that is unread to the list, and it is  *)
(* the outputs there are, but for those whose information is still to      *)
(* come. A turn only moves events from the wire to the list; what the      *)
(* compositor writes are groups that tell all of one output (Tells).       *)
(*                                                                         *)
(* 4. Nothing is published that never was (WasReal): every group on the    *)
(* wire takes outputs from one true state to another, so a read of whole   *)
(* groups leaves no output half told.                                      *)
(*                                                                         *)
(* 5. Barriers and pointer are where they were asked to be (Shown): what   *)
(* the portal copies has passed update_shared_state, so it has an extent   *)
(* and the divisions by it are defined; the rest is arithmetic of minima,  *)
(* maxima and quotients.                                                   *)
(*                                                                         *)
(* Dispatch, Kept and FlattenSeq are recursive functions; what they do to  *)
(* a sequence with one more element is got from StepByStep and ChainsAgree *)
(* of QueueLemmas, and what they do to any sequence by GrowingSequences.   *)
(***************************************************************************)
EXTENDS WaylandOutputs, QueueLemmas, FiniteSetTheorems

(* What a client may have in hand. *)
Truthful(v) ==
  \/ v = Absent
  \/ /\ v.set \in Nat /\ v.set <= shared.set
     /\ v.set = shared.set => v.zones = shared.zones

ViewInv ==
  /\ shared.set \in Nat
  /\ view = [c \in Client |-> view[c]]
  /\ \A c \in Client : Truthful(view[c])
  /\ phase = "startup" => \A c \in Client : view[c] = Absent

-----------------------------------------------------------------------------
(* A new set of outputs keeps the number with the zones, or takes the next *)
(* one with others (update_shared_state).                                  *)
LEMMA NumberTellsZones ==
  ASSUME NEW os, shared.set \in Nat
  PROVE  LET s == update_shared_state(os)
         IN  /\ s.set \in Nat /\ s.set >= shared.set
             /\ s.set = shared.set => s.zones = shared.zones
  BY DEF update_shared_state

LEMMA ViewInit == Init => ViewInv
<1> SUFFICES ASSUME Init PROVE ViewInv
  OBVIOUS
<1>1. shared.set \in Nat
  BY DEF Init
<1>2. view = [c \in Client |-> Absent]
  BY DEF Init
<1>3. view = [c \in Client |-> view[c]] /\ \A c \in Client : view[c] = Absent
  BY <1>2
<1> QED BY <1>1, <1>3 DEF ViewInv, Truthful

(* Every action keeps ViewInv: most touch neither the zones nor a view.    *)
LEMMA ViewStep == ViewInv /\ [Next]_vars => ViewInv'
<1> SUFFICES ASSUME ViewInv, [Next]_vars PROVE ViewInv'
  OBVIOUS
<1>a. ASSUME UNCHANGED <<shared, view, phase>> PROVE ViewInv'
  BY <1>a DEF ViewInv, Truthful
<1>1. ASSUME Environment PROVE ViewInv'
  <2>1. ASSUME NEW r \in Places, Plug(r) PROVE ViewInv'
    BY <1>a, <2>1 DEF Plug, clients
  <2>2. ASSUME NEW n \in Output, Unplug(n) PROVE ViewInv'
    BY <1>a, <2>2 DEF Unplug, clients
  <2>3. ASSUME NEW n \in Output, NEW r \in Places, Reconfigure(n, r) PROVE ViewInv'
    BY <1>a, <2>3 DEF Reconfigure, clients
  <2> QED BY <1>1, <2>1, <2>2, <2>3 DEF Environment
<1>2. ASSUME NEW n \in Output, Answer(n) PROVE ViewInv'
  BY <1>a, <1>2 DEF Answer, clients
<1>3. ASSUME Roundtrip PROVE ViewInv'
  <2>1. phase = "startup" /\ phase' = "running" /\ view' = view
    BY <1>3 DEF Roundtrip, clients
  <2>2. shared'.set \in Nat
    <3>1. PICK s, z : shared' = [sources |-> s, zones |-> z, set |-> 0]
      BY <1>3 DEF Roundtrip
    <3> QED BY <3>1
  <2>3. \A c \in Client : view'[c] = Absent
    BY <2>1 DEF ViewInv
  <2> QED BY <2>1, <2>2, <2>3 DEF ViewInv, Truthful
<1>4. ASSUME Turn PROVE ViewInv'
  <2>1. phase = "running" /\ phase' = phase /\ view' = view
    BY <1>4 DEF Turn, clients
  <2>2. PICK os : shared' = update_shared_state(os)
    BY <1>4 DEF Turn
  <2>3. /\ shared'.set \in Nat /\ shared'.set >= shared.set
        /\ shared'.set = shared.set => shared'.zones = shared.zones
    BY <2>2, NumberTellsZones DEF ViewInv
  <2>4. ASSUME NEW c \in Client PROVE Truthful(view[c])'
    <3>1. CASE view[c] = Absent
      BY <2>1, <3>1 DEF Truthful
    <3>2. CASE view[c] # Absent
      <4>1. /\ view[c].set \in Nat /\ view[c].set <= shared.set
            /\ view[c].set = shared.set => view[c].zones = shared.zones
        BY <3>2 DEF ViewInv, Truthful
      <4>2. view[c].set <= shared'.set /\ shared.set \in Nat
        BY <4>1, <2>3 DEF ViewInv
      <4>3. view[c].set = shared'.set => view[c].zones = shared'.zones
        BY <4>1, <4>2, <2>3
      <4> QED BY <2>1, <4>1, <4>2, <4>3 DEF Truthful
    <3> QED BY <3>1, <3>2
  <2> QED BY <2>1, <2>3, <2>4 DEF ViewInv
<1>5. ASSUME Tick \/ EmitZonesChanged \/ Start PROVE ViewInv'
  BY <1>a, <1>5 DEF Tick, EmitZonesChanged, Start, clients
<1>6. ASSUME NEW c \in Client, GetZones(c) PROVE ViewInv'
  <2>1. /\ phase = "running" /\ phase' = phase /\ shared' = shared
        /\ view' = [view EXCEPT ![c] = [set |-> shared.set, zones |-> shared.zones]]
    BY <1>6 DEF GetZones
  <2>2. view' = [d \in Client |-> view'[d]]
    BY <2>1 DEF ViewInv
  <2>3. ASSUME NEW d \in Client PROVE Truthful(view[d])'
    <3>1. view'[d] = IF d = c THEN [set |-> shared.set, zones |-> shared.zones] ELSE view[d]
      BY <2>1 DEF ViewInv
    <3> QED BY <2>1, <3>1 DEF ViewInv, Truthful
  <2> QED BY <2>1, <2>2, <2>3 DEF ViewInv
<1>7. ASSUME NEW c \in Client, SetPointerBarriers(c) PROVE ViewInv'
  BY <1>a, <1>7 DEF SetPointerBarriers
<1>8. ASSUME NEW c \in Client, Close(c) PROVE ViewInv'
  <2>1. phase' = phase /\ shared' = shared /\ view' = [view EXCEPT ![c] = Absent]
    BY <1>8 DEF Close
  <2>2. view' = [d \in Client |-> view'[d]]
    BY <2>1 DEF ViewInv
  <2>3. \A d \in Client : view'[d] = IF d = c THEN Absent ELSE view[d]
    BY <2>1 DEF ViewInv
  <2> QED BY <2>1, <2>2, <2>3 DEF ViewInv, Truthful
<1>9. ASSUME UNCHANGED vars PROVE ViewInv'
  BY <1>a, <1>9 DEF vars, clients
<1> QED BY <1>1, <1>2, <1>3, <1>4, <1>5, <1>6, <1>7, <1>8, <1>9 DEF Next

(* A client's zones are those of now or carry an older number (the check   *)
(* of partition_barriers is as good as a comparison of the zones).         *)
THEOREM ViewsTruthful == Spec => []ViewInv
<1> QED BY ViewInit, ViewStep, PTL DEF Spec

(* Barriers are accepted only from a client whose zones are those of now   *)
(* (partition_barriers), whatever the compositor does with its outputs.    *)
THEOREM AcceptedOnCurrentHolds == Spec => AcceptedOnCurrent
<1>1. ASSUME ViewInv, NEW c \in Client, SetPointerBarriers(c), c \in barriers'
      PROVE  view[c].zones = shared.zones
  <2>1. view[c] # Absent /\ view[c].set = shared.set
    BY <1>1 DEF SetPointerBarriers, partition_barriers
  <2> QED BY <1>1, <2>1 DEF ViewInv, Truthful
<1>2. ViewInv => [\A c \in Client :
         SetPointerBarriers(c) /\ c \in barriers' => view[c].zones = shared.zones]_vars
  BY <1>1
<1> QED BY <1>2, ViewsTruthful, PTL DEF AcceptedOnCurrent

-----------------------------------------------------------------------------
(* Lists and the wire.                                                     *)

(* What is kept of the first 0, 1, 2, ... elements.                        *)
KeptAfter(f, s, S) ==
  f[0] = <<>> /\ \A i \in 1..Len(s) : f[i] = IF s[i] \in S THEN Append(f[i - 1], s[i]) ELSE f[i - 1]

(* The filter of a list is built element by element (Vec::retain, filter). *)
LEMMA KeptSteps ==
  ASSUME NEW X, NEW s \in Seq(X), NEW S
  PROVE  \E f \in [0..Len(s) -> Seq(X)] : KeptAfter(f, s, S) /\ Kept(s, S) = f[Len(s)]
<1> DEFINE step == [i \in 1..Len(s) |-> [v \in Seq(X) |-> IF s[i] \in S THEN Append(v, s[i]) ELSE v]]
           K == CHOOSE f : f = [i \in 0..Len(s) |-> IF i = 0 THEN <<>>
                  ELSE IF s[i] \in S THEN Append(f[i - 1], s[i]) ELSE f[i - 1]]
<1>0. Len(s) \in Nat /\ <<>> \in Seq(X)
  BY LenProperties, EmptySeq
<1>1. step \in [1..Len(s) -> [Seq(X) -> Seq(X)]]
  BY AppendProperties, LenProperties
<1>2. PICK f \in Chains(Seq(X), <<>>, Len(s), step) : TRUE
  <2> HIDE DEF step, K
  <2>1. Chains(Seq(X), <<>>, Len(s), step) # {}
    BY <1>0, <1>1, StepByStep
  <2> QED BY <2>1
<1>3. f \in [0..Len(s) -> Seq(X)] /\ f[0] = <<>> /\ \A i \in 1..Len(s) : f[i] = step[i][f[i - 1]]
  BY <1>2 DEF Chains
<1>4. KeptAfter(f, s, S)
  <2>1. ASSUME NEW i \in 1..Len(s) PROVE f[i] = IF s[i] \in S THEN Append(f[i - 1], s[i]) ELSE f[i - 1]
    <3>1. i - 1 \in 0..Len(s)
      BY <1>0
    <3> QED BY <3>1, <1>3
  <2> QED BY <2>1, <1>3 DEF KeptAfter
<1>5. f = [i \in 0..Len(s) |-> IF i = 0 THEN <<>>
             ELSE IF s[i] \in S THEN Append(f[i - 1], s[i]) ELSE f[i - 1]]
  <2>1. \A i \in 0..Len(s) : i = 0 \/ i \in 1..Len(s)
    BY <1>0
  <2> QED BY <2>1, <1>3, <1>4 DEF KeptAfter
<1>6. K = [i \in 0..Len(s) |-> IF i = 0 THEN <<>>
             ELSE IF s[i] \in S THEN Append(K[i - 1], s[i]) ELSE K[i - 1]]
  BY <1>5, Zenon
<1>7. Kept(s, S) = K[Len(s)]
  BY Zenon DEF Kept
<1> HIDE DEF K
<1>8. K[0] = f[0] /\ \A i \in 1..Len(s) : K[i - 1] = f[i - 1] => K[i] = f[i]
  <2> HIDE DEF step
  <2>1. K[0] = f[0]
    BY <1>0, <1>3, <1>6
  <2>2. ASSUME NEW i \in 1..Len(s), K[i - 1] = f[i - 1] PROVE K[i] = f[i]
    <3>1. i \in 0..Len(s) /\ i # 0
      BY <1>0
    <3>2. K[i] = IF s[i] \in S THEN Append(K[i - 1], s[i]) ELSE K[i - 1]
      BY <1>6, <3>1
    <3> QED BY <3>2, <2>2, <1>4 DEF KeptAfter
  <2> QED BY <2>1, <2>2
<1>9. K[Len(s)] = f[Len(s)]
  BY <1>0, <1>8, ChainsAgree
<1> QED BY <1>3, <1>4, <1>7, <1>9

(* The filter of a list with one more element.                             *)
LEMMA KeptAppend ==
  ASSUME NEW X, NEW s \in Seq(X), NEW e \in X, NEW S
  PROVE  /\ Kept(s, S) \in Seq(X)
         /\ Kept(Append(s, e), S) = IF e \in S THEN Append(Kept(s, S), e) ELSE Kept(s, S)
<1>2. PICK f \in [0..Len(s) -> Seq(X)] : KeptAfter(f, s, S) /\ Kept(s, S) = f[Len(s)]
  BY KeptSteps
<1>3. /\ Append(s, e) \in Seq(X) /\ Len(s) \in Nat /\ Len(Append(s, e)) = Len(s) + 1
      /\ \A i \in 1..Len(s) : Append(s, e)[i] = s[i]
      /\ Append(s, e)[Len(s) + 1] = e
  BY AppendProperties, LenProperties
<1>4. PICK g \in [0..Len(Append(s, e)) -> Seq(X)] :
          KeptAfter(g, Append(s, e), S) /\ Kept(Append(s, e), S) = g[Len(Append(s, e))]
  BY <1>3, KeptSteps
<1>5. f[0] = g[0] /\ \A i \in 1..Len(s) : f[i - 1] = g[i - 1] => f[i] = g[i]
  <2>1. f[0] = g[0]
    BY <1>2, <1>4 DEF KeptAfter
  <2>2. ASSUME NEW i \in 1..Len(s), f[i - 1] = g[i - 1] PROVE f[i] = g[i]
    <3>1. i \in 1..Len(Append(s, e)) /\ Append(s, e)[i] = s[i]
      BY <1>3
    <3> QED BY <3>1, <2>2, <1>2, <1>4 DEF KeptAfter
  <2> QED BY <2>1, <2>2
<1>6. f[Len(s)] = g[Len(s)]
  BY <1>3, <1>5, ChainsAgree
<1>7. g[Len(s) + 1] = IF e \in S THEN Append(g[Len(s)], e) ELSE g[Len(s)]
  <2>1. Len(s) + 1 \in 1..Len(Append(s, e)) /\ (Len(s) + 1) - 1 = Len(s)
    BY <1>3
  <2> QED BY <2>1, <1>3, <1>4 DEF KeptAfter
<1>8. Kept(s, S) \in Seq(X)
  BY <1>2, <1>3
<1> QED BY <1>2, <1>3, <1>4, <1>6, <1>7, <1>8

(* What is read of a wire, and what is left of it, is all there was.       *)
LEMMA FlatConcat ==
  ASSUME NEW X, NEW s \in Seq(Seq(X)), NEW t \in Seq(Seq(X))
  PROVE  FlattenSeq(s \o t) = FlattenSeq(s) \o FlattenSeq(t)
<1> DEFINE T == {u \in Seq(Seq(X)) : FlattenSeq(s \o u) = FlattenSeq(s) \o FlattenSeq(u)}
<1>0. FlattenSeq(s) \in Seq(X)
  <2>1. <<>> \in Seq(X)
    BY EmptySeq
  <2> QED BY <2>1, FlatAppend
<1>1. <<>> \in T
  <2>1. <<>> \in Seq(Seq(X)) /\ s \o <<>> = s
    BY EmptySeq, ConcatEmptySeq
  <2>2. FlattenSeq(<<>>) = <<>>
    BY DEF FlattenSeq
  <2>3. FlattenSeq(s) \o <<>> = FlattenSeq(s)
    BY <1>0, ConcatEmptySeq
  <2> QED BY <2>1, <2>2, <2>3
<1>2. ASSUME NEW u \in Seq(Seq(X)), NEW e \in Seq(X), u \in T PROVE Append(u, e) \in T
  <2>1. s \o Append(u, e) = Append(s \o u, e) /\ s \o u \in Seq(Seq(X)) /\ Append(u, e) \in Seq(Seq(X))
    BY AppendProperties, ConcatProperties
  <2>2. /\ FlattenSeq(Append(s \o u, e)) = FlattenSeq(s \o u) \o e
        /\ FlattenSeq(Append(u, e)) = FlattenSeq(u) \o e
        /\ FlattenSeq(u) \in Seq(X)
    BY <2>1, FlatAppend
  <2>3. (FlattenSeq(s) \o FlattenSeq(u)) \o e = FlattenSeq(s) \o (FlattenSeq(u) \o e)
    BY <1>0, <2>2, ConcatAssociative, SMTT(60)
  <2> QED BY <1>2, <2>1, <2>2, <2>3
<1>3. Seq(Seq(X)) \subseteq T
  <2> HIDE DEF T
  <2> QED BY <1>1, <1>2, GrowingSequences
<1> QED BY <1>3

-----------------------------------------------------------------------------
(* The handlers.                                                           *)

(* Every event of the wire.                                                *)
Event ==
  [ev : {"global", "global_remove", "geometry", "logical", "mode", "done"}, n : Output, rect : Rectangle]

(* What an event makes of what is known of an output.                      *)
Changed(e, o) ==
  IF o.n # e.n \/ e.ev \in {"global", "global_remove"} THEN o
  ELSE IF e.ev \in {"geometry", "logical"} THEN [o EXCEPT !.rect.x = e.rect.x, !.rect.y = e.rect.y]
  ELSE IF e.ev = "mode" THEN [o EXCEPT !.rect.width = e.rect.width, !.rect.height = e.rect.height]
  ELSE [o EXCEPT !.done = TRUE]

(* An event never makes an output another one.                             *)
LEMMA ChangedTyped ==
  ASSUME NEW e \in Event, NEW o \in Record
  PROVE  Changed(e, o) \in Record /\ Changed(e, o).n = o.n
BY DEF Changed, Event, Record, Rectangle

(* What is known of an output before its first event is a record of it.    *)
LEMMA UnknownTyped == \A n \in Output : Unknown(n) \in Record /\ Unknown(n).n = n
BY DEF Unknown, Record, Rectangle, Rect

(* An output is listed once.                                               *)
Distinct(os) == \A i, j \in DOMAIN os : os[i].n = os[j].n => i = j

(* What a sequence holds after a send.                                     *)
LEMMA RangeSent ==
  ASSUME NEW X, NEW s \in Seq(X), NEW e \in X
  PROVE  Append(s, e) \in Seq(X) /\ Range(Append(s, e)) = Range(s) \cup {e}
<1>1. /\ Append(s, e) \in Seq(X) /\ DOMAIN s = 1..Len(s) /\ Len(s) \in Nat
      /\ DOMAIN Append(s, e) = 1..(Len(s) + 1)
      /\ \A i \in 1..Len(s) : Append(s, e)[i] = s[i]
      /\ Append(s, e)[Len(s) + 1] = e
  BY Sent
<1>2. ASSUME NEW x PROVE x \in Range(Append(s, e)) <=> x \in Range(s) \cup {e}
  <2>1. x \in Range(Append(s, e)) <=> \E i \in 1..(Len(s) + 1) : x = Append(s, e)[i]
    BY <1>1 DEF Range
  <2>2. x \in Range(s) <=> \E i \in 1..Len(s) : x = s[i]
    BY <1>1 DEF Range
  <2> QED BY <1>1, <2>1, <2>2
<1> QED BY <1>1, <1>2

(* The empty list.                                                         *)
LEMMA RangeOfNone == \A X : <<>> \in Seq(X) /\ Range(<<>>) = {} /\ \A S : Kept(<<>>, S) = <<>>
<1> SUFFICES ASSUME NEW X PROVE <<>> \in Seq(X) /\ Range(<<>>) = {} /\ \A S : Kept(<<>>, S) = <<>>
  OBVIOUS
<1>1. <<>> \in Seq(X) /\ Range(<<>>) = {} /\ Len(<<>>) = 0
  BY EmptySeq DEF Range
<1>2. ASSUME NEW S PROVE Kept(<<>>, S) = <<>>
  <2>1. PICK f \in [0..Len(<<>>) -> Seq(X)] : KeptAfter(f, <<>>, S) /\ Kept(<<>>, S) = f[Len(<<>>)]
    BY <1>1, KeptSteps
  <2> QED BY <1>1, <2>1 DEF KeptAfter
<1> QED BY <1>1, <1>2

(* The kept records are those there were that are to be kept.              *)
LEMMA KeptRange ==
  ASSUME NEW X, NEW s \in Seq(X), NEW S
  PROVE  Kept(s, S) \in Seq(X) /\ Range(Kept(s, S)) = Range(s) \cap S
<1> DEFINE T == {u \in Seq(X) : Kept(u, S) \in Seq(X) /\ Range(Kept(u, S)) = Range(u) \cap S}
<1>1. <<>> \in T
  BY RangeOfNone
<1>2. ASSUME NEW u \in Seq(X), NEW e \in X, u \in T PROVE Append(u, e) \in T
  <2>1. /\ Kept(u, S) \in Seq(X)
        /\ Kept(Append(u, e), S) = IF e \in S THEN Append(Kept(u, S), e) ELSE Kept(u, S)
    <3> HIDE DEF T
    <3> QED BY KeptAppend
  <2>3. Append(u, e) \in Seq(X) /\ Range(Append(u, e)) = Range(u) \cup {e}
    <3> HIDE DEF T
    <3> QED BY RangeSent
  <2>4. /\ Append(Kept(u, S), e) \in Seq(X)
        /\ Range(Append(Kept(u, S), e)) = Range(Kept(u, S)) \cup {e}
    <3> HIDE DEF T
    <3> QED BY <2>1, RangeSent
  <2> HIDE DEF Range
  <2> QED BY <1>2, <2>1, <2>3, <2>4
<1>3. Seq(X) \subseteq T
  <2> HIDE DEF T
  <2> QED BY <1>1, <1>2, GrowingSequences
<1> QED BY <1>3

(* A list without doubles has none after a filter (on_global_remove,       *)
(* update_shared_state).                                                   *)
LEMMA KeptDistinct ==
  ASSUME NEW s \in Seq(Record), NEW S, Distinct(s)
  PROVE  Distinct(Kept(s, S))
<1> DEFINE T == {u \in Seq(Record) : Distinct(u) => Distinct(Kept(u, S))}
<1>1. <<>> \in T
  <2>1. <<>> \in Seq(Record) /\ Kept(<<>>, S) = <<>>
    BY RangeOfNone
  <2> QED BY <2>1 DEF Distinct
<1>2. ASSUME NEW u \in Seq(Record), NEW e \in Record, u \in T PROVE Append(u, e) \in T
  <2>1. /\ Kept(u, S) \in Seq(Record) /\ Range(Kept(u, S)) \subseteq Range(u)
        /\ Kept(Append(u, e), S) = IF e \in S THEN Append(Kept(u, S), e) ELSE Kept(u, S)
    <3> HIDE DEF T
    <3>1. /\ Kept(u, S) \in Seq(Record)
          /\ Kept(Append(u, e), S) = IF e \in S THEN Append(Kept(u, S), e) ELSE Kept(u, S)
      BY KeptAppend
    <3>2. Range(Kept(u, S)) = Range(u) \cap S
      BY KeptRange
    <3> QED BY <3>1, <3>2
  <2>2. SUFFICES ASSUME Distinct(Append(u, e)) PROVE Distinct(Kept(Append(u, e), S))
    BY Sent
  <2>3. Distinct(u) /\ \A o \in Range(u) : o.n # e.n
    BY <2>2, Sent DEF Distinct, Range
  <2>4. Distinct(Kept(u, S)) /\ \A o \in Range(Kept(u, S)) : o.n # e.n
    BY <1>2, <2>1, <2>3
  <2>5. Distinct(Append(Kept(u, S), e))
    <3> DEFINE k == Kept(u, S)
    <3> HIDE DEF k
    <3>1. k \in Seq(Record) /\ Distinct(k) /\ \A i \in DOMAIN k : k[i].n # e.n
      BY <2>1, <2>4 DEF k, Range
    <3>2. Distinct(Append(k, e))
      BY <3>1, Sent DEF Distinct
    <3> QED BY <3>2 DEF k
  <2> QED BY <2>1, <2>4, <2>5
<1>3. Seq(Record) \subseteq T
  <2> HIDE DEF T
  <2> QED BY <1>1, <1>2, GrowingSequences
<1> QED BY <1>3

(* What a handler does to the outputs.                                     *)
LEMMA Handled ==
  ASSUME NEW p, NEW os \in Seq(Record), NEW e \in Event
  PROVE  /\ Handle(p, os, e) \in Seq(Record)
         /\ Range(Handle(p, os, e)) =
              IF e.ev = "global" THEN (IF p = "running" THEN Range(os) \cup {Unknown(e.n)} ELSE Range(os))
              ELSE IF e.ev = "global_remove" THEN {o \in Range(os) : o.n # e.n}
              ELSE {Changed(e, o) : o \in Range(os)}
         /\ Distinct(os) /\ (e.ev = "global" => \A o \in Range(os) : o.n # e.n)
              => Distinct(Handle(p, os, e))
<1>0. \A i \in DOMAIN os : os[i] \in Record
  BY LenProperties
<1>1. CASE e.ev = "global"
  <2>1. Handle(p, os, e) = IF p = "running" THEN Append(os, Unknown(e.n)) ELSE os
    BY <1>1 DEF Handle, on_global
  <2>2. Unknown(e.n) \in Record /\ Unknown(e.n).n = e.n
    BY UnknownTyped DEF Event
  <2>3. /\ Append(os, Unknown(e.n)) \in Seq(Record)
        /\ Range(Append(os, Unknown(e.n))) = Range(os) \cup {Unknown(e.n)}
    <3> DEFINE u == Unknown(e.n)
    <3> HIDE DEF u
    <3>1. u \in Record
      BY <2>2 DEF u
    <3>2. Append(os, u) \in Seq(Record) /\ Range(Append(os, u)) = Range(os) \cup {u}
      BY <3>1, Sent DEF Range
    <3> QED BY <3>2 DEF u
  <2>4. ASSUME Distinct(os), \A o \in Range(os) : o.n # e.n
        PROVE  Distinct(Append(os, Unknown(e.n)))
    <3> DEFINE u == Unknown(e.n)
    <3> HIDE DEF u
    <3>1. u \in Record /\ u.n = e.n
      BY <2>2 DEF u
    <3>2. \A i \in DOMAIN os : os[i].n # u.n
      BY <2>4, <3>1 DEF Range
    <3>3. Distinct(Append(os, u))
      BY <2>4, <3>1, <3>2, Sent DEF Distinct
    <3> QED BY <3>3 DEF u
  <2> QED BY <1>1, <2>1, <2>3, <2>4
<1>2. CASE e.ev = "global_remove"
  <2>1. Handle(p, os, e) = Kept(os, {o \in Record : o.n # e.n})
    BY <1>2 DEF Handle, on_global_remove
  <2>2. /\ Kept(os, {o \in Record : o.n # e.n}) \in Seq(Record)
        /\ Range(Kept(os, {o \in Record : o.n # e.n})) = Range(os) \cap {o \in Record : o.n # e.n}
    BY KeptRange
  <2>3. Range(os) \subseteq Record
    BY <1>0 DEF Range
  <2>4. Distinct(os) => Distinct(Kept(os, {o \in Record : o.n # e.n}))
    BY KeptDistinct
  <2> QED BY <1>2, <2>1, <2>2, <2>3, <2>4
<1>3. CASE e.ev \notin {"global", "global_remove"}
  <2>1. Handle(p, os, e) = [i \in DOMAIN os |-> Changed(e, os[i])]
    <3>1. ASSUME NEW i \in DOMAIN os PROVE os[i].n # e.n => Changed(e, os[i]) = os[i]
      BY DEF Changed
    <3>2. CASE e.ev \in {"geometry", "logical"}
      BY <3>2 DEF Handle, on_position, Update, Changed
    <3>3. CASE e.ev = "mode"
      BY <3>3 DEF Handle, on_mode, Update, Changed
    <3>4. CASE e.ev = "done"
      BY <3>4 DEF Handle, on_done, Update, Changed
    <3> QED BY <1>3, <3>2, <3>3, <3>4 DEF Event
  <2> DEFINE h == [i \in DOMAIN os |-> Changed(e, os[i])]
  <2>2. \A i \in DOMAIN os : h[i] \in Record /\ h[i].n = os[i].n
    BY <1>0, ChangedTyped
  <2>3. h \in Seq(Record) /\ DOMAIN h = DOMAIN os
    <3>1. Len(os) \in Nat /\ DOMAIN os = 1..Len(os)
      BY LenProperties
    <3>2. h \in [1..Len(os) -> Record]
      BY <2>2, <3>1
    <3> HIDE DEF h
    <3> QED BY <3>1, <3>2, IsASeq
  <2>4. Range(h) = {Changed(e, o) : o \in Range(os)}
    BY DEF Range
  <2>5. Distinct(os) => Distinct(h)
    BY <2>2 DEF Distinct
  <2> HIDE DEF h
  <2>6. Handle(p, os, e) = h
    BY <2>1 DEF h
  <2> QED BY <1>3, <2>3, <2>4, <2>5, <2>6
<1> QED BY <1>1, <1>2, <1>3

(* The outputs after 0, 1, 2, ... events.                                  *)
After(f, p, os, s) == f[0] = os /\ \A i \in 1..Len(s) : f[i] = Handle(p, f[i - 1], s[i])

(* Events are handled one after the other (dispatch_pending).              *)
LEMMA DispatchSteps ==
  ASSUME NEW p, NEW os \in Seq(Record), NEW s \in Seq(Event)
  PROVE  \E f \in [0..Len(s) -> Seq(Record)] : After(f, p, os, s) /\ Dispatch(p, os, s) = f[Len(s)]
<1> DEFINE step == [i \in 1..Len(s) |-> [v \in Seq(Record) |-> Handle(p, v, s[i])]]
           K == CHOOSE f : f = [i \in 0..Len(s) |-> IF i = 0 THEN os ELSE Handle(p, f[i - 1], s[i])]
<1>0. Len(s) \in Nat /\ \A i \in 1..Len(s) : s[i] \in Event
  BY LenProperties
<1>1. step \in [1..Len(s) -> [Seq(Record) -> Seq(Record)]]
  <2>1. ASSUME NEW i \in 1..Len(s), NEW v \in Seq(Record) PROVE Handle(p, v, s[i]) \in Seq(Record)
    <3>1. s[i] \in Event
      BY <1>0
    <3> QED BY <3>1, Handled
  <2> QED BY <2>1
<1>2. PICK f \in Chains(Seq(Record), os, Len(s), step) : TRUE
  <2> HIDE DEF step, K
  <2>1. Chains(Seq(Record), os, Len(s), step) # {}
    BY <1>0, <1>1, StepByStep
  <2> QED BY <2>1
<1>3. f \in [0..Len(s) -> Seq(Record)] /\ f[0] = os /\ \A i \in 1..Len(s) : f[i] = step[i][f[i - 1]]
  BY <1>2 DEF Chains
<1>4. After(f, p, os, s)
  <2>1. ASSUME NEW i \in 1..Len(s) PROVE f[i] = Handle(p, f[i - 1], s[i])
    <3>1. i - 1 \in 0..Len(s)
      BY <1>0
    <3> QED BY <3>1, <1>3
  <2> QED BY <2>1, <1>3 DEF After
<1> HIDE DEF step
<1>5. f = [i \in 0..Len(s) |-> IF i = 0 THEN os ELSE Handle(p, f[i - 1], s[i])]
  <2>1. \A i \in 0..Len(s) : i = 0 \/ i \in 1..Len(s)
    BY <1>0
  <2> QED BY <2>1, <1>3, <1>4 DEF After
<1>6. K = [i \in 0..Len(s) |-> IF i = 0 THEN os ELSE Handle(p, K[i - 1], s[i])]
  BY <1>5, Zenon
<1>7. Dispatch(p, os, s) = K[Len(s)]
  BY Zenon DEF Dispatch
<1> HIDE DEF K
<1>8. K[0] = f[0] /\ \A i \in 1..Len(s) : K[i - 1] = f[i - 1] => K[i] = f[i]
  <2>1. K[0] = f[0]
    BY <1>0, <1>3, <1>6
  <2>2. ASSUME NEW i \in 1..Len(s), K[i - 1] = f[i - 1] PROVE K[i] = f[i]
    <3>1. i \in 0..Len(s) /\ i # 0
      BY <1>0
    <3>2. K[i] = Handle(p, K[i - 1], s[i])
      BY <1>6, <3>1
    <3> QED BY <3>2, <2>2, <1>4 DEF After
  <2> QED BY <2>1, <2>2
<1>9. K[Len(s)] = f[Len(s)]
  BY <1>0, <1>8, ChainsAgree
<1> QED BY <1>3, <1>4, <1>7, <1>9

(* Without an event nothing happens.                                       *)
LEMMA DispatchNone == \A p : \A os \in Seq(Record) : Dispatch(p, os, <<>>) = os
<1> SUFFICES ASSUME NEW p, NEW os \in Seq(Record) PROVE Dispatch(p, os, <<>>) = os
  OBVIOUS
<1>1. <<>> \in Seq(Event) /\ Len(<<>>) = 0
  BY EmptySeq
<1>2. PICK f \in [0..Len(<<>>) -> Seq(Record)] : After(f, p, os, <<>>) /\ Dispatch(p, os, <<>>) = f[Len(<<>>)]
  BY <1>1, DispatchSteps
<1> QED BY <1>1, <1>2 DEF After

(* One event more is handled after the others.                             *)
LEMMA DispatchAppend ==
  ASSUME NEW p, NEW os \in Seq(Record), NEW s \in Seq(Event), NEW e \in Event
  PROVE  /\ Dispatch(p, os, s) \in Seq(Record)
         /\ Dispatch(p, os, Append(s, e)) = Handle(p, Dispatch(p, os, s), e)
<1>2. PICK f \in [0..Len(s) -> Seq(Record)] : After(f, p, os, s) /\ Dispatch(p, os, s) = f[Len(s)]
  BY DispatchSteps
<1>3. /\ Append(s, e) \in Seq(Event) /\ Len(s) \in Nat /\ Len(Append(s, e)) = Len(s) + 1
      /\ \A i \in 1..Len(s) : Append(s, e)[i] = s[i]
      /\ Append(s, e)[Len(s) + 1] = e
  BY AppendProperties, LenProperties
<1>4. PICK g \in [0..Len(Append(s, e)) -> Seq(Record)] :
          After(g, p, os, Append(s, e)) /\ Dispatch(p, os, Append(s, e)) = g[Len(Append(s, e))]
  BY <1>3, DispatchSteps
<1>5. f[0] = g[0] /\ \A i \in 1..Len(s) : f[i - 1] = g[i - 1] => f[i] = g[i]
  <2>1. f[0] = g[0]
    BY <1>2, <1>4 DEF After
  <2>2. ASSUME NEW i \in 1..Len(s), f[i - 1] = g[i - 1] PROVE f[i] = g[i]
    <3>1. i \in 1..Len(Append(s, e)) /\ Append(s, e)[i] = s[i]
      BY <1>3
    <3> QED BY <3>1, <2>2, <1>2, <1>4 DEF After
  <2> QED BY <2>1, <2>2
<1>6. f[Len(s)] = g[Len(s)]
  BY <1>3, <1>5, ChainsAgree
<1>7. g[Len(s) + 1] = Handle(p, g[Len(s)], e)
  <2>1. Len(s) + 1 \in 1..Len(Append(s, e)) /\ (Len(s) + 1) - 1 = Len(s)
    BY <1>3
  <2> QED BY <2>1, <1>3, <1>4 DEF After
<1>8. Dispatch(p, os, s) \in Seq(Record)
  BY <1>2, <1>3
<1> QED BY <1>2, <1>3, <1>4, <1>6, <1>7, <1>8

(* Events read in two turns do what they do in one.                        *)
LEMMA DispatchConcat ==
  ASSUME NEW p, NEW os \in Seq(Record), NEW s \in Seq(Event), NEW t \in Seq(Event)
  PROVE  Dispatch(p, os, s \o t) = Dispatch(p, Dispatch(p, os, s), t)
<1> DEFINE mid == Dispatch(p, os, s)
           T == {u \in Seq(Event) : Dispatch(p, os, s \o u) = Dispatch(p, mid, u)}
<1>0. mid \in Seq(Record)
  <2>1. PICK f \in [0..Len(s) -> Seq(Record)] : After(f, p, os, s) /\ Dispatch(p, os, s) = f[Len(s)]
    BY DispatchSteps
  <2> QED BY <2>1, LenProperties
<1>1. <<>> \in T
  <2>1. <<>> \in Seq(Event) /\ s \o <<>> = s
    BY EmptySeq, ConcatEmptySeq
  <2>2. Dispatch(p, mid, <<>>) = mid
    BY <1>0, DispatchNone
  <2> QED BY <2>1, <2>2
<1> HIDE DEF mid
<1>2. ASSUME NEW u \in Seq(Event), NEW e \in Event, u \in T PROVE Append(u, e) \in T
  <2>1. s \o Append(u, e) = Append(s \o u, e) /\ s \o u \in Seq(Event) /\ Append(u, e) \in Seq(Event)
    BY AppendProperties, ConcatProperties
  <2>2. /\ Dispatch(p, os, Append(s \o u, e)) = Handle(p, Dispatch(p, os, s \o u), e)
        /\ Dispatch(p, mid, Append(u, e)) = Handle(p, Dispatch(p, mid, u), e)
    <3> HIDE DEF T
    <3> QED BY <1>0, <2>1, DispatchAppend
  <2> QED BY <1>2, <2>1, <2>2
<1>3. Seq(Event) \subseteq T
  <2> HIDE DEF T
  <2> QED BY <1>1, <1>2, GrowingSequences
<1> QED BY <1>3 DEF mid

-----------------------------------------------------------------------------
(* The outputs that are announced in s.                                    *)
Globals(s) == {s[i].n : i \in {j \in DOMAIN s : s[j].ev = "global"}}

(* No output is announced twice.                                           *)
AnnouncedOnce(s) ==
  \A i, j \in DOMAIN s : s[i].ev = "global" /\ s[j].ev = "global" /\ s[i].n = s[j].n => i = j

(* The outputs announced by a sequence with one more event.                *)
LEMMA GlobalsSent ==
  ASSUME NEW s \in Seq(Event), NEW e \in Event
  PROVE  /\ Globals(Append(s, e)) = Globals(s) \cup (IF e.ev = "global" THEN {e.n} ELSE {})
         /\ AnnouncedOnce(Append(s, e))
              <=> AnnouncedOnce(s) /\ (e.ev = "global" => e.n \notin Globals(s))
<1>1. /\ DOMAIN s = 1..Len(s) /\ Len(s) \in Nat
      /\ DOMAIN Append(s, e) = 1..(Len(s) + 1)
      /\ \A i \in 1..Len(s) : Append(s, e)[i] = s[i]
      /\ Append(s, e)[Len(s) + 1] = e
  BY Sent
<1> DEFINE t == Append(s, e)
<1> HIDE DEF t
<1>2. /\ DOMAIN t = 1..(Len(s) + 1) /\ t[Len(s) + 1] = e
      /\ \A i \in 1..Len(s) : t[i] = s[i]
  BY <1>1 DEF t
<1>3. ASSUME NEW n PROVE n \in Globals(t) <=> n \in Globals(s) \cup (IF e.ev = "global" THEN {e.n} ELSE {})
  <2>1. n \in Globals(t) <=> \E i \in 1..(Len(s) + 1) : t[i].ev = "global" /\ n = t[i].n
    BY <1>2 DEF Globals
  <2>2. n \in Globals(s) <=> \E i \in 1..Len(s) : s[i].ev = "global" /\ n = s[i].n
    BY <1>1 DEF Globals
  <2> QED BY <1>1, <1>2, <2>1, <2>2
<1>4. AnnouncedOnce(t) <=> AnnouncedOnce(s) /\ (e.ev = "global" => e.n \notin Globals(s))
  <2>1. ASSUME AnnouncedOnce(t) PROVE AnnouncedOnce(s) /\ (e.ev = "global" => e.n \notin Globals(s))
    <3>1. AnnouncedOnce(s)
      BY <1>1, <1>2, <2>1 DEF AnnouncedOnce
    <3>2. ASSUME e.ev = "global", NEW i \in 1..Len(s), s[i].ev = "global", s[i].n = e.n PROVE FALSE
      BY <1>1, <1>2, <2>1, <3>2 DEF AnnouncedOnce
    <3> QED BY <1>1, <3>1, <3>2 DEF Globals
  <2>2. ASSUME AnnouncedOnce(s), e.ev = "global" => e.n \notin Globals(s) PROVE AnnouncedOnce(t)
    <3>1. \A i \in 1..Len(s) : s[i].ev = "global" /\ e.ev = "global" => s[i].n # e.n
      BY <1>1, <2>2 DEF Globals
    <3>2. \A i \in 1..(Len(s) + 1) : i \in 1..Len(s) \/ i = Len(s) + 1
      BY <1>1
    <3> QED BY <1>1, <1>2, <2>2, <3>1, <3>2 DEF AnnouncedOnce
  <2> QED BY <2>1, <2>2
<1> QED BY <1>3, <1>4 DEF t

(* The names of a list are those of its records.                           *)
LEMMA NamesOfRange == \A os : Names(os) = {o.n : o \in Range(os)}
BY DEF Names, Range

(* Which outputs are listed after an event: only an announcement adds one, *)
(* only a removal takes one away.                                          *)
LEMMA HandledNames ==
  ASSUME NEW p, NEW os \in Seq(Record), NEW e \in Event
  PROVE  Names(Handle(p, os, e)) =
           IF e.ev = "global" THEN (IF p = "running" THEN Names(os) \cup {e.n} ELSE Names(os))
           ELSE IF e.ev = "global_remove" THEN Names(os) \ {e.n} ELSE Names(os)
<1>1. Range(os) \subseteq Record /\ Unknown(e.n).n = e.n
  BY LenProperties, UnknownTyped DEF Range, Event
<1>2. \A o \in Range(os) : Changed(e, o).n = o.n
  BY <1>1, ChangedTyped
<1> DEFINE h == Handle(p, os, e)
           R == Range(os)
<1>3. Range(h) =
              IF e.ev = "global" THEN (IF p = "running" THEN Range(os) \cup {Unknown(e.n)} ELSE Range(os))
              ELSE IF e.ev = "global_remove" THEN {o \in Range(os) : o.n # e.n}
              ELSE {Changed(e, o) : o \in Range(os)}
  BY Handled
<1>4. Names(h) = {o.n : o \in Range(h)} /\ Names(os) = {o.n : o \in R}
  BY NamesOfRange
<1> HIDE DEF h, Range, Names, R
<1>5. Range(os) = R
  BY DEF R
<1> HIDE DEF Unknown, Changed
<1>6. CASE e.ev = "global"
  BY <1>1, <1>3, <1>4, <1>5, <1>6 DEF h
<1>7. CASE e.ev = "global_remove"
  BY <1>3, <1>4, <1>5, <1>7 DEF h
<1>8. CASE e.ev \notin {"global", "global_remove"}
  <2>1. Range(h) = {Changed(e, o) : o \in R}
    BY <1>3, <1>5, <1>8
  <2>2. {o.n : o \in Range(h)} = {o.n : o \in R}
    BY <2>1, <1>2, <1>5
  <2> QED BY <1>4, <1>8, <2>2 DEF h
<1> QED BY <1>6, <1>7, <1>8 DEF h

(* However many events are read at once, an output is listed once.         *)
LEMMA DispatchLists ==
  ASSUME NEW p, NEW os \in Seq(Record), NEW s \in Seq(Event),
         Distinct(os), AnnouncedOnce(s), Globals(s) \cap Names(os) = {}
  PROVE  /\ Dispatch(p, os, s) \in Seq(Record)
         /\ Distinct(Dispatch(p, os, s))
         /\ Names(Dispatch(p, os, s)) \subseteq Names(os) \cup Globals(s)
<1> DEFINE P(u) == AnnouncedOnce(u) /\ Globals(u) \cap Names(os) = {}
                     => /\ Dispatch(p, os, u) \in Seq(Record)
                        /\ Distinct(Dispatch(p, os, u))
                        /\ Names(Dispatch(p, os, u)) \subseteq Names(os) \cup Globals(u)
           T == {u \in Seq(Event) : P(u)}
<1>1. <<>> \in T
  <2>1. <<>> \in Seq(Event) /\ Dispatch(p, os, <<>>) = os
    BY EmptySeq, DispatchNone
  <2> QED BY <2>1
<1>2. ASSUME NEW u \in Seq(Event), NEW e \in Event, u \in T PROVE Append(u, e) \in T
  <2> DEFINE d == Dispatch(p, os, u)
  <2>1. Append(u, e) \in Seq(Event)
    BY Sent
  <2>2. SUFFICES ASSUME AnnouncedOnce(Append(u, e)), Globals(Append(u, e)) \cap Names(os) = {}
                 PROVE  /\ Dispatch(p, os, Append(u, e)) \in Seq(Record)
                        /\ Distinct(Dispatch(p, os, Append(u, e)))
                        /\ Names(Dispatch(p, os, Append(u, e))) \subseteq Names(os) \cup Globals(Append(u, e))
    BY <2>1
  <2>3. P(u)
    BY <1>2
  <2> HIDE DEF T, Dispatch, d, P
  <2>4. /\ Globals(Append(u, e)) = Globals(u) \cup (IF e.ev = "global" THEN {e.n} ELSE {})
        /\ AnnouncedOnce(u) /\ (e.ev = "global" => e.n \notin Globals(u))
    BY <2>2, GlobalsSent
  <2>5. Globals(u) \cap Names(os) = {} /\ (e.ev = "global" => e.n \notin Names(os) \cup Globals(u))
    BY <2>2, <2>4
  <2>6. d \in Seq(Record) /\ Distinct(d) /\ Names(d) \subseteq Names(os) \cup Globals(u)
    BY <2>3, <2>4, <2>5 DEF P, d
  <2>7. Dispatch(p, os, Append(u, e)) = Handle(p, d, e)
    BY DispatchAppend DEF d
  <2>8. e.ev = "global" => \A o \in Range(d) : o.n # e.n
    <3>1. Names(d) = {o.n : o \in Range(d)}
      BY NamesOfRange
    <3> QED BY <2>5, <2>6, <3>1
  <2>9. Handle(p, d, e) \in Seq(Record) /\ Distinct(Handle(p, d, e))
    BY <2>6, <2>8, Handled
  <2>10. Names(Handle(p, d, e)) \subseteq Names(d) \cup (IF e.ev = "global" THEN {e.n} ELSE {})
    BY <2>6, HandledNames
  <2> QED BY <2>4, <2>6, <2>7, <2>9, <2>10
<1>3. Seq(Event) \subseteq T
  <2> HIDE DEF T
  <2> QED BY <1>1, <1>2, GrowingSequences
<1> QED BY <1>3

-----------------------------------------------------------------------------
(* Reading.                                                                *)

(* The outputs announced by two sequences, one after the other.            *)
LEMMA AnnouncedTogether ==
  ASSUME NEW s \in Seq(Event), NEW t \in Seq(Event)
  PROVE  /\ s \o t \in Seq(Event)
         /\ Globals(s \o t) = Globals(s) \cup Globals(t)
         /\ AnnouncedOnce(s \o t)
              <=> AnnouncedOnce(s) /\ AnnouncedOnce(t) /\ Globals(s) \cap Globals(t) = {}
<1> DEFINE u == s \o t
           m == Len(s)
           k == Len(t)
<1>1. /\ u \in Seq(Event) /\ m \in Nat /\ k \in Nat /\ DOMAIN s = 1..m /\ DOMAIN t = 1..k
      /\ DOMAIN u = 1..(m + k)
      /\ \A i \in 1..m : u[i] = s[i]
      /\ \A i \in 1..k : u[m + i] = t[i]
  BY SentTogether
<1> HIDE DEF u, m, k
<1>2. \A i \in 1..(m + k) : i \in 1..m \/ (i - m \in 1..k /\ i = m + (i - m))
  BY <1>1
<1>2a. /\ \A i \in 1..m : i \in 1..(m + k)
       /\ \A i \in 1..k : m + i \in 1..(m + k) /\ m + i \notin 1..m
  BY <1>1
<1>3. ASSUME NEW n PROVE n \in Globals(u) <=> n \in Globals(s) \cup Globals(t)
  <2>1. n \in Globals(u) <=> \E i \in 1..(m + k) : u[i].ev = "global" /\ n = u[i].n
    BY <1>1 DEF Globals
  <2>2. n \in Globals(s) <=> \E i \in 1..m : s[i].ev = "global" /\ n = s[i].n
    BY <1>1 DEF Globals
  <2>3. n \in Globals(t) <=> \E i \in 1..k : t[i].ev = "global" /\ n = t[i].n
    BY <1>1 DEF Globals
  <2>4. ASSUME n \in Globals(u) PROVE n \in Globals(s) \cup Globals(t)
    <3>1. PICK i \in 1..(m + k) : u[i].ev = "global" /\ n = u[i].n
      BY <2>1, <2>4
    <3>2. CASE i \in 1..m
      BY <3>1, <3>2, <2>2, <1>1
    <3>3. CASE i - m \in 1..k /\ i = m + (i - m)
      <4>1. u[i] = t[i - m]
        BY <3>3, <1>1
      <4> QED BY <4>1, <3>1, <3>3, <2>3
    <3> QED BY <3>2, <3>3, <1>2
  <2>5. ASSUME n \in Globals(s) \cup Globals(t) PROVE n \in Globals(u)
    BY <2>1, <2>2, <2>3, <2>5, <1>1, <1>2a
  <2> QED BY <2>4, <2>5
<1>4. ASSUME AnnouncedOnce(u) PROVE AnnouncedOnce(s) /\ AnnouncedOnce(t) /\ Globals(s) \cap Globals(t) = {}
  <2>0. \A i, j \in 1..(m + k) : u[i].ev = "global" /\ u[j].ev = "global" /\ u[i].n = u[j].n => i = j
    BY <1>1, <1>4 DEF AnnouncedOnce
  <2>1. AnnouncedOnce(s)
    BY <1>1, <1>2a, <2>0 DEF AnnouncedOnce
  <2>2. ASSUME NEW i \in 1..k, NEW j \in 1..k, t[i].ev = "global", t[j].ev = "global", t[i].n = t[j].n PROVE i = j
    <3>1. m + i = m + j
      BY <2>0, <1>1, <1>2a, <2>2
    <3> QED BY <3>1, <1>1
  <2>3. ASSUME NEW i \in 1..m, NEW j \in 1..k, s[i].ev = "global", t[j].ev = "global", s[i].n = t[j].n PROVE FALSE
    <3>1. i = m + j
      BY <2>0, <1>1, <1>2a, <2>3
    <3> QED BY <3>1, <1>2a
  <2>4. AnnouncedOnce(t)
    BY <2>2, <1>1 DEF AnnouncedOnce
  <2>5. Globals(s) \cap Globals(t) = {}
    BY <2>3, <1>1 DEF Globals
  <2> QED BY <2>1, <2>4, <2>5
<1>5. ASSUME AnnouncedOnce(s), AnnouncedOnce(t), Globals(s) \cap Globals(t) = {} PROVE AnnouncedOnce(u)
  <2>1. SUFFICES ASSUME NEW i \in 1..(m + k), NEW j \in 1..(m + k),
                        u[i].ev = "global", u[j].ev = "global", u[i].n = u[j].n
                 PROVE  i = j
    BY <1>1 DEF AnnouncedOnce
  <2>2. ASSUME NEW a \in 1..m, NEW b \in 1..k, s[a].ev = "global", t[b].ev = "global" PROVE s[a].n # t[b].n
    BY <1>5, <2>2, <1>1 DEF Globals
  <2>3. CASE i \in 1..m /\ j \in 1..m
    BY <1>1, <1>5, <2>1, <2>3 DEF AnnouncedOnce
  <2>4. CASE i \in 1..m /\ j - m \in 1..k /\ j = m + (j - m)
    <3>1. u[i] = s[i] /\ u[j] = t[j - m]
      BY <1>1, <2>4
    <3> QED BY <3>1, <2>1, <2>2, <2>4
  <2>5. CASE j \in 1..m /\ i - m \in 1..k /\ i = m + (i - m)
    <3>1. u[j] = s[j] /\ u[i] = t[i - m]
      BY <1>1, <2>5
    <3> QED BY <3>1, <2>1, <2>2, <2>5
  <2>6. CASE i - m \in 1..k /\ i = m + (i - m) /\ j - m \in 1..k /\ j = m + (j - m)
    <3>1. u[i] = t[i - m] /\ u[j] = t[j - m]
      BY <1>1, <2>6
    <3>2. i - m = j - m
      BY <3>1, <2>1, <2>6, <1>1, <1>5 DEF AnnouncedOnce
    <3> QED BY <3>2, <2>6
  <2> QED BY <1>2, <2>3, <2>4, <2>5, <2>6
<1> QED BY <1>1, <1>3, <1>4, <1>5 DEF u

(* The events not read yet, in their order.                                *)
Unread == FlattenSeq(wire)

(* What a turn reads, and what it leaves.                                  *)
LEMMA TurnReads ==
  ASSUME wire \in Seq(Seq(Event)), Turn
  PROVE  \E events \in Seq(Event) :
           /\ Unread = events \o Unread' /\ wire' \in Seq(Seq(Event))
           /\ outputs' = Dispatch(phase, outputs, events)
           /\ asked' = asked \cup Globals(events)
           /\ "split_read" \notin Faults => \E k \in 0..Len(wire) : /\ events = FlattenSeq(SubSeq(wire, 1, k))
                                                                     /\ wire' = SubSeq(wire, k + 1, Len(wire))
<1>0. Len(wire) \in Nat /\ \A i \in 1..Len(wire) : wire[i] \in Seq(Event)
  BY LenProperties
<1>1. PICK k \in 0..Len(wire) :
        \E i \in IF k < Len(wire) /\ "split_read" \in Faults THEN 0..(Len(wire[k + 1]) - 1) ELSE {0} :
          LET part == IF i = 0 THEN <<>> ELSE SubSeq(wire[k + 1], 1, i)
              events == FlattenSeq(SubSeq(wire, 1, k)) \o part
          IN  /\ outputs' = Dispatch(phase, outputs, events)
              /\ asked' = asked \cup {events[j].n : j \in {m \in DOMAIN events : events[m].ev = "global"}}
              /\ wire' = IF i = 0 THEN SubSeq(wire, k + 1, Len(wire))
                         ELSE <<SubSeq(wire[k + 1], i + 1, Len(wire[k + 1]))>> \o SubSeq(wire, k + 2, Len(wire))
  BY DEF Turn
<1>2. PICK i \in IF k < Len(wire) /\ "split_read" \in Faults THEN 0..(Len(wire[k + 1]) - 1) ELSE {0} :
          LET part == IF i = 0 THEN <<>> ELSE SubSeq(wire[k + 1], 1, i)
              events == FlattenSeq(SubSeq(wire, 1, k)) \o part
          IN  /\ outputs' = Dispatch(phase, outputs, events)
              /\ asked' = asked \cup {events[j].n : j \in {m \in DOMAIN events : events[m].ev = "global"}}
              /\ wire' = IF i = 0 THEN SubSeq(wire, k + 1, Len(wire))
                         ELSE <<SubSeq(wire[k + 1], i + 1, Len(wire[k + 1]))>> \o SubSeq(wire, k + 2, Len(wire))
  BY <1>1
<1> DEFINE before == SubSeq(wire, 1, k)
           after == SubSeq(wire, k + 1, Len(wire))
           part == IF i = 0 THEN <<>> ELSE SubSeq(wire[k + 1], 1, i)
           events == FlattenSeq(before) \o part
<1>3. before \in Seq(Seq(Event)) /\ after \in Seq(Seq(Event)) /\ wire = before \o after
  BY Cut
<1>4. /\ outputs' = Dispatch(phase, outputs, events)
      /\ asked' = asked \cup Globals(events)
      /\ wire' = IF i = 0 THEN after
                 ELSE <<SubSeq(wire[k + 1], i + 1, Len(wire[k + 1]))>> \o SubSeq(wire, k + 2, Len(wire))
  BY <1>2 DEF Globals
<1>5. /\ Unread = FlattenSeq(before) \o FlattenSeq(after)
      /\ FlattenSeq(before) \in Seq(Event) /\ FlattenSeq(after) \in Seq(Event)
  <2>1. /\ FlattenSeq(before \o after) = FlattenSeq(before) \o FlattenSeq(after)
        /\ FlattenSeq(before) \in Seq(Event) /\ FlattenSeq(after) \in Seq(Event)
    <3> HIDE DEF before, after
    <3>1. <<>> \in Seq(Event)
      BY EmptySeq
    <3> QED BY <1>3, <3>1, FlatConcat, FlatAppend
  <2> QED BY <1>3, <2>1 DEF Unread
<1>6. CASE i = 0
  <2>1. events = FlattenSeq(before)
    BY <1>5, <1>6, ConcatEmptySeq
  <2>2. wire' = after /\ Unread' = FlattenSeq(after)
    BY <1>4, <1>6 DEF Unread
  <2> HIDE DEF after
  <2>3. Unread = events \o Unread'
    BY <1>5, <2>1, <2>2
  <2> HIDE DEF events
  <2> QED BY <1>3, <1>4, <1>5, <2>1, <2>2, <2>3 DEF after
<1>7. CASE i # 0
  <2>1. k < Len(wire) /\ "split_read" \in Faults /\ i \in 0..(Len(wire[k + 1]) - 1)
    BY <1>2, <1>7
  <2> DEFINE g == wire[k + 1]
             rest == SubSeq(wire, k + 2, Len(wire))
             left == SubSeq(g, i + 1, Len(g))
  <2>2. g \in Seq(Event) /\ Len(g) \in Nat /\ i \in 0..Len(g)
    <3>1. g \in Seq(Event)
      BY <1>0, <2>1
    <3> QED BY <2>1, <3>1, LenProperties
  <2>3. part \in Seq(Event) /\ left \in Seq(Event) /\ g = part \o left
    <3> HIDE DEF g
    <3>1. SubSeq(g, 1, i) \in Seq(Event) /\ left \in Seq(Event) /\ g = SubSeq(g, 1, i) \o left
      BY <2>2, Cut
    <3> QED BY <3>1, <1>7 DEF g
  <2>4. rest \in Seq(Seq(Event)) /\ after = <<g>> \o rest
    <3>1. k + 1 \in 1..Len(wire) /\ Len(wire) \in (k + 1)..Len(wire) /\ (k + 1) + 1 = k + 2
      BY <1>0, <2>1
    <3>2. after = <<g>> \o rest
      BY <3>1, SubSeqRecursiveFirst
    <3>3. k + 2 \in Int /\ \A j \in (k + 2)..Len(wire) : wire[j] \in Seq(Event)
      BY <1>0, <3>1
    <3>4. rest \in Seq(Seq(Event))
      BY <3>3, <1>0, SubSeqProperties
    <3> QED BY <3>2, <3>4
  <2> HIDE DEF g, rest, left, part, before, after
  <2>5. \A h \in Seq(Event) : /\ <<h>> \in Seq(Seq(Event)) /\ <<h>> \o rest \in Seq(Seq(Event))
                              /\ FlattenSeq(<<h>> \o rest) = h \o FlattenSeq(rest)
    <3>1. SUFFICES ASSUME NEW h \in Seq(Event)
                   PROVE  /\ <<h>> \in Seq(Seq(Event)) /\ <<h>> \o rest \in Seq(Seq(Event))
                          /\ FlattenSeq(<<h>> \o rest) = h \o FlattenSeq(rest)
      OBVIOUS
    <3>2. <<>> \in Seq(Seq(Event)) /\ <<h>> = Append(<<>>, h) /\ <<h>> \in Seq(Seq(Event))
      BY EmptySeq
    <3>3. FlattenSeq(<<>>) = <<>>
      BY DEF FlattenSeq
    <3>4. FlattenSeq(<<h>>) = FlattenSeq(<<>>) \o h
      BY <3>2, FlatAppend
    <3>5. FlattenSeq(<<h>>) = h
      BY <3>3, <3>4, ConcatEmptySeq
    <3>6. FlattenSeq(<<h>> \o rest) = FlattenSeq(<<h>>) \o FlattenSeq(rest)
      BY <2>4, <3>2, FlatConcat
    <3> QED BY <2>4, <3>2, <3>5, <3>6, ConcatProperties
  <2>6. wire' = <<left>> \o rest /\ Unread' = FlattenSeq(wire')
    BY <1>4, <1>7 DEF Unread, left, g, rest
  <2>7. wire' \in Seq(Seq(Event)) /\ Unread' = left \o FlattenSeq(rest)
    BY <2>3, <2>5, <2>6
  <2>8. FlattenSeq(after) = (part \o left) \o FlattenSeq(rest)
    BY <2>2, <2>3, <2>4, <2>5
  <2>9. FlattenSeq(rest) \in Seq(Event)
    <3>1. <<>> \in Seq(Event)
      BY EmptySeq
    <3> QED BY <2>4, <3>1, FlatAppend
  <2>10. Unread = events \o Unread' /\ events \in Seq(Event)
    <3>1. PICK x \in Seq(Event) : x = FlattenSeq(before)
      BY <1>5
    <3>2. PICK y \in Seq(Event) : y = FlattenSeq(rest)
      BY <2>9
    <3>3. PICK v \in Seq(Event), w \in Seq(Event) : v = part /\ w = left
      BY <2>3
    <3>4. x \o ((v \o w) \o y) = (x \o v) \o (w \o y) /\ x \o v \in Seq(Event)
      BY Regroup, SMTT(60)
    <3> QED BY <3>1, <3>2, <3>3, <3>4, <1>5, <2>7, <2>8 DEF events
  <2> HIDE DEF events
  <2> QED BY <1>4, <2>1, <2>7, <2>10
<1> QED BY <1>6, <1>7

-----------------------------------------------------------------------------
(* What the compositor writes.                                             *)

(* What the handlers make of one event, of three and of four.              *)
LEMMA DispatchGroups ==
  ASSUME NEW p, NEW os \in Seq(Record),
         NEW a \in Event, NEW b \in Event, NEW c \in Event, NEW d \in Event
  PROVE  /\ Dispatch(p, os, <<a>>) = Handle(p, os, a)
         /\ Dispatch(p, os, <<a, b, c>>) = Handle(p, Handle(p, Handle(p, os, a), b), c)
         /\ Dispatch(p, os, <<a, b, c, d>>)
              = Handle(p, Handle(p, Handle(p, Handle(p, os, a), b), c), d)
<1> DEFINE s0 == <<>>
           s1 == <<a>>
           s2 == <<a, b>>
           s3 == <<a, b, c>>
           s4 == <<a, b, c, d>>
<1>1. /\ s0 \in Seq(Event) /\ s1 = Append(s0, a) /\ s1 \in Seq(Event)
      /\ s2 = Append(s1, b) /\ s2 \in Seq(Event)
      /\ s3 = Append(s2, c) /\ s3 \in Seq(Event) /\ s4 = Append(s3, d)
  <2>1. s0 \in Seq(Event) /\ s1 \in Seq(Event) /\ s2 \in Seq(Event) /\ s3 \in Seq(Event)
    BY Grouped, Zenon
  <2>2. s1 = Append(s0, a) /\ s2 = Append(s1, b)
    OBVIOUS
  <2>3. s3 = Append(s2, c) /\ s4 = Append(s3, d)
    OBVIOUS
  <2> HIDE DEF s0, s1, s2, s3, s4
  <2> QED BY <2>1, <2>2, <2>3
<1>2. Dispatch(p, os, s0) = os
  BY DispatchNone, Zenon
<1> HIDE DEF s0, s1, s2, s3, s4
<1>3. \A s \in Seq(Event), e \in Event : Dispatch(p, os, Append(s, e)) = Handle(p, Dispatch(p, os, s), e)
  BY DispatchAppend
<1>4. Dispatch(p, os, s1) = Handle(p, os, a)
  BY <1>1, <1>2, <1>3
<1>5. Dispatch(p, os, s2) = Handle(p, Handle(p, os, a), b)
  BY <1>1, <1>3, <1>4
<1>6. Dispatch(p, os, s3) = Handle(p, Handle(p, Handle(p, os, a), b), c)
  BY <1>1, <1>3, <1>5
<1>7. Dispatch(p, os, s4) = Handle(p, Handle(p, Handle(p, Handle(p, os, a), b), c), d)
  BY <1>1, <1>3, <1>6
<1> QED BY <1>4, <1>6, <1>7, Zenon DEF s1, s3, s4

(* An event that is no announcement adds none.                             *)
LEMMA NoneAnnounced ==
  ASSUME NEW s \in Seq(Event), NEW e \in Event, e.ev # "global", Globals(s) = {}, AnnouncedOnce(s)
  PROVE  Globals(Append(s, e)) = {} /\ AnnouncedOnce(Append(s, e))
BY GlobalsSent

(* Only a group with an announcement announces.                            *)
LEMMA GlobalsOfGroups ==
  ASSUME NEW a \in Event, NEW b \in Event, NEW c \in Event, NEW d \in Event
  PROVE  /\ Globals(<<a>>) = (IF a.ev = "global" THEN {a.n} ELSE {}) /\ AnnouncedOnce(<<a>>)
         /\ "global" \notin {a.ev, b.ev, c.ev} =>
              Globals(<<a, b, c>>) = {} /\ AnnouncedOnce(<<a, b, c>>)
         /\ "global" \notin {a.ev, b.ev, c.ev, d.ev} =>
              Globals(<<a, b, c, d>>) = {} /\ AnnouncedOnce(<<a, b, c, d>>)
<1> DEFINE s0 == <<>>
           s1 == <<a>>
           s2 == <<a, b>>
           s3 == <<a, b, c>>
           s4 == <<a, b, c, d>>
<1>1. /\ s0 \in Seq(Event) /\ s1 = Append(s0, a) /\ s1 \in Seq(Event)
      /\ s2 = Append(s1, b) /\ s2 \in Seq(Event)
      /\ s3 = Append(s2, c) /\ s3 \in Seq(Event) /\ s4 = Append(s3, d)
  <2>1. s0 \in Seq(Event) /\ s1 \in Seq(Event) /\ s2 \in Seq(Event) /\ s3 \in Seq(Event)
    BY Grouped, Zenon
  <2>2. s1 = Append(s0, a) /\ s2 = Append(s1, b)
    OBVIOUS
  <2>3. s3 = Append(s2, c) /\ s4 = Append(s3, d)
    OBVIOUS
  <2> HIDE DEF s0, s1, s2, s3, s4
  <2> QED BY <2>1, <2>2, <2>3
<1>2. Globals(s0) = {} /\ AnnouncedOnce(s0)
  BY DEF Globals, AnnouncedOnce
<1> HIDE DEF s0, s1, s2, s3, s4, Globals, AnnouncedOnce
<1>3. \A s \in Seq(Event), e \in Event :
        /\ Globals(Append(s, e)) = Globals(s) \cup (IF e.ev = "global" THEN {e.n} ELSE {})
        /\ AnnouncedOnce(Append(s, e))
              <=> AnnouncedOnce(s) /\ (e.ev = "global" => e.n \notin Globals(s))
  BY GlobalsSent
<1>4. Globals(s1) = (IF a.ev = "global" THEN {a.n} ELSE {}) /\ AnnouncedOnce(s1)
  BY <1>1, <1>2, <1>3
<1>5. ASSUME "global" \notin {a.ev, b.ev, c.ev}
      PROVE  Globals(s3) = {} /\ AnnouncedOnce(s3)
  <2>1. Globals(s1) = {} /\ AnnouncedOnce(s1)
    BY <1>4, <1>5
  <2>2. b.ev # "global" /\ c.ev # "global"
    BY <1>5
  <2>3. Globals(s2) = {} /\ AnnouncedOnce(s2)
    BY <1>1, <2>1, <2>2, NoneAnnounced
  <2> QED BY <1>1, <2>2, <2>3, NoneAnnounced
<1>6. ASSUME "global" \notin {a.ev, b.ev, c.ev, d.ev}
      PROVE  Globals(s4) = {} /\ AnnouncedOnce(s4)
  <2>1. Globals(s3) = {} /\ AnnouncedOnce(s3)
    BY <1>5, <1>6
  <2>2. d.ev # "global"
    BY <1>6
  <2> QED BY <1>1, <2>1, <2>2, NoneAnnounced
<1> QED BY <1>4, <1>5, <1>6, Zenon DEF s1, s3, s4

(* The same, of a sequence with a name.                                    *)
LEMMA DispatchOne ==
  ASSUME NEW p, NEW os \in Seq(Record), NEW a \in Event, NEW s, s = <<a>>
  PROVE  Dispatch(p, os, s) = Handle(p, os, a)
<1>1. Dispatch(p, os, <<a>>) = Handle(p, os, a)
  BY DispatchGroups
<1> QED BY <1>1

(* Three events, by name.                                                  *)
LEMMA DispatchThree ==
  ASSUME NEW p, NEW os \in Seq(Record), NEW a \in Event, NEW b \in Event, NEW c \in Event,
         NEW s, s = <<a, b, c>>
  PROVE  Dispatch(p, os, s) = Handle(p, Handle(p, Handle(p, os, a), b), c)
<1>1. /\ Dispatch(p, os, <<a>>) = Handle(p, os, a)
      /\ Dispatch(p, os, <<a, b, c>>) = Handle(p, Handle(p, Handle(p, os, a), b), c)
      /\ Dispatch(p, os, <<a, b, c, a>>)
            = Handle(p, Handle(p, Handle(p, Handle(p, os, a), b), c), a)
  BY DispatchGroups
<1> QED BY <1>1

(* Four events, by name.                                                   *)
LEMMA DispatchFour ==
  ASSUME NEW p, NEW os \in Seq(Record),
         NEW a \in Event, NEW b \in Event, NEW c \in Event, NEW d \in Event,
         NEW s, s = <<a, b, c, d>>
  PROVE  Dispatch(p, os, s) = Handle(p, Handle(p, Handle(p, Handle(p, os, a), b), c), d)
<1>1. /\ Dispatch(p, os, <<a>>) = Handle(p, os, a)
      /\ Dispatch(p, os, <<a, b, c>>) = Handle(p, Handle(p, Handle(p, os, a), b), c)
      /\ Dispatch(p, os, <<a, b, c, d>>)
            = Handle(p, Handle(p, Handle(p, Handle(p, os, a), b), c), d)
  BY DispatchGroups
<1> QED BY <1>1

(* What the compositor writes.                                             *)
Answered(n, r) == <<Geometry(n, r), Mode(n, r), Done(n)>> \o Position(n, r)
Moved(n, r) ==
  (IF proto.xdg /\ r # real[n] THEN Position(n, r) ELSE <<Geometry(n, r)>>) \o <<Mode(n, r), Done(n)>>
Placing(n, r) ==
  IF proto.xdg /\ r # real[n] THEN Ev("logical", n, r) ELSE Geometry(n, r)

(* A rectangle put elsewhere.                                              *)
LEMMA Rectangles ==
  ASSUME NEW r \in Rectangle, NEW a \in Int, NEW b \in Int
  PROVE  [r EXCEPT !.x = a, !.y = b] \in Rectangle
BY DEF Rectangle

(* A rectangle of another size.                                            *)
LEMMA Resized ==
  ASSUME NEW r \in Rectangle, NEW w \in Nat, NEW h \in Nat
  PROVE  [r EXCEPT !.width = w, !.height = h] \in Rectangle
BY DEF Rectangle

(* What the compositor writes are events of the kinds it means.            *)
LEMMA EventsTyped ==
  ASSUME NEW n \in Output, NEW r \in Rectangle
  PROVE  /\ Geometry(n, r) \in Event /\ Mode(n, r) \in Event /\ Done(n) \in Event
         /\ \A k \in {"global", "global_remove", "logical"} : Ev(k, n, r) \in Event
         /\ Placing(n, r) \in Event /\ Placing(n, r).ev \in {"geometry", "logical"}
         /\ Geometry(n, r).ev = "geometry" /\ Mode(n, r).ev = "mode" /\ Done(n).ev = "done"
<1>1. Ev("logical", n, r) \in Event /\ Ev("global", n, r) \in Event /\ Ev("global_remove", n, r) \in Event
  BY DEF Ev, Event
<1>2. Geometry(n, r) \in Event /\ Geometry(n, r).ev = "geometry"
  <2> DEFINE s == IF proto.xdg THEN [r EXCEPT !.x = 0, !.y = 0] ELSE r
  <2>1. s \in Rectangle
    <3>1. [r EXCEPT !.x = 0, !.y = 0] \in Rectangle
      <4>1. 0 \in Int
        OBVIOUS
      <4> QED BY <4>1, Rectangles, Zenon
    <3> QED BY <3>1, Zenon
  <2>2. Geometry(n, r) = Ev("geometry", n, s)
    BY Zenon DEF Geometry
  <2> HIDE DEF s
  <2> QED BY <2>1, <2>2 DEF Ev, Event
<1>3. Mode(n, r) \in Event /\ Mode(n, r).ev = "mode"
  <2> DEFINE s == IF "scaled" \in Faults THEN [r EXCEPT !.width = 2 * r.width, !.height = 2 * r.height] ELSE r
  <2>1. s \in Rectangle
    <3>1. [r EXCEPT !.width = 2 * r.width, !.height = 2 * r.height] \in Rectangle
      <4>1. 2 * r.width \in Nat /\ 2 * r.height \in Nat
        <5>1. r.width \in Nat /\ r.height \in Nat
          BY DEF Rectangle
        <5> QED BY <5>1
      <4>2. \A w \in Nat, h \in Nat : [r EXCEPT !.width = w, !.height = h] \in Rectangle
        BY Resized
      <4> QED BY <4>1, <4>2, Zenon
    <3> QED BY <3>1, Zenon
  <2>2. Mode(n, r) = Ev("mode", n, s)
    BY Zenon DEF Mode
  <2> HIDE DEF s
  <2> QED BY <2>1, <2>2 DEF Ev, Event
<1>4. Done(n) \in Event /\ Done(n).ev = "done"
  BY DEF Done, Ev, Event, Rectangle, Rect
<1>5. Placing(n, r) \in Event /\ Placing(n, r).ev \in {"geometry", "logical"}
  BY <1>1, <1>2 DEF Placing, Ev
<1> QED BY <1>1, <1>2, <1>3, <1>4, <1>5

(* The groups of Answer and of Reconfigure, event by event: they announce  *)
(* nothing.                                                                *)
LEMMA GroupsWritten ==
  ASSUME NEW n \in Output, NEW r \in Rectangle
  PROVE  /\ Answered(n, r) = IF proto.xdg THEN <<Geometry(n, r), Mode(n, r), Done(n), Ev("logical", n, r)>>
                             ELSE <<Geometry(n, r), Mode(n, r), Done(n)>>
         /\ Moved(n, r) = <<Placing(n, r), Mode(n, r), Done(n)>>
         /\ Answered(n, r) \in Seq(Event) /\ Moved(n, r) \in Seq(Event)
         /\ Globals(Answered(n, r)) = {} /\ AnnouncedOnce(Answered(n, r))
         /\ Globals(Moved(n, r)) = {} /\ AnnouncedOnce(Moved(n, r))
<1> DEFINE a == Geometry(n, r)
           b == Mode(n, r)
           c == Done(n)
           d == Ev("logical", n, r)
           e == Placing(n, r)
<1>1. /\ a \in Event /\ b \in Event /\ c \in Event /\ d \in Event /\ e \in Event
      /\ a.ev = "geometry" /\ b.ev = "mode" /\ c.ev = "done" /\ d.ev = "logical"
      /\ e.ev \in {"geometry", "logical"}
  <2>1. d.ev = "logical"
    BY DEF Ev
  <2>2. d \in Event
    BY EventsTyped
  <2> HIDE DEF a, b, c, d, e
  <2> QED BY EventsTyped, <2>1, <2>2 DEF a, b, c, e
<1>2. Answered(n, r) = IF proto.xdg THEN <<a, b, c>> \o <<d>> ELSE <<a, b, c>> \o <<>>
  <2>1. CASE proto.xdg
    BY <2>1, Zenon DEF Answered, Position
  <2>2. CASE ~proto.xdg
    BY <2>2, Zenon DEF Answered, Position
  <2> QED BY <2>1, <2>2, Zenon
<1>3. Moved(n, r) = <<e>> \o <<b, c>>
  <2>1. CASE proto.xdg /\ r # real[n]
    BY <2>1, Zenon DEF Moved, Position, Placing
  <2>2. CASE ~(proto.xdg /\ r # real[n])
    BY <2>2, Zenon DEF Moved, Placing
  <2> QED BY <2>1, <2>2, Zenon
<1> HIDE DEF a, b, c, d, e, Globals, AnnouncedOnce, Answered, Moved
<1>4. /\ <<a, b, c>> \o <<>> = <<a, b, c>> /\ <<a, b, c>> \o <<d>> = <<a, b, c, d>>
      /\ <<a, b, c>> \in Seq(Event) /\ <<a, b, c, d>> \in Seq(Event)
  <2>1. <<a, b, c>> \in Seq(Event) /\ <<a, b, c, d>> \in Seq(Event)
    BY <1>1, Grouped, Zenon
  <2>2. <<a, b, c>> \o <<>> = <<a, b, c>> /\ <<a, b, c>> \o <<d>> = <<a, b, c, d>>
    BY <1>1, JoinOne
  <2> QED BY <2>1, <2>2, Zenon
<1>5. <<e>> \o <<b, c>> = <<e, b, c>> /\ <<e, b, c>> \in Seq(Event)
  <2>1. <<e, b, c>> \in Seq(Event)
    BY <1>1, Grouped, Zenon
  <2>2. <<e>> \o <<b, c>> = <<e, b, c>>
    BY <1>1, JoinTwo
  <2> QED BY <2>1, <2>2, Zenon
<1>6. /\ Globals(<<a, b, c>>) = {} /\ AnnouncedOnce(<<a, b, c>>)
      /\ Globals(<<a, b, c, d>>) = {} /\ AnnouncedOnce(<<a, b, c, d>>)
  <2>1. "global" \notin {a.ev, b.ev, c.ev, d.ev} /\ "global" \notin {a.ev, b.ev, c.ev}
    BY <1>1
  <2> QED BY <1>1, <2>1, GlobalsOfGroups, Zenon
<1>7. Globals(<<e, b, c>>) = {} /\ AnnouncedOnce(<<e, b, c>>)
  <2>1. "global" \notin {e.ev, b.ev, c.ev}
    BY <1>1
  <2> QED BY <1>1, <2>1, GlobalsOfGroups, Zenon
<1>8. Moved(n, r) = <<e, b, c>>
  BY <1>3, <1>5, Zenon
<1>9. Answered(n, r) = IF proto.xdg THEN <<a, b, c, d>> ELSE <<a, b, c>>
  BY <1>2, <1>4, Zenon
<1>10. Answered(n, r) \in Seq(Event) /\ Globals(Answered(n, r)) = {} /\ AnnouncedOnce(Answered(n, r))
  <2>1. CASE proto.xdg
    BY <2>1, <1>9, <1>4, <1>6, Zenon
  <2>2. CASE ~proto.xdg
    BY <2>2, <1>9, <1>4, <1>6, Zenon
  <2> QED BY <2>1, <2>2, Zenon
<1>11. Moved(n, r) \in Seq(Event) /\ Globals(Moved(n, r)) = {} /\ AnnouncedOnce(Moved(n, r))
  BY <1>8, <1>5, <1>7, Zenon
<1> QED BY <1>8, <1>9, <1>10, <1>11, Zenon DEF a, b, c, d, e

-----------------------------------------------------------------------------
(* Types.                                                                  *)

(* The compositor: what an output is now is among what it has been.        *)
LayoutTypes ==
  /\ names \in Initial..MaxGlobals /\ moves \in 0..MaxMoves
  /\ phase \in {"startup", "running", "failed"}
  /\ DOMAIN real \subseteq 1..names
  /\ past \in [Output -> SUBSET Rectangle]
  /\ \A n \in DOMAIN real : real[n] \in past[n]

(* A list of outputs.                                                      *)
Listed(os) == os \in Seq(Record) /\ Distinct(os)

(* The wire and the list of the Wayland thread: a global is announced      *)
(* once, before it is listed, and only what was announced is listed or     *)
(* bound. It is this that keeps an output from being listed twice.         *)
WireTypes ==
  /\ wire \in Seq(Seq(Event)) /\ asked \subseteq 1..names
  /\ AnnouncedOnce(Unread) /\ Globals(Unread) \subseteq 1..names
  /\ Listed(outputs) /\ Names(outputs) \subseteq 1..names
  /\ Globals(Unread) \cap Names(outputs) = {}

(* The copies: lists without doubles, and a monitor that is never ahead.   *)
CopyTypes ==
  /\ Listed(shared.sources) /\ Listed(known) /\ Listed(mappings)
  /\ shared.set \in Nat
  /\ monitor \in [pc : {"idle", "emit"}, count : Nat, set : -1..shared.set]
  /\ phase = "startup" => monitor.set = -1

(* The clients: who has been told, or has barriers, has a session.         *)
ClientTypes ==
  /\ view = [c \in Client |-> view[c]]
  /\ told \cup barriers \subseteq {c \in Client : view[c] # Absent}

OTypes == LayoutTypes /\ WireTypes /\ CopyTypes /\ ClientTypes

-----------------------------------------------------------------------------
(* A filtered list of outputs is one.                                      *)
LEMMA KeptListed ==
  ASSUME NEW os, Listed(os), NEW S
  PROVE  Listed(Kept(os, S)) /\ Range(Kept(os, S)) = Range(os) \cap S
BY KeptRange, KeptDistinct DEF Listed

(* The outputs published are those that are complete and can be seen       *)
(* (update_shared_state).                                                  *)
LEMMA SourcesListed ==
  ASSUME NEW os, Listed(os)
  PROVE  /\ Listed(Sources(os)) /\ Len(Sources(os)) \in Nat
         /\ Range(Sources(os)) = {o \in Range(os) : o.done /\ o.rect.width > 0 /\ o.rect.height > 0}
<1> DEFINE S == {o \in Record : o.done /\ o.rect.width > 0 /\ o.rect.height > 0}
<1>1. Sources(os) = Kept(os, S)
  BY DEF Sources
<1>2. Range(os) \subseteq Record
  BY LenProperties DEF Listed, Range
<1>3. Listed(Kept(os, S)) /\ Range(Kept(os, S)) = Range(os) \cap S
  <2> HIDE DEF S
  <2> QED BY KeptListed
<1>4. Range(os) \cap S = {o \in Range(os) : o.done /\ o.rect.width > 0 /\ o.rect.height > 0}
  BY <1>2
<1>5. Listed(Sources(os)) => Len(Sources(os)) \in Nat
  BY LenProperties DEF Listed
<1> HIDE DEF S, Range
<1> QED BY <1>1, <1>3, <1>4, <1>5

(* A list has as many outputs as entries.                                  *)
LEMMA ListedOnce ==
  ASSUME NEW os, Listed(os)
  PROVE  /\ \A i \in DOMAIN os : os[i] \in Record
         /\ Cardinality(Names(os)) = Len(os)
<1>1. os \in Seq(Record) /\ Len(os) \in Nat /\ DOMAIN os = 1..Len(os) /\ \A i \in 1..Len(os) : os[i] \in Record
  BY LenProperties DEF Listed
<1> DEFINE f == [i \in 1..Len(os) |-> os[i].n]
<1>2. Names(os) = {os[i].n : i \in 1..Len(os)}
  BY <1>1 DEF Names
<1>3. \A i, j \in 1..Len(os) : os[i].n = os[j].n => i = j
  BY <1>1 DEF Listed, Distinct
<1>4. f \in Bijection(1..Len(os), Names(os))
  BY <1>2, <1>3 DEF Bijection, Injection, Surjection, IsInjective
<1>5. Cardinality(Names(os)) = Len(os)
  <2>1. ExistsBijection(1..Len(os), Names(os))
    BY <1>4 DEF ExistsBijection
  <2> QED BY <1>1, <2>1, FS_CountingElements
<1> QED BY <1>1, <1>5

(* A group written comes after all that is unread.                         *)
LEMMA Written ==
  ASSUME wire \in Seq(Seq(Event)), NEW g \in Seq(Event), wire' = Append(wire, g)
  PROVE  /\ wire' \in Seq(Seq(Event)) /\ Unread \in Seq(Event)
         /\ Unread' = Unread \o g
         /\ Globals(Unread)' = Globals(Unread) \cup Globals(g)
         /\ AnnouncedOnce(Unread)'
              <=> AnnouncedOnce(Unread) /\ AnnouncedOnce(g) /\ Globals(Unread) \cap Globals(g) = {}
<1>1. Append(wire, g) \in Seq(Seq(Event))
  BY AppendProperties
<1>2. FlattenSeq(wire) \in Seq(Event) /\ FlattenSeq(Append(wire, g)) = FlattenSeq(wire) \o g
  BY FlatAppend
<1>3. Unread \in Seq(Event) /\ Unread' = Unread \o g
  BY <1>2 DEF Unread
<1>4. /\ Globals(Unread \o g) = Globals(Unread) \cup Globals(g)
      /\ AnnouncedOnce(Unread \o g)
              <=> AnnouncedOnce(Unread) /\ AnnouncedOnce(g) /\ Globals(Unread) \cap Globals(g) = {}
  BY <1>3, AnnouncedTogether
<1> QED BY <1>1, <1>3, <1>4

(* After a read of all that is there.                                      *)
LEMMA NothingWritten ==
  ASSUME wire' = <<>>
  PROVE  /\ wire' \in Seq(Seq(Event)) /\ Unread' = <<>> /\ Unread' \in Seq(Event)
         /\ Globals(Unread)' = {} /\ AnnouncedOnce(Unread)'
<1>1. wire' \in Seq(Seq(Event)) /\ <<>> \in Seq(Event)
  BY EmptySeq
<1>2. FlattenSeq(<<>>) = <<>>
  BY DEF FlattenSeq
<1>3. Unread' = <<>>
  BY <1>2 DEF Unread
<1>4. Globals(<<>>) = {} /\ AnnouncedOnce(<<>>)
  BY DEF Globals, AnnouncedOnce
<1> QED BY <1>1, <1>3, <1>4

-----------------------------------------------------------------------------
(* The initial state.                                                      *)
LEMMA OTypesInit == Init => OTypes
<1> SUFFICES ASSUME Init PROVE OTypes
  OBVIOUS
<1> USE OutputsAssumption
<1>1. LayoutTypes
  <2>1. /\ real \in [1..Initial -> Rectangle] /\ names = Initial /\ moves = 0
        /\ past = [n \in Output |-> IF n <= Initial THEN {real[n]} ELSE {}]
    BY DEF Init
  <2>2. phase \in {"startup", "failed"}
    BY DEF Init, Connect
  <2>3. past \in [Output -> SUBSET Rectangle]
    <3>1. \A n \in Output : n <= Initial => n \in 1..Initial
      BY DEF Output
    <3> QED BY <2>1, <3>1
  <2>4. \A n \in DOMAIN real : real[n] \in past[n]
    BY <2>1 DEF Output
  <2> QED BY <2>1, <2>2, <2>3, <2>4 DEF LayoutTypes
<1>2. Listed(outputs) /\ Names(outputs) = 1..Initial
  <2>1. outputs = [i \in 1..Initial |-> Unknown(i)]
    BY DEF Init
  <2>2. \A i \in 1..Initial : Unknown(i) \in Record /\ Unknown(i).n = i
    BY UnknownTyped DEF Output
  <2> HIDE DEF Unknown
  <2>3. outputs \in [1..Initial -> Record]
    BY <2>1, <2>2
  <2>4. outputs \in Seq(Record)
    BY <2>3, IsASeq
  <2> QED BY <2>1, <2>2, <2>4 DEF Listed, Distinct, Names
<1>3. WireTypes
  <2>1. wire = <<>> /\ asked = 1..Initial /\ names = Initial
    BY DEF Init
  <2>2. wire \in Seq(Seq(Event)) /\ FlattenSeq(<<>>) = <<>>
    BY <2>1, EmptySeq DEF FlattenSeq
  <2>3. AnnouncedOnce(Unread) /\ Globals(Unread) = {}
    BY <2>1, <2>2 DEF Unread, Globals, AnnouncedOnce
  <2> QED BY <1>2, <2>1, <2>2, <2>3 DEF WireTypes
<1>4. CopyTypes
  <2>1. /\ shared = [sources |-> <<>>, zones |-> <<>>, set |-> 0]
        /\ monitor = [pc |-> "idle", count |-> 0, set |-> -1]
        /\ known = <<>> /\ mappings = <<>>
    BY DEF Init
  <2>2. Listed(<<>>)
    BY EmptySeq DEF Listed, Distinct
  <2> QED BY <2>1, <2>2 DEF CopyTypes
<1>5. ClientTypes
  BY DEF Init, ClientTypes
<1> QED BY <1>1, <1>3, <1>4, <1>5 DEF OTypes

(* An output that is plugged in has a name nobody has heard of.            *)
LEMMA PlugTypes ==
  ASSUME OTypes, NEW r \in Places, Plug(r)
  PROVE  OTypes'
<1> USE OutputsAssumption
<1>1. /\ names < MaxGlobals /\ names' = names + 1
      /\ real' = [n \in DOMAIN real \cup {names + 1} |-> IF n = names + 1 THEN r ELSE real[n]]
      /\ past' = [past EXCEPT ![names + 1] = {r}]
      /\ wire' = Append(wire, <<Ev("global", names + 1, r)>>)
      /\ moves' = moves /\ asked' = asked /\ phase' = phase /\ outputs' = outputs /\ shared' = shared
      /\ monitor' = monitor /\ known' = known /\ mappings' = mappings
      /\ view' = view /\ told' = told /\ barriers' = barriers
  BY DEF Plug, portal, clients
<1>2. names \in Nat /\ names + 1 \in Output /\ r \in Rectangle /\ names + 1 \in Nat
  BY <1>1 DEF OTypes, LayoutTypes, Output
<1>3. LayoutTypes'
  <2>1. names' \in Initial..MaxGlobals /\ DOMAIN real' \subseteq 1..names'
    BY <1>1, <1>2 DEF OTypes, LayoutTypes
  <2>2. past' \in [Output -> SUBSET Rectangle]
    BY <1>1, <1>2 DEF OTypes, LayoutTypes
  <2>3. \A n \in DOMAIN real' : real'[n] \in past'[n]
    BY <1>1, <1>2 DEF OTypes, LayoutTypes
  <2> QED BY <1>1, <2>1, <2>2, <2>3 DEF OTypes, LayoutTypes
<1>4. WireTypes'
  <2> DEFINE e == Ev("global", names + 1, r)
  <2>1. e \in Event /\ e.ev = "global" /\ e.n = names + 1
    <3>1. e.ev = "global" /\ e.n = names + 1
      BY DEF Ev
    <3>2. e \in Event
      BY <1>2, EventsTyped
    <3> QED BY <3>1, <3>2
  <2> HIDE DEF e
  <2>2. <<e>> \in Seq(Event) /\ Globals(<<e>>) = {names + 1} /\ AnnouncedOnce(<<e>>)
    <3>1. <<e>> \in Seq(Event)
      BY <2>1, Grouped, Zenon
    <3>2. Globals(<<e>>) = (IF e.ev = "global" THEN {e.n} ELSE {}) /\ AnnouncedOnce(<<e>>)
      BY <2>1, GlobalsOfGroups, Zenon
    <3> QED BY <2>1, <3>1, <3>2, Zenon
  <2>3. wire \in Seq(Seq(Event)) /\ wire' = Append(wire, <<e>>)
    BY <1>1 DEF e, OTypes, WireTypes
  <2>4. /\ wire' \in Seq(Seq(Event))
        /\ Globals(Unread)' = Globals(Unread) \cup {names + 1}
        /\ AnnouncedOnce(Unread)'
              <=> AnnouncedOnce(Unread) /\ Globals(Unread) \cap {names + 1} = {}
    <3> DEFINE g == <<e>>
    <3>1. g \in Seq(Event) /\ Globals(g) = {names + 1} /\ AnnouncedOnce(g) /\ wire' = Append(wire, g)
      BY <2>2, <2>3
    <3> HIDE DEF g
    <3> QED BY <2>3, <3>1, Written, Zenon
  <2>5. names + 1 \notin Globals(Unread) /\ names + 1 \notin Names(outputs)
    BY <1>2 DEF OTypes, WireTypes
  <2>6. AnnouncedOnce(Unread) /\ Globals(Unread) \subseteq 1..(names + 1)
    BY <1>2 DEF OTypes, WireTypes
  <2>7. Names(outputs)' = Names(outputs) /\ Listed(outputs)'
    BY <1>1 DEF Names, OTypes, WireTypes, Listed
  <2>8. asked' \subseteq 1..names' /\ Names(outputs) \subseteq 1..names' /\ names + 1 \in 1..names'
    BY <1>1, <1>2 DEF OTypes, WireTypes
  <2> QED BY <1>1, <2>4, <2>5, <2>6, <2>7, <2>8 DEF WireTypes, OTypes
<1>5. CopyTypes' /\ ClientTypes'
  BY <1>1 DEF OTypes, CopyTypes, ClientTypes, Listed
<1> QED BY <1>3, <1>4, <1>5 DEF OTypes

(* An event group that announces nothing.                                  *)
LEMMA QuietWritten ==
  ASSUME OTypes, NEW g \in Seq(Event), Globals(g) = {}, AnnouncedOnce(g), wire' = Append(wire, g),
         outputs' = outputs, names' = names, asked' \subseteq asked
  PROVE  WireTypes'
<1>1. wire \in Seq(Seq(Event)) /\ AnnouncedOnce(Unread)
  BY DEF OTypes, WireTypes
<1>2. wire' \in Seq(Seq(Event)) /\ Globals(Unread)' = Globals(Unread) /\ AnnouncedOnce(Unread)'
  <2>1. /\ wire' \in Seq(Seq(Event)) /\ Globals(Unread)' = Globals(Unread) \cup Globals(g)
        /\ AnnouncedOnce(Unread)' <=> AnnouncedOnce(Unread) /\ AnnouncedOnce(g) /\ Globals(Unread) \cap Globals(g) = {}
    BY <1>1, Written, Zenon
  <2> HIDE DEF Globals, AnnouncedOnce
  <2> QED BY <1>1, <2>1
<1>3. Names(outputs)' = Names(outputs) /\ Listed(outputs)'
  BY DEF Names, OTypes, WireTypes, Listed
<1> QED BY <1>2, <1>3 DEF OTypes, WireTypes

(* A step that leaves the wire and the list alone.                         *)
LEMMA WireKept ==
  ASSUME OTypes, wire' = wire, outputs' = outputs, names' = names, asked' \subseteq asked
  PROVE  WireTypes'
<1>1. Unread' = Unread
  BY DEF Unread
<1>2. Globals(Unread)' = Globals(Unread) /\ AnnouncedOnce(Unread)' = AnnouncedOnce(Unread)
  BY <1>1 DEF Globals, AnnouncedOnce
<1>3. Names(outputs)' = Names(outputs) /\ Listed(outputs)'
  BY DEF Names, OTypes, WireTypes, Listed
<1> QED BY <1>2, <1>3 DEF OTypes, WireTypes

(* An output that goes: its removal is written, nothing else changes.      *)
LEMMA UnplugTypes ==
  ASSUME OTypes, NEW n \in Output, Unplug(n)
  PROVE  OTypes'
<1>1. /\ n \in DOMAIN real /\ real' = [m \in DOMAIN real \ {n} |-> real[m]]
      /\ wire' = Append(wire, <<Ev("global_remove", n, real[n])>>)
      /\ names' = names /\ past' = past
      /\ moves' = moves /\ asked' = asked /\ phase' = phase /\ outputs' = outputs /\ shared' = shared
      /\ monitor' = monitor /\ known' = known /\ mappings' = mappings
      /\ view' = view /\ told' = told /\ barriers' = barriers
  BY DEF Unplug, portal, clients
<1>2. real[n] \in Rectangle
  BY <1>1 DEF OTypes, LayoutTypes
<1>3. LayoutTypes'
  BY <1>1 DEF OTypes, LayoutTypes
<1>4. WireTypes'
  <2> DEFINE e == Ev("global_remove", n, real[n])
             g == <<e>>
  <2>1. e \in Event /\ e.ev = "global_remove"
    <3>1. e.ev = "global_remove"
      BY DEF Ev
    <3>2. e \in Event
      BY <1>2, EventsTyped
    <3> QED BY <3>1, <3>2
  <2>2. wire' = Append(wire, g)
    BY <1>1
  <2> HIDE DEF e
  <2>3. g \in Seq(Event) /\ Globals(g) = {} /\ AnnouncedOnce(g)
    <3>1. g \in Seq(Event)
      BY <2>1, Grouped, Zenon
    <3>2. Globals(g) = (IF e.ev = "global" THEN {e.n} ELSE {}) /\ AnnouncedOnce(g)
      BY <2>1, GlobalsOfGroups, Zenon
    <3> HIDE DEF g
    <3> QED BY <2>1, <3>1, <3>2
  <2> HIDE DEF g
  <2> QED BY <1>1, <2>2, <2>3, QuietWritten
<1>5. CopyTypes' /\ ClientTypes'
  BY <1>1 DEF OTypes, CopyTypes, ClientTypes, Listed
<1> QED BY <1>3, <1>4, <1>5 DEF OTypes

(* An output that moves: its events announce nothing.                      *)
LEMMA ReconfigureTypes ==
  ASSUME OTypes, NEW n \in Output, NEW r \in Places, Reconfigure(n, r)
  PROVE  OTypes'
<1>1. /\ n \in DOMAIN real /\ real' = [real EXCEPT ![n] = r]
      /\ past' = [past EXCEPT ![n] = past[n] \cup {r}] /\ moves < MaxMoves /\ moves' = moves + 1
      /\ wire' = IF n \in Names(outputs) /\ n \notin asked THEN Append(wire, Moved(n, r)) ELSE wire
      /\ names' = names
      /\ asked' = asked /\ phase' = phase /\ outputs' = outputs /\ shared' = shared
      /\ monitor' = monitor /\ known' = known /\ mappings' = mappings
      /\ view' = view /\ told' = told /\ barriers' = barriers
  BY DEF Reconfigure, portal, clients, Moved
<1>2. r \in Rectangle /\ MaxMoves \in Nat
  BY OutputsAssumption
<1>3. LayoutTypes'
  BY <1>1, <1>2 DEF OTypes, LayoutTypes
<1>4. WireTypes'
  <2>1. CASE n \in Names(outputs) /\ n \notin asked
    <3>1. Moved(n, r) \in Seq(Event) /\ Globals(Moved(n, r)) = {} /\ AnnouncedOnce(Moved(n, r))
      BY <1>2, GroupsWritten
    <3>2. wire' = Append(wire, Moved(n, r))
      BY <1>1, <2>1
    <3> DEFINE g == Moved(n, r)
    <3> HIDE DEF g
    <3> QED BY <1>1, <3>1, <3>2, QuietWritten DEF g
  <2>2. CASE ~(n \in Names(outputs) /\ n \notin asked)
    <3>1. wire' = wire
      BY <1>1, <2>2, Zenon
    <3> QED BY <1>1, <3>1, WireKept
  <2> QED BY <2>1, <2>2
<1>5. CopyTypes' /\ ClientTypes'
  BY <1>1 DEF OTypes, CopyTypes, ClientTypes, Listed
<1> QED BY <1>3, <1>4, <1>5 DEF OTypes

(* The answer to a bind announces nothing.                                 *)
LEMMA AnswerTypes ==
  ASSUME OTypes, NEW n \in Output, Answer(n)
  PROVE  OTypes'
<1>1. /\ asked' = asked \ {n}
      /\ wire' = IF n \in DOMAIN real THEN Append(wire, Answered(n, real[n])) ELSE wire
      /\ real' = real /\ names' = names /\ past' = past
      /\ moves' = moves /\ phase' = phase /\ outputs' = outputs /\ shared' = shared
      /\ monitor' = monitor /\ known' = known /\ mappings' = mappings
      /\ view' = view /\ told' = told /\ barriers' = barriers
  BY DEF Answer, compositor, portal, clients, Answered
<1>2. n \in DOMAIN real => real[n] \in Rectangle
  BY DEF OTypes, LayoutTypes
<1>3. LayoutTypes'
  BY <1>1 DEF OTypes, LayoutTypes
<1>4. WireTypes'
  <2>1. CASE n \in DOMAIN real
    <3> DEFINE g == Answered(n, real[n])
    <3>1. g \in Seq(Event) /\ Globals(g) = {} /\ AnnouncedOnce(g)
      BY <1>2, <2>1, GroupsWritten
    <3>2. wire' = Append(wire, g)
      BY <1>1, <2>1
    <3> HIDE DEF g
    <3> QED BY <1>1, <3>1, <3>2, QuietWritten
  <2>2. CASE n \notin DOMAIN real
    <3>1. wire' = wire
      BY <1>1, <2>2, Zenon
    <3> QED BY <1>1, <3>1, WireKept
  <2> QED BY <2>1, <2>2
<1>5. CopyTypes' /\ ClientTypes'
  BY <1>1 DEF OTypes, CopyTypes, ClientTypes, Listed
<1> QED BY <1>3, <1>4, <1>5 DEF OTypes

(* The first roundtrip reads all and makes every copy anew.                *)
LEMMA RoundtripTypes ==
  ASSUME OTypes, Roundtrip
  PROVE  OTypes'
<1>1. /\ outputs' = Dispatch(phase, outputs, Unread)
      /\ shared' = [sources |-> Sources(outputs'), zones |-> Zones(Sources(outputs')), set |-> 0]
      /\ known' = (IF proto.backend THEN Sources(outputs') ELSE <<>>)
      /\ wire' = <<>> /\ phase = "startup" /\ phase' = "running"
      /\ real' = real /\ names' = names /\ past' = past /\ moves' = moves /\ asked' = asked
      /\ monitor' = monitor /\ mappings' = mappings
      /\ view' = view /\ told' = told /\ barriers' = barriers
  BY DEF Roundtrip, compositor, clients, Unread
<1>2. LayoutTypes'
  BY <1>1 DEF OTypes, LayoutTypes
<1>3. Unread \in Seq(Event)
  <2>1. <<>> \in Seq(Event)
    BY EmptySeq
  <2> QED BY <2>1, FlatAppend DEF Unread, OTypes, WireTypes
<1>4. Listed(outputs') /\ Names(outputs') \subseteq 1..names
  <2>1. /\ Dispatch(phase, outputs, Unread) \in Seq(Record) /\ Distinct(Dispatch(phase, outputs, Unread))
        /\ Names(Dispatch(phase, outputs, Unread)) \subseteq Names(outputs) \cup Globals(Unread)
    BY <1>3, DispatchLists DEF OTypes, WireTypes, Listed
  <2> QED BY <1>1, <2>1 DEF OTypes, WireTypes, Listed
<1>5. WireTypes'
  <2>1. wire' \in Seq(Seq(Event)) /\ Globals(Unread)' = {} /\ AnnouncedOnce(Unread)'
    BY <1>1, NothingWritten
  <2>2. asked \subseteq 1..names
    BY DEF OTypes, WireTypes
  <2>3. Listed(outputs)' /\ Names(outputs)' \subseteq 1..names
    BY <1>4 DEF Listed, Names
  <2> QED BY <1>1, <2>1, <2>2, <2>3 DEF WireTypes
<1>6. CopyTypes'
  <2>1. Listed(Sources(outputs'))
    BY <1>4, SourcesListed
  <2>2. Listed(<<>>)
    BY EmptySeq DEF Listed, Distinct
  <2>3. Listed(known')
    BY <1>1, <2>1, <2>2
  <2>4. shared'.sources = Sources(outputs') /\ shared'.set = 0
    BY <1>1
  <2>5. monitor \in [pc : {"idle", "emit"}, count : Nat, set : -1..shared.set] /\ monitor.set = -1
    BY <1>1 DEF OTypes, CopyTypes
  <2>6. monitor \in [pc : {"idle", "emit"}, count : Nat, set : -1..0]
    BY <2>5
  <2>7. Listed(shared.sources)' /\ Listed(known)' /\ Listed(mappings)'
    BY <1>1, <2>1, <2>3, <2>4 DEF OTypes, CopyTypes, Listed
  <2> QED BY <1>1, <2>4, <2>6, <2>7 DEF CopyTypes
<1>7. ClientTypes'
  BY <1>1 DEF OTypes, ClientTypes
<1> QED BY <1>2, <1>5, <1>6, <1>7 DEF OTypes

(* A turn moves announcements from the wire to the list, and binds what it *)
(* adds; the number of the zones never goes back.                          *)
LEMMA TurnTypes ==
  ASSUME OTypes, Turn
  PROVE  OTypes'
<1>1. /\ shared' = update_shared_state(outputs') /\ phase = "running" /\ phase' = phase
      /\ real' = real /\ names' = names /\ past' = past /\ moves' = moves
      /\ monitor' = monitor /\ known' = known /\ mappings' = mappings
      /\ view' = view /\ told' = told /\ barriers' = barriers
  BY DEF Turn, compositor, portal, clients
<1>2. LayoutTypes'
  BY <1>1 DEF OTypes, LayoutTypes
<1>3. PICK events \in Seq(Event) :
           /\ Unread = events \o Unread' /\ wire' \in Seq(Seq(Event))
           /\ outputs' = Dispatch(phase, outputs, events)
           /\ asked' = asked \cup Globals(events)
  <2>1. wire \in Seq(Seq(Event))
    BY DEF OTypes, WireTypes
  <2> QED BY <2>1, TurnReads
<1>4. Unread' \in Seq(Event)
  <2>1. <<>> \in Seq(Event)
    BY EmptySeq
  <2>2. FlattenSeq(wire') \in Seq(Event)
    BY <1>3, <2>1, FlatAppend
  <2> QED BY <2>2 DEF Unread
<1>5. /\ Globals(Unread) = Globals(events) \cup Globals(Unread')
      /\ AnnouncedOnce(events) /\ AnnouncedOnce(Unread') /\ Globals(events) \cap Globals(Unread') = {}
  <2> DEFINE u == Unread'
  <2> HIDE DEF u
  <2>1. u \in Seq(Event) /\ Unread = events \o u /\ AnnouncedOnce(Unread)
    BY <1>3, <1>4 DEF u, OTypes, WireTypes
  <2>2. /\ Globals(events \o u) = Globals(events) \cup Globals(u)
        /\ AnnouncedOnce(events \o u)
              <=> AnnouncedOnce(events) /\ AnnouncedOnce(u) /\ Globals(events) \cap Globals(u) = {}
    BY <2>1, AnnouncedTogether
  <2> QED BY <2>1, <2>2 DEF u
<1>6. Listed(outputs') /\ Names(outputs') \subseteq Names(outputs) \cup Globals(events)
  <2>1. /\ Dispatch(phase, outputs, events) \in Seq(Record) /\ Distinct(Dispatch(phase, outputs, events))
        /\ Names(Dispatch(phase, outputs, events)) \subseteq Names(outputs) \cup Globals(events)
    BY <1>5, DispatchLists DEF OTypes, WireTypes, Listed
  <2> QED BY <1>3, <2>1 DEF Listed
<1>7. WireTypes'
  <2>1. Globals(Unread)' = Globals(Unread') /\ AnnouncedOnce(Unread)' = AnnouncedOnce(Unread')
    BY DEF Globals, AnnouncedOnce
  <2>2. Listed(outputs)' /\ Names(outputs)' = Names(outputs')
    BY <1>6 DEF Listed, Names
  <2>3. asked \subseteq 1..names /\ Globals(Unread) \subseteq 1..names /\ Names(outputs) \subseteq 1..names
        /\ Globals(Unread) \cap Names(outputs) = {}
    BY DEF OTypes, WireTypes
  <2> QED BY <1>1, <1>3, <1>5, <1>6, <2>1, <2>2, <2>3 DEF WireTypes
<1>8. CopyTypes'
  <2>1. Listed(Sources(outputs'))
    BY <1>6, SourcesListed
  <2>2. /\ shared'.sources = Sources(outputs')
        /\ shared'.set = shared.set + (IF Zones(Sources(outputs')) = shared.zones THEN 0 ELSE 1)
    BY <1>1 DEF update_shared_state
  <2>3. shared.set \in Nat /\ monitor \in [pc : {"idle", "emit"}, count : Nat, set : -1..shared.set]
    BY DEF OTypes, CopyTypes
  <2>4. shared'.set \in Nat /\ shared'.set >= shared.set
    BY <2>2, <2>3
  <2>5. monitor \in [pc : {"idle", "emit"}, count : Nat, set : -1..shared'.set]
    <3>1. -1..shared.set \subseteq -1..shared'.set
      BY <2>3, <2>4
    <3> QED BY <2>3, <3>1
  <2>6. Listed(shared.sources)' /\ Listed(known)' /\ Listed(mappings)'
    BY <1>1, <2>1, <2>2 DEF OTypes, CopyTypes, Listed
  <2> QED BY <1>1, <2>4, <2>5, <2>6 DEF CopyTypes
<1>9. ClientTypes'
  BY <1>1 DEF OTypes, ClientTypes
<1> QED BY <1>2, <1>7, <1>8, <1>9 DEF OTypes

(* The portal's tasks leave the wire and the list alone.                   *)
LEMMA PortalTypes ==
  ASSUME OTypes, Tick \/ EmitZonesChanged \/ Start
  PROVE  OTypes'
<1>1. /\ real' = real /\ names' = names /\ past' = past /\ moves' = moves /\ phase' = phase
      /\ wire' = wire /\ asked' = asked /\ outputs' = outputs /\ shared' = shared
      /\ view' = view /\ barriers' = barriers
  BY DEF Tick, EmitZonesChanged, Start, compositor, clients
<1>2. LayoutTypes'
  BY <1>1 DEF OTypes, LayoutTypes
<1>3. WireTypes'
  BY <1>1, WireKept
<1>4. Listed(shared.sources)' /\ Listed(shared.sources) /\ Len(shared.sources) \in Nat /\ shared.set \in Nat
  BY <1>1, LenProperties DEF OTypes, CopyTypes, Listed
<1>5. CASE Tick
  <2>1. /\ known' \in {shared.sources, known} /\ mappings' = mappings /\ told' = told
        /\ monitor' = [pc |-> IF shared.set # monitor.set THEN "emit" ELSE "idle",
                       count |-> Len(shared.sources), set |-> shared.set]
        /\ phase = "running"
    BY <1>5 DEF Tick, clients
  <2>2. Listed(known)' /\ Listed(mappings)'
    BY <1>4, <2>1 DEF OTypes, CopyTypes, Listed
  <2>3. monitor' \in [pc : {"idle", "emit"}, count : Nat, set : -1..shared.set]
    BY <1>4, <2>1
  <2>4. CopyTypes'
    BY <1>1, <1>4, <2>1, <2>2, <2>3 DEF CopyTypes
  <2> QED BY <1>1, <1>2, <1>3, <2>1, <2>4 DEF OTypes, ClientTypes
<1>6. CASE EmitZonesChanged
  <2>1. /\ known' = known /\ mappings' = mappings /\ told' = {c \in Client : view[c] # Absent}
        /\ monitor' = [monitor EXCEPT !.pc = "idle"]
    BY <1>6 DEF EmitZonesChanged
  <2>2. CopyTypes'
    BY <1>1, <2>1 DEF OTypes, CopyTypes, Listed
  <2> QED BY <1>1, <1>2, <1>3, <2>1, <2>2 DEF OTypes, ClientTypes
<1>7. CASE Start
  <2>1. known' = known /\ monitor' = monitor /\ told' = told
    BY <1>7 DEF Start, clients
  <2>2. PICK N : mappings' = Kept(known, {s \in Record : s.n \in N})
    BY <1>7 DEF Start
  <2>3. Listed(mappings')
    <3> DEFINE S == {s \in Record : s.n \in N}
    <3> HIDE DEF S
    <3>1. Listed(Kept(known, S))
      BY KeptListed DEF OTypes, CopyTypes
    <3> QED BY <2>2, <3>1 DEF S
  <2>4. CopyTypes'
    BY <1>1, <2>1, <2>3 DEF OTypes, CopyTypes, Listed
  <2> QED BY <1>1, <1>2, <1>3, <2>1, <2>4 DEF OTypes, ClientTypes
<1> QED BY <1>5, <1>6, <1>7

(* What the clients do: a session that ends takes its barriers and what it *)
(* was told.                                                               *)
LEMMA SessionTypes ==
  ASSUME OTypes, NEW c \in Client, GetZones(c) \/ SetPointerBarriers(c) \/ Close(c)
  PROVE  OTypes'
<1>1. /\ real' = real /\ names' = names /\ past' = past /\ moves' = moves /\ phase' = phase
      /\ wire' = wire /\ asked' = asked /\ outputs' = outputs /\ shared' = shared
      /\ known' = known /\ mappings' = mappings /\ monitor' = monitor
  BY DEF GetZones, SetPointerBarriers, Close, compositor, portal
<1>2. LayoutTypes' /\ CopyTypes'
  BY <1>1 DEF OTypes, LayoutTypes, CopyTypes, Listed
<1>3. WireTypes'
  BY <1>1, WireKept
<1>4. ClientTypes'
  <2>1. /\ view = [d \in Client |-> view[d]]
        /\ told \cup barriers \subseteq {d \in Client : view[d] # Absent}
    BY DEF OTypes, ClientTypes
  <2>2. CASE GetZones(c)
    <3> DEFINE v == [set |-> shared.set, zones |-> shared.zones]
    <3>1. view' = [view EXCEPT ![c] = v] /\ told' = told \ {c} /\ barriers' = barriers
      BY <2>2 DEF GetZones
    <3>2. v # Absent
      <4>1. v.set \in Nat /\ Absent.set = -1
        BY DEF OTypes, CopyTypes, Absent
      <4> HIDE DEF v
      <4> QED BY <4>1
    <3> HIDE DEF v
    <3> QED BY <2>1, <3>1, <3>2 DEF ClientTypes
  <2>3. CASE SetPointerBarriers(c)
    <3>1. view' = view /\ told' = told /\ barriers' \subseteq barriers \cup {c} /\ view[c] # Absent
      BY <2>3 DEF SetPointerBarriers
    <3> QED BY <2>1, <3>1 DEF ClientTypes
  <2>4. CASE Close(c)
    <3>1. view' = [view EXCEPT ![c] = Absent] /\ told' = told \ {c} /\ barriers' = barriers \ {c}
      BY <2>4 DEF Close
    <3> HIDE DEF Absent
    <3> QED BY <2>1, <3>1 DEF ClientTypes
  <2> QED BY <2>2, <2>3, <2>4
<1> QED BY <1>2, <1>3, <1>4 DEF OTypes

(* Every action keeps OTypes.                                              *)
LEMMA OTypesStep == OTypes /\ [Next]_vars => OTypes'
<1> SUFFICES ASSUME OTypes, [Next]_vars PROVE OTypes'
  OBVIOUS
<1>1. CASE Environment
  BY <1>1, PlugTypes, UnplugTypes, ReconfigureTypes DEF Environment
<1>2. ASSUME NEW n \in Output, Answer(n) PROVE OTypes'
  BY <1>2, AnswerTypes
<1>3. CASE Roundtrip
  BY <1>3, RoundtripTypes
<1>4. CASE Turn
  BY <1>4, TurnTypes
<1>5. CASE Tick \/ EmitZonesChanged \/ Start
  BY <1>5, PortalTypes
<1>6. ASSUME NEW c \in Client, GetZones(c) \/ SetPointerBarriers(c) \/ Close(c) PROVE OTypes'
  BY <1>6, SessionTypes
<1>7. CASE UNCHANGED vars
  <2>1. WireTypes'
    BY <1>7, WireKept DEF vars, compositor
  <2> QED BY <1>7, <2>1 DEF vars, compositor, portal, clients, OTypes, LayoutTypes, CopyTypes, ClientTypes, Listed
<1> QED BY <1>1, <1>2, <1>3, <1>4, <1>5, <1>6, <1>7 DEF Next

(* The variables have their shapes, no list of outputs has one twice, and  *)
(* who has barriers has a session: for any clients, layouts and protocols, *)
(* with every fault and however the reads cut the wire (handlers of        *)
(* wl_registry and wl_output, update_shared_state, the monitor, the        *)
(* sessions).                                                              *)
THEOREM OutputsTypeCorrect == Spec => []TypeOK
<1>1. OTypes => TypeOK
  <2> SUFFICES ASSUME OTypes PROVE TypeOK
    OBVIOUS
  <2>1. \A os \in {outputs, shared.sources, known, mappings} :
          (\A i \in DOMAIN os : os[i] \in Record) /\ Cardinality(Names(os)) = Len(os)
    BY ListedOnce DEF OTypes, WireTypes, CopyTypes
  <2>2. asked \subseteq Output
    BY OutputsAssumption DEF OTypes, WireTypes, LayoutTypes, Output
  <2> QED BY <2>1, <2>2 DEF TypeOK, OTypes, LayoutTypes, CopyTypes, ClientTypes
<1> QED BY <1>1, OTypesInit, OTypesStep, PTL DEF Spec

-----------------------------------------------------------------------------
(* What a group tells.                                                     *)

(* An output all of which is known.                                        *)
Known(n, r) == [n |-> n, rect |-> r, done |-> TRUE]

(* What an event, and what a group that tells all of an output, makes of a *)
(* set of records.                                                         *)
AllChanged(e, R) == {Changed(e, o) : o \in R}
AllTold(n, r, R) == {IF o.n = n THEN Known(n, r) ELSE o : o \in R}

(* Once the group g is read, n is known to be at r and nothing else has    *)
(* changed, whatever was known before.                                     *)
Tells(g, n, r) ==
  \A p : \A os \in Seq(Record) : Range(Dispatch(p, os, g)) = AllTold(n, r, Range(os))

(* A position keeps the size.                                              *)
LEMMA PositionChanged ==
  ASSUME NEW e \in Event, NEW o \in Record, e.n = o.n, e.ev \in {"geometry", "logical"}
  PROVE  Changed(e, o) = [n |-> o.n, done |-> o.done,
            rect |-> [x |-> e.rect.x, y |-> e.rect.y, width |-> o.rect.width, height |-> o.rect.height]]
BY DEF Changed, Event, Record, Rectangle

(* A mode keeps the position.                                              *)
LEMMA ModeChanged ==
  ASSUME NEW e \in Event, NEW o \in Record, e.n = o.n, e.ev = "mode"
  PROVE  Changed(e, o) = [n |-> o.n, done |-> o.done,
            rect |-> [x |-> o.rect.x, y |-> o.rect.y, width |-> e.rect.width, height |-> e.rect.height]]
BY DEF Changed, Event, Record, Rectangle

(* Done keeps the rectangle.                                               *)
LEMMA DoneChanged ==
  ASSUME NEW e \in Event, NEW o \in Record, e.n = o.n, e.ev = "done"
  PROVE  Changed(e, o) = [n |-> o.n, done |-> TRUE, rect |-> o.rect]
BY DEF Changed, Event, Record, Rectangle

(* A position, a mode and done tell all of an output.                      *)
LEMMA ThreeTell ==
  ASSUME NEW n \in Output, NEW r \in Rectangle,
         NEW a \in Event, NEW b \in Event, NEW c \in Event,
         a.n = n, b.n = n, c.n = n, a.ev \in {"geometry", "logical"}, b.ev = "mode", c.ev = "done",
         a.rect.x = r.x, a.rect.y = r.y, b.rect.width = r.width, b.rect.height = r.height
  PROVE  \A o \in Record : Changed(c, Changed(b, Changed(a, o))) = IF o.n = n THEN Known(n, r) ELSE o
<1> SUFFICES ASSUME NEW o \in Record
             PROVE  Changed(c, Changed(b, Changed(a, o))) = IF o.n = n THEN Known(n, r) ELSE o
  OBVIOUS
<1> DEFINE o1 == Changed(a, o)
           o2 == Changed(b, o1)
           o3 == Changed(c, o2)
<1>1. o1 \in Record /\ o1.n = o.n
  BY ChangedTyped
<1> HIDE DEF o1
<1>2. o2 \in Record /\ o2.n = o1.n
  BY <1>1, ChangedTyped
<1> HIDE DEF o2
<1>3. CASE o.n # n
  <2>1. o1 = o
    BY <1>3 DEF o1, Changed
  <2>2. o2 = o1
    BY <1>3, <2>1 DEF o2, Changed
  <2>3. o3 = o2
    BY <1>3, <2>1, <2>2 DEF Changed
  <2> QED BY <1>3, <2>1, <2>2, <2>3 DEF o1, o2
<1>4. CASE o.n = n
  <2>1. o1.rect.x = r.x /\ o1.rect.y = r.y
    BY <1>4, PositionChanged DEF o1
  <2>2. o2 = [n |-> n, done |-> o1.done,
              rect |-> [x |-> r.x, y |-> r.y, width |-> r.width, height |-> r.height]]
    BY <1>1, <1>4, <2>1, ModeChanged DEF o2
  <2>3. r = [x |-> r.x, y |-> r.y, width |-> r.width, height |-> r.height]
    BY DEF Rectangle
  <2>4. o3 = [n |-> n, done |-> TRUE, rect |-> r]
    BY <1>1, <1>2, <1>4, <2>2, <2>3, DoneChanged
  <2> QED BY <1>4, <2>4 DEF Known, o1, o2
<1> QED BY <1>3, <1>4

(* So do geometry, mode, done and the logical position, whatever the       *)
(* position of the geometry: it never stays.                               *)
LEMMA FourTell ==
  ASSUME NEW n \in Output, NEW r \in Rectangle,
         NEW a \in Event, NEW b \in Event, NEW c \in Event, NEW d \in Event,
         a.n = n, b.n = n, c.n = n, d.n = n,
         a.ev = "geometry", b.ev = "mode", c.ev = "done", d.ev = "logical",
         b.rect.width = r.width, b.rect.height = r.height, d.rect = r
  PROVE  \A o \in Record :
           Changed(d, Changed(c, Changed(b, Changed(a, o)))) = IF o.n = n THEN Known(n, r) ELSE o
<1> SUFFICES ASSUME NEW o \in Record
             PROVE  Changed(d, Changed(c, Changed(b, Changed(a, o)))) = IF o.n = n THEN Known(n, r) ELSE o
  OBVIOUS
<1> DEFINE o1 == Changed(a, o)
           o2 == Changed(b, o1)
           o3 == Changed(c, o2)
           o4 == Changed(d, o3)
<1>1. o1 \in Record /\ o1.n = o.n
  BY ChangedTyped
<1> HIDE DEF o1
<1>2. o2 \in Record /\ o2.n = o1.n
  BY <1>1, ChangedTyped
<1> HIDE DEF o2
<1>3. o3 \in Record /\ o3.n = o2.n
  BY <1>2, ChangedTyped
<1> HIDE DEF o3
<1>4. CASE o.n # n
  <2>1. o1 = o
    BY <1>4 DEF o1, Changed
  <2>2. o2 = o1
    BY <1>4, <2>1 DEF o2, Changed
  <2>3. o3 = o2
    BY <1>4, <2>1, <2>2 DEF o3, Changed
  <2>4. o4 = o3
    BY <1>4, <2>1, <2>2, <2>3 DEF Changed
  <2> QED BY <1>4, <2>1, <2>2, <2>3, <2>4 DEF o1, o2, o3
<1>5. CASE o.n = n
  <2>1. o2.rect.width = r.width /\ o2.rect.height = r.height
    BY <1>1, <1>5, ModeChanged DEF o2
  <2>2. o3 = [n |-> n, done |-> TRUE, rect |-> o2.rect]
    BY <1>1, <1>2, <1>5, DoneChanged DEF o3
  <2>3. r = [x |-> r.x, y |-> r.y, width |-> r.width, height |-> r.height]
    BY DEF Rectangle
  <2>4. o4 = [n |-> n, done |-> TRUE, rect |-> [x |-> r.x, y |-> r.y, width |-> r.width, height |-> r.height]]
    BY <1>1, <1>2, <1>3, <1>5, <2>1, <2>2, PositionChanged
  <2>5. o4 = [n |-> n, done |-> TRUE, rect |-> r]
    BY <2>3, <2>4
  <2> QED BY <1>5, <2>5 DEF Known, o1, o2, o3
<1> QED BY <1>4, <1>5

(* What an event that is neither an arrival nor a departure does.          *)
Plain(e) == e.ev \notin {"global", "global_remove"}

(* Such an event changes the records in their places.                      *)
LEMMA PlainHandled ==
  ASSUME NEW p, NEW os \in Seq(Record), NEW e \in Event, Plain(e)
  PROVE  /\ Handle(p, os, e) \in Seq(Record)
         /\ Range(Handle(p, os, e)) = AllChanged(e, Range(os))
<1>1. Handle(p, os, e) \in Seq(Record)
  BY Handled
<1>2. Range(Handle(p, os, e)) =
              IF e.ev = "global" THEN (IF p = "running" THEN Range(os) \cup {Unknown(e.n)} ELSE Range(os))
              ELSE IF e.ev = "global_remove" THEN {o \in Range(os) : o.n # e.n}
              ELSE {Changed(e, o) : o \in Range(os)}
  BY Handled
<1>3. e.ev # "global" /\ e.ev # "global_remove"
  BY DEF Plain
<1> QED BY <1>1, <1>2, <1>3, Zenon DEF AllChanged

(* A list of records holds records.                                        *)
LEMMA RangeRecords == \A os \in Seq(Record) : Range(os) \subseteq Record
BY LenProperties DEF Range

(* Three such events.                                                      *)
LEMMA ThreeDispatched ==
  ASSUME NEW p, NEW os \in Seq(Record),
         NEW a \in Event, NEW b \in Event, NEW c \in Event,
         Plain(a), Plain(b), Plain(c),
         NEW s, s = <<a, b, c>>
  PROVE  Range(Dispatch(p, os, s)) = AllChanged(c, AllChanged(b, AllChanged(a, Range(os))))
<1> DEFINE h1 == Handle(p, os, a)
           h2 == Handle(p, h1, b)
           h3 == Handle(p, h2, c)
<1>0. Dispatch(p, os, s) = h3
  BY DispatchThree
<1>1. h1 \in Seq(Record) /\ Range(h1) = AllChanged(a, Range(os))
  BY PlainHandled
<1> HIDE DEF h1
<1>2. h2 \in Seq(Record) /\ Range(h2) = AllChanged(b, Range(h1))
  BY <1>1, PlainHandled
<1> HIDE DEF h2
<1>3. h3 \in Seq(Record) /\ Range(h3) = AllChanged(c, Range(h2))
  BY <1>2, PlainHandled
<1> QED BY <1>0, <1>1, <1>2, <1>3

(* Four such events.                                                       *)
LEMMA FourDispatched ==
  ASSUME NEW p, NEW os \in Seq(Record),
         NEW a \in Event, NEW b \in Event, NEW c \in Event, NEW d \in Event,
         Plain(a), Plain(b), Plain(c), Plain(d),
         NEW s, s = <<a, b, c, d>>
  PROVE  Range(Dispatch(p, os, s)) = AllChanged(d, AllChanged(c, AllChanged(b, AllChanged(a, Range(os)))))
<1> DEFINE h1 == Handle(p, os, a)
           h2 == Handle(p, h1, b)
           h3 == Handle(p, h2, c)
           h4 == Handle(p, h3, d)
<1>0. Dispatch(p, os, s) = h4
  BY DispatchFour
<1>1. h1 \in Seq(Record) /\ Range(h1) = AllChanged(a, Range(os))
  BY PlainHandled
<1> HIDE DEF h1
<1>2. h2 \in Seq(Record) /\ Range(h2) = AllChanged(b, Range(h1))
  BY <1>1, PlainHandled
<1> HIDE DEF h2
<1>3. h3 \in Seq(Record) /\ Range(h3) = AllChanged(c, Range(h2))
  BY <1>2, PlainHandled
<1> HIDE DEF h3
<1>4. h4 \in Seq(Record) /\ Range(h4) = AllChanged(d, Range(h3))
  BY <1>3, PlainHandled
<1> QED BY <1>0, <1>1, <1>2, <1>3, <1>4

(* Three events that tell all of an output, on a set of records.           *)
LEMMA ThreeTold ==
  ASSUME NEW a, NEW b, NEW c, NEW n, NEW r, NEW R \in SUBSET Record,
         \A o \in Record : Changed(c, Changed(b, Changed(a, o))) = IF o.n = n THEN Known(n, r) ELSE o
  PROVE  AllChanged(c, AllChanged(b, AllChanged(a, R))) = AllTold(n, r, R)
<1> HIDE DEF Changed, Known
<1>1. AllChanged(c, AllChanged(b, AllChanged(a, R))) = {Changed(c, Changed(b, Changed(a, o))) : o \in R}
  BY DEF AllChanged
<1> QED BY <1>1 DEF AllTold

(* Four of them.                                                           *)
LEMMA FourTold ==
  ASSUME NEW a, NEW b, NEW c, NEW d, NEW n, NEW r, NEW R \in SUBSET Record,
         \A o \in Record :
           Changed(d, Changed(c, Changed(b, Changed(a, o)))) = IF o.n = n THEN Known(n, r) ELSE o
  PROVE  AllChanged(d, AllChanged(c, AllChanged(b, AllChanged(a, R)))) = AllTold(n, r, R)
<1> HIDE DEF Changed, Known
<1>1. AllChanged(d, AllChanged(c, AllChanged(b, AllChanged(a, R))))
        = {Changed(d, Changed(c, Changed(b, Changed(a, o)))) : o \in R}
  BY DEF AllChanged
<1> QED BY <1>1 DEF AllTold

(* The groups of Answer and Reconfigure tell all there is to know.         *)
LEMMA AnsweredTells ==
  ASSUME NEW n \in Output, NEW r \in Rectangle, "scaled" \notin Faults
  PROVE  Tells(Answered(n, r), n, r)
<1> DEFINE a == Geometry(n, r)
           b == Mode(n, r)
           c == Done(n)
           d == Ev("logical", n, r)
           s3 == <<a, b, c>>
           s4 == <<a, b, c, d>>
           g == Answered(n, r)
<1>1. /\ a \in Event /\ b \in Event /\ c \in Event /\ d \in Event
      /\ a.ev = "geometry" /\ b.ev = "mode" /\ c.ev = "done"
  BY EventsTyped
<1>2. /\ a.n = n /\ b.n = n /\ c.n = n /\ d.n = n /\ d.ev = "logical" /\ d.rect = r
      /\ b.rect = r /\ (~proto.xdg => a.rect = r)
  BY DEF Geometry, Mode, Done, Ev
<1>3. g = IF proto.xdg THEN s4 ELSE s3
  BY GroupsWritten
<1> HIDE DEF a, b, c, d, g
<1>4. Plain(a) /\ Plain(b) /\ Plain(c) /\ Plain(d)
  BY <1>1, <1>2 DEF Plain
<1>5. s3 = <<a, b, c>> /\ s4 = <<a, b, c, d>>
  OBVIOUS
<1> HIDE DEF s3, s4
<1>6. ASSUME NEW p, NEW os \in Seq(Record)
      PROVE  Range(Dispatch(p, os, g)) = AllTold(n, r, Range(os))
  <2>1. Range(os) \in SUBSET Record
    BY RangeRecords
  <2>2. /\ Range(Dispatch(p, os, s3)) = AllChanged(c, AllChanged(b, AllChanged(a, Range(os))))
        /\ Range(Dispatch(p, os, s4))
              = AllChanged(d, AllChanged(c, AllChanged(b, AllChanged(a, Range(os)))))
    BY <1>1, <1>4, <1>5, ThreeDispatched, FourDispatched
  <2>3. CASE proto.xdg
    <3>1. \A o \in Record :
           Changed(d, Changed(c, Changed(b, Changed(a, o)))) = IF o.n = n THEN Known(n, r) ELSE o
      <4>1. b.rect.width = r.width /\ b.rect.height = r.height
        BY <1>2
      <4> QED BY <1>1, <1>2, <4>1, FourTell
    <3>2. AllChanged(d, AllChanged(c, AllChanged(b, AllChanged(a, Range(os))))) = AllTold(n, r, Range(os))
      BY <2>1, <3>1, FourTold
    <3> QED BY <1>3, <2>2, <2>3, <3>2
  <2>4. CASE ~proto.xdg
    <3>1. \A o \in Record :
           Changed(c, Changed(b, Changed(a, o))) = IF o.n = n THEN Known(n, r) ELSE o
      <4>1. b.rect.width = r.width /\ b.rect.height = r.height /\ a.rect.x = r.x /\ a.rect.y = r.y
        BY <1>2, <2>4
      <4>2. a.ev \in {"geometry", "logical"}
        BY <1>1
      <4> QED BY <1>1, <1>2, <4>1, <4>2, ThreeTell
    <3>2. AllChanged(c, AllChanged(b, AllChanged(a, Range(os)))) = AllTold(n, r, Range(os))
      BY <2>1, <3>1, ThreeTold
    <3> QED BY <1>3, <2>2, <2>4, <3>2
  <2> QED BY <2>3, <2>4
<1> QED BY <1>6 DEF Tells, g

(* The same of an output that moves: with xdg_output by its logical        *)
(* position, which is sent since it is another one.                        *)
LEMMA MovedTells ==
  ASSUME NEW n \in Output, NEW r \in Rectangle, "scaled" \notin Faults, r # real[n]
  PROVE  Tells(Moved(n, r), n, r)
<1> DEFINE a == Placing(n, r)
           b == Mode(n, r)
           c == Done(n)
           s3 == <<a, b, c>>
           g == Moved(n, r)
<1>1. /\ a \in Event /\ b \in Event /\ c \in Event
      /\ a.ev \in {"geometry", "logical"} /\ b.ev = "mode" /\ c.ev = "done"
  BY EventsTyped
<1>2. a.n = n /\ b.n = n /\ c.n = n /\ a.rect = r /\ b.rect = r
  BY DEF Placing, Geometry, Mode, Done, Ev
<1>3. g = s3
  BY GroupsWritten
<1> HIDE DEF a, b, c, g
<1>4. Plain(a) /\ Plain(b) /\ Plain(c)
  BY <1>1, <1>2 DEF Plain
<1>5. s3 = <<a, b, c>>
  OBVIOUS
<1> HIDE DEF s3
<1>6. ASSUME NEW p, NEW os \in Seq(Record)
      PROVE  Range(Dispatch(p, os, g)) = AllTold(n, r, Range(os))
  <2>1. Range(os) \in SUBSET Record
    BY RangeRecords
  <2>2. Range(Dispatch(p, os, s3)) = AllChanged(c, AllChanged(b, AllChanged(a, Range(os))))
    BY <1>1, <1>4, <1>5, ThreeDispatched
  <2>3. \A o \in Record :
           Changed(c, Changed(b, Changed(a, o))) = IF o.n = n THEN Known(n, r) ELSE o
    <3>1. b.rect.width = r.width /\ b.rect.height = r.height /\ a.rect.x = r.x /\ a.rect.y = r.y
      BY <1>2
    <3> QED BY <1>1, <1>2, <3>1, ThreeTell
  <2>4. AllChanged(c, AllChanged(b, AllChanged(a, Range(os)))) = AllTold(n, r, Range(os))
    BY <2>1, <2>3, ThreeTold
  <2> QED BY <1>3, <2>2, <2>4
<1> QED BY <1>6 DEF Tells, g

-----------------------------------------------------------------------------
(* What will be known.                                                     *)

(* Every rectangle can be seen.                                            *)
Visible(r) == r.width > 0 /\ r.height > 0

(* What the outputs will be once all that is unread is read.               *)
Full == Dispatch(phase, outputs, Unread)

(* The outputs whose information is still to come.                         *)
Owed == asked \cup Globals(Unread)

(* The portal will have caught up once it has read all: what is unread,    *)
(* applied to the list, gives the outputs there are, each where it is but  *)
(* for those whose bind is still to be sent or answered; and what is       *)
(* published is what is listed.                                            *)
Caught ==
  /\ Names(Full) = DOMAIN real
  /\ \A o \in Range(Full) : o.n \in Owed \/ o = Known(o.n, real[o.n])
  /\ phase # "running" => Globals(Unread) = {}
  /\ \A n \in DOMAIN real : Visible(real[n])
  /\ phase = "running" =>
       shared.sources = Sources(outputs) /\ shared.zones = Zones(shared.sources)

(* What will be listed are outputs that are listed or announced.           *)
LEMMA UnreadTyped ==
  ASSUME OTypes
  PROVE  /\ Unread \in Seq(Event) /\ Full \in Seq(Record) /\ outputs \in Seq(Record)
         /\ Names(Full) \subseteq Names(outputs) \cup Globals(Unread)
<1>1. Unread \in Seq(Event)
  <2>1. <<>> \in Seq(Event)
    BY EmptySeq
  <2> QED BY <2>1, FlatAppend DEF Unread, OTypes, WireTypes
<1> QED BY <1>1, DispatchLists DEF OTypes, WireTypes, Listed, Full

(* A group written, seen from the end.                                     *)
LEMMA FullWritten ==
  ASSUME OTypes, NEW g \in Seq(Event), wire' = Append(wire, g), outputs' = outputs, phase' = phase
  PROVE  Full' = Dispatch(phase, Full, g) /\ Globals(Unread)' = Globals(Unread) \cup Globals(g)
<1>1. wire \in Seq(Seq(Event)) /\ Unread \in Seq(Event) /\ outputs \in Seq(Record)
  BY UnreadTyped DEF OTypes, WireTypes
<1>2. Unread' = Unread \o g /\ Globals(Unread)' = Globals(Unread) \cup Globals(g)
  BY <1>1, Written
<1>3. Dispatch(phase, outputs, Unread \o g) = Dispatch(phase, Dispatch(phase, outputs, Unread), g)
  BY <1>1, DispatchConcat
<1> QED BY <1>2, <1>3 DEF Full

(* A group of one event.                                                   *)
LEMMA FullWrittenOne ==
  ASSUME OTypes, NEW e \in Event, wire' = Append(wire, <<e>>), outputs' = outputs, phase' = phase
  PROVE  /\ Full' = Handle(phase, Full, e)
         /\ Globals(Unread)' = Globals(Unread) \cup (IF e.ev = "global" THEN {e.n} ELSE {})
<1> DEFINE g == <<e>>
<1>1. g \in Seq(Event) /\ Globals(g) = (IF e.ev = "global" THEN {e.n} ELSE {})
  <2>1. g \in Seq(Event)
    BY Grouped, Zenon
  <2>2. Globals(g) = (IF e.ev = "global" THEN {e.n} ELSE {})
    BY GlobalsOfGroups, Zenon
  <2> QED BY <2>1, <2>2
<1>2. g = <<e>> /\ wire' = Append(wire, g)
  OBVIOUS
<1> HIDE DEF g
<1>3. Full' = Dispatch(phase, Full, g) /\ Globals(Unread)' = Globals(Unread) \cup Globals(g)
  BY <1>1, <1>2, FullWritten
<1>4. Dispatch(phase, Full, g) = Handle(phase, Full, e)
  BY <1>2, UnreadTyped, DispatchOne
<1> QED BY <1>1, <1>3, <1>4

(* The initial state: every output there is is bound, and nothing is known *)
(* of any.                                                                 *)
LEMMA CaughtInit ==
  ASSUME \A f \in InitialLayouts : \A n \in 1..Initial : Visible(f[n])
  PROVE  Init => Caught
<1> SUFFICES ASSUME Init PROVE Caught
  OBVIOUS
<1>1. OTypes
  BY OTypesInit
<1>2. /\ real \in InitialLayouts /\ real \in [1..Initial -> Rectangle] /\ asked = 1..Initial /\ wire = <<>>
      /\ outputs = [i \in 1..Initial |-> Unknown(i)] /\ phase \in {"startup", "failed"}
  BY OutputsAssumption DEF Init, Connect
<1>3. Unread = <<>> /\ Globals(Unread) = {}
  <2>1. FlattenSeq(<<>>) = <<>>
    BY DEF FlattenSeq
  <2> QED BY <1>2, <2>1 DEF Unread, Globals
<1>4. Full = outputs
  BY <1>1, <1>3, DispatchNone, UnreadTyped DEF Full
<1>5. \A i \in 1..Initial : Unknown(i).n = i
  BY UnknownTyped, OutputsAssumption DEF Output
<1>6. Names(Full) = 1..Initial
  <2> HIDE DEF Unknown
  <2> QED BY <1>2, <1>4, <1>5 DEF Names
<1>7. \A o \in Range(Full) : o.n \in Owed
  <2>1. \A o \in Range(Full) : o.n \in Names(Full)
    BY NamesOfRange
  <2> QED BY <1>2, <1>6, <2>1 DEF Owed
<1> QED BY <1>2, <1>3, <1>6, <1>7 DEF Caught

(* A new output will be listed, and bound by the turn that lists it.       *)
LEMMA PlugCaught ==
  ASSUME OTypes, Caught, "early_plug" \notin Faults,
         NEW r \in Places, Visible(r), Plug(r)
  PROVE  Caught'
<1> DEFINE n == names + 1
           e == Ev("global", n, r)
<1>1. /\ phase = "running" /\ phase' = phase /\ outputs' = outputs /\ asked' = asked /\ shared' = shared
      /\ names < MaxGlobals
      /\ real' = [m \in DOMAIN real \cup {n} |-> IF m = n THEN r ELSE real[m]]
      /\ wire' = Append(wire, <<e>>)
  BY DEF Plug
<1>2. n \in Output /\ n \notin DOMAIN real /\ r \in Rectangle /\ n \notin asked
  BY <1>1, OutputsAssumption DEF OTypes, LayoutTypes, WireTypes, Output
<1>3. e \in Event /\ e.ev = "global" /\ e.n = n
  <2>1. e.ev = "global" /\ e.n = n
    BY DEF Ev
  <2>2. e \in Event
    BY <1>2, EventsTyped
  <2> QED BY <2>1, <2>2
<1> HIDE DEF n, e
<1>4. Full' = Handle(phase, Full, e) /\ Globals(Unread)' = Globals(Unread) \cup {n}
  BY <1>1, <1>3, FullWrittenOne
<1>5. Names(Full)' = Names(Full) \cup {n} /\ Range(Full') = Range(Full) \cup {Unknown(n)}
  <2>1. Names(Full)' = Names(Full')
    BY DEF Names
  <2>2. Full \in Seq(Record)
    BY UnreadTyped
  <2>3. Names(Handle(phase, Full, e)) = Names(Full) \cup {n}
    BY <1>1, <1>3, <2>2, HandledNames
  <2>4. Range(Handle(phase, Full, e)) = Range(Full) \cup {Unknown(n)}
    <3>1. Range(Handle(phase, Full, e)) =
              IF e.ev = "global" THEN (IF phase = "running" THEN Range(Full) \cup {Unknown(e.n)} ELSE Range(Full))
              ELSE IF e.ev = "global_remove" THEN {o \in Range(Full) : o.n # e.n}
              ELSE {Changed(e, o) : o \in Range(Full)}
      BY <1>3, <2>2, Handled
    <3> QED BY <1>1, <1>3, <3>1, Zenon
  <2> QED BY <1>4, <2>1, <2>3, <2>4
<1>6. Names(Full)' = DOMAIN real'
  BY <1>1, <1>5 DEF Caught
<1>7. ASSUME NEW o \in Range(Full') PROVE o.n \in Owed' \/ o = Known(o.n, real'[o.n])
  <2>1. Owed' = Owed \cup {n}
    BY <1>1, <1>4 DEF Owed
  <2>2. CASE o = Unknown(n)
    BY <2>1, <2>2, <1>2, UnknownTyped
  <2>3. CASE o \in Range(Full)
    <3>1. o.n \in Names(Full)
      BY <2>3, NamesOfRange
    <3>2. o.n \in DOMAIN real
      BY <3>1 DEF Caught
    <3>3. real'[o.n] = real[o.n]
      BY <3>2, <1>1, <1>2
    <3>4. o.n \in Owed \/ o = Known(o.n, real[o.n])
      BY <2>3 DEF Caught
    <3> QED BY <2>1, <3>3, <3>4
  <2> QED BY <1>5, <2>2, <2>3
<1>8. \A m \in DOMAIN real' : Visible(real'[m])
  BY <1>1, <1>2 DEF Caught
<1>9. phase' = "running" =>
       shared'.sources = Sources(outputs') /\ shared'.zones = Zones(shared'.sources)
  BY <1>1 DEF Caught
<1> QED BY <1>1, <1>6, <1>7, <1>8, <1>9 DEF Caught, Visible

(* The removal of an output will be read after all that was written of it. *)
LEMMA UnplugCaught ==
  ASSUME OTypes, Caught, NEW n \in Output, Unplug(n)
  PROVE  Caught'
<1> DEFINE e == Ev("global_remove", n, real[n])
<1>1. /\ phase' = phase /\ outputs' = outputs /\ asked' = asked /\ shared' = shared
      /\ n \in DOMAIN real /\ real' = [m \in DOMAIN real \ {n} |-> real[m]]
      /\ wire' = Append(wire, <<e>>)
  BY DEF Unplug
<1>2. real[n] \in Rectangle
  BY <1>1 DEF OTypes, LayoutTypes
<1>3. e \in Event /\ e.ev = "global_remove" /\ e.n = n
  <2>1. e.ev = "global_remove" /\ e.n = n
    BY DEF Ev
  <2>2. e \in Event
    BY <1>2, EventsTyped
  <2> QED BY <2>1, <2>2
<1> HIDE DEF e
<1>4. Full' = Handle(phase, Full, e) /\ Globals(Unread)' = Globals(Unread)
  BY <1>1, <1>3, FullWrittenOne
<1>5. Names(Full)' = Names(Full) \ {n} /\ Range(Full') \subseteq Range(Full)
  <2>1. Names(Full)' = Names(Full')
    BY DEF Names
  <2>2. Full \in Seq(Record)
    BY UnreadTyped
  <2>3. Names(Handle(phase, Full, e)) = Names(Full) \ {n}
    BY <1>1, <1>3, <2>2, HandledNames
  <2>4. Range(Handle(phase, Full, e)) \subseteq Range(Full)
    <3>1. Range(Handle(phase, Full, e)) =
              IF e.ev = "global" THEN (IF phase = "running" THEN Range(Full) \cup {Unknown(e.n)} ELSE Range(Full))
              ELSE IF e.ev = "global_remove" THEN {o \in Range(Full) : o.n # e.n}
              ELSE {Changed(e, o) : o \in Range(Full)}
      BY <1>3, <2>2, Handled
    <3>2. Range(Handle(phase, Full, e)) = {o \in Range(Full) : o.n # e.n}
      BY <1>3, <3>1, Zenon
    <3> HIDE DEF Range
    <3> QED BY <3>2
  <2> QED BY <1>4, <2>1, <2>3, <2>4
<1>6. Names(Full)' = DOMAIN real'
  BY <1>1, <1>5 DEF Caught
<1>7. ASSUME NEW o \in Range(Full') PROVE o.n \in Owed' \/ o = Known(o.n, real'[o.n])
  <2>1. Owed' = Owed
    BY <1>1, <1>4 DEF Owed
  <2>2. o.n \in DOMAIN real'
    <3>1. o.n \in Names(Full')
      BY NamesOfRange
    <3>2. Names(Full') = Names(Full)'
      BY DEF Names
    <3> QED BY <3>1, <3>2, <1>6
  <2>3. real'[o.n] = real[o.n]
    BY <2>2, <1>1
  <2>4. o.n \in Owed \/ o = Known(o.n, real[o.n])
    BY <1>5 DEF Caught
  <2> QED BY <2>1, <2>3, <2>4
<1>8. \A m \in DOMAIN real' : Visible(real'[m])
  BY <1>1 DEF Caught
<1>9. phase' = "running" =>
       shared'.sources = Sources(outputs') /\ shared'.zones = Zones(shared'.sources)
  BY <1>1 DEF Caught
<1> QED BY <1>1, <1>4, <1>6, <1>7, <1>8, <1>9 DEF Caught, Visible

(* All told of one output, and nothing of the others.                      *)
LEMMA ToldApart ==
  ASSUME NEW n, NEW r, NEW R
  PROVE  /\ {o.n : o \in AllTold(n, r, R)} = {o.n : o \in R}
         /\ \A o \in AllTold(n, r, R) : o = Known(n, r) \/ (o \in R /\ o.n # n)
<1>1. Known(n, r).n = n
  BY DEF Known
<1> HIDE DEF Known
<1> QED BY <1>1 DEF AllTold

(* The group written tells all of n.                                       *)
LEMMA ToldCaught ==
  ASSUME OTypes, Caught, NEW n \in Output, NEW r \in Rectangle, NEW g \in Seq(Event),
         Tells(g, n, r), Globals(g) = {}, wire' = Append(wire, g),
         outputs' = outputs, phase' = phase, asked \subseteq asked' \cup {n},
         DOMAIN real' = DOMAIN real, \A m \in DOMAIN real : m # n => real'[m] = real[m],
         real'[n] = r
  PROVE  /\ Names(Full)' = DOMAIN real'
         /\ \A o \in Range(Full') : o.n \in Owed' \/ o = Known(o.n, real'[o.n])
         /\ Globals(Unread)' = Globals(Unread)
<1>1. Full' = Dispatch(phase, Full, g) /\ Globals(Unread)' = Globals(Unread)
  <2>1. Full' = Dispatch(phase, Full, g) /\ Globals(Unread)' = Globals(Unread) \cup Globals(g)
    BY FullWritten
  <2> HIDE DEF Globals
  <2> QED BY <2>1
<1>2. Range(Full') = AllTold(n, r, Range(Full))
  BY <1>1, UnreadTyped DEF Tells
<1>3. Names(Full)' = Names(Full')
  BY DEF Names
<1>4. Names(Full') = {o.n : o \in Range(Full')} /\ Names(Full) = {o.n : o \in Range(Full)}
  BY NamesOfRange
<1>5. Names(Full') = Names(Full)
  <2>1. {o.n : o \in AllTold(n, r, Range(Full))} = {o.n : o \in Range(Full)}
    BY ToldApart
  <2> QED BY <1>2, <1>4, <2>1, Zenon
<1>6. ASSUME NEW o \in Range(Full') PROVE o.n \in Owed' \/ o = Known(o.n, real'[o.n])
  <2>1. o = Known(n, r) \/ (o \in Range(Full) /\ o.n # n)
    BY <1>2, ToldApart
  <2>2. CASE o = Known(n, r)
    <3>1. o.n = n
      BY <2>2 DEF Known
    <3> QED BY <2>2, <3>1
  <2>3. CASE o \in Range(Full) /\ o.n # n
    <3>1. o.n \in DOMAIN real
      BY <2>3, <1>4 DEF Caught
    <3>2. o.n \in Owed \/ o = Known(o.n, real[o.n])
      BY <2>3 DEF Caught
    <3>3. o.n \in Owed => o.n \in Owed'
      BY <1>1, <2>3 DEF Owed
    <3> QED BY <2>3, <3>1, <3>2, <3>3
  <2> QED BY <2>1, <2>2, <2>3
<1>7. Names(Full)' = DOMAIN real'
  BY <1>3, <1>5 DEF Caught
<1> QED BY <1>1, <1>6, <1>7

(* An output that moves says so if it is bound, and if it is not its       *)
(* answer will say where it is then.                                       *)
LEMMA ReconfigureCaught ==
  ASSUME OTypes, Caught, "rotate" \notin Faults, "scaled" \notin Faults,
         NEW n \in Output, NEW r \in Places, Visible(r), Reconfigure(n, r)
  PROVE  Caught'
<1>1. /\ n \in DOMAIN real /\ real' = [real EXCEPT ![n] = r] /\ r # real[n] /\ phase = "running"
      /\ wire' = IF n \in Names(outputs) /\ n \notin asked THEN Append(wire, Moved(n, r)) ELSE wire
      /\ asked' = asked /\ phase' = phase /\ outputs' = outputs /\ shared' = shared
  BY DEF Reconfigure, portal, clients, Moved
<1>2. r \in Rectangle
  BY OutputsAssumption
<1>3. DOMAIN real' = DOMAIN real /\ real'[n] = r /\ \A m \in DOMAIN real : m # n => real'[m] = real[m]
  BY <1>1
<1>4. /\ Names(Full)' = DOMAIN real'
      /\ \A o \in Range(Full') : o.n \in Owed' \/ o = Known(o.n, real'[o.n])
  <2>1. CASE n \in Names(outputs) /\ n \notin asked
    <3> DEFINE g == Moved(n, r)
    <3>1. g \in Seq(Event) /\ Globals(g) = {}
      BY <1>2, GroupsWritten
    <3>2. Tells(g, n, r)
      BY <1>1, <1>2, MovedTells
    <3>3. wire' = Append(wire, g)
      BY <1>1, <2>1
    <3> HIDE DEF g
    <3>4. asked \subseteq asked' \cup {n}
      BY <1>1
    <3> QED BY <1>1, <1>2, <1>3, <3>1, <3>2, <3>3, <3>4, ToldCaught
  <2>2. CASE ~(n \in Names(outputs) /\ n \notin asked)
    <3>1. wire' = wire
      BY <1>1, <2>2, Zenon
    <3>2. Unread' = Unread /\ Full' = Full /\ Names(Full)' = Names(Full)
      BY <1>1, <3>1 DEF Unread, Full, Names
    <3>3. Owed' = Owed
      BY <1>1, <3>2 DEF Owed, Globals
    <3>4. n \in Owed
      <4>1. DOMAIN real \subseteq Names(outputs) \cup Globals(Unread)
        BY UnreadTyped DEF Caught
      <4> QED BY <1>1, <2>2, <4>1 DEF Owed
    <3>5. ASSUME NEW o \in Range(Full') PROVE o.n \in Owed' \/ o = Known(o.n, real'[o.n])
      <4>1. o \in Range(Full)
        BY <3>2
      <4>2. o.n \in Names(Full)
        BY <4>1, NamesOfRange
      <4>3. o.n \in Owed \/ o = Known(o.n, real[o.n])
        BY <4>1 DEF Caught
      <4>4. o.n # n => real'[o.n] = real[o.n]
        BY <1>3, <4>2 DEF Caught
      <4> QED BY <3>3, <3>4, <4>3, <4>4
    <3> QED BY <1>3, <3>2, <3>5 DEF Caught
  <2> QED BY <2>1, <2>2
<1>5. \A m \in DOMAIN real' : Visible(real'[m])
  BY <1>3 DEF Caught
<1> QED BY <1>1, <1>4, <1>5 DEF Caught, Visible

(* The answer to a bind says where the output is now, if it is still       *)
(* there.                                                                  *)
LEMMA AnswerCaught ==
  ASSUME OTypes, Caught, "scaled" \notin Faults, NEW n \in Output, Answer(n)
  PROVE  Caught'
<1>1. /\ asked' = asked \ {n}
      /\ wire' = IF n \in DOMAIN real THEN Append(wire, Answered(n, real[n])) ELSE wire
      /\ real' = real /\ phase' = phase /\ outputs' = outputs /\ shared' = shared
  BY DEF Answer, compositor, portal, clients, Answered
<1>2. /\ Names(Full)' = DOMAIN real'
      /\ \A o \in Range(Full') : o.n \in Owed' \/ o = Known(o.n, real'[o.n])
      /\ Globals(Unread)' = Globals(Unread)
  <2>1. CASE n \in DOMAIN real
    <3> DEFINE r == real[n]
               g == Answered(n, r)
    <3>0. r \in Rectangle
      BY <2>1 DEF OTypes, LayoutTypes
    <3>1. g \in Seq(Event) /\ Globals(g) = {}
      BY <3>0, GroupsWritten
    <3>2. Tells(g, n, r)
      BY <3>0, AnsweredTells
    <3>3. wire' = Append(wire, g)
      BY <1>1, <2>1
    <3>4. asked \subseteq asked' \cup {n} /\ real'[n] = r
      BY <1>1
    <3> HIDE DEF g, r
    <3> QED BY <1>1, <3>0, <3>1, <3>2, <3>3, <3>4, ToldCaught
  <2>2. CASE n \notin DOMAIN real
    <3>1. wire' = wire
      BY <1>1, <2>2, Zenon
    <3>2. Unread' = Unread /\ Full' = Full /\ Names(Full)' = Names(Full) /\ Globals(Unread)' = Globals(Unread)
      BY <1>1, <3>1 DEF Unread, Full, Names, Globals
    <3>3. ASSUME NEW o \in Range(Full') PROVE o.n \in Owed' \/ o = Known(o.n, real'[o.n])
      <4>1. o \in Range(Full)
        BY <3>2
      <4>2. o.n \in Names(Full)
        BY <4>1, NamesOfRange
      <4>3. o.n \in Owed \/ o = Known(o.n, real[o.n])
        BY <4>1 DEF Caught
      <4>4. o.n # n
        BY <2>2, <4>2 DEF Caught
      <4>5. o.n \in Owed => o.n \in Owed'
        BY <1>1, <3>2, <4>4 DEF Owed
      <4> QED BY <1>1, <4>3, <4>5
    <3> QED BY <1>1, <3>2, <3>3 DEF Caught
  <2> QED BY <2>1, <2>2
<1> QED BY <1>1, <1>2 DEF Caught, Visible

(* The first roundtrip waits for every answer.                             *)
LEMMA RoundtripCaught ==
  ASSUME OTypes, Caught, Roundtrip
  PROVE  Caught'
<1>1. /\ outputs' = Full
      /\ shared' = [sources |-> Sources(outputs'), zones |-> Zones(Sources(outputs')), set |-> 0]
      /\ wire' = <<>> /\ phase = "startup" /\ phase' = "running" /\ asked = {}
      /\ real' = real /\ asked' = asked
  BY DEF Roundtrip, compositor, clients, Unread, Full
<1>2. Full' = Full
  <2>1. Unread' = <<>> /\ Full \in Seq(Record)
    BY <1>1, NothingWritten, UnreadTyped
  <2>2. Full' = Dispatch("running", Full, <<>>)
    BY <1>1, <2>1 DEF Full
  <2> QED BY <2>1, <2>2, DispatchNone
<1>3. Owed = {}
  BY <1>1 DEF Caught, Owed
<1>4. Names(Full)' = DOMAIN real'
  BY <1>1, <1>2 DEF Caught, Names
<1>5. \A o \in Range(Full') : o.n \in Owed' \/ o = Known(o.n, real'[o.n])
  BY <1>1, <1>2, <1>3 DEF Caught
<1>6. shared'.sources = Sources(outputs') /\ shared'.zones = Zones(shared'.sources)
  BY <1>1
<1> QED BY <1>1, <1>4, <1>5, <1>6 DEF Caught, Visible

(* A turn applies the first of what is unread: what will be listed stays   *)
(* the same, and so do the outputs whose information is still to come.     *)
LEMMA TurnCaught ==
  ASSUME OTypes, Caught, Turn
  PROVE  Caught'
<1>1. /\ shared' = update_shared_state(outputs') /\ phase = "running" /\ phase' = phase /\ real' = real
  BY DEF Turn, compositor
<1>2. PICK events \in Seq(Event) :
           /\ Unread = events \o Unread' /\ wire' \in Seq(Seq(Event))
           /\ outputs' = Dispatch(phase, outputs, events)
           /\ asked' = asked \cup Globals(events)
  <2>1. wire \in Seq(Seq(Event))
    BY DEF OTypes, WireTypes
  <2> QED BY <2>1, TurnReads
<1> DEFINE u == Unread'
<1>3. u \in Seq(Event)
  <2>1. <<>> \in Seq(Event)
    BY EmptySeq
  <2>2. FlattenSeq(wire') \in Seq(Event)
    BY <1>2, <2>1, FlatAppend
  <2> QED BY <2>2 DEF Unread
<1>4. Full' = Full
  <2>1. Full' = Dispatch(phase, outputs', u)
    BY <1>1 DEF Full
  <2> HIDE DEF u
  <2>2. outputs \in Seq(Record)
    BY UnreadTyped
  <2>3. Dispatch(phase, outputs, events \o u) = Dispatch(phase, Dispatch(phase, outputs, events), u)
    BY <1>3, <2>2, DispatchConcat
  <2>4. Full = Dispatch(phase, outputs, events \o u)
    BY <1>2 DEF Full, u
  <2> QED BY <1>2, <2>1, <2>3, <2>4
<1>5. Owed' = Owed
  <2>1. Globals(Unread)' = Globals(u)
    BY DEF Globals
  <2> HIDE DEF u
  <2>2. Globals(events \o u) = Globals(events) \cup Globals(u)
    BY <1>3, AnnouncedTogether
  <2>3. Globals(Unread) = Globals(events \o u)
    BY <1>2 DEF u
  <2>4. Owed' = asked' \cup Globals(Unread)'
    BY DEF Owed
  <2> QED BY <1>2, <2>1, <2>2, <2>3, <2>4 DEF Owed
<1>6. Names(Full)' = DOMAIN real' /\ \A o \in Range(Full') : o.n \in Owed' \/ o = Known(o.n, real'[o.n])
  BY <1>1, <1>4, <1>5 DEF Caught, Names
<1>7. shared'.sources = Sources(outputs') /\ shared'.zones = Zones(shared'.sources)
  BY <1>1 DEF update_shared_state
<1> QED BY <1>1, <1>6, <1>7 DEF Caught, Visible

(* A step of the portal's tasks or of a client touches none of it.         *)
LEMMA CaughtKept ==
  ASSUME Caught, UNCHANGED <<real, wire, asked, phase, outputs, shared>>
  PROVE  Caught'
BY DEF Caught, Full, Owed, Unread, Names, Globals, Visible

(* No output turns in its place, comes before the portal listens for it,   *)
(* or has a mode of other pixels than its rectangle.                       *)
Steady == Faults \cap {"rotate", "early_plug", "scaled"} = {}

(* Every action keeps Caught.                                              *)
LEMMA CaughtStep ==
  ASSUME OTypes, Caught, [Next]_vars, Steady, \A r \in Places : Visible(r)
  PROVE  Caught'
<1>0. "rotate" \notin Faults /\ "early_plug" \notin Faults /\ "scaled" \notin Faults
  BY DEF Steady
<1>1. CASE Environment
  BY <1>0, <1>1, PlugCaught, UnplugCaught, ReconfigureCaught DEF Environment
<1>2. ASSUME NEW n \in Output, Answer(n) PROVE Caught'
  BY <1>0, <1>2, AnswerCaught
<1>3. CASE Roundtrip
  BY <1>3, RoundtripCaught
<1>4. CASE Turn
  BY <1>4, TurnCaught
<1>5. CASE Tick \/ EmitZonesChanged \/ Start
  BY <1>5, CaughtKept DEF Tick, EmitZonesChanged, Start, compositor
<1>6. ASSUME NEW c \in Client, GetZones(c) \/ SetPointerBarriers(c) \/ Close(c) PROVE Caught'
  BY <1>6, CaughtKept DEF GetZones, SetPointerBarriers, Close, compositor
<1>7. CASE UNCHANGED vars
  BY <1>7, CaughtKept DEF vars, compositor
<1> QED BY <1>1, <1>2, <1>3, <1>4, <1>5, <1>6, <1>7 DEF Next

(* With nothing unread and nothing to be answered, what will be listed is  *)
(* what is published.                                                      *)
LEMMA CaughtQuiet ==
  ASSUME OTypes, Caught
  PROVE  QuietZones
<1> SUFFICES ASSUME phase = "running", wire = <<>>, asked = {}
             PROVE  /\ {<<shared.sources[i].n, shared.sources[i].rect>> : i \in DOMAIN shared.sources}
                         = {<<n, real[n]>> : n \in DOMAIN real}
                    /\ shared.zones = Zones(shared.sources)
  BY DEF QuietZones
<1>1. Unread = <<>> /\ Globals(Unread) = {}
  <2>1. FlattenSeq(<<>>) = <<>>
    BY DEF FlattenSeq
  <2> QED BY <2>1 DEF Unread, Globals
<1>2. Full = outputs /\ Owed = {}
  BY <1>1, DispatchNone, UnreadTyped DEF Full, Owed
<1>3. /\ {o.n : o \in Range(outputs)} = DOMAIN real
      /\ \A o \in Range(outputs) : o = Known(o.n, real[o.n])
  BY <1>2, NamesOfRange DEF Caught
<1>4. Range(Sources(outputs)) = {o \in Range(outputs) : o.done /\ o.rect.width > 0 /\ o.rect.height > 0}
  BY SourcesListed DEF OTypes, WireTypes
<1>5. Range(Sources(outputs)) = Range(outputs)
  <2>1. ASSUME NEW o \in Range(outputs) PROVE o.done /\ o.rect.width > 0 /\ o.rect.height > 0
    <3>1. o = Known(o.n, real[o.n]) /\ Visible(real[o.n])
      BY <1>3 DEF Caught
    <3>2. o.done /\ o.rect = real[o.n]
      BY <3>1 DEF Known
    <3> QED BY <3>1, <3>2 DEF Visible
  <2> QED BY <1>4, <2>1
<1>6. shared.sources = Sources(outputs) /\ shared.zones = Zones(shared.sources)
  BY DEF Caught
<1> DEFINE Q == {<<shared.sources[i].n, shared.sources[i].rect>> : i \in DOMAIN shared.sources}
<1>7. Q = {<<o.n, o.rect>> : o \in Range(outputs)}
  <2>1. Q = {<<o.n, o.rect>> : o \in Range(shared.sources)}
    BY DEF Range
  <2> QED BY <1>5, <1>6, <2>1
<1>8. \A o \in Range(outputs) : o.rect = real[o.n]
  BY <1>3 DEF Known
<1> DEFINE R == Range(outputs)
<1> HIDE DEF R, Q
<1>9. Q = {<<n, real[n]>> : n \in DOMAIN real}
  <2>1. Q = {<<o.n, o.rect>> : o \in R} /\ {o.n : o \in R} = DOMAIN real /\ \A o \in R : o.rect = real[o.n]
    BY <1>3, <1>7, <1>8 DEF R
  <2>2. ASSUME NEW x PROVE x \in Q <=> x \in {<<n, real[n]>> : n \in DOMAIN real}
    BY <2>1
  <2> QED BY <2>2
<1> QED BY <1>6, <1>9 DEF Q

(* Once every event is read, the zones and sources published are the       *)
(* outputs there are, each where it is (WlOutput and ZxdgOutputV1          *)
(* dispatch, update_shared_state), however the reads cut the wire and      *)
(* whatever comes and goes between two ticks of the monitor. The           *)
(* hypotheses: no output turns in its place, comes before the portal       *)
(* listens or has a mode of other pixels than its rectangle (each of the   *)
(* three is shown wrong by TLC), and every rectangle has a size, without   *)
(* which an output is not published.                                       *)
THEOREM QuietZonesHold ==
  ASSUME Steady, \A r \in Places : Visible(r),
         \A f \in InitialLayouts : \A n \in 1..Initial : Visible(f[n])
  PROVE  Spec => []QuietZones
<1>1. Init => OTypes /\ Caught
  BY OTypesInit, CaughtInit
<1>2. OTypes /\ Caught /\ [Next]_vars => (OTypes /\ Caught)'
  BY OTypesStep, CaughtStep
<1>3. OTypes /\ Caught => QuietZones
  BY CaughtQuiet
<1> QED BY <1>1, <1>2, <1>3, PTL DEF Spec

-----------------------------------------------------------------------------
(* What was real.                                                          *)

(* An output that is complete is where it has been.                        *)
WasSeen(o) == o.n \in 1..names /\ (o.done /\ Visible(o.rect) => o.rect \in past[o.n])
AllSeen(os) == \A o \in Range(os) : WasSeen(o)

(* A group that is read whole leaves nothing half told.                    *)
Whole(g) ==
  \/ \E e \in Event : g = <<e>> /\ e.ev \in {"global", "global_remove"} /\ e.n \in 1..names
  \/ \E n \in 1..names : \E r \in past[n] : Tells(g, n, r)

(* A rectangle its output has had.                                         *)
Seen(o) == o.n \in 1..names /\ o.rect \in past[o.n]

(* The groups unread, the list and what is published: complete only with a *)
(* rectangle of its own past.                                              *)
WasReal ==
  /\ \A i \in DOMAIN wire : Whole(wire[i])
  /\ AllSeen(outputs) /\ \A o \in Range(shared.sources) : Seen(o)

(* A group read whole makes no output of the list what it never was.       *)
LEMMA WholeSeen ==
  ASSUME NEW p, NEW os \in Seq(Record), AllSeen(os), NEW g \in Seq(Event), Whole(g)
  PROVE  Dispatch(p, os, g) \in Seq(Record) /\ AllSeen(Dispatch(p, os, g))
<1>0. Dispatch(p, os, g) \in Seq(Record)
  BY DispatchSteps, LenProperties
<1>1. CASE \E e \in Event : g = <<e>> /\ e.ev \in {"global", "global_remove"} /\ e.n \in 1..names
  <2>1. PICK e \in Event : g = <<e>> /\ e.ev \in {"global", "global_remove"} /\ e.n \in 1..names
    BY <1>1
  <2>2. Dispatch(p, os, g) = Handle(p, os, e)
    BY <2>1, DispatchOne
  <2>3. Range(Handle(p, os, e)) \subseteq Range(os) \cup {Unknown(e.n)}
    <3>1. Range(Handle(p, os, e)) =
              IF e.ev = "global" THEN (IF p = "running" THEN Range(os) \cup {Unknown(e.n)} ELSE Range(os))
              ELSE IF e.ev = "global_remove" THEN {o \in Range(os) : o.n # e.n}
              ELSE {Changed(e, o) : o \in Range(os)}
      BY Handled
    <3> DEFINE R == Range(os)
               H == Range(Handle(p, os, e))
    <3>2. H = IF e.ev = "global" THEN (IF p = "running" THEN R \cup {Unknown(e.n)} ELSE R)
              ELSE {o \in R : o.n # e.n}
      BY <2>1, <3>1, Zenon
    <3> HIDE DEF R, H
    <3>3. H \subseteq R \cup {Unknown(e.n)}
      BY <3>2
    <3> QED BY <3>3 DEF R, H
  <2>4. WasSeen(Unknown(e.n))
    BY <2>1 DEF WasSeen, Unknown
  <2> QED BY <1>0, <2>2, <2>3, <2>4 DEF AllSeen
<1>2. CASE \E n \in 1..names : \E r \in past[n] : Tells(g, n, r)
  <2>1. PICK n \in 1..names : \E r \in past[n] : Tells(g, n, r)
    BY <1>2
  <2>2. PICK r \in past[n] : Tells(g, n, r)
    BY <2>1
  <2>3. Range(Dispatch(p, os, g)) = AllTold(n, r, Range(os))
    BY <2>2 DEF Tells
  <2>4. WasSeen(Known(n, r))
    BY <2>1, <2>2 DEF WasSeen, Known
  <2>5. \A o \in AllTold(n, r, Range(os)) : o = Known(n, r) \/ (o \in Range(os) /\ o.n # n)
    BY ToldApart
  <2> QED BY <1>0, <2>3, <2>4, <2>5 DEF AllSeen
<1> QED BY <1>1, <1>2 DEF Whole

(* However many groups are read at once.                                   *)
LEMMA GroupsSeen ==
  ASSUME NEW p, NEW os \in Seq(Record), AllSeen(os),
         NEW s \in Seq(Seq(Event)), \A i \in DOMAIN s : Whole(s[i])
  PROVE  AllSeen(Dispatch(p, os, FlattenSeq(s)))
<1> DEFINE S == {g \in Seq(Event) : Whole(g)}
           T == {t \in Seq(S) : /\ Dispatch(p, os, FlattenSeq(t)) \in Seq(Record)
                                /\ AllSeen(Dispatch(p, os, FlattenSeq(t)))}
<1>1. <<>> \in T
  <2>1. FlattenSeq(<<>>) = <<>>
    BY DEF FlattenSeq
  <2>2. Dispatch(p, os, FlattenSeq(<<>>)) = os
    BY <2>1, DispatchNone
  <2>3. <<>> \in Seq(S)
    BY EmptySeq
  <2> QED BY <2>2, <2>3
<1>2. ASSUME NEW t \in Seq(S), NEW g \in S, t \in T PROVE Append(t, g) \in T
  <2>1. t \in Seq(Seq(Event)) /\ g \in Seq(Event) /\ Whole(g)
    BY LenProperties
  <2>2. FlattenSeq(Append(t, g)) = FlattenSeq(t) \o g /\ FlattenSeq(t) \in Seq(Event)
    <3>1. <<>> \in Seq(Event)
      BY EmptySeq
    <3> HIDE DEF S
    <3> QED BY <2>1, <3>1, FlatAppend
  <2> DEFINE d == Dispatch(p, os, FlattenSeq(t))
  <2>3. d \in Seq(Record) /\ AllSeen(d)
    BY <1>2
  <2>4. Dispatch(p, os, FlattenSeq(t) \o g) = Dispatch(p, d, g)
    BY <2>1, <2>2, DispatchConcat
  <2> HIDE DEF d
  <2>5. Dispatch(p, d, g) \in Seq(Record) /\ AllSeen(Dispatch(p, d, g))
    BY <2>1, <2>3, WholeSeen
  <2>6. Append(t, g) \in Seq(S)
    BY Sent
  <2> QED BY <2>2, <2>4, <2>5, <2>6
<1> HIDE DEF T
<1>3. Seq(S) \subseteq T
  <2> HIDE DEF S
  <2> QED BY <1>1, <1>2, GrowingSequences
<1>4. s \in Seq(S)
  <2>1. DOMAIN s = 1..Len(s) /\ Len(s) \in Nat /\ \A i \in 1..Len(s) : s[i] \in Seq(Event)
    BY LenProperties
  <2>2. \A i \in 1..Len(s) : s[i] \in S
    BY <2>1
  <2> HIDE DEF S
  <2> QED BY <2>1, <2>2, AllOf
<1> QED BY <1>3, <1>4 DEF T

(* What an output has been it has been for ever.                           *)
LEMMA WholeKept ==
  ASSUME names \in Nat, names' \in Nat, names' >= names,
         \A n \in 1..names : past[n] \subseteq past'[n]
  PROVE  /\ \A g : Whole(g) => Whole(g)'
         /\ \A o : WasSeen(o) => WasSeen(o)'
         /\ \A o : Seen(o) => Seen(o)'
<1>1. /\ \A o : WasSeen(o) => WasSeen(o)'
      /\ \A o : Seen(o) => Seen(o)'
  BY DEF WasSeen, Visible, Seen
<1>2. ASSUME NEW g, Whole(g) PROVE Whole(g)'
  <2>1. CASE \E e \in Event : g = <<e>> /\ e.ev \in {"global", "global_remove"} /\ e.n \in 1..names
    <3>1. \E e \in Event : g = <<e>> /\ e.ev \in {"global", "global_remove"} /\ e.n \in 1..names'
      BY <2>1
    <3> QED BY <3>1 DEF Whole
  <2>2. CASE \E n \in 1..names : \E r \in past[n] : Tells(g, n, r)
    <3>1. \E n \in 1..names' : \E r \in past'[n] : Tells(g, n, r)
      BY <2>2
    <3> QED BY <3>1 DEF Whole
  <2> QED BY <1>2, <2>1, <2>2 DEF Whole
<1> QED BY <1>1, <1>2

(* What is published of such a list are rectangles of the past.            *)
LEMMA SourcesSeen ==
  ASSUME NEW os, Listed(os), AllSeen(os)
  PROVE  \A o \in Range(Sources(os)) : Seen(o)
BY SourcesListed DEF AllSeen, WasSeen, Seen, Visible

(* A group written that tells all of an output, or announces or removes    *)
(* one.                                                                    *)
LEMMA WrittenWhole ==
  ASSUME OTypes, WasReal, NEW g \in Seq(Event), wire' = Append(wire, g),
         outputs' = outputs, shared' = shared,
         names' \in Nat, names' >= names, \A n \in 1..names : past[n] \subseteq past'[n],
         \/ \E e \in Event : g = <<e>> /\ e.ev \in {"global", "global_remove"} /\ e.n \in 1..names'
         \/ \E n \in 1..names' : \E r \in past'[n] : Tells(g, n, r)
  PROVE  WasReal'
<1>1. wire \in Seq(Seq(Event)) /\ names \in Nat
  BY OutputsAssumption DEF OTypes, WireTypes, LayoutTypes
<1>2. /\ Len(wire) \in Nat /\ DOMAIN wire = 1..Len(wire)
      /\ DOMAIN wire' = 1..(Len(wire) + 1) /\ wire'[Len(wire) + 1] = g
      /\ \A i \in 1..Len(wire) : wire'[i] = wire[i]
  BY <1>1, Sent
<1>3. /\ \A h : Whole(h) => Whole(h)'
      /\ \A o : WasSeen(o) => WasSeen(o)'
      /\ \A o : Seen(o) => Seen(o)'
  BY <1>1, WholeKept
<1>4. ASSUME NEW i \in DOMAIN wire' PROVE Whole(wire[i])'
  <2>1. CASE i \in 1..Len(wire)
    <3>1. Whole(wire[i])
      BY <1>2, <2>1 DEF WasReal
    <3> DEFINE h == wire[i]
    <3>2. Whole(h)'
      <4>1. Whole(h)
        BY <3>1
      <4> QED BY <1>2, <1>3, <2>1, <3>1 DEF Whole
    <3> QED BY <3>2
  <2>2. CASE i = Len(wire) + 1
    <3>1. wire'[i] = g
      BY <1>2, <2>2
    <3> QED BY <3>1 DEF Whole
  <2> QED BY <1>2, <2>1, <2>2
<1>5. AllSeen(outputs)' /\ (\A o \in Range(shared.sources) : Seen(o))'
  BY <1>3 DEF WasReal, AllSeen
<1> QED BY <1>4, <1>5 DEF WasReal

(* Nothing is complete in the initial state.                               *)
LEMMA WasRealInit == Init => WasReal
<1> SUFFICES ASSUME Init PROVE WasReal
  OBVIOUS
<1>1. /\ wire = <<>> /\ names = Initial /\ outputs = [i \in 1..Initial |-> Unknown(i)]
      /\ shared = [sources |-> <<>>, zones |-> <<>>, set |-> 0]
  BY DEF Init
<1>2. DOMAIN wire = {} /\ Range(shared.sources) = {}
  BY <1>1 DEF Range
<1>3. Range(outputs) = {Unknown(i) : i \in 1..Initial}
  BY <1>1 DEF Range
<1>4. \A i \in 1..Initial : WasSeen(Unknown(i))
  BY <1>1 DEF WasSeen, Unknown
<1> QED BY <1>2, <1>3, <1>4 DEF WasReal, AllSeen

(* A new output has no past to be wrong about.                             *)
LEMMA PlugReal ==
  ASSUME OTypes, WasReal, NEW r \in Places, Plug(r)
  PROVE  WasReal'
<1> DEFINE n == names + 1
           e == Ev("global", n, r)
           g == <<e>>
<1>1. /\ outputs' = outputs /\ shared' = shared /\ names < MaxGlobals /\ names' = n
      /\ past' = [past EXCEPT ![n] = {r}] /\ wire' = Append(wire, g)
  BY DEF Plug
<1>2. names \in Nat /\ n \in Output /\ n \in 1..n /\ r \in Rectangle /\ past \in [Output -> SUBSET Rectangle]
  BY <1>1, OutputsAssumption DEF OTypes, LayoutTypes, Output
<1>3. names' \in Nat /\ names' >= names /\ \A m \in 1..names : past[m] \subseteq past'[m]
  <2>1. \A m \in 1..names : m \in Output /\ m # n
    BY <1>1, <1>2, OutputsAssumption DEF Output
  <2> QED BY <1>1, <1>2, <2>1
<1>4. e \in Event /\ e.ev = "global" /\ e.n = n
  <2>1. e.ev = "global" /\ e.n = n
    BY DEF Ev
  <2>2. e \in Event
    BY <1>2, EventsTyped
  <2> QED BY <2>1, <2>2
<1> HIDE DEF e
<1>5. g \in Seq(Event)
  BY <1>4, Grouped, Zenon
<1>6. \E d \in Event : g = <<d>> /\ d.ev \in {"global", "global_remove"} /\ d.n \in 1..names'
  BY <1>1, <1>2, <1>4
<1> HIDE DEF g, n
<1> QED BY <1>1, <1>3, <1>5, <1>6, WrittenWhole

(* A removal tells nothing of an output.                                   *)
LEMMA UnplugReal ==
  ASSUME OTypes, WasReal, NEW n \in Output, Unplug(n)
  PROVE  WasReal'
<1> DEFINE e == Ev("global_remove", n, real[n])
           g == <<e>>
<1>1. /\ outputs' = outputs /\ shared' = shared /\ names' = names /\ past' = past
      /\ n \in DOMAIN real /\ wire' = Append(wire, g)
  BY DEF Unplug
<1>2. names \in Nat /\ n \in 1..names /\ real[n] \in Rectangle
  BY <1>1, OutputsAssumption DEF OTypes, LayoutTypes
<1>4. e \in Event /\ e.ev = "global_remove" /\ e.n = n
  <2>1. e.ev = "global_remove" /\ e.n = n
    BY DEF Ev
  <2>2. e \in Event
    BY <1>2, EventsTyped
  <2> QED BY <2>1, <2>2
<1> HIDE DEF e
<1>5. g \in Seq(Event)
  BY <1>4, Grouped, Zenon
<1>6. \E d \in Event : g = <<d>> /\ d.ev \in {"global", "global_remove"} /\ d.n \in 1..names'
  BY <1>1, <1>2, <1>4
<1>7. names' \in Nat /\ names' >= names /\ \A m \in 1..names : past[m] \subseteq past'[m]
  BY <1>1, <1>2
<1> HIDE DEF g
<1> QED BY <1>1, <1>5, <1>6, <1>7, WrittenWhole

(* The group of an output that moves tells its new rectangle whole.        *)
LEMMA ReconfigureReal ==
  ASSUME OTypes, WasReal, "rotate" \notin Faults, "scaled" \notin Faults,
         NEW n \in Output, NEW r \in Places, Reconfigure(n, r)
  PROVE  WasReal'
<1>1. /\ n \in DOMAIN real /\ r # real[n] /\ past' = [past EXCEPT ![n] = past[n] \cup {r}]
      /\ wire' = IF n \in Names(outputs) /\ n \notin asked THEN Append(wire, Moved(n, r)) ELSE wire
      /\ names' = names /\ outputs' = outputs /\ shared' = shared
  BY DEF Reconfigure, Moved
<1>2. r \in Rectangle /\ n \in 1..names /\ names \in Nat /\ past \in [Output -> SUBSET Rectangle]
  BY <1>1, OutputsAssumption DEF OTypes, LayoutTypes
<1>3. r \in past'[n] /\ \A m \in 1..names : past[m] \subseteq past'[m]
  <2>1. \A m \in 1..names : m \in Output
    BY <1>2, OutputsAssumption DEF Output, OTypes, LayoutTypes
  <2> QED BY <1>1, <1>2, <2>1
<1>4. CASE n \in Names(outputs) /\ n \notin asked
  <2> DEFINE g == Moved(n, r)
  <2>1. g \in Seq(Event) /\ Tells(g, n, r)
    BY <1>1, <1>2, GroupsWritten, MovedTells
  <2>2. wire' = Append(wire, g)
    BY <1>1, <1>4
  <2>3. \E m \in 1..names' : \E q \in past'[m] : Tells(g, m, q)
    BY <1>1, <1>2, <1>3, <2>1
  <2> HIDE DEF g
  <2> QED BY <1>1, <1>2, <1>3, <2>1, <2>2, <2>3, WrittenWhole
<1>5. CASE ~(n \in Names(outputs) /\ n \notin asked)
  <2>1. wire' = wire
    BY <1>1, <1>5, Zenon
  <2>2. /\ \A h : Whole(h) => Whole(h)'
        /\ \A o : WasSeen(o) => WasSeen(o)'
        /\ \A o : Seen(o) => Seen(o)'
    BY <1>1, <1>2, <1>3, WholeKept
  <2>3. \A i \in DOMAIN wire' : Whole(wire[i])'
    <3> SUFFICES ASSUME NEW i \in DOMAIN wire' PROVE Whole(wire[i])'
      OBVIOUS
    <3>1. Whole(wire[i])
      BY <2>1 DEF WasReal
    <3> QED BY <2>1, <2>2, <3>1 DEF Whole
  <2> QED BY <1>1, <2>1, <2>2, <2>3 DEF WasReal, AllSeen
<1> QED BY <1>4, <1>5

(* So does the answer to a bind.                                           *)
LEMMA AnswerReal ==
  ASSUME OTypes, WasReal, "scaled" \notin Faults, NEW n \in Output, Answer(n)
  PROVE  WasReal'
<1>1. /\ wire' = IF n \in DOMAIN real THEN Append(wire, Answered(n, real[n])) ELSE wire
      /\ past' = past /\ names' = names /\ outputs' = outputs /\ shared' = shared
  BY DEF Answer, compositor, Answered
<1>2. names \in Nat /\ DOMAIN real \subseteq 1..names
  BY OutputsAssumption DEF OTypes, LayoutTypes
<1>3. CASE n \in DOMAIN real
  <2> DEFINE r == real[n]
             g == Answered(n, r)
  <2>0. r \in Rectangle /\ r \in past[n] /\ n \in 1..names
    BY <1>2, <1>3 DEF OTypes, LayoutTypes
  <2>1. g \in Seq(Event) /\ Tells(g, n, r)
    BY <2>0, GroupsWritten, AnsweredTells
  <2>2. wire' = Append(wire, g)
    BY <1>1, <1>3
  <2> HIDE DEF g, r
  <2>3. \E m \in 1..names' : \E q \in past'[m] : Tells(g, m, q)
    BY <1>1, <2>0, <2>1
  <2> QED BY <1>1, <1>2, <2>1, <2>2, <2>3, WrittenWhole
<1>4. CASE n \notin DOMAIN real
  <2>1. wire' = wire
    BY <1>1, <1>4, Zenon
  <2> QED BY <1>1, <2>1 DEF WasReal, AllSeen, WasSeen, Seen, Visible, Whole
<1> QED BY <1>3, <1>4

(* The roundtrip reads whole groups.                                       *)
LEMMA RoundtripReal ==
  ASSUME OTypes, WasReal, Roundtrip
  PROVE  WasReal'
<1>1. /\ outputs' = Dispatch(phase, outputs, FlattenSeq(wire))
      /\ shared' = [sources |-> Sources(outputs'), zones |-> Zones(Sources(outputs')), set |-> 0]
      /\ wire' = <<>> /\ past' = past /\ names' = names
  BY DEF Roundtrip, compositor
<1>2. AllSeen(outputs')
  <2>1. outputs \in Seq(Record) /\ wire \in Seq(Seq(Event)) /\ AllSeen(outputs) /\ \A i \in DOMAIN wire : Whole(wire[i])
    BY DEF OTypes, WireTypes, Listed, WasReal
  <2> QED BY <1>1, <2>1, GroupsSeen
<1>3. Listed(outputs')
  <2>1. OTypes'
    BY RoundtripTypes
  <2> QED BY <2>1 DEF OTypes, WireTypes, Listed
<1>4. (\A o \in Range(Sources(outputs')) : Seen(o)) /\ shared'.sources = Sources(outputs')
  BY <1>1, <1>2, <1>3, SourcesSeen
<1>5. AllSeen(outputs)' /\ (\A o \in Range(shared.sources) : Seen(o))'
  BY <1>1, <1>2, <1>4 DEF AllSeen, WasSeen, Seen, Visible
<1>6. DOMAIN wire' = {}
  BY <1>1
<1> QED BY <1>5, <1>6 DEF WasReal

(* So does a turn, if no read ends inside a group.                         *)
LEMMA TurnReal ==
  ASSUME OTypes, WasReal, "split_read" \notin Faults, Turn
  PROVE  WasReal'
<1>1. /\ shared' = update_shared_state(outputs') /\ past' = past /\ names' = names
  BY DEF Turn, compositor
<1>2. wire \in Seq(Seq(Event)) /\ outputs \in Seq(Record)
  BY DEF OTypes, WireTypes, Listed
<1>3. PICK k \in 0..Len(wire) :
        /\ outputs' = Dispatch(phase, outputs, FlattenSeq(SubSeq(wire, 1, k)))
        /\ wire' = SubSeq(wire, k + 1, Len(wire))
  BY <1>2, TurnReads
<1> DEFINE before == SubSeq(wire, 1, k)
<1>4. /\ Len(wire) \in Nat /\ DOMAIN wire = 1..Len(wire)
      /\ before \in Seq(Seq(Event)) /\ \A i \in DOMAIN before : i \in DOMAIN wire /\ before[i] = wire[i]
      /\ \A i \in DOMAIN wire' : i + k \in DOMAIN wire /\ wire'[i] = wire[i + k]
  BY <1>2, <1>3, SubSeqProperties, LenProperties
<1>5. AllSeen(outputs')
  <2>1. AllSeen(outputs) /\ \A i \in DOMAIN before : Whole(before[i])
    BY <1>4 DEF WasReal
  <2> HIDE DEF before
  <2>2. AllSeen(Dispatch(phase, outputs, FlattenSeq(before)))
    BY <1>2, <1>4, <2>1, GroupsSeen
  <2> QED BY <1>3, <2>2 DEF before
<1>6. Listed(outputs')
  <2>1. OTypes'
    BY TurnTypes
  <2> QED BY <2>1 DEF OTypes, WireTypes, Listed
<1>7. (\A o \in Range(Sources(outputs')) : Seen(o)) /\ shared'.sources = Sources(outputs')
  BY <1>1, <1>5, <1>6, SourcesSeen DEF update_shared_state
<1>8. AllSeen(outputs)' /\ (\A o \in Range(shared.sources) : Seen(o))'
  BY <1>1, <1>5, <1>7 DEF AllSeen, WasSeen, Seen, Visible
<1>9. ASSUME NEW i \in DOMAIN wire' PROVE Whole(wire[i])'
  <2>1. Whole(wire[i + k]) /\ wire'[i] = wire[i + k]
    BY <1>4 DEF WasReal
  <2> QED BY <1>1, <2>1 DEF Whole
<1> QED BY <1>8, <1>9 DEF WasReal

(* The other steps touch none of it.                                       *)
LEMMA WasRealKept ==
  ASSUME WasReal, UNCHANGED <<past, names, wire, outputs, shared>>
  PROVE  WasReal'
BY DEF WasReal, AllSeen, WasSeen, Seen, Visible, Whole

(* Every action keeps WasReal.                                             *)
LEMMA WasRealStep ==
  ASSUME OTypes, WasReal, [Next]_vars, Faults \cap {"rotate", "scaled", "split_read"} = {}
  PROVE  WasReal'
<1>0. "rotate" \notin Faults /\ "scaled" \notin Faults /\ "split_read" \notin Faults
  OBVIOUS
<1>1. CASE Environment
  BY <1>0, <1>1, PlugReal, UnplugReal, ReconfigureReal DEF Environment
<1>2. ASSUME NEW n \in Output, Answer(n) PROVE WasReal'
  BY <1>0, <1>2, AnswerReal
<1>3. CASE Roundtrip
  BY <1>3, RoundtripReal
<1>4. CASE Turn
  BY <1>0, <1>4, TurnReal
<1>5. CASE Tick \/ EmitZonesChanged \/ Start
  BY <1>5, WasRealKept DEF Tick, EmitZonesChanged, Start, compositor
<1>6. ASSUME NEW c \in Client, GetZones(c) \/ SetPointerBarriers(c) \/ Close(c) PROVE WasReal'
  BY <1>6, WasRealKept DEF GetZones, SetPointerBarriers, Close, compositor
<1>7. CASE UNCHANGED vars
  BY <1>7, WasRealKept DEF vars, compositor
<1> QED BY <1>1, <1>2, <1>3, <1>4, <1>5, <1>6, <1>7 DEF Next

(* What WasReal says of the published zones.                               *)
LEMMA SeenWereReal ==
  ASSUME WasReal
  PROVE  ZonesWereReal
BY DEF WasReal, ZonesWereReal, Seen, Range

(* No zone is published that its output never was, neither the placeholder *)
(* of a new output nor a new size at an old position (WlOutput dispatch,   *)
(* update_shared_state), as long as no read ends inside a group of events, *)
(* no output turns in its place and the mode has the pixels of the         *)
(* rectangle. An output with another number of pixels, a group cut in two  *)
(* and a geometry without a logical position each publish one, as TLC      *)
(* shows.                                                                  *)
THEOREM ZonesWereRealHolds ==
  ASSUME Faults \cap {"rotate", "scaled", "split_read"} = {}
  PROVE  Spec => []ZonesWereReal
<1>1. Init => OTypes /\ WasReal
  BY OTypesInit, WasRealInit
<1>2. OTypes /\ WasReal /\ [Next]_vars => (OTypes /\ WasReal)'
  BY OTypesStep, WasRealStep
<1> QED BY <1>1, <1>2, SeenWereReal, PTL DEF Spec

(* What is published is real at any time and complete at rest: both of the *)
(* above.                                                                  *)
THEOREM ZonesSoundHold ==
  ASSUME Faults \cap {"rotate", "early_plug", "scaled", "split_read"} = {},
         \A r \in Places : Visible(r),
         \A f \in InitialLayouts : \A n \in 1..Initial : Visible(f[n])
  PROVE  Spec => []ZonesSound
<1>1. Spec => []QuietZones
  <2>1. Steady
    BY DEF Steady
  <2> QED BY <2>1, QuietZonesHold
<1>2. Spec => []ZonesWereReal
  BY ZonesWereRealHolds
<1> QED BY <1>1, <1>2, PTL DEF ZonesSound

-----------------------------------------------------------------------------
(* Where barriers and pointer are: arithmetic first.                       *)

(* A member of a set that is below, or above, all of them is its minimum,  *)
(* or maximum.                                                             *)
LEMMA Extremes ==
  ASSUME NEW S, S \subseteq Int, NEW m \in S
  PROVE  /\ (\A y \in S : m <= y) => Min(S) = m
         /\ (\A y \in S : m >= y) => Max(S) = m
<1>1. ASSUME \A y \in S : m <= y PROVE Min(S) = m
  <2>1. Min(S) \in S /\ \A y \in S : Min(S) <= y
    BY <1>1 DEF Min
  <2>2. Min(S) <= m /\ m <= Min(S) /\ Min(S) \in Int /\ m \in Int
    BY <1>1, <2>1
  <2> QED BY <2>2, SMT
<1>2. ASSUME \A y \in S : m >= y PROVE Max(S) = m
  <2>1. Max(S) \in S /\ \A y \in S : Max(S) >= y
    BY <1>2 DEF Max
  <2>2. Max(S) >= m /\ m >= Max(S) /\ Max(S) \in Int /\ m \in Int
    BY <1>2, <2>1
  <2> QED BY <2>2, SMT
<1> QED BY <1>1, <1>2

(* A finite set of integers that is not empty has a least and a greatest.  *)
LEMMA Bounded ==
  ASSUME NEW n \in Nat \ {0}, NEW f \in [1..n -> Int]
  PROVE  LET S == {f[i] : i \in 1..n}
         IN  /\ Min(S) \in S /\ \A y \in S : Min(S) <= y
             /\ Max(S) \in S /\ \A y \in S : Max(S) >= y
<1> DEFINE Has(m) == /\ \E i \in 1..m : \A j \in 1..m : f[i] <= f[j]
                     /\ \E i \in 1..m : \A j \in 1..m : f[i] >= f[j]
           T == {m \in Nat : m + 1 <= n => Has(m + 1)}
<1>1. 0 \in T
  OBVIOUS
<1>2. ASSUME NEW m \in Nat, m \in T PROVE m + 1 \in T
  <2>1. SUFFICES ASSUME (m + 1) + 1 <= n PROVE Has((m + 1) + 1)
    OBVIOUS
  <2>2. PICK i \in 1..(m + 1) : \A j \in 1..(m + 1) : f[i] <= f[j]
    BY <1>2, <2>1
  <2>3. PICK k \in 1..(m + 1) : \A j \in 1..(m + 1) : f[k] >= f[j]
    BY <1>2, <2>1
  <2>4. /\ m + 2 \in 1..n /\ i \in 1..n /\ k \in 1..n
        /\ \A j \in 1..(m + 2) : j \in 1..(m + 1) \/ j = m + 2
        /\ f[i] \in Int /\ f[k] \in Int /\ f[m + 2] \in Int
        /\ \A j \in 1..(m + 2) : f[j] \in Int
    BY <2>1
  <2>5. \E a \in 1..(m + 2) : \A j \in 1..(m + 2) : f[a] <= f[j]
    <3> DEFINE a == IF f[i] <= f[m + 2] THEN i ELSE m + 2
    <3>1. a \in 1..(m + 2) /\ f[a] <= f[i] /\ f[a] <= f[m + 2] /\ f[a] \in Int
      BY <2>4
    <3> HIDE DEF a
    <3>2. ASSUME NEW j \in 1..(m + 2) PROVE f[a] <= f[j]
      <4>1. CASE j = m + 2
        BY <3>1, <4>1
      <4>2. CASE j \in 1..(m + 1)
        <5>1. f[i] <= f[j] /\ f[j] \in Int /\ f[i] \in Int
          BY <2>2, <2>4, <4>2
        <5> QED BY <3>1, <5>1
      <4> QED BY <2>4, <4>1, <4>2
    <3> QED BY <3>1, <3>2
  <2>6. \E a \in 1..(m + 2) : \A j \in 1..(m + 2) : f[a] >= f[j]
    <3> DEFINE a == IF f[k] >= f[m + 2] THEN k ELSE m + 2
    <3>1. a \in 1..(m + 2) /\ f[a] >= f[k] /\ f[a] >= f[m + 2] /\ f[a] \in Int
      BY <2>4
    <3> HIDE DEF a
    <3>2. ASSUME NEW j \in 1..(m + 2) PROVE f[a] >= f[j]
      <4>1. CASE j = m + 2
        BY <3>1, <4>1
      <4>2. CASE j \in 1..(m + 1)
        <5>1. f[k] >= f[j] /\ f[j] \in Int /\ f[k] \in Int
          BY <2>3, <2>4, <4>2
        <5> QED BY <3>1, <5>1
      <4> QED BY <2>4, <4>1, <4>2
    <3> QED BY <3>1, <3>2
  <2> QED BY <2>5, <2>6
<1>3. n - 1 \in T
  <2>1. Nat \subseteq T
    <3> HIDE DEF T
    <3> QED BY <1>1, <1>2, Induct
  <2> HIDE DEF T
  <2> QED BY <2>1
<1>4. Has(n)
  BY <1>3
<1> DEFINE S == {f[i] : i \in 1..n}
<1>5. /\ \E x \in S : \A y \in S : x <= y
      /\ \E x \in S : \A y \in S : x >= y
  BY <1>4
<1> HIDE DEF S
<1>6. /\ Min(S) \in S /\ \A y \in S : Min(S) <= y
      /\ Max(S) \in S /\ \A y \in S : Max(S) >= y
  BY <1>5 DEF Min, Max
<1> QED BY <1>6 DEF S

(* Spread over the extent and back, a coordinate loses a pixel at most,    *)
(* while the layout has no more pixels than the extent has units.          *)
LEMMA RoundTrip ==
  ASSUME NEW w \in 1..WlrExtent, NEW a \in 0..w
  PROVE  /\ (a * WlrExtent) \div w \in Nat
         /\ (((a * WlrExtent) \div w) * w) \div WlrExtent - a \in -1..0
<1> DEFINE q == (a * WlrExtent) \div w
<1>1. q \in Int /\ q * w <= a * WlrExtent /\ a * WlrExtent < q * w + w
  BY DEF WlrExtent
<1> HIDE DEF q
<1>2. PICK p \in Int : p = q * w
  BY <1>1
<1>3. p <= a * 10000 /\ a * 10000 < p + w
  BY <1>1, <1>2 DEF WlrExtent
<1>4. q >= 0
  <2>1. SUFFICES ASSUME q + 1 <= 0 PROVE FALSE
    BY <1>1
  <2>2. (q + 1) * w <= 0 /\ (q + 1) * w = q * w + w
    BY <1>1, <2>1
  <2>3. p + w <= 0
    BY <1>2, <2>2
  <2> QED BY <2>3, <1>2, <1>3
<1>5. p \div 10000 - a \in -1..0
  <2>1. PICK d \in Int : d = p \div 10000
    BY <1>2
  <2>2. 10000 * d <= p /\ p < 10000 * d + 10000
    BY <1>2, <2>1
  <2>3. a \in Int /\ w \in Int /\ w <= 10000
    BY DEF WlrExtent
  <2>4. d <= a /\ a <= d + 1
    BY <1>2, <1>3, <2>2, <2>3
  <2> QED BY <2>1, <2>3, <2>4
<1>6. (q * w) \div WlrExtent = p \div 10000
  BY <1>2 DEF WlrExtent
<1>7. q \in Nat /\ (q * w) \div WlrExtent - a \in -1..0
  BY <1>1, <1>4, <1>5, <1>6
<1> QED BY <1>7 DEF q

-----------------------------------------------------------------------------
(* What is within the bounds is not clamped.                               *)
LEMMA ClampIn ==
  ASSUME NEW of \in Nat, NEW at \in 0..of
  PROVE  Clamp(at, of) = at
<1>1. Min({at, of}) = at
  BY Extremes
<1>2. Max({0, at}) = at
  BY Extremes
<1> QED BY <1>1, <1>2 DEF Clamp

(* The rectangles of a layout.                                             *)
Layout(n, f) == {f[i] : i \in 1..n}

(* The box of a layout is what layout_bounds says, and what the compositor *)
(* spreads the extent over.                                                *)
LEMMA Box ==
  ASSUME NEW n \in Nat \ {0}, NEW f \in [1..n -> Rectangle], \A i \in 1..n : Visible(f[i])
  PROVE  \E x, y, X, Y \in Int :
           /\ x < X /\ y < Y
           /\ layout_bounds(Layout(n, f)) = Rect(x, y, X - x, Y - y)
           /\ Min({r.x : r \in Layout(n, f)}) = x /\ Min({r.y : r \in Layout(n, f)}) = y
           /\ Max({Right(r) : r \in Layout(n, f)}) = X /\ Max({Bottom(r) : r \in Layout(n, f)}) = Y
           /\ \A r \in Layout(n, f) : x <= r.x /\ y <= r.y /\ Right(r) <= X /\ Bottom(r) <= Y
           /\ \E r, s \in Layout(n, f) : r.x = x /\ Right(s) = X
           /\ \E r, s \in Layout(n, f) : r.y = y /\ Bottom(s) = Y
<1> DEFINE R == Layout(n, f)
           xs == [i \in 1..n |-> f[i].x]
           ys == [i \in 1..n |-> f[i].y]
           rs == [i \in 1..n |-> Right(f[i])]
           bs == [i \in 1..n |-> Bottom(f[i])]
<1>0. /\ \A i \in 1..n : f[i] \in Rectangle /\ Visible(f[i])
      /\ \A i \in 1..n : /\ f[i].x \in Int /\ f[i].y \in Int /\ f[i].width \in Nat /\ f[i].height \in Nat
                         /\ Right(f[i]) \in Int /\ Bottom(f[i]) \in Int
                         /\ f[i].x + 1 <= Right(f[i]) /\ f[i].y + 1 <= Bottom(f[i])
  <2> SUFFICES ASSUME NEW i \in 1..n
               PROVE  /\ f[i] \in Rectangle /\ Visible(f[i])
                      /\ f[i].x \in Int /\ f[i].y \in Int /\ f[i].width \in Nat /\ f[i].height \in Nat
                      /\ Right(f[i]) \in Int /\ Bottom(f[i]) \in Int
                      /\ f[i].x + 1 <= Right(f[i]) /\ f[i].y + 1 <= Bottom(f[i])
    OBVIOUS
  <2>1. PICK r : r = f[i] /\ r \in Rectangle /\ Visible(r)
    OBVIOUS
  <2>2. r.x \in Int /\ r.y \in Int /\ r.width \in Nat /\ r.height \in Nat
    BY <2>1 DEF Rectangle
  <2>3. /\ Right(r) \in Int /\ Bottom(r) \in Int
        /\ r.x + 1 <= Right(r) /\ r.y + 1 <= Bottom(r)
    BY <2>1, <2>2 DEF Right, Bottom, Visible
  <2> QED BY <2>1, <2>2, <2>3
<1>1. /\ xs \in [1..n -> Int] /\ ys \in [1..n -> Int] /\ rs \in [1..n -> Int] /\ bs \in [1..n -> Int]
  BY <1>0
<1>2. /\ {r.x : r \in R} = {xs[i] : i \in 1..n} /\ {r.y : r \in R} = {ys[i] : i \in 1..n}
      /\ {Right(r) : r \in R} = {rs[i] : i \in 1..n} /\ {Bottom(r) : r \in R} = {bs[i] : i \in 1..n}
  BY DEF Layout
<1> DEFINE x == Min({r.x : r \in R})
           y == Min({r.y : r \in R})
           X == Max({Right(r) : r \in R})
           Y == Max({Bottom(r) : r \in R})
<1> HIDE DEF xs, ys, rs, bs
<1>3. x \in {r.x : r \in R} /\ \A a \in {r.x : r \in R} : x <= a
  BY <1>1, <1>2, Bounded
<1>4. y \in {r.y : r \in R} /\ \A a \in {r.y : r \in R} : y <= a
  BY <1>1, <1>2, Bounded
<1>5. X \in {Right(r) : r \in R} /\ \A a \in {Right(r) : r \in R} : X >= a
  BY <1>1, <1>2, Bounded
<1>6. Y \in {Bottom(r) : r \in R} /\ \A a \in {Bottom(r) : r \in R} : Y >= a
  BY <1>1, <1>2, Bounded
<1> HIDE DEF x, y, X, Y
<1>7. /\ \A r \in R : /\ r.x \in Int /\ r.y \in Int /\ Right(r) \in Int /\ Bottom(r) \in Int
                      /\ r.x + 1 <= Right(r) /\ r.y + 1 <= Bottom(r)
      /\ R # {}
  BY <1>0 DEF Layout
<1> HIDE DEF R
<1>8. x \in Int /\ y \in Int /\ X \in Int /\ Y \in Int
  BY <1>3, <1>4, <1>5, <1>6, <1>7
<1>9. /\ \A r \in R : x <= r.x /\ y <= r.y /\ Right(r) <= X /\ Bottom(r) <= Y
      /\ \E r, s \in R : r.x = x /\ Right(s) = X
      /\ \E r, s \in R : r.y = y /\ Bottom(s) = Y
  BY <1>3, <1>4, <1>5, <1>6, <1>7, <1>8
<1>10. x + 1 <= X /\ y + 1 <= Y
  <2>1. PICK r \in R : TRUE
    BY <1>7
  <2>2. /\ x <= r.x /\ y <= r.y /\ Right(r) <= X /\ Bottom(r) <= Y
        /\ r.x + 1 <= Right(r) /\ r.y + 1 <= Bottom(r)
        /\ r.x \in Int /\ r.y \in Int /\ Right(r) \in Int /\ Bottom(r) \in Int
    BY <1>7, <1>9
  <2> QED BY <2>2, <1>8
<1>11. Max({Right(r) : r \in R} \cup {x + 1}) = X
  <2> DEFINE S == {Right(r) : r \in R}
  <2>1. S \subseteq Int /\ X \in S /\ \A a \in S : X >= a
    BY <1>5, <1>7
  <2> HIDE DEF S
  <2>2. S \cup {x + 1} \subseteq Int /\ X \in S \cup {x + 1} /\ \A a \in S \cup {x + 1} : X >= a
    BY <2>1, <1>8, <1>10
  <2>3. Max(S \cup {x + 1}) = X
    BY <2>2, Extremes
  <2> QED BY <2>3 DEF S
<1>12. Max({Bottom(r) : r \in R} \cup {y + 1}) = Y
  <2> DEFINE S == {Bottom(r) : r \in R}
  <2>1. S \subseteq Int /\ Y \in S /\ \A a \in S : Y >= a
    BY <1>6, <1>7
  <2> HIDE DEF S
  <2>2. S \cup {y + 1} \subseteq Int /\ Y \in S \cup {y + 1} /\ \A a \in S \cup {y + 1} : Y >= a
    BY <2>1, <1>8, <1>10
  <2>3. Max(S \cup {y + 1}) = Y
    BY <2>2, Extremes
  <2> QED BY <2>3 DEF S
<1>13. layout_bounds(R) = Rect(x, y, X - x, Y - y)
  BY <1>7, <1>11, <1>12 DEF layout_bounds, x, y
<1>14. x < X /\ y < Y
  BY <1>8, <1>10
<1> QED BY <1>8, <1>9, <1>13, <1>14 DEF R, x, y, X, Y

(* A point of a side of r, from where the layout begins.                   *)
LEMMA Inside ==
  ASSUME NEW x \in Int, NEW X \in Int, NEW rx \in Int, NEW w \in Nat, NEW s \in 0..w,
         x <= rx, rx + w <= X
  PROVE  rx + s - x \in 0..(X - x) /\ X - x \in Nat
OBVIOUS

(* What is off by a pixel from there is off by a pixel on the screen.      *)
LEMMA Shifted ==
  ASSUME NEW x \in Int, NEW c \in Int, NEW rx \in Int, NEW s \in Int, c - (rx + s - x) \in -1..0
  PROVE  (x + c) - (rx + s) \in -1..1
OBVIOUS

(* A point of r, from the corner of r.                                     *)
PointOf(p, r) == p = <<p[1], p[2]>> /\ p[1] \in 0..r.width /\ p[2] \in 0..r.height

(* A point of a stream of a layout lands where it is, give or take a pixel *)
(* (pointer_motion_absolute, layout_bounds).                               *)
LEMMA Landing ==
  ASSUME NEW n \in Nat \ {0}, NEW f \in [1..n -> Rectangle], \A i \in 1..n : Visible(f[i]),
         \A r, s \in Layout(n, f) : Right(r) - s.x <= WlrExtent /\ Bottom(r) - s.y <= WlrExtent,
         NEW r \in Layout(n, f), NEW p, PointOf(p, r)
  PROVE  Within1(Lands(MotionOnStream(p, r, Layout(n, f)), Layout(n, f)), <<r.x + p[1], r.y + p[2]>>)
<1> DEFINE R == Layout(n, f)
<1>1. PICK x, y, X, Y \in Int :
           /\ x < X /\ y < Y
           /\ layout_bounds(R) = Rect(x, y, X - x, Y - y)
           /\ Min({q.x : q \in R}) = x /\ Min({q.y : q \in R}) = y
           /\ Max({Right(q) : q \in R}) = X /\ Max({Bottom(q) : q \in R}) = Y
           /\ \A q \in R : x <= q.x /\ y <= q.y /\ Right(q) <= X /\ Bottom(q) <= Y
           /\ \E q, s \in R : q.x = x /\ Right(s) = X
           /\ \E q, s \in R : q.y = y /\ Bottom(s) = Y
  BY Box
<1>2. r \in Rectangle
  BY DEF Layout
<1> HIDE DEF R
<1>3. X - x \in 1..WlrExtent /\ Y - y \in 1..WlrExtent
  <2>0. \A q, s \in R : Right(q) - s.x <= WlrExtent /\ Bottom(q) - s.y <= WlrExtent
    BY DEF R
  <2>1. PICK q, s \in R : q.x = x /\ Right(s) = X
    BY <1>1
  <2>2. PICK t, u \in R : t.y = y /\ Bottom(u) = Y
    BY <1>1
  <2>3. X - x <= WlrExtent /\ Y - y <= WlrExtent
    BY <2>0, <2>1, <2>2
  <2>4. x < X /\ y < Y
    BY <1>1
  <2> QED BY <2>3, <2>4 DEF WlrExtent
<1> DEFINE W == X - x
           H == Y - y
           a == r.x + p[1] - x
           b == r.y + p[2] - y
<1>4. /\ r.x \in Int /\ r.y \in Int /\ r.width \in Nat /\ r.height \in Nat
      /\ p[1] \in 0..r.width /\ p[2] \in 0..r.height
  BY <1>2 DEF Rectangle, PointOf
<1>5. x <= r.x /\ r.x + r.width <= X /\ y <= r.y /\ r.y + r.height <= Y
  BY <1>1 DEF R, Right, Bottom
<1>6. a \in 0..W /\ b \in 0..H /\ W \in Nat /\ H \in Nat
  BY <1>4, <1>5, Inside
<1>7. Clamp(p[1], r.width) = p[1] /\ Clamp(p[2], r.height) = p[2]
  BY <1>4, ClampIn
<1>8. Clamp(a, W) = a /\ Clamp(b, H) = b
  BY <1>6, ClampIn
<1>9. MotionOnStream(p, r, R) = <<(a * WlrExtent) \div W, (b * WlrExtent) \div H>>
  BY <1>1, <1>7, <1>8 DEF MotionOnStream, Project, Rect
<1> DEFINE A == (a * WlrExtent) \div W
           B == (b * WlrExtent) \div H
<1>10. Lands(<<A, B>>, R) = <<x + (A * W) \div WlrExtent, y + (B * H) \div WlrExtent>>
  BY <1>1 DEF Lands, Rect
<1>11. /\ A \in Nat /\ (A * W) \div WlrExtent - a \in -1..0
       /\ B \in Nat /\ (B * H) \div WlrExtent - b \in -1..0
  <2> HIDE DEF W, H, a, b
  <2>1. W \in 1..WlrExtent /\ H \in 1..WlrExtent /\ a \in 0..W /\ b \in 0..H
    BY <1>3, <1>6 DEF W, H
  <2> QED BY <2>1, RoundTrip
<1> DEFINE c == (A * W) \div WlrExtent
           d == (B * H) \div WlrExtent
<1>12. c \in Int /\ d \in Int /\ c - a \in -1..0 /\ d - b \in -1..0
  <2>1. A * W \in Int /\ B * H \in Int
    BY <1>6, <1>11
  <2> QED BY <2>1, <1>11 DEF WlrExtent
<1> HIDE DEF A, B, c, d
<1>13. (x + c) - (r.x + p[1]) \in -1..1 /\ (y + d) - (r.y + p[2]) \in -1..1
  <2>1. p[1] \in Int /\ p[2] \in Int
    BY <1>4
  <2> QED BY <1>4, <1>12, <2>1, Shifted
<1>14. Within1(<<x + c, y + d>>, <<r.x + p[1], r.y + p[2]>>)
  BY <1>13 DEF Within1
<1> QED BY <1>9, <1>10, <1>14 DEF A, B, c, d, R

(* The saturation at zero of an offset that is not negative.               *)
LEMMA MaxWithZero ==
  ASSUME NEW a \in Int, a >= 0
  PROVE  Max({a, 0}) = a
BY Extremes

(* The points looked at are points of their rectangle.                     *)
LEMMA HalfWay ==
  ASSUME NEW w \in Nat
  PROVE  w \div 2 \in 0..w
OBVIOUS

LEMMA PointsOf ==
  ASSUME NEW r \in Rectangle, NEW p \in Points(r)
  PROVE  PointOf(p, r)
<1>1. r.width \in Nat /\ r.height \in Nat
  BY DEF Rectangle
<1>2. CASE p = <<0, 0>>
  BY <1>1, <1>2 DEF PointOf
<1>3. CASE p = <<r.width \div 2, r.height \div 2>>
  <2>1. PICK u, v : u = r.width \div 2 /\ v = r.height \div 2
    OBVIOUS
  <2>2. p = <<u, v>> /\ u \in 0..r.width /\ v \in 0..r.height
    BY <1>1, <1>3, <2>1, HalfWay
  <2> QED BY <2>2 DEF PointOf
<1>4. CASE p = <<r.width, r.height>>
  BY <1>1, <1>4 DEF PointOf
<1> QED BY <1>2, <1>3, <1>4 DEF Points

(* The same point, asked for over D-Bus and over EIS.                      *)
LEMMA SamePoint ==
  ASSUME NEW n \in Nat \ {0}, NEW f \in [1..n -> Rectangle], \A i \in 1..n : Visible(f[i]),
         NEW r \in Layout(n, f), NEW p, PointOf(p, r)
  PROVE  LET g == pointer_region(r, Layout(n, f))
         IN  MotionInLayout(<<g.x + p[1], g.y + p[2]>>, Layout(n, f))
               = MotionOnStream(p, r, Layout(n, f))
<1> DEFINE R == Layout(n, f)
           b == layout_bounds(R)
           g == pointer_region(r, R)
<1>1. b.x \in Int /\ b.y \in Int /\ b.x <= r.x /\ b.y <= r.y
  <2>1. PICK x, y, X, Y \in Int :
           /\ x < X /\ y < Y
           /\ layout_bounds(R) = Rect(x, y, X - x, Y - y)
           /\ Min({q.x : q \in R}) = x /\ Min({q.y : q \in R}) = y
           /\ Max({Right(q) : q \in R}) = X /\ Max({Bottom(q) : q \in R}) = Y
           /\ \A q \in R : x <= q.x /\ y <= q.y /\ Right(q) <= X /\ Bottom(q) <= Y
           /\ \E q, s \in R : q.x = x /\ Right(s) = X
           /\ \E q, s \in R : q.y = y /\ Bottom(s) = Y
    BY Box
  <2> QED BY <2>1 DEF Rect
<1>2. r \in Rectangle
  BY DEF Layout
<1> HIDE DEF R, b
<1>3. /\ r.x \in Int /\ r.y \in Int /\ r.width \in Nat /\ r.height \in Nat
      /\ p[1] \in 0..r.width /\ p[2] \in 0..r.height /\ p[1] \in Int /\ p[2] \in Int
  BY <1>2 DEF Rectangle, PointOf
<1>4. r.x - b.x \in Int /\ r.y - b.y \in Int /\ r.x - b.x >= 0 /\ r.y - b.y >= 0
  BY <1>1, <1>3
<1>5. Max({r.x - b.x, 0}) = r.x - b.x /\ Max({r.y - b.y, 0}) = r.y - b.y
  BY <1>4, MaxWithZero
<1>6. g.x = r.x - b.x /\ g.y = r.y - b.y
  BY <1>5 DEF pointer_region, Rect, b
<1> HIDE DEF g
<1>7. Clamp(p[1], r.width) = p[1] /\ Clamp(p[2], r.height) = p[2]
  BY <1>3, ClampIn
<1>8. g.x + p[1] = r.x + p[1] - b.x /\ g.y + p[2] = r.y + p[2] - b.y
  BY <1>1, <1>3, <1>6
<1>9. MotionOnStream(p, r, R) = <<Project(r.x + p[1] - b.x, b.width), Project(r.y + p[2] - b.y, b.height)>>
  BY <1>7 DEF MotionOnStream, b
<1>10. MotionInLayout(<<g.x + p[1], g.y + p[2]>>, R) = <<Project(g.x + p[1], b.width), Project(g.y + p[2], b.height)>>
  BY DEF MotionInLayout, b
<1> QED BY <1>8, <1>9, <1>10 DEF R, g

-----------------------------------------------------------------------------
(* A barrier along an edge lies on it, and is from left to right or from   *)
(* top to bottom.                                                          *)
LEMMA StretchIn ==
  ASSUME NEW from \in Int, NEW to \in Int, from <= to, NEW s \in Stretches(from, to)
  PROVE  s[1] \in from..to /\ s[2] \in from..to /\ s[1] < s[2] /\ s[1] \in Int /\ s[2] \in Int
<1>1. PICK mid \in Int : mid = (from + to) \div 2
  OBVIOUS
<1>2. mid \in from..to
  BY <1>1
<1>3. s[1] < s[2] /\ s \in {<<from, to>>, <<from, mid>>, <<mid, to>>}
  BY <1>1 DEF Stretches
<1> QED BY <1>2, <1>3

LEMMA EdgeLies ==
  ASSUME NEW r \in Rectangle, NEW b \in Edges(r)
  PROVE  /\ b.x1 \in Int /\ b.x2 \in Int /\ b.y1 \in Int /\ b.y2 \in Int
         /\ LiesOn(b, r)
         /\ IF Horizontal(b) THEN b.x1 < b.x2 ELSE b.y1 < b.y2
<1>1. /\ r.x \in Int /\ r.y \in Int /\ Right(r) \in Int /\ Bottom(r) \in Int
      /\ r.x <= Right(r) /\ r.y <= Bottom(r)
  BY DEF Rectangle, Right, Bottom
<1>2. CASE \E s \in Stretches(r.x, Right(r)), y \in {r.y, Bottom(r)} :
             b = [x1 |-> s[1], y1 |-> y, x2 |-> s[2], y2 |-> y]
  <2>1. PICK s \in Stretches(r.x, Right(r)), y \in {r.y, Bottom(r)} :
             b = [x1 |-> s[1], y1 |-> y, x2 |-> s[2], y2 |-> y]
    BY <1>2
  <2>2. s[1] \in r.x..Right(r) /\ s[2] \in r.x..Right(r) /\ s[1] < s[2] /\ s[1] \in Int /\ s[2] \in Int
    BY <1>1, StretchIn
  <2>3. b.x1 = s[1] /\ b.x2 = s[2] /\ b.y1 = y /\ b.y2 = y
    BY <2>1
  <2> QED BY <1>1, <2>2, <2>3 DEF LiesOn, Horizontal
<1>3. CASE \E s \in Stretches(r.y, Bottom(r)), x \in {r.x, Right(r)} :
             b = [x1 |-> x, y1 |-> s[1], x2 |-> x, y2 |-> s[2]]
  <2>1. PICK s \in Stretches(r.y, Bottom(r)), x \in {r.x, Right(r)} :
             b = [x1 |-> x, y1 |-> s[1], x2 |-> x, y2 |-> s[2]]
    BY <1>3
  <2>2. s[1] \in r.y..Bottom(r) /\ s[2] \in r.y..Bottom(r) /\ s[1] < s[2] /\ s[1] \in Int /\ s[2] \in Int
    BY <1>1, StretchIn
  <2>3. b.x1 = x /\ b.x2 = x /\ b.y1 = s[1] /\ b.y2 = s[2]
    BY <2>1
  <2> QED BY <1>1, <2>2, <2>3 DEF LiesOn, Horizontal
<1> QED BY <1>2, <1>3 DEF Edges

(* The strip of a barrier that lies on r.                                  *)
LEMMA StripPlaced ==
  ASSUME NEW r \in Rectangle, NEW n, NEW b,
         b.x1 \in Int /\ b.x2 \in Int /\ b.y1 \in Int /\ b.y2 \in Int,
         LiesOn(b, r), IF Horizontal(b) THEN b.x1 < b.x2 ELSE b.y1 < b.y2
  PROVE  LET g == Strip(b, n, r)
             p == Placed(g, r)
         IN  /\ g.output = n /\ Along(p, b)
             /\ Begins(b, r) => g.origin = <<p.x, p.y>> /\ (IF Horizontal(b) THEN p.x = b.x1 ELSE p.y = b.y1)
<1> DEFINE g == Strip(b, n, r)
           p == Placed(g, r)
<1>1. /\ r.x \in Int /\ r.y \in Int /\ Right(r) \in Int /\ Bottom(r) \in Int
  BY DEF Rectangle, Right, Bottom
<1>2. CASE Horizontal(b)
  <2> DEFINE far == IF b.y1 = r.y THEN "top" ELSE "bottom"
             y == IF b.y1 = r.y THEN r.y ELSE Bottom(r) - 2
  <2>1. b.x2 - b.x1 > 0
    BY <1>2
  <2>2. g = [output |-> n, anchor |-> {far, "left"}, width |-> b.x2 - b.x1, height |-> 2,
             origin |-> <<b.x1, y>>]
    BY <1>2, <2>1 DEF Strip, BARRIER_STRIP_THICKNESS_PX
  <2>3. "right" \notin g.anchor /\ ("bottom" \in g.anchor <=> b.y1 # r.y)
    BY <2>2
  <2>4. p = [x |-> r.x, y |-> y, width |-> b.x2 - b.x1, height |-> 2]
    BY <2>2, <2>3 DEF Placed, Rect
  <2>5. b.y1 = r.y \/ b.y1 = Bottom(r)
    BY <1>2 DEF LiesOn
  <2> HIDE DEF g, p
  <2>6. p.x = r.x /\ p.y = y /\ p.width = b.x2 - b.x1 /\ Bottom(p) = y + 2
    BY <2>4 DEF Bottom
  <2>7. b.y1 \in {p.y, Bottom(p)}
    BY <1>1, <2>5, <2>6
  <2>8. g.output = n /\ Along(p, b)
    BY <1>2, <2>2, <2>6, <2>7 DEF Along
  <2>9. Begins(b, r) => g.origin = <<p.x, p.y>> /\ p.x = b.x1
    BY <1>2, <2>2, <2>6 DEF Begins
  <2> QED BY <1>2, <2>8, <2>9 DEF g, p
<1>3. CASE ~Horizontal(b)
  <2> DEFINE far == IF b.x1 = r.x THEN "left" ELSE "right"
             x == IF b.x1 = r.x THEN r.x ELSE Right(r) - 2
  <2>1. b.y2 - b.y1 > 0
    BY <1>3
  <2>2. g = [output |-> n, anchor |-> {far, "top"}, width |-> 2, height |-> b.y2 - b.y1,
             origin |-> <<x, b.y1>>]
    BY <1>3, <2>1 DEF Strip, BARRIER_STRIP_THICKNESS_PX
  <2>3. "bottom" \notin g.anchor /\ ("right" \in g.anchor <=> b.x1 # r.x)
    BY <2>2
  <2>4. p = [x |-> x, y |-> r.y, width |-> 2, height |-> b.y2 - b.y1]
    BY <2>2, <2>3 DEF Placed, Rect
  <2>5. b.x1 = r.x \/ b.x1 = Right(r)
    BY <1>3 DEF LiesOn
  <2> HIDE DEF g, p
  <2>6. p.x = x /\ p.y = r.y /\ p.height = b.y2 - b.y1 /\ Right(p) = x + 2
    BY <2>4 DEF Right
  <2>7. b.x1 \in {p.x, Right(p)}
    BY <1>1, <2>5, <2>6
  <2>8. g.output = n /\ Along(p, b)
    BY <1>3, <2>2, <2>6, <2>7 DEF Along
  <2>9. Begins(b, r) => g.origin = <<p.x, p.y>> /\ p.y = b.y1
    BY <1>3, <2>2, <2>6 DEF Begins
  <2> QED BY <1>3, <2>8, <2>9 DEF g, p
<1> QED BY <1>2, <1>3

(* Whatever the list of outputs, barriers get their strips.                *)
LEMMA StripsFound ==
  ASSUME Listed(outputs)
  PROVE  StripOnBarrier
<1> DEFINE zones == Sources(outputs)
<1>1. zones \in Seq(Record)
  BY SourcesListed DEF Listed
<1> HIDE DEF zones
<1>2. Len(zones) \in Nat /\ DOMAIN zones = 1..Len(zones) /\ \A i \in DOMAIN zones : zones[i] \in Record
  BY <1>1, LenProperties
<1>3. SUFFICES ASSUME NEW i \in DOMAIN zones, NEW b \in Edges(zones[i].rect)
               PROVE  \E g \in barrier_to_layer_geometry(b, zones), j \in DOMAIN zones :
                        LET p == Placed(g, zones[j].rect)
                        IN  /\ zones[j].n = g.output /\ Along(p, b)
                            /\ Begins(b, zones[j].rect) =>
                                 g.origin = <<p.x, p.y>> /\ (IF Horizontal(b) THEN p.x = b.x1 ELSE p.y = b.y1)
  BY Zenon DEF StripOnBarrier, zones
<1> DEFINE matching == {k \in DOMAIN zones : LiesOn(b, zones[k].rect)}
           m == Min(matching)
<1>4. zones[i].rect \in Rectangle
  BY <1>2 DEF Record
<1>5. /\ b.x1 \in Int /\ b.x2 \in Int /\ b.y1 \in Int /\ b.y2 \in Int
      /\ LiesOn(b, zones[i].rect)
      /\ IF Horizontal(b) THEN b.x1 < b.x2 ELSE b.y1 < b.y2
  BY <1>4, EdgeLies
<1>6. matching \subseteq Nat /\ matching # {}
  BY <1>2, <1>5
<1>7. m \in matching
  <2> HIDE DEF matching
  <2>1. \E x \in matching : \A y \in matching : x <= y
    BY <1>6, Least
  <2> QED BY <2>1 DEF Min
<1>8. m \in DOMAIN zones /\ LiesOn(b, zones[m].rect) /\ zones[m].rect \in Rectangle
  BY <1>2, <1>7 DEF Record
<1> DEFINE g == Strip(b, zones[m].n, zones[m].rect)
<1>9. barrier_to_layer_geometry(b, zones) = {g}
  BY <1>6 DEF barrier_to_layer_geometry
<1> HIDE DEF m, matching
<1>10. LET p == Placed(g, zones[m].rect)
       IN  /\ g.output = zones[m].n /\ Along(p, b)
           /\ Begins(b, zones[m].rect) =>
                g.origin = <<p.x, p.y>> /\ (IF Horizontal(b) THEN p.x = b.x1 ELSE p.y = b.y1)
  BY <1>5, <1>8, StripPlaced
<1> HIDE DEF g
<1> QED BY <1>8, <1>9, <1>10

(* A list whose outputs have an extent.                                    *)
OnScreen(os) == \A i \in DOMAIN os : Visible(os[i].rect)

(* Everything the portal works from is on the screen.                      *)
Shown == OTypes /\ OnScreen(shared.sources) /\ OnScreen(known) /\ OnScreen(mappings)

(* Filtering lists keeps it.                                               *)
LEMMA OnScreenRange ==
  ASSUME NEW os, Listed(os)
  PROVE  OnScreen(os) <=> \A o \in Range(os) : Visible(o.rect)
BY LenProperties DEF OnScreen, Range, Listed

LEMMA SourcesOnScreen ==
  ASSUME NEW os, Listed(os)
  PROVE  OnScreen(Sources(os))
BY SourcesListed, OnScreenRange DEF Visible

LEMMA KeptOnScreen ==
  ASSUME NEW os, Listed(os), OnScreen(os), NEW S
  PROVE  OnScreen(Kept(os, S))
BY KeptListed, OnScreenRange

(* Every step keeps it: only what update_shared_state filtered is copied.  *)
LEMMA ShownStep == Shown /\ [Next]_vars => Shown'
<1> SUFFICES ASSUME Shown, [Next]_vars PROVE Shown'
  OBVIOUS
<1>0. OTypes /\ OTypes'
  BY OTypesStep DEF Shown
<1>1. Listed(outputs') /\ Listed(outputs) /\ Listed(known) /\ Listed(shared.sources)
  BY <1>0 DEF OTypes, WireTypes, CopyTypes, Listed
<1>2. OnScreen(Sources(outputs')) /\ OnScreen(<<>>)
  BY <1>1, SourcesOnScreen DEF OnScreen
<1>3. CASE UNCHANGED <<shared, known, mappings>>
  BY <1>0, <1>3 DEF Shown, OnScreen
<1>4. CASE Environment
  BY <1>3, <1>4 DEF Environment, Plug, Unplug, Reconfigure, portal
<1>5. ASSUME NEW n \in Output, Answer(n) PROVE Shown'
  BY <1>3, <1>5 DEF Answer, portal
<1>6. CASE Roundtrip
  <2>1. /\ shared'.sources = Sources(outputs') /\ known' \in {Sources(outputs'), <<>>} /\ mappings' = mappings
    BY <1>6 DEF Roundtrip
  <2>2. OnScreen(shared'.sources) /\ OnScreen(known')
    BY <1>2, <2>1
  <2>3. OnScreen(mappings')
    BY <2>1 DEF Shown
  <2> QED BY <1>0, <2>2, <2>3 DEF Shown, OnScreen
<1>7. CASE Turn
  <2>1. /\ shared' = update_shared_state(outputs') /\ known' = known /\ mappings' = mappings
    BY <1>7 DEF Turn, portal
  <2>2. OnScreen(shared'.sources)
    BY <1>2, <2>1 DEF update_shared_state
  <2> QED BY <1>0, <2>1, <2>2 DEF Shown, OnScreen
<1>8. CASE Tick
  <2>1. known' \in {shared.sources, known} /\ shared' = shared /\ mappings' = mappings
    BY <1>8 DEF Tick
  <2> QED BY <1>0, <2>1 DEF Shown, OnScreen
<1>9. CASE EmitZonesChanged
  BY <1>3, <1>9 DEF EmitZonesChanged
<1>10. CASE Start
  <2>1. PICK N : mappings' = Kept(known, {s \in Record : s.n \in N}) /\ shared' = shared /\ known' = known
    BY <1>10 DEF Start
  <2>2. OnScreen(mappings')
    BY <1>1, <2>1, KeptOnScreen DEF Shown
  <2> QED BY <1>0, <2>1, <2>2 DEF Shown, OnScreen
<1>11. ASSUME NEW c \in Client, GetZones(c) \/ SetPointerBarriers(c) \/ Close(c) PROVE Shown'
  BY <1>3, <1>11 DEF GetZones, SetPointerBarriers, Close, portal
<1>12. CASE UNCHANGED vars
  BY <1>3, <1>12 DEF vars, portal
<1> QED BY <1>4, <1>5, <1>6, <1>7, <1>8, <1>9, <1>10, <1>11, <1>12 DEF Next

LEMMA ShownInit == Init => Shown
BY OTypesInit DEF Init, Shown, OnScreen

(* The rectangles R are within the reach of the pointer's extent.          *)
Compact(R) == \A r, s \in R : Right(r) - s.x <= WlrExtent /\ Bottom(r) - s.y <= WlrExtent

(* What the compositor spreads the extent over.                            *)
RealLayout == {real[n] : n \in DOMAIN real}

(* What is shared is a layout, or nothing.                                 *)
LEMMA SharedLayout ==
  ASSUME Shown, mappings # <<>>
  PROVE  \E n \in Nat \ {0} : \E f \in [1..n -> Rectangle] :
           Shared = Layout(n, f) /\ \A i \in 1..n : Visible(f[i])
<1> DEFINE n == Len(mappings)
           f == [i \in 1..n |-> mappings[i].rect]
<1>1. mappings \in Seq(Record)
  BY DEF Shown, OTypes, CopyTypes, Listed
<1>2. n \in Nat \ {0} /\ DOMAIN mappings = 1..n /\ \A i \in 1..n : mappings[i] \in Record
  BY <1>1, LenProperties, EmptySeq
<1> HIDE DEF n
<1>3. f \in [1..n -> Rectangle]
  BY <1>2 DEF Record
<1>4. Shared = Layout(n, f)
  BY <1>2 DEF Shared, Layout
<1>5. \A i \in 1..n : Visible(f[i])
  BY <1>2 DEF Shown, OnScreen
<1> QED BY <1>2, <1>3, <1>4, <1>5

LEMMA NothingShared == mappings = <<>> => Shared = {}
BY DEF Shared

(* A point asked for over D-Bus and over EIS is one point.                 *)
LEMMA PathsMeet ==
  ASSUME Shown
  PROVE  PathsAgree
<1> SUFFICES ASSUME NEW r \in Shared, NEW p \in Points(r)
             PROVE  LET g == pointer_region(r, Shared)
                    IN  MotionInLayout(<<g.x + p[1], g.y + p[2]>>, Shared) = MotionOnStream(p, r, Shared)
  BY DEF PathsAgree
<1>0. PICK n \in Nat \ {0} : \E f \in [1..n -> Rectangle] :
           Shared = Layout(n, f) /\ \A i \in 1..n : Visible(f[i])
  BY SharedLayout, NothingShared
<1>1. PICK f \in [1..n -> Rectangle] : Shared = Layout(n, f) /\ \A i \in 1..n : Visible(f[i])
  BY <1>0
<1>2. r \in Rectangle
  BY <1>1 DEF Layout
<1> QED BY <1>1, <1>2, PointsOf, SamePoint

(* The pointer lands, while the layout is within reach.                    *)
LEMMA PointerMeets ==
  ASSUME Shown, Compact(RealLayout)
  PROVE  PointerLands
<1> SUFFICES ASSUME Shared = RealLayout, NEW r \in Shared, NEW p \in Points(r)
             PROVE  LandsOn(r, p)
  BY DEF PointerLands, RealLayout
<1>0. PICK n \in Nat \ {0} : \E f \in [1..n -> Rectangle] :
           Shared = Layout(n, f) /\ \A i \in 1..n : Visible(f[i])
  BY SharedLayout, NothingShared
<1>1. PICK f \in [1..n -> Rectangle] : Shared = Layout(n, f) /\ \A i \in 1..n : Visible(f[i])
  BY <1>0
<1>2. r \in Rectangle
  BY <1>1 DEF Layout
<1>3. PointOf(p, r)
  BY <1>2, PointsOf
<1>4. Within1(Lands(MotionOnStream(p, r, Shared), Shared), <<r.x + p[1], r.y + p[2]>>)
  BY <1>1, <1>3, Landing DEF Compact
<1> QED BY <1>4 DEF LandsOn, RealLayout

(* In every state, with every fault: a barrier on an edge of a zone gets   *)
(* its strip, a point of a stream is one point over D-Bus and over EIS,    *)
(* and with all of the layout shared the pointer lands on the point asked  *)
(* for, as long as the layout is no wider and no higher than the extent of *)
(* absolute motion, 10000. On a larger one truncation loses more than a    *)
(* pixel (barrier_to_layer_geometry, pointer_regions, layout_bounds).      *)
THEOREM GeometryOfAnyLayout ==
  Spec => [](StripOnBarrier /\ PathsAgree /\ (Compact(RealLayout) => PointerLands))
<1>1. Shown => StripOnBarrier /\ PathsAgree /\ (Compact(RealLayout) => PointerLands)
  BY StripsFound, PathsMeet, PointerMeets DEF Shown, OTypes, WireTypes
<1> QED BY <1>1, ShownInit, ShownStep, PTL DEF Spec

(* Every rectangle an output may have.                                     *)
AllRectangles == Places \cup {l[i] : l \in InitialLayouts, i \in 1..Initial}

(* The outputs are where outputs may be.                                   *)
Within == real = [n \in DOMAIN real |-> real[n]] /\ RealLayout \subseteq AllRectangles

LEMMA WithinInit == Init => Within
BY OutputsAssumption DEF Init, Within, RealLayout, AllRectangles

LEMMA WithinStep == Within /\ [Next]_vars => Within'
<1> SUFFICES ASSUME Within, [Next]_vars PROVE Within'
  OBVIOUS
<1>1. CASE UNCHANGED real
  BY <1>1 DEF Within, RealLayout
<1>2. ASSUME NEW r \in Places, Plug(r) PROVE Within'
  <2>1. real' = [n \in DOMAIN real \cup {names + 1} |-> IF n = names + 1 THEN r ELSE real[n]]
    BY <1>2 DEF Plug
  <2>2. \A n \in DOMAIN real' : real'[n] = r \/ (n \in DOMAIN real /\ real'[n] = real[n])
    BY <2>1
  <2>3. r \in AllRectangles /\ \A n \in DOMAIN real : real[n] \in AllRectangles
    BY DEF Within, RealLayout, AllRectangles
  <2> QED BY <2>1, <2>2, <2>3 DEF Within, RealLayout
<1>3. ASSUME NEW n \in Output, Unplug(n) PROVE Within'
  BY <1>3 DEF Unplug, Within, RealLayout
<1>4. ASSUME NEW n \in Output, NEW r \in Places, Reconfigure(n, r) PROVE Within'
  <2>1. real' = [real EXCEPT ![n] = r] /\ DOMAIN real' = DOMAIN real
    BY <1>4 DEF Reconfigure
  <2>2. \A m \in DOMAIN real : real'[m] = r \/ real'[m] = real[m]
    BY <2>1
  <2>3. r \in AllRectangles /\ \A m \in DOMAIN real : real[m] \in AllRectangles
    BY DEF Within, RealLayout, AllRectangles
  <2>4. real' = [m \in DOMAIN real' |-> real'[m]]
    BY <2>1
  <2> QED BY <2>1, <2>2, <2>3, <2>4 DEF Within, RealLayout
<1>5. CASE Next /\ ~Environment
  <2>1. UNCHANGED real
    BY <1>5 DEF Next, Answer, Roundtrip, Turn, Tick, EmitZonesChanged, Start, GetZones,
                SetPointerBarriers, Close, compositor
  <2> QED BY <1>1, <2>1
<1>6. CASE UNCHANGED vars
  BY <1>1, <1>6 DEF vars, compositor
<1> QED BY <1>2, <1>3, <1>4, <1>5, <1>6 DEF Environment

(* Barriers and pointer are on the screen where they were asked to be, for *)
(* any number of outputs, moves and clients, if no two places an output    *)
(* may have are further apart than the extent of absolute motion.          *)
THEOREM GeometryHoldsWithinReach ==
  ASSUME Compact(AllRectangles)
  PROVE  Spec => []GeometryHolds
<1>1. Shown /\ Within => GeometryHolds
  <2>1. Within => Compact(RealLayout)
    BY DEF Within, Compact
  <2> QED BY <2>1, StripsFound, PathsMeet, PointerMeets DEF GeometryHolds, Shown, OTypes, WireTypes
<1> QED BY <1>1, ShownInit, ShownStep, WithinInit, WithinStep, PTL DEF Spec
=============================================================================
