--------------------------- MODULE WaylandOutputs ---------------------------
(***************************************************************************)
(* The outputs of the compositor and everybody who works from a copy of    *)
(* them (src/src/wayland/mod.rs and dispatch.rs, the output monitor of     *)
(* src/src/lib.rs, the capture backends, InputCapture's zones, and the     *)
(* stream mappings of the virtual pointer).                                *)
(*                                                                         *)
(*   compositor --wire--> OutputInfo --turn--> shared state                *)
(*   shared state --2 s--> capture backend's sources, ZonesChanged         *)
(*   sources --SelectSources, Start--> stream mappings --> absolute motion *)
(*   shared state --GetZones--> client --SetPointerBarriers--> zone_set    *)
(*                                                                         *)
(* The compositor writes its events in groups that a read delivers whole.  *)
(* A global's name is never used twice. Requests take effect in the order  *)
(* sent; only the binding of outputs is modelled of them.                  *)
(***************************************************************************)
EXTENDS LayoutGeometry, ProtocolSelection, FiniteSets, SequencesExt

CONSTANTS
  Client,      \* InputCapture sessions
  Places,      \* rectangles an output may have
  Initial,     \* how many outputs there are at startup
  InitialLayouts, \* and their rectangles, functions of 1..Initial
  MaxGlobals,  \* bound: outputs ever plugged in
  MaxMoves,    \* bound: outputs given another rectangle
  Advertised,  \* sets of globals the compositor may advertise
  Preferences, \* capture preferences
  Faults       \* what may happen besides: a subset of AllFaults

AllFaults ==
  {"split_read",  \* a read ends inside a group
   "rotate",      \* wl_output.geometry is sent again, with no logical position
   "early_plug",  \* an output is plugged in during the first roundtrip
   "swap",        \* one output goes and another comes between two ticks of the monitor
   "early_unplug", \* an output goes before the first tick
   "share_some",  \* a session shares some of the outputs only
   "scaled"}      \* the mode has more pixels than the rectangle

Output == 1..MaxGlobals
Rectangle == [x : Int, y : Int, width : Nat, height : Nat]
Disjoint(r, s) ==
  Right(r) <= s.x \/ Right(s) <= r.x \/ Bottom(r) <= s.y \/ Bottom(s) <= r.y

ASSUME OutputsAssumption ==
  /\ MaxGlobals \in Nat /\ Initial \in 1..MaxGlobals /\ MaxMoves \in Nat
  /\ Places \subseteq Rectangle /\ InitialLayouts \subseteq [1..Initial -> Rectangle]
  /\ Faults \subseteq AllFaults

VARIABLES
  \* the compositor
  real,    \* the rectangles of the outputs there are
  names,   \* the globals announced so far
  moves,   \* outputs moved so far
  past,    \* every rectangle an output has had
  wire,    \* groups of events not read yet
  asked,   \* outputs bound whose bind has not arrived
  \* the Wayland thread
  proto,   \* what came of the protocols
  phase,   \* "startup" until the first roundtrip is over; "failed"
  outputs, \* WaylandState::outputs
  shared,  \* SharedWaylandState
  \* the portal
  monitor, \* monitor_output_changes
  known,   \* the capture backend's sources
  mappings,\* the virtual pointer's stream mappings
  \* the clients
  view,    \* what GetZones told a client; None before, or without a session
  told,    \* clients with a ZonesChanged since
  barriers \* clients with barriers

compositor == <<real, names, moves, past>>
portal == <<monitor, known, mappings>>
clients == <<view, told, barriers>>
vars == <<compositor, wire, asked, proto, phase, outputs, shared, portal, clients>>

Absent == [set |-> -1, zones |-> <<>>]

(* What is known of an output (OutputInfo). *)
Record == [n : Output, rect : Rectangle, done : BOOLEAN]

(* The elements of s that are in S, in their order. *)
Kept(s, S) ==
  LET kept[i \in 0..Len(s)] ==
        IF i = 0 THEN <<>> ELSE IF s[i] \in S THEN Append(kept[i - 1], s[i]) ELSE kept[i - 1]
  IN  kept[Len(s)]

(* Variant: an output is published as soon as it is bound. *)
SourcesAll(os) == os
Sources(os) == Kept(os, {o \in Record : o.done /\ o.rect.width > 0 /\ o.rect.height > 0})
Zones(os) == [i \in DOMAIN os |-> os[i].rect]
Names(os) == {os[i].n : i \in DOMAIN os}

(* An output's information before its first event. *)
Unknown(n) == [n |-> n, rect |-> Rect(0, 0, 0, 0), done |-> FALSE]

-----------------------------------------------------------------------------
(* The compositor. Its wl_output.geometry is at the origin where xdg_output*)
(* tells the position.                                                     *)
Ev(kind, n, r) == [ev |-> kind, n |-> n, rect |-> r]
Geometry(n, r) == Ev("geometry", n, IF proto.xdg THEN [r EXCEPT !.x = 0, !.y = 0] ELSE r)
Position(n, r) == IF proto.xdg THEN <<Ev("logical", n, r)>> ELSE <<>>
Mode(n, r) ==
  Ev("mode", n, IF "scaled" \in Faults THEN [r EXCEPT !.width = 2 * @, !.height = 2 * @] ELSE r)
Done(n) == Ev("done", n, Rect(0, 0, 0, 0))

Fits(n, r) == \A m \in DOMAIN real \ {n} : Disjoint(r, real[m])

(* Without the faults, the monitor ticks between a plug and an unplug.     *)
MayPlug == "swap" \in Faults \/ Names(known) \subseteq DOMAIN real
MayUnplug ==
  /\ "swap" \in Faults \/ DOMAIN real \subseteq Names(known)
  /\ "early_unplug" \in Faults \/ monitor.set # -1

Plug(r) ==
  /\ names < MaxGlobals /\ Fits(0, r) /\ MayPlug
  /\ phase = "running" \/ "early_plug" \in Faults
  /\ names' = names + 1
  /\ real' = [n \in DOMAIN real \cup {names + 1} |-> IF n = names + 1 THEN r ELSE real[n]]
  /\ past' = [past EXCEPT ![names + 1] = {r}]
  /\ wire' = Append(wire, <<Ev("global", names + 1, r)>>)
  /\ UNCHANGED <<moves, asked, proto, phase, outputs, shared, portal, clients>>

Unplug(n) ==
  /\ n \in DOMAIN real /\ MayUnplug /\ phase # "failed"
  /\ real' = [m \in DOMAIN real \ {n} |-> real[m]]
  /\ wire' = Append(wire, <<Ev("global_remove", n, real[n])>>)
  /\ UNCHANGED <<names, moves, past, asked, proto, phase, outputs, shared, portal, clients>>

(* Only who has bound the output hears of it. The position comes over      *)
(* xdg_output where there is one; an output turned in its place sends its  *)
(* geometry all the same.                                                  *)
Reconfigure(n, r) ==
  /\ n \in DOMAIN real /\ moves < MaxMoves /\ phase = "running"
  /\ Fits(n, r) /\ (r # real[n] \/ "rotate" \in Faults)
  /\ moves' = moves + 1
  /\ real' = [real EXCEPT ![n] = r]
  /\ past' = [past EXCEPT ![n] = @ \cup {r}]
  /\ wire' = IF n \in Names(outputs) /\ n \notin asked
             THEN Append(wire, (IF proto.xdg /\ r # real[n] THEN Position(n, r)
                                                            ELSE <<Geometry(n, r)>>)
                               \o <<Mode(n, r), Done(n)>>)
             ELSE wire
  /\ UNCHANGED <<names, asked, proto, phase, outputs, shared, portal, clients>>

(* The binds of wl_output and of its xdg_output arrive together.           *)
Answer(n) ==
  /\ n \in asked
  /\ asked' = asked \ {n}
  /\ wire' = IF n \in DOMAIN real
             THEN Append(wire, <<Geometry(n, real[n]), Mode(n, real[n]), Done(n)>>
                               \o Position(n, real[n]))
             ELSE wire
  /\ UNCHANGED <<compositor, proto, phase, outputs, shared, portal, clients>>

-----------------------------------------------------------------------------
(* The Wayland thread. A handler takes the outputs to the outputs; p is    *)
(* the phase.                                                              *)
Update(os, n, Change(_)) ==
  [i \in DOMAIN os |-> IF os[i].n = n THEN Change(os[i]) ELSE os[i]]

on_global(p, os, e) == IF p = "running" THEN Append(os, Unknown(e.n)) ELSE os
(* Variant: the first output of the list goes, whichever was unplugged. *)
on_global_remove_first(os, e) == Tail(os)

on_global_remove(os, e) == Kept(os, {o \in Record : o.n # e.n})
on_position(os, e) ==
  Update(os, e.n, LAMBDA o : [o EXCEPT !.rect.x = e.rect.x, !.rect.y = e.rect.y])
on_mode(os, e) ==
  Update(os, e.n, LAMBDA o : [o EXCEPT !.rect.width = e.rect.width, !.rect.height = e.rect.height])
on_done(os, e) == Update(os, e.n, LAMBDA o : [o EXCEPT !.done = TRUE])

Handle(p, os, e) ==
  CASE e.ev = "global" -> on_global(p, os, e)
    [] e.ev = "global_remove" -> on_global_remove(os, e)
    [] e.ev \in {"geometry", "logical"} -> on_position(os, e)
    [] e.ev = "mode" -> on_mode(os, e)
    [] e.ev = "done" -> on_done(os, e)

(* dispatch_pending: every event, in order. *)
Dispatch(p, os, events) ==
  LET after[i \in 0..Len(events)] ==
        IF i = 0 THEN os ELSE Handle(p, after[i - 1], events[i])
  IN  after[Len(events)]

(* Variant: the zones count as changed when an output comes or goes. *)
update_shared_state_counts(os) ==
  LET zones == Zones(Sources(os))
  IN  [sources |-> Sources(os), zones |-> zones,
       set |-> shared.set + (IF Len(zones) = Len(shared.zones) THEN 0 ELSE 1)]

update_shared_state(os) ==
  LET zones == Zones(Sources(os))
  IN  [sources |-> Sources(os), zones |-> zones,
       set |-> shared.set + (IF zones = shared.zones THEN 0 ELSE 1)]

(* connect: the outputs listed are bound, one roundtrip brings their       *)
(* events, and main hands the first sources to the capture backend.        *)
Roundtrip ==
  /\ phase = "startup" /\ asked = {}
  /\ outputs' = Dispatch(phase, outputs, FlattenSeq(wire))
  /\ shared' = [sources |-> Sources(outputs'), zones |-> Zones(Sources(outputs')), set |-> 0]
  /\ known' = IF proto.backend THEN Sources(outputs') ELSE <<>>
  /\ wire' = <<>>
  /\ phase' = "running"
  /\ UNCHANGED <<compositor, asked, proto, monitor, mappings, clients>>

(* A turn of run_event_loop reads what is there, k groups and i events of  *)
(* the next, and dispatches it all.                                        *)
Turn ==
  /\ phase = "running" /\ wire # <<>>
  /\ \E k \in 0..Len(wire) :
     \E i \in IF k < Len(wire) /\ "split_read" \in Faults THEN 0..(Len(wire[k + 1]) - 1) ELSE {0} :
       LET part == IF i = 0 THEN <<>> ELSE SubSeq(wire[k + 1], 1, i)
           events == FlattenSeq(SubSeq(wire, 1, k)) \o part
       IN  /\ events # <<>>
           /\ outputs' = Dispatch(phase, outputs, events)
           /\ asked' = asked \cup {events[j].n : j \in {m \in DOMAIN events : events[m].ev = "global"}}
           /\ shared' = update_shared_state(outputs')
           /\ wire' = IF i = 0 THEN SubSeq(wire, k + 1, Len(wire))
                      ELSE <<SubSeq(wire[k + 1], i + 1, Len(wire[k + 1]))>> \o SubSeq(wire, k + 2, Len(wire))
  /\ UNCHANGED <<compositor, proto, phase, portal, clients>>

-----------------------------------------------------------------------------
(* monitor_output_changes, every two seconds.                              *)
(* Variant: the clients are told when an output comes or goes. *)
TickCounts ==
  /\ phase = "running" /\ monitor.pc = "idle"
  /\ known' = IF Len(shared.sources) # monitor.count THEN shared.sources ELSE known
  /\ monitor' = [pc |-> IF Len(shared.sources) # monitor.count THEN "emit" ELSE "idle",
                 count |-> Len(shared.sources), set |-> shared.set]
  /\ UNCHANGED <<compositor, wire, asked, proto, phase, outputs, shared, mappings, clients>>

Tick ==
  /\ phase = "running" /\ monitor.pc = "idle"
  /\ known' = IF Len(shared.sources) # monitor.count THEN shared.sources ELSE known
  /\ monitor' = [pc |-> IF shared.set # monitor.set THEN "emit" ELSE "idle",
                 count |-> Len(shared.sources), set |-> shared.set]
  /\ UNCHANGED <<compositor, wire, asked, proto, phase, outputs, shared, mappings, clients>>

EmitZonesChanged ==
  /\ monitor.pc = "emit"
  /\ monitor' = [monitor EXCEPT !.pc = "idle"]
  /\ told' = {c \in Client : view[c] # Absent}
  /\ UNCHANGED <<compositor, wire, asked, proto, phase, outputs, shared, known, mappings,
                 view, barriers>>

(* The picker's choice, which is not empty: a picker that chooses nothing  *)
(* or fails leaves the first source.                                       *)
select_sources_with_picker(sources) == SUBSET Names(sources) \ {{}}

(* SelectSources and Start of a RemoteDesktop session, one after the other *)
(* with no change of the sources between: its mappings take the place of   *)
(* those of any session before.                                            *)
Start ==
  /\ phase = "running" /\ known # <<>>
  /\ \E N \in select_sources_with_picker(known) :
       /\ N = Names(known) \/ "share_some" \in Faults
       /\ mappings' = Kept(known, {s \in Record : s.n \in N})
  /\ UNCHANGED <<compositor, wire, asked, proto, phase, outputs, shared, monitor, known, clients>>

-----------------------------------------------------------------------------
(* An InputCapture session: GetZones, SetPointerBarriers, the end.         *)
GetZones(c) ==
  /\ phase = "running"
  /\ view' = [view EXCEPT ![c] = [set |-> shared.set, zones |-> shared.zones]]
  /\ told' = told \ {c}
  /\ UNCHANGED <<compositor, wire, asked, proto, phase, outputs, shared, portal, barriers>>

(* The barriers are along zones of the client's view: all are accepted, or *)
(* none. *)
partition_barriers(c) == view[c].set = shared.set

SetPointerBarriers(c) ==
  /\ view[c] # Absent
  /\ barriers' = IF partition_barriers(c) THEN barriers \cup {c} ELSE barriers \ {c}
  /\ UNCHANGED <<compositor, wire, asked, proto, phase, outputs, shared, portal, view, told>>

(* Variant: the barriers outlive their session. *)
CloseKeeps(c) ==
  /\ view[c] # Absent
  /\ view' = [view EXCEPT ![c] = Absent]
  /\ told' = told \ {c}
  /\ UNCHANGED <<compositor, wire, asked, proto, phase, outputs, shared, portal, barriers>>

Close(c) ==
  /\ view[c] # Absent
  /\ view' = [view EXCEPT ![c] = Absent]
  /\ told' = told \ {c}
  /\ barriers' = barriers \ {c}
  /\ UNCHANGED <<compositor, wire, asked, proto, phase, outputs, shared, portal>>

-----------------------------------------------------------------------------
(* create_input_backend fails the process where nothing can be injected.   *)
Connect(adv, prefs) ==
  /\ proto = [xdg |-> "xdg_output" \in adv, backend |-> create_capture_backend(prefs, adv)]
  /\ phase = IF select_input([preferred |-> "eis", allow_fallback |-> TRUE], adv) = {}
             THEN "failed" ELSE "startup"

Init ==
  /\ real \in InitialLayouts
  /\ names = Initial /\ moves = 0
  /\ past = [n \in Output |-> IF n <= Initial THEN {real[n]} ELSE {}]
  /\ wire = <<>>
  /\ asked = 1..Initial
  /\ \E adv \in Advertised, prefs \in Preferences : Connect(adv, prefs)
  /\ outputs = [i \in 1..Initial |-> Unknown(i)]
  /\ shared = [sources |-> <<>>, zones |-> <<>>, set |-> 0]
  /\ monitor = [pc |-> "idle", count |-> 0, set |-> -1]
  /\ known = <<>> /\ mappings = <<>>
  /\ view = [c \in Client |-> Absent] /\ told = {} /\ barriers = {}

Environment ==
  \/ \E r \in Places : Plug(r)
  \/ \E n \in Output : Unplug(n)
  \/ \E n \in Output, r \in Places : Reconfigure(n, r)

Next ==
  \/ Environment
  \/ \E n \in Output : Answer(n)
  \/ Roundtrip \/ Turn \/ Tick \/ EmitZonesChanged \/ Start
  \/ \E c \in Client : GetZones(c) \/ SetPointerBarriers(c) \/ Close(c)

Spec == Init /\ [][Next]_vars

(* The compositor answers and the event loop wakes on what is there to     *)
(* read; the timer of the monitor goes off.                                *)
Wayland == Roundtrip \/ Turn \/ \E n \in Output : Answer(n)
Monitor == Tick \/ EmitZonesChanged
FairSpec == Spec /\ WF_vars(Wayland) /\ WF_vars(Monitor)

-----------------------------------------------------------------------------
(* Every variable has its shape, no output is listed twice, and a client   *)
(* without a session has no barriers.                                      *)
TypeOK ==
  /\ DOMAIN real \subseteq 1..names /\ names \in Initial..MaxGlobals
  /\ moves \in 0..MaxMoves /\ asked \subseteq Output
  /\ \A n \in DOMAIN real : real[n] \in past[n]
  /\ phase \in {"startup", "running", "failed"}
  /\ \A os \in {outputs, shared.sources, known, mappings} :
       /\ \A i \in DOMAIN os : os[i] \in Record
       /\ Cardinality(Names(os)) = Len(os)
  /\ told \cup barriers \subseteq {c \in Client : view[c] # Absent} /\ shared.set \in Nat
  /\ monitor.pc \in {"idle", "emit"} /\ monitor.set \in -1..shared.set

(* Once every event is read, the zones and sources the portal publishes    *)
(* are the outputs there are, each where it is: the position of            *)
(* wl_output.geometry, which is (0, 0) on current compositors, never stays *)
(* (WlOutput and ZxdgOutputV1 dispatch).                                   *)
QuietZones ==
  phase = "running" /\ wire = <<>> /\ asked = {} =>
    /\ {<<shared.sources[i].n, shared.sources[i].rect>> : i \in DOMAIN shared.sources}
       = {<<n, real[n]>> : n \in DOMAIN real}
    /\ shared.zones = Zones(shared.sources)

(* No zone is ever published that its output never was: neither the        *)
(* placeholder before its first events nor a new size at an old position.  *)
ZonesWereReal ==
  \A i \in DOMAIN shared.sources : shared.sources[i].rect \in past[shared.sources[i].n]

(* What is published is real at any time, and complete at rest.            *)
ZonesSound == QuietZones /\ ZonesWereReal

(* Barriers are accepted only from a client that has the zones of now,     *)
(* since nothing but the number of the zone set is compared                *)
(* (partition_barriers).                                                   *)
AcceptedOnCurrent ==
  [][\A c \in Client :
       SetPointerBarriers(c) /\ c \in barriers' => view[c].zones = shared.zones]_vars

(* A client that has seen zones which are no longer those of now is told,  *)
(* unless it asks again or goes (monitor_output_changes).                  *)
StaleIsTold ==
  \A c \in Client :
    (view[c] # Absent /\ view[c].set # shared.set)
      ~> (view[c] = Absent \/ c \in told \/ view[c].set = shared.set)

(* When outputs stop coming and going, the sources the capture backend     *)
(* offers are the outputs there are.                                       *)
SourcesSettle == <>[](phase = "failed" \/ Names(known) = DOMAIN real)

(* The backend made when no capture protocol is selected is meant to       *)
(* report no sources (create_capture_backend).                             *)
NoneOffered == ~proto.backend => known = <<>>

(* Barriers along the whole of an edge of r, or along either half of it.   *)
Stretches(from, to) ==
  LET mid == (from + to) \div 2
  IN  {s \in {<<from, to>>, <<from, mid>>, <<mid, to>>} : s[1] < s[2]}

Edges(r) ==
  {[x1 |-> s[1], y1 |-> y, x2 |-> s[2], y2 |-> y] :
      s \in Stretches(r.x, Right(r)), y \in {r.y, Bottom(r)}}
  \cup {[x1 |-> x, y1 |-> s[1], x2 |-> x, y2 |-> s[2]] :
      s \in Stretches(r.y, Bottom(r)), x \in {r.x, Right(r)}}

(* The barrier begins where the edge of r it lies on begins.               *)
Begins(b, r) == IF Horizontal(b) THEN b.x1 = r.x ELSE b.y1 = r.y

(* The surface p is along the line of b, as long as b.                     *)
Along(p, b) ==
  IF Horizontal(b)
  THEN p.width = b.x2 - b.x1 /\ b.y1 \in {p.y, Bottom(p)}
  ELSE p.height = b.y2 - b.y1 /\ b.x1 \in {p.x, Right(p)}

(* A barrier on the edge of a zone gets a strip along its line, as long as *)
(* the barrier is; if it begins where the edge begins, the strip is on it, *)
(* and where the portal believes it is (barrier_to_layer_geometry).        *)
StripOnBarrier ==
  LET zones == Sources(outputs)
  IN  \A i \in DOMAIN zones : \A b \in Edges(zones[i].rect) :
        \E g \in barrier_to_layer_geometry(b, zones), j \in DOMAIN zones :
          LET p == Placed(g, zones[j].rect)
          IN  /\ zones[j].n = g.output /\ Along(p, b)
              /\ Begins(b, zones[j].rect) =>
                   g.origin = <<p.x, p.y>> /\ (IF Horizontal(b) THEN p.x = b.x1 ELSE p.y = b.y1)

(* The origin is documented as the exact corner of the surface, from the   *)
(* same arithmetic as its anchor and margin: for every barrier             *)
(* (LayerSurfaceGeometry).                                                 *)
OriginExact ==
  LET zones == Sources(outputs)
  IN  \A i \in DOMAIN zones : \A b \in Edges(zones[i].rect) :
        \A g \in barrier_to_layer_geometry(b, zones), j \in DOMAIN zones :
          zones[j].n = g.output =>
            LET p == Placed(g, zones[j].rect) IN g.origin = <<p.x, p.y>>

Shared == {mappings[i].rect : i \in DOMAIN mappings}
Points(r) == {<<0, 0>>, <<r.width \div 2, r.height \div 2>>, <<r.width, r.height>>}

(* A point of a stream is the same point asked for over D-Bus, by stream,  *)
(* and over EIS, by the region of its output.                              *)
PathsAgree ==
  \A r \in Shared : \A p \in Points(r) :
    LET g == pointer_region(r, Shared)
    IN  MotionInLayout(<<g.x + p[1], g.y + p[2]>>, Shared) = MotionOnStream(p, r, Shared)

LandsOn(r, p) == Within1(Lands(MotionOnStream(p, r, Shared), {real[n] : n \in DOMAIN real}),
                         <<r.x + p[1], r.y + p[2]>>)

(* While the streams are those of the whole layout, the pointer lands on   *)
(* the point of the output that was asked for.                             *)
PointerLands ==
  Shared = {real[n] : n \in DOMAIN real} => \A r \in Shared : \A p \in Points(r) : LandsOn(r, p)

(* Barriers and pointer are on the screen where they were asked to be.     *)
GeometryHolds == StripOnBarrier /\ PathsAgree /\ PointerLands

(* layout_bounds is documented as the box of every known output: the       *)
(* pointer would land right with any of them shared.                       *)
PointerLandsWithSome ==
  Shared \subseteq {real[n] : n \in DOMAIN real}
    => \A r \in Shared : \A p \in Points(r) : LandsOn(r, p)
=============================================================================
