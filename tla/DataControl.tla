---------------------------- MODULE DataControl -----------------------------
(***************************************************************************)
(* The data-control clipboard client                                       *)
(* (src/crates/lamco-data-control/src/{client,worker,state,dispatch}.rs).  *)
(*                                                                         *)
(*   consumer --cmds--> worker thread --requests--> compositor             *)
(*   consumer <--callbacks-- worker thread <--wire-- compositor            *)
(*                                                                         *)
(* A selection is known by its source, numbered in the order they are      *)
(* made: from 1 up this client's, below 0 the copies of others; so are the *)
(* pastes. A request acts on the compositor at once, an event waits in     *)
(* wire: the worker learns of the compositor only by events, so this loses *)
(* no order of the two. data_offer and the offer events after it are one   *)
(* event: only the selection event reads what they leave.                  *)
(***************************************************************************)
EXTENDS MimeMatch

CONSTANTS
  MaxCopy,    \* bound: copies by other clients
  MaxPaste,   \* bound: pastes and reads, each with a pipe of its own
  Offers,     \* lists of types a selection may offer
  Wanted,     \* types that are pasted, read or updated; the others are left out
  MaxSel,     \* bound: selections this client sets
  MaxCmds,    \* bound: commands waiting
  None,
  Faults      \* what the others may do: a subset of AllFaults

AllFaults ==
  {"primary",         \* the primary selection changes
   "selection_first", \* the compositor reports a selection before it cancels ours
   "late_update",     \* update_data is given the data of an earlier selection
   "device_gone",     \* the compositor finishes the device
   "stop"}            \* the handle is dropped, or the connection fails

Own == 1..MaxSel
Foreign == {-i : i \in 1..MaxCopy}
Paste == 1..MaxPaste
Selection == Own \cup Foreign

ASSUME DataControlAssumption ==
  /\ MaxCopy \in Nat /\ MaxPaste \in Nat /\ MaxSel \in Nat /\ MaxCmds \in Nat
  /\ None \notin Int /\ Wanted \subseteq Mime /\ \A m \in Wanted : Bare(m) \in Wanted
  /\ Offers \subseteq Seq(Mime) /\ Offers # {} /\ Faults \subseteq AllFaults

VARIABLES
  sel,        \* the compositor's selection
  offered,    \* the types each selection was made with
  left,       \* foreign copies still to be made
  wire,       \* events on their way to the worker
  cmds,       \* commands on their way to the worker
  running,    \* the worker thread runs
  device,     \* State::device is there
  source,     \* State::current_source
  data,       \* State::source_data: whose data is cached for a type
  held,       \* State::pending_transfers
  serial,     \* State::next_transfer_serial
  pending,    \* State::pending_offer
  current,    \* State::current_offer
  own_live,   \* Shared::own_source_live
  registered, \* Shared::on_transfer is set
  types,      \* Shared::mime_types
  nSel,       \* selections the consumer has set
  told,       \* the selection on_change reported last
  asked,      \* transfer requests the consumer holds
  paste       \* what became of each paste

compVars == <<sel, offered, left>>
srcVars == <<source, data, held, serial, own_live>>
offVars == <<pending, current, types, registered>>
conVars == <<nSel, asked>>
vars == <<compVars, wire, cmds, running, device, srcVars, offVars, conVars, told, paste>>

NoPaste == [st |-> "idle", sel |-> None, m |-> None, of |-> None]
Starts(p) == paste[p] = NoPaste /\ \A q \in 1..(p - 1) : paste[q] # NoPaste
NoData == [m \in Wanted |-> None]
NoTransfers == [m \in Wanted |-> [serial |-> 0, waiters |-> {}]]
Types(s) == {offered[s][i] : i \in DOMAIN offered[s]}
Held(m) == held[m].waiters # {}
Waiting == UNION {held[m].waiters : m \in Wanted}

Ev(k, id) == [k |-> k, id |-> id, m |-> None, p |-> None]

(* A paste ends with the data of a selection, or with none.                *)
Answer(P, s) == [p \in Paste |-> IF p \in P
  THEN [paste[p] EXCEPT !.st = IF s = None THEN "eof" ELSE "data", !.of = s] ELSE paste[p]]

-----------------------------------------------------------------------------
(* The compositor.                                                         *)

Reporting == device /\ \A i \in DOMAIN wire : wire[i].k # "finished"

(* The events of a change of selection: the old source, if it is ours and  *)
(* not destroyed, is cancelled; the device is told of the new one.         *)
ChangeEvents(new) ==
  LET cancel == IF sel \in Own THEN <<Ev("cancelled", sel)>> ELSE <<>>
      report == IF ~Reporting THEN <<>>
                ELSE IF new = None THEN <<Ev("null", None)>>
                ELSE <<Ev("offer", new), Ev("selection", new)>>
  IN  IF new \in Own \/ "selection_first" \notin Faults
      THEN {cancel \o report} ELSE {cancel \o report, report \o cancel}

Deliver(new) == \E evs \in ChangeEvents(new) : wire' = wire \o evs

NextCopy(f) == left > 0 /\ f = -left /\ left' = left - 1

Copy(f, ts) ==
  /\ NextCopy(f)
  /\ sel' = f /\ offered' = [offered EXCEPT ![f] = ts]
  /\ Deliver(f)
  /\ UNCHANGED <<cmds, running, device, srcVars, offVars, conVars, told, paste>>

(* The primary selection is introduced by data_offer too.                  *)
PrimaryCopy(f, ts) ==
  /\ "primary" \in Faults /\ Reporting /\ NextCopy(f)
  /\ offered' = [offered EXCEPT ![f] = ts]
  /\ wire' = wire \o <<Ev("offer", f), Ev("primary", f)>>
  /\ UNCHANGED <<sel, cmds, running, device, srcVars, offVars, conVars, told, paste>>

(* A client pastes our selection, as a type it offers or as a spelling of  *)
(* it: our source is told to send.                                         *)
PasteOwn(p, m) ==
  /\ Starts(p) /\ sel \in Own
  /\ {m, Bare(m)} \cap Types(sel) # {}
  /\ paste' = [paste EXCEPT ![p] = [st |-> "sent", sel |-> sel, m |-> m, of |-> None]]
  /\ wire' = Append(wire, [k |-> "send", id |-> sel, m |-> m, p |-> p])
  /\ UNCHANGED <<compVars, cmds, running, device, srcVars, offVars, conVars, told>>

(* Bound: the device goes when its events have been read.                  *)
FinishDevice ==
  /\ "device_gone" \in Faults /\ device /\ wire = <<>>
  /\ wire' = <<Ev("finished", None)>>
  /\ UNCHANGED <<compVars, cmds, running, device, srcVars, offVars, conVars, told, paste>>

-----------------------------------------------------------------------------
(* The consumer: the calls of the handle, and its callbacks' results.      *)
Room == Len(cmds) < MaxCmds
Command(c) == running /\ cmds' = Append(cmds, c)

NoCommand == [k |-> None, sel |-> None, full |-> FALSE, m |-> None, p |-> None, serial |-> 0]

SetSelection(ts, full) ==
  /\ Room /\ nSel < MaxSel /\ nSel' = nSel + 1
  /\ offered' = [offered EXCEPT ![nSel + 1] = ts]
  /\ Command([NoCommand EXCEPT !.k = "set", !.sel = nSel + 1, !.full = full])
  /\ UNCHANGED <<sel, left, wire, running, device, srcVars, offVars, asked, told, paste>>

UpdateData(m, s) ==
  /\ Room /\ s \in 1..nSel /\ (s = nSel \/ "late_update" \in Faults)
  /\ m \in Types(s) /\ \A i \in DOMAIN cmds : cmds[i].k # "update"
  /\ Command([NoCommand EXCEPT !.k = "update", !.sel = s, !.m = m])
  /\ UNCHANGED <<compVars, wire, running, device, srcVars, offVars, conVars, told, paste>>

ClearSelection ==
  /\ Room /\ nSel > 0 /\ \A i \in DOMAIN cmds : cmds[i].k # "clear"
  /\ Command([NoCommand EXCEPT !.k = "clear"])
  /\ UNCHANGED <<compVars, wire, running, device, srcVars, offVars, conVars, told, paste>>

(* TransferRequest::complete and ::fail. The data is that of the selection *)
(* the consumer set last.                                                  *)
CompleteTransfer(r, ok) ==
  /\ r \in asked /\ asked' = asked \ {r}
  /\ Command([NoCommand EXCEPT !.k = "complete", !.serial = r.serial,
                               !.sel = IF ok THEN nSel ELSE None])
  /\ UNCHANGED <<compVars, wire, running, device, srcVars, offVars, nSel, told, paste>>

(* read: the type is looked up in what the worker published, the pipe's    *)
(* other end is sent to the worker.                                        *)
Read(p, m) ==
  /\ Room /\ Starts(p)
  /\ LET found == find_mime_match(m, types)
     IN  /\ found # NoMatch /\ found \in Wanted
         /\ paste' = [paste EXCEPT ![p] = [st |-> "sent", sel |-> None, m |-> found, of |-> None]]
         /\ Command([NoCommand EXCEPT !.k = "receive", !.m = found, !.p = p])
  /\ UNCHANGED <<compVars, wire, running, device, srcVars, offVars, conVars, told>>

-----------------------------------------------------------------------------
(* The worker thread: one event, or one command.                           *)
Dispatch(k) ==
  /\ running /\ wire # <<>> /\ Head(wire).k = k
  /\ wire' = Tail(wire)
  /\ UNCHANGED <<compVars, cmds, running, nSel>>

set_pending_offer ==
  /\ Dispatch("offer")
  /\ pending' = Head(wire).id
  /\ UNCHANGED <<device, srcVars, current, types, registered, asked, told, paste>>

is_own_selection(new) ==
  /\ source # None
  /\ Len(offered[source]) = Len(offered[new])
  /\ Types(new) \subseteq Types(source)

(* The event's own offer is not looked at: the pending one is taken.       *)
on_selection ==
  /\ Dispatch("selection")
  /\ current' = pending /\ pending' = None
  /\ types' = IF pending = None THEN <<>> ELSE offered[pending]
  /\ told' = IF pending # None /\ is_own_selection(pending) THEN told ELSE pending
  /\ UNCHANGED <<device, srcVars, registered, asked, paste>>

on_selection_cleared ==
  /\ Dispatch("null")
  /\ current' = None /\ pending' = None /\ types' = <<>> /\ told' = None
  /\ UNCHANGED <<device, srcVars, registered, asked, paste>>

on_primary_selection == Dispatch("primary") /\ UNCHANGED <<device, srcVars, offVars, asked, told, paste>>

(* An event for a source this client has destroyed is not dispatched, and  *)
(* its descriptor is closed.                                               *)
Discard(k) ==
  /\ Dispatch(k) /\ Head(wire).id # source
  /\ paste' = Answer({Head(wire).p} \cap Paste, None)
  /\ UNCHANGED <<device, srcVars, offVars, asked, told>>

on_source_send ==
  LET ev == Head(wire)  m == ev.m  p == ev.p
      key == cached_key(m, {c \in Wanted : data[c] # None})
      raise == registered /\ m \in Types(source)
  IN  /\ Dispatch("send") /\ ev.id = source
      /\ \/ /\ key # NoMatch
            /\ paste' = Answer({p}, data[key])
            /\ UNCHANGED <<held, serial, asked>>
         \/ /\ key = NoMatch /\ Held(m)
            /\ held' = [held EXCEPT ![m].waiters = @ \cup {p}]
            /\ paste' = [paste EXCEPT ![p].st = "held"]
            /\ UNCHANGED <<serial, asked>>
         \/ /\ key = NoMatch /\ ~Held(m) /\ raise
            /\ held' = [held EXCEPT ![m] = [serial |-> serial, waiters |-> {p}]]
            /\ serial' = serial + 1
            /\ asked' = asked \cup {[serial |-> serial, m |-> m]}
            /\ paste' = [paste EXCEPT ![p].st = "held"]
         \/ /\ key = NoMatch /\ ~Held(m) /\ ~raise
            /\ paste' = Answer({p}, None)
            /\ UNCHANGED <<held, serial, asked>>
      /\ UNCHANGED <<device, source, data, own_live, offVars, told>>

(* What is forgotten with a source: its data, and the pastes held for it,  *)
(* which see end of file.                                                  *)
Forget ==
  /\ source' = None /\ data' = NoData /\ held' = NoTransfers /\ own_live' = FALSE
  /\ paste' = Answer(Waiting, None)
  /\ UNCHANGED serial

(* Variant: the source is kept, only its data is dropped.                  *)
on_source_cancelled_keeps ==
  /\ Dispatch("cancelled") /\ Head(wire).id = source
  /\ data' = NoData /\ held' = NoTransfers /\ paste' = Answer(Waiting, None)
  /\ UNCHANGED <<device, source, serial, own_live, offVars, asked, told>>

on_source_cancelled ==
  /\ Dispatch("cancelled") /\ Head(wire).id = source
  /\ Forget
  /\ UNCHANGED <<device, offVars, asked, told>>

on_device_finished ==
  /\ running /\ wire # <<>> /\ Head(wire).k = "finished"
  /\ wire' = Tail(wire)
  /\ device' = FALSE /\ current' = None /\ pending' = None
  /\ sel' = IF sel = source THEN None ELSE sel
  /\ Forget
  /\ UNCHANGED <<offered, left, cmds, running, nSel, types, registered, asked, told>>

Process(k) ==
  /\ running /\ cmds # <<>> /\ Head(cmds).k = k
  /\ cmds' = Tail(cmds)
  /\ UNCHANGED <<offered, left, running, device, offVars, serial, conVars, told>>

(* Variant: the pastes held for the old source wait on.                    *)
set_selection_keeps_held ==
  LET new == Head(cmds).sel
  IN  /\ Process("set") /\ device
      /\ sel' = new /\ Deliver(new)
      /\ source' = new /\ own_live' = TRUE
      /\ data' = [m \in Wanted |-> IF Head(cmds).full /\ m \in Types(new) THEN new ELSE None]
      /\ UNCHANGED <<held, paste>>

(* The new source replaces the selection before the old one is destroyed.  *)
set_selection ==
  LET new == Head(cmds).sel
  IN  /\ Process("set") /\ device
      /\ sel' = new /\ Deliver(new)
      /\ source' = new /\ own_live' = TRUE
      /\ data' = [m \in Wanted |-> IF Head(cmds).full /\ m \in Types(new) THEN new ELSE None]
      /\ held' = NoTransfers /\ paste' = Answer(Waiting, None)

set_selection_fails ==
  /\ Process("set") /\ ~device
  /\ UNCHANGED <<sel, wire, source, data, held, own_live, paste>>

update_source_data ==
  /\ Process("update")
  /\ data' = [data EXCEPT ![Head(cmds).m] = Head(cmds).sel]
  /\ UNCHANGED <<sel, wire, source, held, own_live, paste>>

clear_selection ==
  /\ Process("clear")
  /\ \/ /\ source # None
        /\ IF device THEN sel' = None /\ Deliver(None)
                     ELSE UNCHANGED <<sel, wire>>
        /\ source' = None /\ data' = NoData /\ held' = NoTransfers /\ own_live' = FALSE
        /\ paste' = Answer(Waiting, None)
     \/ source = None /\ UNCHANGED <<sel, wire, source, data, held, own_live, paste>>

complete_transfer ==
  LET c == Head(cmds)
      hit == {m \in Wanted : Held(m) /\ held[m].serial = c.serial}
  IN  /\ Process("complete")
      /\ paste' = Answer(UNION {held[m].waiters : m \in hit}, c.sel)
      /\ held' = [m \in Wanted |-> IF m \in hit THEN NoTransfers[m] ELSE held[m]]
      /\ data' = [m \in Wanted |-> IF m \in hit /\ c.sel # None THEN c.sel ELSE data[m]]
      /\ UNCHANGED <<sel, wire, source, own_live>>

(* offer.receive: an offer of the compositor's selection has the source    *)
(* write to the pipe, one of an earlier selection closes it.               *)
receive_from_offer ==
  LET p == Head(cmds).p  m == Head(cmds).m
  IN  /\ Process("receive")
      /\ \/ /\ current # None /\ current = sel /\ sel \in Own
            /\ wire' = Append(wire, [k |-> "send", id |-> sel, m |-> m, p |-> p])
            /\ paste' = [paste EXCEPT ![p].sel = sel]
         \/ /\ current # None /\ current = sel /\ sel \in Foreign
            /\ paste' = [Answer({p}, sel) EXCEPT ![p].sel = sel]
            /\ UNCHANGED wire
         \/ /\ current = None \/ current # sel
            /\ paste' = Answer({p}, None)
            /\ UNCHANGED wire
      /\ UNCHANGED <<sel, srcVars>>

(* The stop flag, or a failed connection: every object goes with the       *)
(* connection, and every descriptor is closed.                             *)
Stop ==
  /\ "stop" \in Faults /\ running
  /\ running' = FALSE /\ cmds' = <<>> /\ wire' = <<>>
  /\ sel' = IF sel \in Own THEN None ELSE sel
  /\ source' = None /\ data' = NoData /\ held' = NoTransfers
  /\ pending' = None /\ current' = None
  /\ paste' = Answer({p \in Paste : paste[p].st \in {"sent", "held"}}, None)
  /\ UNCHANGED <<offered, left, device, serial, own_live, types, registered, conVars, told>>

-----------------------------------------------------------------------------
Init ==
  /\ sel = None /\ left \in 0..MaxCopy /\ offered = [s \in Selection |-> <<>>]
  /\ wire = <<>> /\ cmds = <<>> /\ running = TRUE /\ device = TRUE
  /\ source = None /\ data = NoData /\ held = NoTransfers /\ serial = 1 /\ own_live = FALSE
  /\ pending = None /\ current = None /\ types = <<>> /\ registered \in BOOLEAN
  /\ nSel = 0 /\ told = None /\ asked = {}
  /\ paste = [p \in Paste |-> NoPaste]

Outside ==
  \/ \E f \in Foreign, ts \in Offers : Copy(f, ts) \/ PrimaryCopy(f, ts)
  \/ \E p \in Paste, m \in Wanted : PasteOwn(p, m)
  \/ FinishDevice \/ Stop

Consumer ==
  \/ \E ts \in Offers, full \in BOOLEAN : SetSelection(ts, full)
  \/ \E m \in Wanted, s \in Own : UpdateData(m, s)
  \/ ClearSelection
  \/ \E r \in asked, ok \in BOOLEAN : CompleteTransfer(r, ok)
  \/ \E p \in Paste, m \in Wanted : Read(p, m)

WorkerEvent ==
  \/ set_pending_offer \/ on_selection \/ on_selection_cleared \/ on_primary_selection
  \/ Discard("send") \/ Discard("cancelled") \/ on_source_send \/ on_source_cancelled
  \/ on_device_finished

WorkerCommand ==
  \/ set_selection \/ set_selection_fails \/ update_source_data \/ clear_selection
  \/ complete_transfer \/ receive_from_offer

Next == Outside \/ Consumer \/ WorkerEvent \/ WorkerCommand

Spec == Init /\ [][Next]_vars

-----------------------------------------------------------------------------
TypeOK ==
  /\ sel \in Selection \cup {None} /\ left \in 0..MaxCopy
  /\ offered \in [Selection -> Offers \cup {<<>>}]
  /\ running \in BOOLEAN /\ device \in BOOLEAN /\ own_live \in BOOLEAN /\ registered \in BOOLEAN
  /\ source \in Own \cup {None} /\ data \in [Wanted -> Own \cup {None}]
  /\ held \in [Wanted -> [serial : Nat, waiters : SUBSET Paste]] /\ serial \in Nat
  /\ pending \in Selection \cup {None} /\ current \in Selection \cup {None}
  /\ types \in Offers \cup {<<>>} /\ nSel \in 0..MaxSel /\ told \in Selection \cup {None}
  /\ asked \subseteq [serial : Nat, m : Wanted]
  /\ paste \in [Paste -> [st : {"idle", "sent", "held", "data", "eof"}, sel : Selection \cup {None},
                          m : Wanted \cup {None}, of : Selection \cup {None}]]

Settled == running /\ device /\ wire = <<>>

(* A paste is answered with the data of the selection it was made on, or   *)
(* with none: never with what was set, fetched or completed for another.   *)
AnsweredFromItsSelection ==
  \A p \in Paste : paste[p].st = "data" => paste[p].of = paste[p].sel

(* The worker and the compositor agree on the selection once the events    *)
(* are read: our source is there exactly when it is the selection, and the *)
(* current offer is the selection's.                                       *)
AgreesWithCompositor ==
  Settled => /\ source = (IF sel \in Own THEN sel ELSE None)
             /\ own_live <=> source # None
             /\ current = sel

(* A copy by another client that stays the selection has been reported.    *)
ForeignCopyReported == Settled /\ sel \in Foreign => told = sel

(* No paste is lost on its way to an answer: its event or command is still *)
(* to come, or it is held, once, for the source that is there, with a      *)
(* request that the consumer or the queue still has.                       *)
PasteAccounted ==
  \A p \in Paste :
    /\ paste[p].st = "sent" => \/ \E i \in DOMAIN wire : wire[i].p = p
                               \/ \E i \in DOMAIN cmds : cmds[i].p = p
    /\ paste[p].st = "held" <=> p \in Waiting
    /\ paste[p].st = "held" =>
         LET m == paste[p].m
         IN  /\ p \in held[m].waiters /\ paste[p].sel = source
             /\ \/ [serial |-> held[m].serial, m |-> m] \in asked
                \/ \E i \in DOMAIN cmds : cmds[i].k = "complete" /\ cmds[i].serial = held[m].serial

(* A paste is answered, from the selection it was made on, or it is still  *)
(* accounted for.                                                          *)
PastesServed == AnsweredFromItsSelection /\ PasteAccounted

(* Documented of clear_selection: the selection is given up if this handle *)
(* still owns it, so another client's copy is left alone.                  *)
ClearsOnlyOwn == [][(sel \in Foreign /\ sel' # sel) => (sel' # None)]_vars

=============================================================================
