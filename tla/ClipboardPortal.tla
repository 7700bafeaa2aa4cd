-------------------------- MODULE ClipboardPortal ---------------------------
(***************************************************************************)
(* The Clipboard portal on the data-control client                         *)
(* (src/src/dbus/clipboard.rs, src/src/services/clipboard/backend.rs, the  *)
(* clipboard bridge of src/src/lib.rs).                                    *)
(*                                                                         *)
(*   sessions --D-Bus--> ClipboardInterface --backend--> data-control      *)
(*   sessions <--SelectionOwnerChanged-- bridge task <--signals-- worker   *)
(*                                                                         *)
(* The portal registers on_change and no on_transfer. A program that       *)
(* embeds the backend may use it directly instead, and register both: the  *)
(* consumer is one or the other. SelectionTransfer is never signalled by   *)
(* the portal, so its table of pending writes stays empty, SelectionWrite  *)
(* and SelectionWriteDone find no entry and change nothing.                *)
(***************************************************************************)
EXTENDS DataControl

CONSTANTS
  Session, Unheard,
  DirectCopies  \* bound: copies by others when the consumer is not the portal

ASSUME PortalAssumption == DirectCopies \in 0..MaxCopy /\ Unheard \notin Selection \cup {None}

VARIABLES
  portal,   \* the consumer is the portal
  enabled,  \* sessions with clipboard_enabled
  signals,  \* ClipboardSignals on their way to the bridge
  heard,    \* the owner each session was told of last
  reads     \* pastes that are SelectionReads

portalVars == <<portal, enabled, signals, heard, reads>>
allVars == <<vars, portalVars>>

RequestClipboard(h) ==
  /\ portal /\ h \notin enabled
  /\ enabled' = enabled \cup {h} /\ heard' = [heard EXCEPT ![h] = Unheard]
  /\ UNCHANGED <<vars, portal, signals, reads>>

CloseSession(h) ==
  /\ h \in enabled /\ enabled' = enabled \ {h}
  /\ UNCHANGED <<vars, portal, signals, heard, reads>>

(* The backend offers the types and has no data for them.                  *)
PortalSetSelection(h, ts) ==
  /\ portal /\ h \in enabled
  /\ SetSelection(ts, FALSE)
  /\ UNCHANGED portalVars

(* get_clipboard has types and no data: a type that is offered is answered *)
(* with a pipe nobody writes to.                                           *)
SelectionRead(h, p, m) ==
  /\ portal /\ h \in enabled /\ Starts(p)
  /\ \E i \in DOMAIN types : types[i] = m
  /\ paste' = [paste EXCEPT ![p] = [st |-> "eof", sel |-> current, m |-> m, of |-> None]]
  /\ reads' = reads \cup {p}
  /\ UNCHANGED <<compVars, wire, cmds, running, device, srcVars, offVars, conVars, told,
                 portal, enabled, signals, heard>>

(* Variant: a change of the owner alone is not reported.                   *)
WorkerReportsTypes(Step) ==
  /\ Step
  /\ signals' = IF portal /\ told' # told /\ types' # types THEN Append(signals, told') ELSE signals
  /\ UNCHANGED <<portal, enabled, heard, reads>>

(* on_selection_changed's callback sends what the worker reports; a report *)
(* that repeats the last one is left out.                                  *)
Worker(Step) ==
  /\ Step
  /\ signals' = IF portal /\ told' # told THEN Append(signals, told') ELSE signals
  /\ UNCHANGED <<portal, enabled, heard, reads>>

(* Variant: the owner is lost on the way.                                  *)
bridge_without_owner ==
  /\ signals # <<>> /\ signals' = Tail(signals)
  /\ heard' = [h \in Session |-> IF h \in enabled THEN NoMatch ELSE heard[h]]
  /\ UNCHANGED <<vars, portal, enabled, reads>>

(* A signal for nobody is dropped.                                         *)
clipboard_signal_bridge ==
  /\ signals # <<>> /\ signals' = Tail(signals)
  /\ heard' = [h \in Session |-> IF h \in enabled THEN Head(signals) ELSE heard[h]]
  /\ UNCHANGED <<vars, portal, enabled, reads>>

PortalInit ==
  /\ Init /\ portal \in BOOLEAN /\ registered = ~portal
  /\ left = (IF portal THEN MaxCopy ELSE DirectCopies)
  /\ enabled = {} /\ signals = <<>> /\ heard = [h \in Session |-> Unheard] /\ reads = {}

Sessions ==
  \/ \E h \in Session : RequestClipboard(h) \/ CloseSession(h)
  \/ \E h \in Session, ts \in Offers : PortalSetSelection(h, ts)
  \/ \E h \in Session, p \in Paste, m \in Wanted : SelectionRead(h, p, m)

Direct == ~portal /\ Consumer /\ UNCHANGED portalVars

PortalNext ==
  \/ Sessions \/ Direct \/ Worker(WorkerEvent) \/ Worker(WorkerCommand) \/ clipboard_signal_bridge
  \/ Outside /\ UNCHANGED portalVars

PortalSpec == PortalInit /\ [][PortalNext]_allVars

-----------------------------------------------------------------------------
PortalTypeOK ==
  /\ TypeOK /\ portal \in BOOLEAN /\ enabled \subseteq Session /\ reads \subseteq Paste
  /\ signals \in Seq(Selection \cup {None})
  /\ heard \in [Session -> Selection \cup {None, Unheard}]

(* Once events and signals are through, a session knows the foreign owner  *)
(* of the selection, unless it has heard nothing since it asked for the    *)
(* clipboard.                                                              *)
SessionsKnowOwner ==
  portal /\ Settled /\ signals = <<>> /\ sel \in Foreign
    => \A h \in enabled : heard[h] \in {sel, Unheard}

(* Another client's copy is reported to the portal, and by the portal to   *)
(* its sessions.                                                           *)
OwnerKnown == ForeignCopyReported /\ SessionsKnowOwner

(* Whatever types are offered, the one found for a request is the nearest  *)
(* (find_mime_match). No state plays a part: this is checked until the     *)
(* first paste.                                                            *)
MatchIsNearest == (\A p \in Paste : paste[p] = NoPaste) => NearestMatch

(* A session that set the selection is not left with the belief that       *)
(* another client owns it.                                                 *)
SetterNotMisled ==
  portal /\ Settled /\ cmds = <<>> /\ signals = <<>> /\ sel \in Own
    => \A h \in enabled : heard[h] \notin Foreign

(* Documented of get_clipboard: the data is fetched on demand, so a read   *)
(* of an offered type gets the selection's data.                           *)
SelectionReadServed == \A p \in reads : paste[p].st # "eof"

=============================================================================
