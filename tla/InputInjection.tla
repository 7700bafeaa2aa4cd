--------------------------- MODULE InputInjection ---------------------------
(***************************************************************************)
(* Input injection: EIS clients and D-Bus Notify calls on one side, one    *)
(* virtual keyboard and pointer per session on the other (EisBridgeBackend *)
(* over WlrInputBackend).  The XKB data -- keymap, pool of keycodes for    *)
(* keysyms the "us" layout lacks, modifier state -- are one for all the    *)
(* sessions; the staged events of a frame are each session's own.          *)
(*                                                                         *)
(* A key is a key of the base layout or a slot of the pool.  An event      *)
(* carries what its client asked for (asked), which the program does not   *)
(* have and the properties compare with what the compositor makes of it.   *)
(* A staged event is injected as it was resolved: the time between is the  *)
(* EIS frame, and other requests of any session come in it.  What scroll   *)
(* deltas and texts become at the wire is EisWire's.                       *)
(***************************************************************************)
EXTENDS EisWire, FiniteSets

CONSTANTS
  Sessions,      \* session handles
  Layout,        \* base "us" keymap: key -> its keysyms, by level
  ModKeys,       \* the keys of Layout that set a modifier
  Unlisted,      \* keysyms the base layout has no key for
  PoolCodes,     \* DYNAMIC_POOL_EVDEV_CODES, a sequence of keycodes
  Texts,         \* strings (sequences of keysyms) an ei_text.utf8 carries
  MaxStaged,     \* bound: events staged for one frame
  MaxHeld,       \* bound: keys a client holds at once
  MaxCreates,    \* bound: contexts created in a behaviour
  Faults,        \* what the environment may do, see Env below
  None

Slots == Range(PoolCodes)
Keys == DOMAIN Layout \cup Slots
Keysyms == Unlisted \cup UNION {Range(Layout[key]) : key \in DOMAIN Layout}

\* A virtual keyboard, as the compositor sees it.
Keyboard == [keymap : [Slots -> Unlisted \cup {None}], held : SUBSET Keys,
             mods : SUBSET ModKeys, unframed : BOOLEAN]

ASSUME InputAssumption ==
  /\ PoolCodes \in Seq(Slots) /\ PoolCodes # <<>> /\ IsInjective(PoolCodes)
  /\ Slots \cap DOMAIN Layout = {}
  /\ ModKeys \subseteq DOMAIN Layout
  /\ \A key \in DOMAIN Layout : /\ Layout[key] \in Seq(Range(Layout[key])) /\ Layout[key] # <<>>
                               /\ Range(Layout[key]) \cap (Unlisted \cup {None}) = {}
  /\ None \notin Unlisted \cup Keys \cup Keyboard /\ \A typed \in SUBSET Keysyms : typed # None
  /\ Texts \subseteq Seq(Keysyms)
  /\ MaxStaged \in Nat /\ MaxHeld \in Nat /\ MaxCreates \in Nat

VARIABLES
  pool,          \* DynamicKeysymPool: slots, recency
  keymap,        \* XkbData.keymap: what each slot carries; the base never changes
  down,          \* XkbData.state: how often each modifier key is down
  eis,           \* EisBridgeBackend.sessions: session -> phase of its EisSession
  pending,       \* EisBridgeBackend.pending_events
  kbd,           \* WlrInputBackend.sessions, as the compositor sees the devices
  holding,       \* what each session's client holds down, as it asked for it
  creates,       \* contexts created so far
  wrong          \* what went wrong at a delivery: subset of Wrongs

vars == <<pool, keymap, down, eis, pending, kbd, holding, creates, wrong>>

Wrongs == {"symbol", "modifiers", "frame"}
Phases == {"none", "handshake", "sender", "receiver"}

\* An event on its way: a key with what was asked for it, or a pointer or
\* touch event, of which only the place in the frame matters.
KeyEvent(key, pressed, asked) == [kind |-> "key", key |-> key, pressed |-> pressed, asked |-> asked]
PlainEvent(kind) == [kind |-> kind]
Events == [kind : {"key"}, key : Keys, pressed : BOOLEAN, asked : Keysyms]
            \cup [kind : {"pointer", "touch"}]

---------------------------------------------------------------------------
(* The pool of keycodes and the keymap *)

\* The keysyms a key carries by level under the keymap km.
Symbols(km, key) == IF key \in Slots THEN <<km[key]>> ELSE Layout[key]

\* The keys that have the keysym at any level.  The keymap searched is the
\* current one, spliced slots included.
static_keysym_to_keycode(km, k) == {key \in Keys : k \in Range(Symbols(km, key))}

\* DynamicKeysymPool::touch
touch(p, slot) == [p EXCEPT !.recency = Append(RemoveFirst(p.recency, slot), slot)]

\* DynamicKeysymPool::resolve
Bound(p, k) == {slot \in Slots : p.slots[slot] = k}

resolve_keeps_place(p, k) ==
  LET slot == Head(p.recency)
  IN [slot |-> slot, changed |-> TRUE,
      pool |-> [slots |-> [p.slots EXCEPT ![slot] = k], recency |-> Append(p.recency, slot)]]

resolve(p, k) ==
  IF Bound(p, k) # {}
  THEN LET slot == CHOOSE slot \in Bound(p, k) : TRUE
       IN [slot |-> slot, changed |-> FALSE, pool |-> touch(p, slot)]
  ELSE LET slot == Head(p.recency)
       IN [slot |-> slot, changed |-> TRUE,
           pool |-> [slots |-> [p.slots EXCEPT ![slot] = k],
                     recency |-> Append(Tail(p.recency), slot)]]

\* The XKB data as one value: a request may resolve several keysyms in turn.
xkb == [pool |-> pool, keymap |-> keymap, down |-> down]

\* keysym_to_keycode: the key the keysym resolves to (None if the spliced
\* keymap does not compile) and the XKB data after.  A splice makes a fresh
\* xkb state: what was down is forgotten.
keysym_to_keycode(x, k, compiles) ==
  LET known == static_keysym_to_keycode(x.keymap, k)
      r == resolve(x.pool, k)
  IN IF known # {} THEN [key |-> CHOOSE key \in known : TRUE, xkb |-> x]
     ELSE IF ~r.changed THEN [key |-> r.slot, xkb |-> [x EXCEPT !.pool = r.pool]]
     ELSE IF ~compiles THEN [key |-> None, xkb |-> [x EXCEPT !.pool = r.pool]]
     ELSE [key |-> r.slot,
           xkb |-> [pool |-> r.pool, keymap |-> r.pool.slots, down |-> [m \in ModKeys |-> 0]]]

\* The keyboards after the XKB data became x: a new keymap goes to them all.
\* Variant: to those that hold nothing.
Uploaded_idle(boards, x) ==
  [s \in Sessions |-> IF boards[s] = None \/ boards[s].held # {} THEN boards[s]
                     ELSE [boards[s] EXCEPT !.keymap = x.keymap]]

Uploaded(boards, x) ==
  IF x.keymap = keymap THEN boards
  ELSE [s \in Sessions |-> IF boards[s] = None THEN None
                           ELSE [boards[s] EXCEPT !.keymap = x.keymap]]

\* A keyboard whose upload fails keeps the keymap it has, and the loop goes on.
Missed == IF "upload" \in Faults THEN SUBSET Sessions ELSE {{}}

KeymapReceived(boards, x, missed) ==
  [s \in Sessions |-> IF s \in missed THEN boards[s] ELSE Uploaded(boards, x)[s]]

SetXkb(x) == pool' = x.pool /\ keymap' = x.keymap /\ down' = x.down

---------------------------------------------------------------------------
(* Injection: apply_event, commit_and_flush *)

Pressed(dn) == {m \in ModKeys : dn[m] > 0}

\* update_key: xkbcommon counts how often a modifier key went down.
update_key(dn, key, pressed) ==
  IF key \notin ModKeys THEN dn
  ELSE [dn EXCEPT ![key] = IF pressed THEN @ + 1 ELSE IF @ > 0 THEN @ - 1 ELSE 0]

\* modifiers(), then key(), on a keyboard
send_key(st, e, mods) ==
  LET held == IF e.pressed THEN st.kbd.held \cup {e.key} ELSE st.kbd.held \ {e.key}
      typed == Symbols(st.kbd.keymap, e.key)[1]
  IN [st EXCEPT !.kbd = [@ EXCEPT !.mods = mods, !.held = held],
                !.wrong = @ \cup {w \in {"symbol"} : e.pressed /\ typed # e.asked}
                            \cup {w \in {"modifiers"} : mods # held \cap ModKeys}]

\* A key event goes through the one xkb state, whose modifiers are sent first.
apply_key_late(st, e) ==
  send_key([st EXCEPT !.down = update_key(@, e.key, e.pressed)], e, Pressed(st.down))

apply_key(st, e) ==
  LET dn == update_key(st.down, e.key, e.pressed)
  IN send_key([st EXCEPT !.down = dn], e, Pressed(dn))

\* apply_event: touch is an error, and what follows it in a batch is not applied.
apply_event(st, e) ==
  IF st.failed THEN st
  ELSE CASE e.kind = "key"     -> apply_key(st, e)
         [] e.kind = "pointer" -> [st EXCEPT !.kbd.unframed = TRUE]
         [] e.kind = "touch"   -> [st EXCEPT !.failed = TRUE]

HasPointer(batch) == \E i \in DOMAIN batch : batch[i].kind = "pointer"

\* commit_and_flush: frame() if the batch has a pointer event.
commit_and_flush(st, needsFrame) ==
  IF st.failed THEN st
  ELSE IF needsFrame THEN [st EXCEPT !.kbd.unframed = FALSE] ELSE st

Applied(start, batch) ==
  LET st[i \in 0..Len(batch)] == IF i = 0 THEN start ELSE apply_event(st[i - 1], batch[i])
  IN  st[Len(batch)]

\* inject_event_batch of a session's events, and inject_event, a batch of one.
\* A frame that includes events of an earlier batch is wrong.
inject_event_batch(board, dn, batch) ==
  LET start == [kbd |-> board, down |-> dn, failed |-> FALSE,
                wrong |-> IF board.unframed THEN {"frame"} ELSE {}]
  IN commit_and_flush(Applied(start, batch), HasPointer(batch))

---------------------------------------------------------------------------
(* Sessions *)

\* Types; and nothing is staged but for a live sender: no event of a connection
\* that ended waits for the frame of the next one of the same session.
TypeOK ==
  /\ pool \in [slots : [Slots -> Unlisted \cup {None}], recency : [DOMAIN PoolCodes -> Slots]]
  /\ keymap \in [Slots -> Unlisted \cup {None}]
  /\ down \in [ModKeys -> Nat]
  /\ eis \in [Sessions -> Phases]
  /\ pending \in [Sessions -> Seq(Events)] /\ \A s \in Sessions : pending[s] # <<>> => eis[s] = "sender"
  /\ kbd \in [Sessions -> Keyboard \cup {None}]
  /\ holding \in [Sessions -> SUBSET ({"eis", "dbus"} \X Keysyms)]
  /\ creates \in 0 .. MaxCreates
  /\ wrong \subseteq Wrongs

\* XkbData::init_xkb and DynamicKeysymPool::new, no session
Init ==
  /\ pool = [slots |-> [slot \in Slots |-> None], recency |-> PoolCodes]
  /\ keymap = [slot \in Slots |-> None]
  /\ down = [m \in ModKeys |-> 0]
  /\ eis = [s \in Sessions |-> "none"]
  /\ pending = [s \in Sessions |-> <<>>]
  /\ kbd = [s \in Sessions |-> None]
  /\ holding = [s \in Sessions |-> {}]
  /\ creates = 0
  /\ wrong = {}

\* create_context: the EIS session, then the devices with the current keymap.
\* That a keyboard cannot be made, so that what its client types goes nowhere,
\* is left out.
create_context(s) ==
  /\ eis[s] = "none"
  /\ creates < MaxCreates
  /\ creates' = creates + 1
  /\ eis' = [eis EXCEPT ![s] = "handshake"]
  /\ kbd' = [kbd EXCEPT ![s] = [keymap |-> keymap, held |-> {}, mods |-> {}, unframed |-> FALSE]]
  /\ UNCHANGED <<pool, keymap, down, pending, holding, wrong>>

\* process_handshake ends in transition_to_active: the client says its direction.
transition_to_active(s) ==
  /\ eis[s] = "handshake"
  /\ \E phase \in {"sender", "receiver"} : eis' = [eis EXCEPT ![s] = phase]
  /\ UNCHANGED <<pool, keymap, down, pending, kbd, holding, creates, wrong>>

\* destroy_context: from the portal, or at the end of process_events for a
\* client that disconnected.  The compositor releases what the keyboard held;
\* the shared xkb state goes on counting it.  The second guard is not the
\* code's: it is how a client behaves where "shared_mods" is no fault (Env).
destroy_context_keeps(s) ==
  /\ eis[s] # "none"
  /\ Pressed(down) \cap kbd[s].held = {} \/ "shared_mods" \in Faults
  /\ eis' = [eis EXCEPT ![s] = "none"]
  /\ kbd' = [kbd EXCEPT ![s] = None]
  /\ holding' = [holding EXCEPT ![s] = {}]
  /\ UNCHANGED <<pool, keymap, down, pending, creates, wrong>>

destroy_context(s) ==
  /\ eis[s] # "none"
  /\ Pressed(down) \cap kbd[s].held = {} \/ "shared_mods" \in Faults
  /\ eis' = [eis EXCEPT ![s] = "none"]
  /\ pending' = [pending EXCEPT ![s] = <<>>]
  /\ kbd' = [kbd EXCEPT ![s] = None]
  /\ holding' = [holding EXCEPT ![s] = {}]
  /\ UNCHANGED <<pool, keymap, down, creates, wrong>>

---------------------------------------------------------------------------
(* Env: what the environment does.  The faults a run leaves out are those  *)
(* the README describes.  "rebind": a splice takes a slot that is held or  *)
(* staged, or comes while a modifier is down.  "shared_mods": a session    *)
(* types while another holds a modifier, or ends holding one.  "shifted":  *)
(* a keysym of a shifted level is asked for.  "compile": a spliced keymap  *)
(* does not compile.  "upload": a keymap does not reach some keyboards.    *)
(* "touch": a touch event is sent.                                         *)

InUse(slot) ==
  \E s \in Sessions : \/ kbd[s] # None /\ slot \in kbd[s].held
                      \/ \E i \in DOMAIN pending[s] :
                            pending[s][i].kind = "key" /\ pending[s][i].key = slot

SpliceIsQuiet(x) ==
  x.keymap # keymap =>
    /\ \A slot \in Slots : x.keymap[slot] # keymap[slot] => ~InUse(slot)
    /\ Pressed(down) = {}
    /\ \A s \in Sessions : \A i \in DOMAIN pending[s] :
         pending[s][i].kind = "key" => pending[s][i].key \notin ModKeys

Quiet(x) == "rebind" \in Faults \/ SpliceIsQuiet(x)

AloneWithModifiers(s) ==
  "shared_mods" \in Faults \/ \A t \in Sessions \ {s} :
     kbd[t] # None => kbd[t].held \cap ModKeys = {}

Compiles == IF "compile" \in Faults THEN BOOLEAN ELSE {TRUE}

\* Every key of the layout that has the keysym has it unshifted.
Plain(k) == \A key \in DOMAIN Layout : k \in Range(Layout[key]) => Layout[key][1] = k
Askable == {k \in Keysyms : Plain(k) \/ "shifted" \in Faults}

\* The characters of a text are not in each other's way.
FitsPool(r) ==
  \A i \in DOMAIN r.events : r.events[i].asked \in Range(Symbols(r.xkb.keymap, r.events[i].key))

\* A client presses what it does not hold and releases what it holds, the way
\* it pressed it: by EIS or by D-Bus.  It does not use one key both ways at once.
Vias == {"eis", "dbus"}

Asks(s, via, k, pressed) ==
  /\ via = "dbus" => \A i \in DOMAIN pending[s] : pending[s][i].kind = "key" => pending[s][i].asked # k
  /\ IF pressed
     THEN Cardinality(holding[s]) < MaxHeld /\ \A v \in Vias : <<v, k>> \notin holding[s]
     ELSE <<via, k>> \in holding[s]
  /\ holding' = [holding EXCEPT ![s] = IF pressed THEN @ \cup {<<via, k>>} ELSE @ \ {<<via, k>>}]

---------------------------------------------------------------------------
(* process_events: the requests of a sender client, one at a time *)

Stage(s, events) ==
  /\ Len(pending[s]) + Len(events) =< MaxStaged
  /\ pending' = [pending EXCEPT ![s] = @ \o events]

\* ei_keyboard.key: a raw keycode
KeyboardKey(s, key, pressed) ==
  /\ eis[s] = "sender"
  /\ Asks(s, "eis", Layout[key][1], pressed)
  /\ Stage(s, <<KeyEvent(key, pressed, Layout[key][1])>>)
  /\ UNCHANGED <<pool, keymap, down, eis, kbd, creates, wrong>>

\* ei_text.keysym: resolved now, injected at the frame
TextKeysym(s, k, pressed, compiles) ==
  LET r == keysym_to_keycode(xkb, k, compiles)
  IN /\ eis[s] = "sender"
     /\ Quiet(r.xkb)
     /\ Asks(s, "eis", k, pressed)
     /\ Stage(s, IF r.key = None THEN <<>> ELSE <<KeyEvent(r.key, pressed, k)>>)
     /\ SetXkb(r.xkb)
     /\ \E missed \in Missed : kbd' = KeymapReceived(kbd, r.xkb, missed)
     /\ UNCHANGED <<eis, creates, wrong>>

\* ei_text.utf8 (inject_text_utf8): every character is resolved and staged,
\* press and release, before any of them is injected.
StageChar(st, k, compiles) ==
  LET r == keysym_to_keycode(st.xkb, k, compiles)
  IN  [xkb |-> r.xkb,
       events |-> IF r.key = None THEN st.events
                  ELSE st.events \o <<KeyEvent(r.key, TRUE, k), KeyEvent(r.key, FALSE, k)>>]

inject_text_utf8(text, compiles) ==
  LET st[i \in 0..Len(text)] == IF i = 0 THEN [xkb |-> xkb, events |-> <<>>]
                                ELSE StageChar(st[i - 1], text[i], compiles)
  IN  st[Len(text)]

TextUtf8(s, text, compiles) ==
  LET r == inject_text_utf8(text, compiles)
  IN /\ eis[s] = "sender"
     /\ Range(text) \subseteq Askable
     /\ {h[2] : h \in holding[s]} \cap Range(text) = {}
     /\ Quiet(r.xkb)
     /\ FitsPool(r) \/ "rebind" \in Faults
     /\ Stage(s, r.events)
     /\ SetXkb(r.xkb)
     /\ \E missed \in Missed : kbd' = KeymapReceived(kbd, r.xkb, missed)
     /\ UNCHANGED <<eis, holding, creates, wrong>>

\* Requests that become pointer or touch events (eis_request_to_input_event).
PointerOrTouch(s, kind) ==
  /\ eis[s] = "sender"
  /\ kind = "touch" => "touch" \in Faults
  /\ Stage(s, <<PlainEvent(kind)>>)
  /\ UNCHANGED <<pool, keymap, down, eis, kbd, holding, creates, wrong>>

\* What a receiver sends is dropped before anything is resolved.

Deliver(s, batch) ==
  LET r == inject_event_batch(kbd[s], down, batch)
  IN /\ AloneWithModifiers(s)
     /\ kbd' = [kbd EXCEPT ![s] = r.kbd]
     /\ down' = r.down
     /\ wrong' = wrong \cup r.wrong

\* ei_device.frame: the staged events, as one batch
Frame(s) ==
  /\ eis[s] = "sender"
  /\ pending[s] # <<>>
  /\ Deliver(s, pending[s])
  /\ pending' = [pending EXCEPT ![s] = <<>>]
  /\ UNCHANGED <<pool, keymap, eis, holding, creates>>

---------------------------------------------------------------------------
(* The D-Bus Notify calls go to the devices at once, past the staged events *)

NotifyKeyboardKeycode(s, key, pressed) ==
  /\ kbd[s] # None
  /\ Asks(s, "dbus", Layout[key][1], pressed)
  /\ Deliver(s, <<KeyEvent(key, pressed, Layout[key][1])>>)
  /\ UNCHANGED <<pool, keymap, eis, pending, creates>>

\* The keysym resolved and the key injected under one hold of the mutex.
NotifyKeyboardKeysym(s, k, pressed, compiles) ==
  LET r == keysym_to_keycode(xkb, k, compiles)
  IN /\ kbd[s] # None
     /\ Quiet(r.xkb)
     /\ AloneWithModifiers(s)
     /\ Asks(s, "dbus", k, pressed)
     /\ pool' = r.xkb.pool /\ keymap' = r.xkb.keymap
     /\ \E missed \in Missed :
          LET boards == KeymapReceived(kbd, r.xkb, missed)
              d == inject_event_batch(boards[s], r.xkb.down, <<KeyEvent(r.key, pressed, k)>>)
          IN IF r.key = None
             THEN down' = r.xkb.down /\ kbd' = boards /\ wrong' = wrong
             ELSE /\ kbd' = [boards EXCEPT ![s] = d.kbd]
                  /\ down' = d.down
                  /\ wrong' = wrong \cup d.wrong
     /\ UNCHANGED <<eis, pending, creates>>

NotifyPointer(s) ==
  /\ kbd[s] # None
  /\ Deliver(s, <<PlainEvent("pointer")>>)
  /\ UNCHANGED <<pool, keymap, eis, pending, holding, creates>>

\* Touch is an error of the device: the call fails before anything is sent.
NotifyTouch(s) ==
  /\ kbd[s] # None
  /\ Deliver(s, <<PlainEvent("touch")>>)
  /\ UNCHANGED <<pool, keymap, eis, pending, holding, creates>>

Next ==
  \E s \in Sessions :
    \/ create_context(s) \/ transition_to_active(s) \/ destroy_context(s)
    \/ Frame(s) \/ NotifyPointer(s) \/ NotifyTouch(s)
    \/ \E kind \in {"pointer", "touch"} : PointerOrTouch(s, kind)
    \/ \E key \in DOMAIN Layout, pressed \in BOOLEAN :
         KeyboardKey(s, key, pressed) \/ NotifyKeyboardKeycode(s, key, pressed)
    \/ \E k \in Askable, pressed \in BOOLEAN, compiles \in Compiles :
         TextKeysym(s, k, pressed, compiles) \/ NotifyKeyboardKeysym(s, k, pressed, compiles)
    \/ \E text \in Texts, compiles \in Compiles : TextUtf8(s, text, compiles)

Spec == Init /\ [][Next]_vars

---------------------------------------------------------------------------
(* What injection promises *)

\* Whatever was resolved, staged and overtaken by other requests on the way,
\* a key press that reaches the compositor types the keysym its client asked
\* for, under the keymap that keyboard has at that moment.
TypedAsAsked == "symbol" \notin wrong

\* The modifiers sent ahead of a key are those of the keys held on that very
\* keyboard: no session's Ctrl reaches another, none is forgotten.
ModifiersOwn == "modifiers" \notin wrong

\* A pointer frame has the events of one batch: no batch that failed leaves
\* events for the next frame to commit.
FramesWhole == "frame" \notin wrong

\* When a client holds nothing and has nothing staged, its keyboard holds
\* nothing: no release went to another key than its press.
NoKeyStuck ==
  \A s \in Sessions : kbd[s] # None /\ holding[s] = {} /\ pending[s] = <<>> => kbd[s].held = {}

\* What is injected is what was asked for, with its own modifiers, in whole
\* frames, and nothing stays down that nobody holds.
InjectedAsAsked == TypedAsAsked /\ ModifiersOwn /\ FramesWhole /\ NoKeyStuck

\* The pool is a pool: every slot is in the order of reuse once, no keysym has
\* two slots.
PoolSound ==
  /\ IsInjective(pool.recency)
  /\ \A a, b \in Slots : pool.slots[a] = pool.slots[b] /\ a # b => pool.slots[a] = None

\* All keyboards have the keymap the next keysym is resolved against, and it
\* carries what the pool, sound, says: no keyboard that was made, busy or idle
\* while another session's keysym was spliced in is left behind.
KeymapsCurrent ==
  /\ PoolSound
  /\ keymap = pool.slots
  /\ \A s \in Sessions : kbd[s] # None => kbd[s].keymap = keymap

\* Neither conversion on the way in loses anything of what was sent: of the
\* wheel's movement or of a text.  No state plays a part, so that TLC need look
\* only where a behaviour begins.
WireExact == creates = 0 => ScrollConserved /\ ChunksWhole

\* What a session's keyboard types, and what its client has staged, without
\* the keys by which it is done.
Typing == [s \in Sessions |-> IF kbd[s] = None THEN None
                             ELSE {Symbols(kbd[s].keymap, key)[1] : key \in kbd[s].held}]
Wanted(e) == IF e.kind = "key" THEN [kind |-> e.kind, asked |-> e.asked, pressed |-> e.pressed] ELSE e
Waiting == [s \in Sessions |-> [i \in DOMAIN pending[s] |-> Wanted(pending[s][i])]]

\* All the sessions on one pool, one keymap and one modifier state type as if
\* each had a keyboard to itself: no splice, frame or end of a session changes
\* what another session has down or will type.
Private == INSTANCE PrivateKeyboards WITH typing <- Typing, waiting <- Waiting

KeyboardsPrivate == Private!Spec
=============================================================================
