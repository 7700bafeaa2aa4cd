------------------------ MODULE InputInjectionProofs ------------------------
(***************************************************************************)
(* Theorems about injected input: the pool of keysyms, the keymap that the *)
(* virtual keyboards share, and the keys that clients stage and hold, for  *)
(* any sessions, layout, pool and texts.                                   *)
(*                                                                         *)
(* The keymap of every keyboard is the pool's as soon as resolve has come  *)
(* to an end, if it compiles and is uploaded: so what is typed depends on  *)
(* the pool alone. Without faults a slot that a held or staged key uses is not *)
(* given to another keysym. A staged event thus means at its frame what    *)
(* was asked when it was staged, and the release of a key finds the        *)
(* keycode of its press. Seen without keycodes, each session types as on a *)
(* keyboard of its own.                                                    *)
(*                                                                         *)
(* The last section is about the two conversions at the EIS wire, which    *)
(* have loops and no state: what has been sent and what is left make up    *)
(* what came, after each turn of the loop.                                 *)
(***************************************************************************)
EXTENDS InputInjection, QueueLemmas

Keymaps == [Slots -> Unlisted \cup {None}]
Sound(km) == \A a, b \in Slots : km[a] = km[b] /\ a # b => km[a] = None
Orders == {r \in [DOMAIN PoolCodes -> Slots] : IsInjective(r) /\ Range(r) = Slots}
Pools == {p \in [slots : Keymaps, recency : Orders] : Sound(p.slots)}
Xkbs == [pool : Pools, keymap : Keymaps, down : [ModKeys -> Nat]]

(* What was at place m goes to the end, and nothing is lost by that.       *)
LEMMA Moved ==
  ASSUME NEW S, NEW n \in Nat, NEW r \in [1..n -> S], NEW q \in [1..n -> S], NEW m \in 1..n,
         IsInjective(r), Range(r) = S,
         \A i \in 1..(n - 1) : q[i] = IF i < m THEN r[i] ELSE r[i + 1],
         q[n] = r[m]
  PROVE  IsInjective(q) /\ Range(q) = S
<1> DEFINE from(i) == IF i = n THEN m ELSE IF i < m THEN i ELSE i + 1
<1>1. \A i \in 1..n : from(i) \in 1..n /\ q[i] = r[from(i)]
  OBVIOUS
<1>2. \A i, j \in 1..n : from(i) = from(j) => i = j
  OBVIOUS
<1>3. ASSUME NEW i \in 1..n, NEW j \in 1..n, q[i] = q[j] PROVE i = j
  <2> HIDE DEF from
  <2>1. r[from(i)] = r[from(j)] /\ from(i) \in DOMAIN r /\ from(j) \in DOMAIN r
    BY <1>1, <1>3
  <2>2. from(i) = from(j)
    BY <2>1 DEF IsInjective
  <2> QED BY <2>2, <1>2
<1>4. ASSUME NEW e \in S PROVE \E i \in 1..n : q[i] = e
  <2>1. PICK k \in 1..n : r[k] = e
    BY DEF Range
  <2>2. CASE k = m
    BY <2>1, <2>2
  <2>3. CASE k < m
    <3>1. k \in 1..(n - 1) /\ q[k] = r[k]
      BY <2>3
    <3> QED BY <3>1, <2>1
  <2>4. CASE k > m
    <3>1. k - 1 \in 1..(n - 1) /\ ~(k - 1 < m) /\ (k - 1) + 1 = k
      BY <2>4
    <3>2. q[k - 1] = r[k] /\ k - 1 \in 1..n
      BY <3>1
    <3> QED BY <3>2, <2>1
  <2> QED BY <2>2, <2>3, <2>4
<1>5. Range(q) \subseteq S
  BY DEF Range
<1>6. S \subseteq Range(q)
  BY <1>4 DEF Range
<1> QED BY <1>3, <1>5, <1>6 DEF IsInjective

(* The order of reuse is a sequence of all slots.                          *)
LEMMA OrderIsSeq ==
  /\ Len(PoolCodes) \in Nat \ {0} /\ DOMAIN PoolCodes = 1..Len(PoolCodes) /\ PoolCodes \in Orders
  /\ \A r \in [DOMAIN PoolCodes -> Slots] :
       r \in Seq(Slots) /\ Len(r) = Len(PoolCodes) /\ DOMAIN r = 1..Len(PoolCodes)
<1>1. Len(PoolCodes) \in Nat \ {0} /\ DOMAIN PoolCodes = 1..Len(PoolCodes)
  BY InputAssumption, LenProperties, EmptySeq
<1>2. PoolCodes \in Orders
  BY InputAssumption, LenProperties DEF Orders, Slots
<1>3. ASSUME NEW r \in [DOMAIN PoolCodes -> Slots]
      PROVE  r \in Seq(Slots) /\ Len(r) = Len(PoolCodes) /\ DOMAIN r = 1..Len(PoolCodes)
  <2>1. r \in [1..Len(PoolCodes) -> Slots]
    BY <1>1
  <2>2. r \in Seq(Slots)
    BY <1>1, <2>1, SeqDef
  <2>3. Len(r) \in Nat /\ DOMAIN r = 1..Len(r)
    BY <2>2, LenProperties
  <2> QED BY <1>1, <2>1, <2>2, <2>3
<1> QED BY <1>1, <1>2, <1>3

(* A slot bound anew goes to the end.                                      *)
LEMMA Recycled ==
  ASSUME NEW r \in Orders
  PROVE  Head(r) \in Slots /\ Append(Tail(r), Head(r)) \in Orders
<1> DEFINE n == Len(PoolCodes)
           q == Append(Tail(r), Head(r))
<1>1. /\ n \in Nat \ {0} /\ DOMAIN PoolCodes = 1..n
      /\ r \in Seq(Slots) /\ Len(r) = n /\ r \in [1..n -> Slots]
  BY OrderIsSeq DEF Orders
<1> HIDE DEF n
<1>2. r # <<>>
  BY <1>1, EmptySeq
<1>3. /\ Head(r) \in Slots /\ Head(r) = r[1] /\ Tail(r) \in Seq(Slots)
      /\ Len(Tail(r)) = n - 1 /\ \A i \in 1..(n - 1) : Tail(r)[i] = r[i + 1]
  BY <1>1, <1>2, Received
<1>4. /\ q \in Seq(Slots) /\ Len(q) = n /\ DOMAIN q = 1..n
      /\ \A i \in 1..(n - 1) : q[i] = Tail(r)[i]
      /\ q[n] = r[1]
  BY <1>1, <1>3, Sent
<1> HIDE DEF q
<1>5. q \in [1..n -> Slots]
  BY <1>4, ElementOfSeq
<1>6. \A i \in 1..(n - 1) : q[i] = IF i < 1 THEN r[i] ELSE r[i + 1]
  BY <1>3, <1>4
<1>7. IsInjective(q) /\ Range(q) = Slots
  <2>1. n \in Nat /\ 1 \in 1..n /\ r \in [1..n -> Slots]
    BY <1>1
  <2>2. IsInjective(r) /\ Range(r) = Slots
    BY DEF Orders
  <2>3. q[n] = r[1]
    BY <1>4
  <2> QED BY <2>1, <2>2, <2>3, <1>5, <1>6, Moved
<1>8. q \in Orders
  BY <1>1, <1>5, <1>7 DEF Orders
<1> QED BY <1>3, <1>8 DEF q

(* So does a slot that is found bound.                                     *)
LEMMA Touched ==
  ASSUME NEW r \in Orders, NEW slot \in Slots
  PROVE  Append(RemoveFirst(r, slot), slot) \in Orders
<1> DEFINE n == Len(PoolCodes)
           I == {i \in 1..Len(r) : r[i] = slot}
           m == Min(I)
           a == SubSeq(r, 1, m - 1)
           b == SubSeq(r, m + 1, Len(r))
           q == Append(a \o b, slot)
<1>1. /\ n \in Nat \ {0} /\ DOMAIN PoolCodes = 1..n
      /\ r \in Seq(Slots) /\ Len(r) = n /\ r \in [1..n -> Slots]
  BY OrderIsSeq DEF Orders
<1> HIDE DEF n
<1>2. I # {} /\ I \subseteq Nat
  BY <1>1 DEF Orders, Range
<1>3. m \in I /\ m \in 1..n /\ r[m] = slot
  <2>1. \E x \in I : \A y \in I : x <= y
    BY <1>2, Least
  <2>2. m \in I
    BY <2>1 DEF Min
  <2> QED BY <2>2, <1>1
<1>4. RemoveFirst(r, slot) = a \o b
  BY <1>2 DEF RemoveFirst, SelectInSeq, RemoveAt
<1> HIDE DEF I, m, q
<1>5. /\ a \in Seq(Slots) /\ Len(a) = m - 1 /\ \A i \in 1..(m - 1) : a[i] = r[i]
  BY <1>1, <1>3, SubSeqProperties
<1>6. /\ b \in Seq(Slots) /\ Len(b) = n - m /\ \A i \in 1..(n - m) : b[i] = r[m + i]
  BY <1>1, <1>3, SubSeqProperties
<1> HIDE DEF a, b
<1>7. /\ a \o b \in Seq(Slots) /\ Len(a \o b) = n - 1
      /\ \A i \in 1..(m - 1) : (a \o b)[i] = r[i]
      /\ \A i \in 1..(n - m) : (a \o b)[(m - 1) + i] = r[m + i]
  <2>1. /\ a \o b \in Seq(Slots) /\ Len(a \o b) = Len(a) + Len(b)
        /\ \A i \in 1..Len(a) : (a \o b)[i] = a[i]
        /\ \A i \in 1..Len(b) : (a \o b)[Len(a) + i] = b[i]
    <3>1. a \in Seq(Slots) /\ b \in Seq(Slots)
      BY <1>5, <1>6
    <3> QED BY <3>1, SentTogether
  <2>2. Len(a) = m - 1 /\ Len(b) = n - m
    BY <1>5, <1>6
  <2>3. Len(a \o b) = n - 1
    BY <2>1, <2>2, <1>1, <1>3
  <2>4. \A i \in 1..(m - 1) : (a \o b)[i] = r[i]
    BY <2>1, <2>2, <1>5
  <2>5. \A i \in 1..(n - m) : (a \o b)[(m - 1) + i] = r[m + i]
    BY <2>1, <2>2, <1>6
  <2> QED BY <2>1, <2>3, <2>4, <2>5
<1>8. \A i \in 1..(n - 1) : (a \o b)[i] = IF i < m THEN r[i] ELSE r[i + 1]
  <2>1. ASSUME NEW i \in 1..(n - 1), ~(i < m) PROVE (a \o b)[i] = r[i + 1]
    <3>1. (i - m) + 1 \in 1..(n - m) /\ (m - 1) + ((i - m) + 1) = i /\ m + ((i - m) + 1) = i + 1
      BY <1>1, <1>3, <2>1
    <3> QED BY <3>1, <1>7
  <2>2. ASSUME NEW i \in 1..(n - 1), i < m PROVE (a \o b)[i] = r[i]
    BY <1>1, <1>3, <1>7, <2>2
  <2> QED BY <2>1, <2>2
<1>9. /\ q \in Seq(Slots) /\ Len(q) = n /\ DOMAIN q = 1..n
      /\ \A i \in 1..(n - 1) : q[i] = (a \o b)[i]
      /\ q[n] = slot
  BY <1>1, <1>7, Sent DEF q
<1>10. q \in [1..n -> Slots]
  BY <1>9, ElementOfSeq
<1>11. IsInjective(q) /\ Range(q) = Slots
  <2>1. IsInjective(r) /\ Range(r) = Slots
    BY DEF Orders
  <2>2. \A i \in 1..(n - 1) : q[i] = IF i < m THEN r[i] ELSE r[i + 1]
    BY <1>8, <1>9
  <2>3. q[n] = r[m]
    BY <1>9, <1>3
  <2>4. n \in Nat /\ m \in 1..n /\ r \in [1..n -> Slots]
    BY <1>1, <1>3
  <2> QED BY <2>1, <2>2, <2>3, <2>4, <1>10, Moved
<1>12. q \in Orders
  BY <1>1, <1>10, <1>11 DEF Orders
<1> QED BY <1>4, <1>12 DEF q

-----------------------------------------------------------------------------
(* Keysyms and keys.                                                       *)

(* The pool binds a keysym that has no slot to the slot bound longest ago. *)
LEMMA Resolves ==
  ASSUME NEW p \in Pools, NEW k \in Unlisted
  PROVE  /\ resolve(p, k).pool \in Pools
         /\ resolve(p, k).slot \in Slots
         /\ resolve(p, k).pool.slots[resolve(p, k).slot] = k
         /\ ~resolve(p, k).changed => resolve(p, k).pool.slots = p.slots /\ p.slots[resolve(p, k).slot] = k
         /\ resolve(p, k).changed =>
              /\ resolve(p, k).pool.slots = [p.slots EXCEPT ![resolve(p, k).slot] = k]
              /\ \A slot \in Slots : p.slots[slot] # k
         /\ resolve(p, k).changed \in BOOLEAN
<1>1. p.slots \in Keymaps /\ p.recency \in Orders /\ Sound(p.slots) /\ k # None
  BY InputAssumption DEF Pools
<1>2. CASE Bound(p, k) # {}
  <2> DEFINE slot == CHOOSE slot \in Bound(p, k) : TRUE
             q == [p EXCEPT !.recency = Append(RemoveFirst(p.recency, slot), slot)]
  <2>1. slot \in Slots /\ p.slots[slot] = k
    BY <1>2 DEF Bound
  <2>2. resolve(p, k) = [slot |-> slot, changed |-> FALSE, pool |-> q]
    BY <1>2 DEF resolve, touch
  <2> HIDE DEF slot
  <2>3. q \in Pools /\ q.slots = p.slots
    BY <2>1, <1>1, Touched DEF Pools
  <2> HIDE DEF q
  <2> QED BY <2>1, <2>2, <2>3
<1>3. CASE Bound(p, k) = {}
  <2> DEFINE slot == Head(p.recency)
             order == Append(Tail(p.recency), Head(p.recency))
             km == [p.slots EXCEPT ![slot] = k]
             q == [slots |-> km, recency |-> order]
  <2>1. slot \in Slots /\ order \in Orders
    BY <1>1, Recycled
  <2>2. resolve(p, k) = [slot |-> slot, changed |-> TRUE, pool |-> q]
    BY <1>3 DEF resolve
  <2>3. \A other \in Slots : p.slots[other] # k
    BY <1>3 DEF Bound
  <2> HIDE DEF slot, order
  <2>4. km \in Keymaps /\ km[slot] = k
    BY <1>1, <2>1 DEF Keymaps
  <2>5. Sound(km)
    BY <1>1, <2>1, <2>3 DEF Sound, Keymaps
  <2> HIDE DEF km
  <2>6. q \in Pools
    BY <2>1, <2>4, <2>5 DEF Pools
  <2> QED BY <2>1, <2>2, <2>3, <2>4, <2>6 DEF km
<1> QED BY <1>2, <1>3

(* What became of the XKB data x when k got its key.                       *)
Kept(x, y, k, key) == y = x /\ key \in static_keysym_to_keycode(x.keymap, k)
Spliced(x, y, k, key) ==
  /\ k \in Unlisted /\ key \in Slots
  /\ y.keymap = [x.keymap EXCEPT ![key] = k] /\ y.down = [m \in ModKeys |-> 0]
  /\ \A slot \in Slots : x.keymap[slot] # k

(* A keysym gets a key that is there, or one of the pool, or none.         *)
LEMMA KeysymTypes ==
  ASSUME NEW x \in Xkbs, NEW k \in Keysyms, NEW compiles \in BOOLEAN
  PROVE  /\ keysym_to_keycode(x, k, compiles).xkb \in Xkbs
         /\ keysym_to_keycode(x, k, compiles).key \in Keys \cup {None}
         /\ compiles /\ x.keymap = x.pool.slots =>
              LET y == keysym_to_keycode(x, k, compiles)
              IN  /\ y.xkb.keymap = y.xkb.pool.slots /\ y.key \in Keys
                  /\ Kept(x, y.xkb, k, y.key) \/ Spliced(x, y.xkb, k, y.key)
<1> DEFINE known == static_keysym_to_keycode(x.keymap, k)
           r == resolve(x.pool, k)
<1>1. x.pool \in Pools /\ x.keymap \in Keymaps /\ x.down \in [ModKeys -> Nat]
  BY DEF Xkbs
<1>2. CASE known # {}
  <2> DEFINE key == CHOOSE key \in known : TRUE
  <2>1. key \in known /\ key \in Keys
    BY <1>2 DEF static_keysym_to_keycode
  <2>2. keysym_to_keycode(x, k, compiles) = [key |-> key, xkb |-> x]
    BY <1>2 DEF keysym_to_keycode
  <2> HIDE DEF key
  <2> QED BY <2>1, <2>2 DEF Kept
<1>3. CASE known = {}
  <2>1. k \in Unlisted
    <3>1. SUFFICES ASSUME NEW key \in DOMAIN Layout, k \in Range(Layout[key]) PROVE FALSE
      BY DEF Keysyms
    <3>2. key \notin Slots /\ key \in Keys
      BY InputAssumption DEF Keys
    <3>3. key \in known
      BY <3>1, <3>2 DEF static_keysym_to_keycode, Symbols
    <3> QED BY <3>3, <1>3
  <2>2. /\ r.pool \in Pools /\ r.slot \in Slots /\ r.pool.slots[r.slot] = k
        /\ ~r.changed => r.pool.slots = x.pool.slots /\ x.pool.slots[r.slot] = k
        /\ r.changed => /\ r.pool.slots = [x.pool.slots EXCEPT ![r.slot] = k]
                        /\ \A slot \in Slots : x.pool.slots[slot] # k
        /\ r.changed \in BOOLEAN
    BY <1>1, <2>1, Resolves
  <2> HIDE DEF r
  <2>3. r.slot \in Keys /\ r.pool.slots \in Keymaps
    BY <2>2 DEF Keys, Pools
  <2>4. CASE ~r.changed
    <3> DEFINE y == [x EXCEPT !.pool = r.pool]
    <3>1. keysym_to_keycode(x, k, compiles) = [key |-> r.slot, xkb |-> y]
      BY <1>3, <2>4 DEF keysym_to_keycode, r
    <3>2. y \in Xkbs
      BY <2>2 DEF Xkbs
    <3>3. x.keymap # x.pool.slots
      <4>1. SUFFICES ASSUME x.keymap[r.slot] = k PROVE FALSE
        BY <2>2, <2>4
      <4>2. r.slot \in known
        BY <2>2, <2>3, <4>1 DEF static_keysym_to_keycode, Symbols, Range
      <4> QED BY <4>2, <1>3
    <3> HIDE DEF y, known
    <3>4. keysym_to_keycode(x, k, compiles).xkb = y /\ keysym_to_keycode(x, k, compiles).key = r.slot
      BY <3>1
    <3> QED BY <3>2, <3>3, <3>4, <2>3
  <2>5. CASE r.changed /\ ~compiles
    <3> DEFINE y == [x EXCEPT !.pool = r.pool]
    <3>1. keysym_to_keycode(x, k, compiles) = [key |-> None, xkb |-> y]
      BY <1>3, <2>5 DEF keysym_to_keycode, r
    <3>2. y \in Xkbs
      BY <2>2 DEF Xkbs
    <3> HIDE DEF y, known
    <3>3. keysym_to_keycode(x, k, compiles).xkb = y /\ keysym_to_keycode(x, k, compiles).key = None
      BY <3>1
    <3> QED BY <3>2, <3>3, <2>5
  <2>6. CASE r.changed /\ compiles
    <3> DEFINE y == [pool |-> r.pool, keymap |-> r.pool.slots, down |-> [m \in ModKeys |-> 0]]
    <3>1. keysym_to_keycode(x, k, compiles) = [key |-> r.slot, xkb |-> y]
      BY <1>3, <2>6 DEF keysym_to_keycode, r
    <3>2. y \in Xkbs /\ y.keymap = y.pool.slots /\ y.keymap = r.pool.slots /\ y.down = [m \in ModKeys |-> 0]
      BY <2>2, <2>3 DEF Xkbs
    <3> HIDE DEF y, known
    <3>3. x.keymap = x.pool.slots => Spliced(x, y, k, r.slot)
      BY <3>2, <2>1, <2>2, <2>6 DEF Spliced
    <3>4. keysym_to_keycode(x, k, compiles).xkb = y /\ keysym_to_keycode(x, k, compiles).key = r.slot
      BY <3>1
    <3> QED BY <3>2, <3>3, <3>4, <2>3
  <2> QED BY <2>2, <2>4, <2>5, <2>6
<1> QED BY <1>2, <1>3

-----------------------------------------------------------------------------
(* Batches.                                                                *)

States == [kbd : Keyboard, down : [ModKeys -> Nat], failed : BOOLEAN, wrong : SUBSET Wrongs]

(* What a request changes of a device, and of the state of a batch.        *)
LEMMA HeldChanged ==
  ASSUME NEW A, NEW B, NEW C, NEW D, NEW b \in [keymap : A, held : B, mods : C, unframed : D], NEW held
  PROVE  [b EXCEPT !.held = held]
           = [keymap |-> b.keymap, held |-> held, mods |-> b.mods, unframed |-> b.unframed]
OBVIOUS

AfterKey(b, held, mods) == [b EXCEPT !.mods = mods, !.held = held]

LEMMA BoardKey ==
  ASSUME NEW b \in Keyboard, NEW held, NEW mods
  PROVE  AfterKey(b, held, mods)
           = [keymap |-> b.keymap, held |-> held, mods |-> mods, unframed |-> b.unframed]
<1> DEFINE c == [b EXCEPT !.mods = mods]
<1>1. c \in [keymap : Keymaps, held : SUBSET Keys, mods : {mods}, unframed : BOOLEAN]
  BY DEF Keyboard, Keymaps
<1>2. c.keymap = b.keymap /\ c.mods = mods /\ c.unframed = b.unframed
  BY DEF Keyboard
<1>3. AfterKey(b, held, mods) = [c EXCEPT !.held = held]
  BY DEF AfterKey
<1> HIDE DEF c
<1>4. [c EXCEPT !.held = held] = [keymap |-> c.keymap, held |-> held, mods |-> c.mods, unframed |-> c.unframed]
  BY <1>1, HeldChanged
<1> QED BY <1>2, <1>3, <1>4

LEMMA BoardFrame ==
  ASSUME NEW b \in Keyboard, NEW u
  PROVE  [b EXCEPT !.unframed = u]
           = [keymap |-> b.keymap, held |-> b.held, mods |-> b.mods, unframed |-> u]
BY DEF Keyboard

LEMMA StateChanged ==
  ASSUME NEW st \in States, NEW b, NEW wr
  PROVE  [st EXCEPT !.kbd = b, !.wrong = wr]
           = [kbd |-> b, down |-> st.down, failed |-> st.failed, wrong |-> wr]
<1> DEFINE c == [st EXCEPT !.kbd = b]
<1>1. c = [kbd |-> b, down |-> st.down, failed |-> st.failed, wrong |-> st.wrong]
  BY DEF States
<1>2. c \in [kbd : {b}, down : [ModKeys -> Nat], failed : BOOLEAN, wrong : SUBSET Wrongs]
  BY DEF States
<1>3. [st EXCEPT !.kbd = b, !.wrong = wr] = [c EXCEPT !.wrong = wr]
  OBVIOUS
<1>4. c.kbd = b /\ c.down = st.down /\ c.failed = st.failed
  BY <1>1
<1> HIDE DEF c
<1>5. [c EXCEPT !.wrong = wr] = [kbd |-> c.kbd, down |-> c.down, failed |-> c.failed, wrong |-> wr]
  BY <1>2
<1> QED BY <1>3, <1>4, <1>5

LEMMA StateFrame ==
  ASSUME NEW st \in States, NEW u
  PROVE  [st EXCEPT !.kbd.unframed = u]
           = [kbd |-> [keymap |-> st.kbd.keymap, held |-> st.kbd.held, mods |-> st.kbd.mods, unframed |-> u],
              down |-> st.down, failed |-> st.failed, wrong |-> st.wrong]
<1>1. st.kbd \in Keyboard
  BY DEF States
<1>2. [st EXCEPT !.kbd.unframed = u]
           = [kbd |-> [st.kbd EXCEPT !.unframed = u],
              down |-> st.down, failed |-> st.failed, wrong |-> st.wrong]
  BY DEF States
<1> QED BY <1>1, <1>2, BoardFrame

(* A key event, a pointer event and a touch event, on a device.            *)
LEMMA ApplyKey ==
  ASSUME NEW st \in States, NEW e \in Events, e.kind = "key", ~st.failed
  PROVE  LET dn == update_key(st.down, e.key, e.pressed)
             held == IF e.pressed THEN st.kbd.held \cup {e.key} ELSE st.kbd.held \ {e.key}
             typed == Symbols(st.kbd.keymap, e.key)[1]
         IN  /\ dn \in [ModKeys -> Nat]
             /\ apply_event(st, e) =
                  [kbd |-> [keymap |-> st.kbd.keymap, held |-> held, mods |-> Pressed(dn),
                            unframed |-> st.kbd.unframed],
                   down |-> dn, failed |-> st.failed,
                   wrong |-> st.wrong \cup {w \in {"symbol"} : e.pressed /\ typed # e.asked}
                               \cup {w \in {"modifiers"} : Pressed(dn) # held \cap ModKeys}]
<1> DEFINE dn == update_key(st.down, e.key, e.pressed)
           held == IF e.pressed THEN st.kbd.held \cup {e.key} ELSE st.kbd.held \ {e.key}
           typed == Symbols(st.kbd.keymap, e.key)[1]
           bad == {w \in {"symbol"} : e.pressed /\ typed # e.asked}
           worse == {w \in {"modifiers"} : Pressed(dn) # held \cap ModKeys}
<1>1. e.key \in Keys /\ e.pressed \in BOOLEAN /\ e.asked \in Keysyms
  BY DEF Events
<1>2. st.down \in [ModKeys -> Nat] /\ st.kbd \in Keyboard /\ st.wrong \subseteq Wrongs
  BY DEF States
<1>3. dn \in [ModKeys -> Nat]
  BY <1>1, <1>2 DEF update_key
<1> HIDE DEF dn, held, typed
<1>4. apply_event(st, e) = send_key([st EXCEPT !.down = dn], e, Pressed(dn))
  BY DEF apply_event, apply_key, dn
<1>5. [st EXCEPT !.down = dn] = [kbd |-> st.kbd, down |-> dn, failed |-> st.failed, wrong |-> st.wrong]
  BY DEF States
<1> DEFINE su == [st EXCEPT !.down = dn]
           wr == st.wrong \cup bad \cup worse
<1>6. send_key(su, e, Pressed(dn)) =
        [kbd |-> [st.kbd EXCEPT !.mods = Pressed(dn), !.held = held], down |-> dn, failed |-> st.failed, wrong |-> wr]
  <2>1. su \in States /\ su.kbd = st.kbd /\ su.down = dn /\ su.failed = st.failed /\ su.wrong = st.wrong
    BY <1>3, <1>5 DEF States
  <2> HIDE DEF su
  <2>2. send_key(su, e, Pressed(dn)) =
          [su EXCEPT !.kbd = [su.kbd EXCEPT !.mods = Pressed(dn), !.held = held], !.wrong = wr]
    BY <2>1 DEF send_key, held, typed
  <2> HIDE DEF wr
  <2>3. [su EXCEPT !.kbd = [su.kbd EXCEPT !.mods = Pressed(dn), !.held = held], !.wrong = wr] =
        [kbd |-> [su.kbd EXCEPT !.mods = Pressed(dn), !.held = held], down |-> su.down, failed |-> su.failed, wrong |-> wr]
    BY <2>1, StateChanged
  <2> QED BY <2>1, <2>2, <2>3
<1>7. [st.kbd EXCEPT !.mods = Pressed(dn), !.held = held]
        = [keymap |-> st.kbd.keymap, held |-> held, mods |-> Pressed(dn), unframed |-> st.kbd.unframed]
  <2>1. st.kbd \in Keyboard
    BY <1>2
  <2> HIDE DEF su, wr, bad, worse
  <2>2. AfterKey(st.kbd, held, Pressed(dn))
          = [keymap |-> st.kbd.keymap, held |-> held, mods |-> Pressed(dn), unframed |-> st.kbd.unframed]
    BY <2>1, BoardKey
  <2> QED BY <2>2 DEF AfterKey
<1> QED BY <1>3, <1>4, <1>6, <1>7 DEF dn, held, typed, su, wr

LEMMA ApplyOther ==
  ASSUME NEW st \in States, NEW e \in Events, e.kind # "key" \/ st.failed
  PROVE  apply_event(st, e) =
           IF st.failed THEN st
           ELSE IF e.kind = "pointer"
                THEN [kbd |-> [keymap |-> st.kbd.keymap, held |-> st.kbd.held, mods |-> st.kbd.mods,
                               unframed |-> TRUE],
                      down |-> st.down, failed |-> st.failed, wrong |-> st.wrong]
                ELSE [kbd |-> st.kbd, down |-> st.down, failed |-> TRUE, wrong |-> st.wrong]
<1>1. e.kind \in {"key", "pointer", "touch"} /\ st.kbd \in Keyboard
  BY DEF Events, States
<1>2. CASE st.failed
  BY <1>2 DEF apply_event
<1>3. CASE ~st.failed /\ e.kind = "pointer"
  <2>1. apply_event(st, e) = [st EXCEPT !.kbd.unframed = TRUE]
    BY <1>3 DEF apply_event
  <2> QED BY <2>1, StateFrame, <1>3
<1>4. CASE ~st.failed /\ e.kind = "touch"
  <2>1. apply_event(st, e) = [st EXCEPT !.failed = TRUE]
    BY <1>4 DEF apply_event
  <2> QED BY <2>1, <1>4 DEF States
<1> QED BY <1>1, <1>2, <1>3, <1>4

(* An event leaves the device one, with its keymap.                        *)
LEMMA ApplyType ==
  ASSUME NEW st \in States, NEW e \in Events
  PROVE  apply_event(st, e) \in States /\ apply_event(st, e).kbd.keymap = st.kbd.keymap
<1>1. /\ st.kbd \in Keyboard /\ st.down \in [ModKeys -> Nat] /\ st.wrong \subseteq Wrongs
      /\ st.failed \in BOOLEAN
  BY DEF States
<1>2. CASE e.kind = "key" /\ ~st.failed
  <2> DEFINE dn == update_key(st.down, e.key, e.pressed)
             held == IF e.pressed THEN st.kbd.held \cup {e.key} ELSE st.kbd.held \ {e.key}
             typed == Symbols(st.kbd.keymap, e.key)[1]
             wr == st.wrong \cup {w \in {"symbol"} : e.pressed /\ typed # e.asked}
                     \cup {w \in {"modifiers"} : Pressed(dn) # held \cap ModKeys}
             b == [keymap |-> st.kbd.keymap, held |-> held, mods |-> Pressed(dn), unframed |-> st.kbd.unframed]
  <2>1. /\ dn \in [ModKeys -> Nat]
        /\ apply_event(st, e) = [kbd |-> b, down |-> dn, failed |-> st.failed, wrong |-> wr]
    BY <1>2, ApplyKey
  <2>2. e.key \in Keys
    BY <1>2 DEF Events
  <2>3. held \in SUBSET Keys /\ Pressed(dn) \in SUBSET ModKeys
    BY <2>2, <1>1 DEF Keyboard, Pressed
  <2>4. wr \in SUBSET Wrongs
    BY <1>1 DEF Wrongs
  <2> HIDE DEF dn, held, typed, wr
  <2>5. b \in Keyboard /\ b.keymap = st.kbd.keymap
    BY <1>1, <2>3 DEF Keyboard
  <2> HIDE DEF b
  <2> QED BY <2>1, <2>4, <2>5, <1>1 DEF States
<1>3. CASE e.kind # "key" \/ st.failed
  <2> DEFINE b == [keymap |-> st.kbd.keymap, held |-> st.kbd.held, mods |-> st.kbd.mods, unframed |-> TRUE]
  <2>1. b \in Keyboard /\ b.keymap = st.kbd.keymap
    BY <1>1 DEF Keyboard
  <2>2. \/ apply_event(st, e) = st
        \/ apply_event(st, e) = [kbd |-> b, down |-> st.down, failed |-> st.failed, wrong |-> st.wrong]
        \/ apply_event(st, e) = [kbd |-> st.kbd, down |-> st.down, failed |-> TRUE, wrong |-> st.wrong]
    BY <1>3, ApplyOther
  <2> HIDE DEF b
  <2>3. CASE apply_event(st, e) = st
    BY <2>3
  <2>4. CASE apply_event(st, e) = [kbd |-> b, down |-> st.down, failed |-> st.failed, wrong |-> st.wrong]
    BY <2>1, <2>4, <1>1 DEF States
  <2>5. CASE apply_event(st, e) = [kbd |-> st.kbd, down |-> st.down, failed |-> TRUE, wrong |-> st.wrong]
    BY <2>5, <1>1 DEF States
  <2> QED BY <2>2, <2>3, <2>4, <2>5
<1> QED BY <1>2, <1>3

(* The states a batch goes through.                                        *)
Through(f, start, batch) ==
  f[0] = start /\ \A i \in 1..Len(batch) : f[i] = apply_event(f[i - 1], batch[i])

LEMMA AppliedSteps ==
  ASSUME NEW start \in States, NEW batch \in Seq(Events)
  PROVE  \E f \in [0..Len(batch) -> States] :
           Through(f, start, batch) /\ Applied(start, batch) = f[Len(batch)]
<1> DEFINE n == Len(batch)
           step == [i \in 1..n |-> [v \in States |-> apply_event(v, batch[i])]]
           K == CHOOSE f : f = [i \in 0..n |-> IF i = 0 THEN start ELSE apply_event(f[i - 1], batch[i])]
<1>0. n \in Nat /\ \A i \in 1..n : batch[i] \in Events
  BY LenProperties
<1>1. step \in [1..n -> [States -> States]]
  <2>1. ASSUME NEW i \in 1..n, NEW v \in States PROVE apply_event(v, batch[i]) \in States
    <3>1. batch[i] \in Events
      BY <1>0
    <3> QED BY <3>1, ApplyType
  <2> QED BY <2>1
<1>2. PICK f \in Chains(States, start, n, step) : TRUE
  <2> HIDE DEF step, K, n
  <2>1. Chains(States, start, n, step) # {}
    BY <1>0, <1>1, StepByStep
  <2> QED BY <2>1
<1>3. f \in [0..n -> States] /\ f[0] = start /\ \A i \in 1..n : f[i] = step[i][f[i - 1]]
  BY <1>2 DEF Chains
<1>4. Through(f, start, batch)
  <2>1. ASSUME NEW i \in 1..n PROVE f[i] = apply_event(f[i - 1], batch[i])
    <3>1. i - 1 \in 0..n
      BY <1>0
    <3> QED BY <3>1, <1>3
  <2> QED BY <2>1, <1>3 DEF Through
<1> HIDE DEF step
<1>5. f = [i \in 0..n |-> IF i = 0 THEN start ELSE apply_event(f[i - 1], batch[i])]
  <2>1. \A i \in 0..n : i = 0 \/ i \in 1..n
    BY <1>0
  <2> QED BY <2>1, <1>3, <1>4 DEF Through
<1>6. K = [i \in 0..n |-> IF i = 0 THEN start ELSE apply_event(K[i - 1], batch[i])]
  BY <1>5, Zenon
<1>7. Applied(start, batch) = K[n]
  BY Zenon DEF Applied
<1> HIDE DEF K, n
<1>8. K[0] = f[0] /\ \A i \in 1..n : K[i - 1] = f[i - 1] => K[i] = f[i]
  <2>1. K[0] = f[0]
    BY <1>0, <1>3, <1>6
  <2>2. ASSUME NEW i \in 1..n, K[i - 1] = f[i - 1] PROVE K[i] = f[i]
    <3>1. i \in 0..n /\ i # 0
      BY <1>0
    <3>2. K[i] = apply_event(K[i - 1], batch[i])
      BY <1>6, <3>1
    <3> QED BY <3>2, <2>2, <1>4 DEF Through, n
  <2> QED BY <2>1, <2>2
<1>9. K[n] = f[n]
  BY <1>0, <1>8, ChainsAgree
<1> QED BY <1>3, <1>4, <1>7, <1>9 DEF n

(* A batch leaves the device one, with its keymap.                         *)
LEMMA BatchType ==
  ASSUME NEW board \in Keyboard, NEW dn \in [ModKeys -> Nat], NEW batch \in Seq(Events)
  PROVE  /\ inject_event_batch(board, dn, batch) \in States
         /\ inject_event_batch(board, dn, batch).kbd.keymap = board.keymap
<1> DEFINE start == [kbd |-> board, down |-> dn, failed |-> FALSE,
                     wrong |-> IF board.unframed THEN {"frame"} ELSE {}]
           n == Len(batch)
           last == Applied(start, batch)
<1>1. start \in States /\ start.kbd.keymap = board.keymap
  BY DEF States, Wrongs
<1>2. inject_event_batch(board, dn, batch) = commit_and_flush(last, HasPointer(batch))
  BY DEF inject_event_batch
<1> HIDE DEF start
<1>3. PICK f \in [0..n -> States] : Through(f, start, batch) /\ last = f[n]
  BY <1>1, AppliedSteps
<1>4. n \in Nat /\ \A i \in 1..n : batch[i] \in Events
  BY LenProperties
<1> HIDE DEF n, last
<1>5. last \in States /\ last.kbd.keymap = board.keymap
  <2> DEFINE T == {i \in Nat : i <= n => f[i].kbd.keymap = board.keymap}
  <2>1. 0 \in T
    BY <1>1, <1>3 DEF Through
  <2>2. ASSUME NEW i \in Nat, i \in T PROVE i + 1 \in T
    <3>1. SUFFICES ASSUME i + 1 <= n PROVE f[i + 1].kbd.keymap = board.keymap
      BY <2>2
    <3>2. i \in 0..n /\ i + 1 \in 1..n /\ (i + 1) - 1 = i
      BY <3>1, <1>4
    <3>3. f[i] \in States /\ batch[i + 1] \in Events /\ f[i].kbd.keymap = board.keymap
      BY <3>2, <1>3, <1>4, <2>2
    <3>4. f[i + 1] = apply_event(f[i], batch[i + 1])
      BY <3>2, <1>3 DEF Through, n
    <3> QED BY <3>3, <3>4, ApplyType
  <2> HIDE DEF T
  <2>3. n \in T
    BY <1>4, <2>1, <2>2, Induct
  <2>4. n \in 0..n
    BY <1>4
  <2> QED BY <2>3, <2>4, <1>3, <1>4 DEF T
<1>6. commit_and_flush(last, HasPointer(batch)) \in States
      /\ commit_and_flush(last, HasPointer(batch)).kbd.keymap = last.kbd.keymap
  <2>1. CASE last.failed \/ ~HasPointer(batch)
    BY <2>1, <1>5 DEF commit_and_flush
  <2>2. CASE ~last.failed /\ HasPointer(batch)
    <3> DEFINE b == [last.kbd EXCEPT !.unframed = FALSE]
    <3>1. last.kbd \in Keyboard
      BY <1>5 DEF States
    <3>2. b \in Keyboard /\ b.keymap = last.kbd.keymap
      BY <3>1 DEF Keyboard
    <3>3. commit_and_flush(last, HasPointer(batch)) =
            [kbd |-> b, down |-> last.down, failed |-> last.failed, wrong |-> last.wrong]
      BY <2>2, <1>5 DEF commit_and_flush, States
    <3> HIDE DEF b
    <3> QED BY <3>2, <3>3, <1>5 DEF States
  <2> QED BY <2>1, <2>2
<1> QED BY <1>2, <1>5, <1>6

-----------------------------------------------------------------------------
(* Types.                                                                  *)

TInv ==
  /\ TypeOK /\ pool \in Pools
  /\ \A s \in Sessions : /\ eis[s] = "none" <=> kbd[s] = None
                         /\ eis[s] = "none" => holding[s] = {}

LEMMA TypesFirst ==
  ASSUME Init
  PROVE  TInv
<1>1. pool = [slots |-> [slot \in Slots |-> None], recency |-> PoolCodes]
  BY DEF Init
<1>2. [slot \in Slots |-> None] \in Keymaps /\ Sound([slot \in Slots |-> None])
  BY DEF Keymaps, Sound
<1>3. PoolCodes \in Orders
  BY OrderIsSeq
<1>4. pool \in Pools
  BY <1>1, <1>2, <1>3 DEF Pools
<1>5. pool \in [slots : [Slots -> Unlisted \cup {None}], recency : [DOMAIN PoolCodes -> Slots]]
  BY <1>4 DEF Pools, Keymaps, Orders
<1>6. /\ keymap \in [Slots -> Unlisted \cup {None}] /\ down \in [ModKeys -> Nat]
      /\ eis \in [Sessions -> Phases] /\ kbd \in [Sessions -> Keyboard \cup {None}]
      /\ holding \in [Sessions -> SUBSET ({"eis", "dbus"} \X Keysyms)]
      /\ wrong \subseteq Wrongs
  BY DEF Init, Phases
<1>7. creates \in 0..MaxCreates
  BY InputAssumption DEF Init
<1>8. pending \in [Sessions -> Seq(Events)] /\ \A s \in Sessions : pending[s] = <<>>
  BY EmptySeq DEF Init
<1>9. \A s \in Sessions : eis[s] = "none" /\ kbd[s] = None /\ holding[s] = {}
  BY DEF Init
<1> QED BY <1>4, <1>5, <1>6, <1>7, <1>8, <1>9 DEF TInv, TypeOK

(* The XKB data are of their type.                                         *)
LEMMA XkbTypes ==
  ASSUME TInv
  PROVE  xkb \in Xkbs
BY DEF TInv, TypeOK, xkb, Xkbs, Keymaps

(* A new keymap reaches every keyboard there is.                           *)
LEMMA UploadTypes ==
  ASSUME NEW boards \in [Sessions -> Keyboard \cup {None}], NEW x \in Xkbs
  PROVE  /\ Uploaded(boards, x) \in [Sessions -> Keyboard \cup {None}]
         /\ \A s \in Sessions : /\ Uploaded(boards, x)[s] = None <=> boards[s] = None
                                /\ boards[s] # None =>
                                     /\ boards[s] \in Keyboard /\ Uploaded(boards, x)[s] \in Keyboard
                                     /\ Uploaded(boards, x)[s].held = boards[s].held
                                     /\ Uploaded(boards, x)[s].unframed = boards[s].unframed
                                     /\ Uploaded(boards, x)[s].keymap =
                                          IF x.keymap = keymap THEN boards[s].keymap ELSE x.keymap
<1>1. None \notin Keyboard /\ x.keymap \in [Slots -> Unlisted \cup {None}]
  BY InputAssumption DEF Xkbs, Keymaps
<1>2. CASE x.keymap = keymap
  BY <1>2, <1>1 DEF Uploaded
<1>3. CASE x.keymap # keymap
  <2> DEFINE U == [s \in Sessions |-> IF boards[s] = None THEN None
                                      ELSE [boards[s] EXCEPT !.keymap = x.keymap]]
  <2>1. Uploaded(boards, x) = U
    BY <1>3 DEF Uploaded
  <2>2. ASSUME NEW s \in Sessions, boards[s] # None
        PROVE  /\ boards[s] \in Keyboard /\ [boards[s] EXCEPT !.keymap = x.keymap] \in Keyboard
               /\ [boards[s] EXCEPT !.keymap = x.keymap].held = boards[s].held
               /\ [boards[s] EXCEPT !.keymap = x.keymap].unframed = boards[s].unframed
               /\ [boards[s] EXCEPT !.keymap = x.keymap].keymap = x.keymap
    <3>1. boards[s] \in Keyboard
      BY <2>2
    <3> QED BY <3>1, <1>1 DEF Keyboard
  <2>3. ASSUME NEW s \in Sessions
        PROVE  U[s] = IF boards[s] = None THEN None ELSE [boards[s] EXCEPT !.keymap = x.keymap]
    OBVIOUS
  <2>4. U \in [Sessions -> Keyboard \cup {None}]
    BY <2>2
  <2> HIDE DEF U
  <2>5. ASSUME NEW s \in Sessions
        PROVE  /\ Uploaded(boards, x)[s] = None <=> boards[s] = None
               /\ boards[s] # None =>
                    /\ boards[s] \in Keyboard /\ Uploaded(boards, x)[s] \in Keyboard
                    /\ Uploaded(boards, x)[s].held = boards[s].held
                    /\ Uploaded(boards, x)[s].unframed = boards[s].unframed
                    /\ Uploaded(boards, x)[s].keymap = x.keymap
    <3>1. CASE boards[s] = None
      BY <3>1, <2>1, <2>3
    <3>2. CASE boards[s] # None
      <4> DEFINE b == [boards[s] EXCEPT !.keymap = x.keymap]
      <4>1. Uploaded(boards, x)[s] = b
        BY <3>2, <2>1, <2>3
      <4>2. boards[s] \in Keyboard /\ b \in Keyboard /\ b.held = boards[s].held
            /\ b.unframed = boards[s].unframed /\ b.keymap = x.keymap
        BY <3>2, <2>2
      <4> HIDE DEF b
      <4> QED BY <4>1, <4>2, <3>2, <1>1
    <3> QED BY <3>1, <3>2
  <2> QED BY <2>1, <2>4, <2>5, <1>3
<1> QED BY <1>2, <1>3

(* Where some uploads fail there are the same keyboards with the same keys *)
(* held.                                                                   *)
LEMMA ReceivedTypes ==
  ASSUME NEW boards \in [Sessions -> Keyboard \cup {None}], NEW x \in Xkbs, NEW missed
  PROVE  /\ KeymapReceived(boards, x, missed) \in [Sessions -> Keyboard \cup {None}]
         /\ \A s \in Sessions : KeymapReceived(boards, x, missed)[s] = None <=> boards[s] = None
<1> DEFINE U == Uploaded(boards, x)
<1>1. U \in [Sessions -> Keyboard \cup {None}] /\ \A s \in Sessions : U[s] = None <=> boards[s] = None
  BY UploadTypes
<1>2. KeymapReceived(boards, x, missed) = [s \in Sessions |-> IF s \in missed THEN boards[s] ELSE U[s]]
  BY DEF KeymapReceived
<1> HIDE DEF U
<1> QED BY <1>1, <1>2

(* Where none fails, all have the new keymap.                              *)
LEMMA ReceivedByAll ==
  ASSUME TInv, "upload" \notin Faults, NEW x \in Xkbs, NEW missed \in Missed
  PROVE  KeymapReceived(kbd, x, missed) = Uploaded(kbd, x)
<1> DEFINE U == Uploaded(kbd, x)
<1>1. kbd \in [Sessions -> Keyboard \cup {None}]
  BY DEF TInv, TypeOK
<1>2. U \in [Sessions -> Keyboard \cup {None}]
  BY <1>1, UploadTypes
<1>3. missed = {}
  BY DEF Missed
<1>4. KeymapReceived(kbd, x, missed) = [s \in Sessions |-> IF s \in missed THEN kbd[s] ELSE U[s]]
  BY DEF KeymapReceived
<1> HIDE DEF U
<1>5. KeymapReceived(kbd, x, missed) = U
  BY <1>2, <1>3, <1>4
<1> QED BY <1>5 DEF U

(* A batch for the keyboard of s leaves the others what they are.          *)
LEMMA DeliverTypes ==
  ASSUME TInv, NEW s \in Sessions, kbd[s] # None, NEW batch \in Seq(Events), Deliver(s, batch)
  PROVE  /\ kbd' \in [Sessions -> Keyboard \cup {None}] /\ down' \in [ModKeys -> Nat] /\ wrong' \subseteq Wrongs
         /\ \A t \in Sessions : kbd'[t] = None <=> kbd[t] = None
<1> DEFINE r == inject_event_batch(kbd[s], down, batch)
<1>1. kbd[s] \in Keyboard /\ down \in [ModKeys -> Nat] /\ wrong \subseteq Wrongs
  BY DEF TInv, TypeOK
<1>2. r \in States
  BY <1>1, BatchType
<1>3. kbd' = [kbd EXCEPT ![s] = r.kbd] /\ down' = r.down /\ wrong' = wrong \cup r.wrong
  BY DEF Deliver
<1> HIDE DEF r
<1>4. r.kbd \in Keyboard /\ r.down \in [ModKeys -> Nat] /\ r.wrong \subseteq Wrongs /\ r.kbd # None
  BY <1>2, InputAssumption DEF States
<1>5. kbd \in [Sessions -> Keyboard \cup {None}]
  BY DEF TInv, TypeOK
<1> QED BY <1>1, <1>3, <1>4, <1>5

(* What a client holds are keysyms, each the way it pressed it.            *)
LEMMA HoldingTypes ==
  ASSUME TInv, NEW s \in Sessions, NEW via \in {"eis", "dbus"}, NEW k \in Keysyms, NEW pressed,
         Asks(s, via, k, pressed)
  PROVE  /\ holding' \in [Sessions -> SUBSET ({"eis", "dbus"} \X Keysyms)]
         /\ \A t \in Sessions \ {s} : holding'[t] = holding[t]
<1>1. holding \in [Sessions -> SUBSET ({"eis", "dbus"} \X Keysyms)]
  BY DEF TInv, TypeOK
<1>2. holding' = [holding EXCEPT ![s] = IF pressed THEN @ \cup {<<via, k>>} ELSE @ \ {<<via, k>>}]
  BY DEF Asks
<1>3. <<via, k>> \in {"eis", "dbus"} \X Keysyms
  OBVIOUS
<1> QED BY <1>1, <1>2, <1>3

(* What is staged are events.                                              *)
LEMMA StageTypes ==
  ASSUME TInv, NEW s \in Sessions, eis[s] = "sender", NEW events \in Seq(Events), Stage(s, events)
  PROVE  /\ pending' \in [Sessions -> Seq(Events)]
         /\ pending' = [pending EXCEPT ![s] = pending[s] \o events]
         /\ \A t \in Sessions : pending'[t] # <<>> => eis[t] = "sender"
<1>1. pending \in [Sessions -> Seq(Events)] /\ \A t \in Sessions : pending[t] # <<>> => eis[t] = "sender"
  BY DEF TInv, TypeOK
<1>2. pending' = [pending EXCEPT ![s] = pending[s] \o events]
  BY DEF Stage
<1>3. pending[s] \o events \in Seq(Events)
  BY <1>1, SentTogether
<1> QED BY <1>1, <1>2, <1>3

(* The events there are.                                                   *)
LEMMA KeyEventType ==
  ASSUME NEW key \in Keys, NEW pressed \in BOOLEAN, NEW k \in Keysyms
  PROVE  /\ KeyEvent(key, pressed, k) \in Events
         /\ KeyEvent(key, pressed, k).kind = "key" /\ KeyEvent(key, pressed, k).key = key
         /\ KeyEvent(key, pressed, k).pressed = pressed /\ KeyEvent(key, pressed, k).asked = k
BY DEF KeyEvent, Events

LEMMA PlainEventType ==
  ASSUME NEW kind \in {"pointer", "touch"}
  PROVE  PlainEvent(kind) \in Events /\ PlainEvent(kind).kind = kind
BY DEF PlainEvent, Events

LEMMA LayoutKeys ==
  ASSUME NEW key \in DOMAIN Layout
  PROVE  key \in Keys /\ key \notin Slots /\ Layout[key][1] \in Range(Layout[key]) /\ Layout[key][1] \in Keysyms
<1>1. Layout[key] \in Seq(Range(Layout[key])) /\ Layout[key] # <<>>
  BY InputAssumption
<1>2. Len(Layout[key]) \in Nat \ {0} /\ DOMAIN Layout[key] = 1..Len(Layout[key])
  BY <1>1, LenProperties, EmptySeq
<1>3. 1 \in DOMAIN Layout[key]
  BY <1>2
<1>4. Layout[key][1] \in Range(Layout[key])
  BY <1>3 DEF Range
<1> QED BY <1>4, InputAssumption DEF Keys, Keysyms

LEMMA OneEvent ==
  ASSUME NEW e \in Events
  PROVE  <<e>> \in Seq(Events) /\ Len(<<e>>) = 1 /\ <<e>>[1] = e
OBVIOUS

-----------------------------------------------------------------------------
(* Texts.                                                                  *)

Staged == [xkb : Xkbs, events : Seq(Events)]

LEMMA PressRelease ==
  ASSUME NEW key \in Keys, NEW k \in Keysyms
  PROVE  LET two == <<KeyEvent(key, TRUE, k), KeyEvent(key, FALSE, k)>>
         IN  two \in Seq(Events) /\ Len(two) = 2 /\ two[1] = KeyEvent(key, TRUE, k) /\ two[2] = KeyEvent(key, FALSE, k)
<1>1. KeyEvent(key, TRUE, k) \in Events /\ KeyEvent(key, FALSE, k) \in Events
  BY KeyEventType
<1>2. ASSUME NEW a \in Events, NEW b \in Events
      PROVE  <<a, b>> \in Seq(Events) /\ Len(<<a, b>>) = 2 /\ <<a, b>>[1] = a /\ <<a, b>>[2] = b
  OBVIOUS
<1> QED BY <1>1, <1>2, Zenon

(* The events of a character, and what staging it does.                    *)
TypedOnce(key, k) == <<KeyEvent(key, TRUE, k), KeyEvent(key, FALSE, k)>>

LEMMA StageCharFields ==
  ASSUME NEW st \in Staged, NEW k \in Keysyms, NEW compiles \in BOOLEAN
  PROVE  /\ StageChar(st, k, compiles).xkb = keysym_to_keycode(st.xkb, k, compiles).xkb
         /\ keysym_to_keycode(st.xkb, k, compiles).key = None => StageChar(st, k, compiles).events = st.events
         /\ keysym_to_keycode(st.xkb, k, compiles).key # None =>
              StageChar(st, k, compiles).events
                = st.events \o TypedOnce(keysym_to_keycode(st.xkb, k, compiles).key, k)
<1> DEFINE r == keysym_to_keycode(st.xkb, k, compiles)
           two == <<KeyEvent(r.key, TRUE, k), KeyEvent(r.key, FALSE, k)>>
<1>1. StageChar(st, k, compiles) = [xkb |-> r.xkb, events |-> IF r.key = None THEN st.events ELSE st.events \o two]
  BY DEF StageChar
<1>2. two = TypedOnce(r.key, k)
  BY DEF TypedOnce
<1> HIDE DEF r, two
<1>3. /\ StageChar(st, k, compiles).xkb = r.xkb
      /\ r.key = None => StageChar(st, k, compiles).events = st.events
      /\ r.key # None => StageChar(st, k, compiles).events = st.events \o two
  BY <1>1
<1> QED BY <1>2, <1>3, Zenon DEF r

(* A character is staged with its press and its release, or not at all.    *)
LEMMA StageCharTypes ==
  ASSUME NEW st \in Staged, NEW k \in Keysyms, NEW compiles \in BOOLEAN
  PROVE  StageChar(st, k, compiles) \in Staged
<1> DEFINE r == keysym_to_keycode(st.xkb, k, compiles)
           two == <<KeyEvent(r.key, TRUE, k), KeyEvent(r.key, FALSE, k)>>
<1>1. st.xkb \in Xkbs /\ st.events \in Seq(Events)
  BY DEF Staged
<1>2. r.xkb \in Xkbs /\ r.key \in Keys \cup {None}
  BY <1>1, KeysymTypes
<1>3. StageChar(st, k, compiles) = [xkb |-> r.xkb, events |-> IF r.key = None THEN st.events ELSE st.events \o two]
  BY DEF StageChar
<1>4. r.key # None => two \in Seq(Events)
  BY <1>2, PressRelease
<1> HIDE DEF r, two
<1>5. r.key # None => st.events \o two \in Seq(Events)
  BY <1>1, <1>4, SentTogether
<1> QED BY <1>1, <1>2, <1>3, <1>5 DEF Staged

(* A text is staged character by character.                                *)
Typed(f, text, compiles) ==
  /\ f[0] = [xkb |-> xkb, events |-> <<>>]
  /\ \A i \in 1..Len(text) : f[i] = StageChar(f[i - 1], text[i], compiles)

LEMMA TextSteps ==
  ASSUME TInv, NEW text \in Texts, NEW compiles \in BOOLEAN
  PROVE  \E f \in [0..Len(text) -> Staged] :
           Typed(f, text, compiles) /\ inject_text_utf8(text, compiles) = f[Len(text)]
<1> DEFINE n == Len(text)
           start == [xkb |-> xkb, events |-> <<>>]
           step == [i \in 1..n |-> [v \in Staged |-> StageChar(v, text[i], compiles)]]
           K == CHOOSE f : f = [i \in 0..n |-> IF i = 0 THEN [xkb |-> xkb, events |-> <<>>]
                                               ELSE StageChar(f[i - 1], text[i], compiles)]
<1>a. start \in Staged
  BY XkbTypes, EmptySeq DEF Staged
<1>0. n \in Nat /\ \A i \in 1..n : text[i] \in Keysyms
  BY InputAssumption, LenProperties
<1>1. step \in [1..n -> [Staged -> Staged]]
  <2>1. ASSUME NEW i \in 1..n, NEW v \in Staged PROVE StageChar(v, text[i], compiles) \in Staged
    <3>1. text[i] \in Keysyms
      BY <1>0
    <3> QED BY <3>1, StageCharTypes
  <2> QED BY <2>1
<1>2. PICK f \in Chains(Staged, start, n, step) : TRUE
  <2> HIDE DEF step, K, n, start
  <2>1. Chains(Staged, start, n, step) # {}
    BY <1>a, <1>0, <1>1, StepByStep
  <2> QED BY <2>1
<1>3. f \in [0..n -> Staged] /\ f[0] = start /\ \A i \in 1..n : f[i] = step[i][f[i - 1]]
  BY <1>2 DEF Chains
<1>4. Typed(f, text, compiles)
  <2>1. ASSUME NEW i \in 1..n PROVE f[i] = StageChar(f[i - 1], text[i], compiles)
    <3>1. i - 1 \in 0..n
      BY <1>0
    <3> QED BY <3>1, <1>3
  <2> QED BY <2>1, <1>3 DEF Typed
<1> HIDE DEF step
<1>5. f = [i \in 0..n |-> IF i = 0 THEN [xkb |-> xkb, events |-> <<>>] ELSE StageChar(f[i - 1], text[i], compiles)]
  <2>1. \A i \in 0..n : i = 0 \/ i \in 1..n
    BY <1>0
  <2> QED BY <2>1, <1>3, <1>4 DEF Typed
<1>6. K = [i \in 0..n |-> IF i = 0 THEN [xkb |-> xkb, events |-> <<>>] ELSE StageChar(K[i - 1], text[i], compiles)]
  BY <1>5, Zenon
<1>7. inject_text_utf8(text, compiles) = K[n]
  BY Zenon DEF inject_text_utf8
<1> HIDE DEF K, n
<1>8. K[0] = f[0] /\ \A i \in 1..n : K[i - 1] = f[i - 1] => K[i] = f[i]
  <2>1. K[0] = f[0]
    BY <1>0, <1>3, <1>6
  <2>2. ASSUME NEW i \in 1..n, K[i - 1] = f[i - 1] PROVE K[i] = f[i]
    <3>1. i \in 0..n /\ i # 0
      BY <1>0
    <3>2. K[i] = StageChar(K[i - 1], text[i], compiles)
      BY <1>6, <3>1
    <3> QED BY <3>2, <2>2, <1>4 DEF Typed, n
  <2> QED BY <2>1, <2>2
<1>9. K[n] = f[n]
  BY <1>0, <1>8, ChainsAgree
<1> QED BY <1>3, <1>4, <1>7, <1>9 DEF n

LEMMA TextTypes ==
  ASSUME TInv, NEW text \in Texts, NEW compiles \in BOOLEAN
  PROVE  inject_text_utf8(text, compiles) \in Staged
<1>1. PICK f \in [0..Len(text) -> Staged] : inject_text_utf8(text, compiles) = f[Len(text)]
  BY TextSteps
<1>2. Len(text) \in Nat
  BY InputAssumption, LenProperties
<1>3. Len(text) \in 0..Len(text)
  BY <1>2
<1> QED BY <1>1, <1>3

-----------------------------------------------------------------------------
LEMMA TypesSession ==
  ASSUME TInv, NEW s \in Sessions, create_context(s) \/ transition_to_active(s) \/ destroy_context(s)
  PROVE  TInv'
<1>0. keymap \in [Slots -> Unlisted \cup {None}]
  BY DEF TInv, TypeOK
<1>1. ASSUME create_context(s) PROVE TInv'
  <2> DEFINE b == [keymap |-> keymap, held |-> {}, mods |-> {}, unframed |-> FALSE]
  <2>1. b \in Keyboard /\ b # None
    <3>1. b \in Keyboard
      BY <1>0 DEF Keyboard
    <3> HIDE DEF b
    <3> QED BY <3>1, InputAssumption
  <2>2. /\ eis[s] = "none" /\ eis' = [eis EXCEPT ![s] = "handshake"] /\ kbd' = [kbd EXCEPT ![s] = b]
        /\ creates' = creates + 1 /\ creates < MaxCreates
        /\ UNCHANGED <<pool, keymap, down, pending, holding, wrong>>
    BY <1>1 DEF create_context
  <2> HIDE DEF b
  <2>3. creates' \in 0..MaxCreates
    BY <2>2, InputAssumption DEF TInv, TypeOK
  <2> QED BY <2>1, <2>2, <2>3 DEF Phases, TInv, TypeOK
<1>2. ASSUME transition_to_active(s) PROVE TInv'
  <2>1. PICK phase \in {"sender", "receiver"} : eis' = [eis EXCEPT ![s] = phase]
    BY <1>2 DEF transition_to_active
  <2>2. eis[s] = "handshake" /\ UNCHANGED <<pool, keymap, down, pending, kbd, holding, creates, wrong>>
    BY <1>2 DEF transition_to_active
  <2> QED BY <2>1, <2>2 DEF Phases, TInv, TypeOK
<1>3. ASSUME destroy_context(s) PROVE TInv'
  <2>1. /\ eis' = [eis EXCEPT ![s] = "none"] /\ kbd' = [kbd EXCEPT ![s] = None]
        /\ pending' = [pending EXCEPT ![s] = <<>>] /\ holding' = [holding EXCEPT ![s] = {}]
        /\ UNCHANGED <<pool, keymap, down, creates, wrong>>
    BY <1>3 DEF destroy_context
  <2> QED BY <2>1, EmptySeq DEF Phases, TInv, TypeOK
<1> QED BY <1>1, <1>2, <1>3

(* What the calls that resolve a keysym do to the keyboards then.          *)
LEMMA NoUploadMissed ==
  ASSUME TInv, "upload" \notin Faults, NEW s \in Sessions, NEW compiles \in BOOLEAN
  PROVE  /\ \A k \in Keysyms, pressed \in BOOLEAN : TextKeysym(s, k, pressed, compiles) =>
              kbd' = Uploaded(kbd, keysym_to_keycode(xkb, k, compiles).xkb)
         /\ \A text \in Texts : TextUtf8(s, text, compiles) =>
              kbd' = Uploaded(kbd, inject_text_utf8(text, compiles).xkb)
         /\ \A k \in Keysyms, pressed \in BOOLEAN :
              LET r == keysym_to_keycode(xkb, k, compiles)
                  boards == Uploaded(kbd, r.xkb)
                  d == inject_event_batch(boards[s], r.xkb.down, <<KeyEvent(r.key, pressed, k)>>)
              IN NotifyKeyboardKeysym(s, k, pressed, compiles) =>
                   IF r.key = None
                   THEN down' = r.xkb.down /\ kbd' = boards /\ wrong' = wrong
                   ELSE kbd' = [boards EXCEPT ![s] = d.kbd] /\ down' = d.down /\ wrong' = wrong \cup d.wrong
<1>1. ASSUME NEW k \in Keysyms PROVE keysym_to_keycode(xkb, k, compiles).xkb \in Xkbs
  BY XkbTypes, KeysymTypes
<1>2. ASSUME NEW k \in Keysyms, NEW pressed \in BOOLEAN, TextKeysym(s, k, pressed, compiles)
      PROVE  kbd' = Uploaded(kbd, keysym_to_keycode(xkb, k, compiles).xkb)
  <2> DEFINE x == keysym_to_keycode(xkb, k, compiles).xkb
  <2>1. x \in Xkbs
    BY <1>1
  <2>2. \E missed \in Missed : kbd' = KeymapReceived(kbd, x, missed)
    BY <1>2 DEF TextKeysym
  <2> HIDE DEF x
  <2>3. kbd' = Uploaded(kbd, x)
    BY <2>1, <2>2, ReceivedByAll
  <2> QED BY <2>3 DEF x
<1>3. ASSUME NEW text \in Texts, TextUtf8(s, text, compiles)
      PROVE  kbd' = Uploaded(kbd, inject_text_utf8(text, compiles).xkb)
  <2> DEFINE x == inject_text_utf8(text, compiles).xkb
  <2>1. x \in Xkbs
    BY TextTypes DEF Staged
  <2>2. \E missed \in Missed : kbd' = KeymapReceived(kbd, x, missed)
    BY <1>3 DEF TextUtf8
  <2> HIDE DEF x
  <2>3. kbd' = Uploaded(kbd, x)
    BY <2>1, <2>2, ReceivedByAll
  <2> QED BY <2>3 DEF x
<1>4. ASSUME NEW k \in Keysyms, NEW pressed \in BOOLEAN, NotifyKeyboardKeysym(s, k, pressed, compiles)
      PROVE  LET r == keysym_to_keycode(xkb, k, compiles)
                 boards == Uploaded(kbd, r.xkb)
                 d == inject_event_batch(boards[s], r.xkb.down, <<KeyEvent(r.key, pressed, k)>>)
             IN IF r.key = None
                THEN down' = r.xkb.down /\ kbd' = boards /\ wrong' = wrong
                ELSE kbd' = [boards EXCEPT ![s] = d.kbd] /\ down' = d.down /\ wrong' = wrong \cup d.wrong
  <2> DEFINE r == keysym_to_keycode(xkb, k, compiles)
             P(boards) == LET d == inject_event_batch(boards[s], r.xkb.down, <<KeyEvent(r.key, pressed, k)>>)
                          IN IF r.key = None
                             THEN down' = r.xkb.down /\ kbd' = boards /\ wrong' = wrong
                             ELSE kbd' = [boards EXCEPT ![s] = d.kbd] /\ down' = d.down /\ wrong' = wrong \cup d.wrong
  <2>1. PICK missed \in Missed : P(KeymapReceived(kbd, r.xkb, missed))
    BY <1>4 DEF NotifyKeyboardKeysym
  <2>2. KeymapReceived(kbd, r.xkb, missed) = Uploaded(kbd, r.xkb)
    BY <1>1, ReceivedByAll
  <2> HIDE DEF P
  <2>3. P(Uploaded(kbd, r.xkb))
    BY <2>1, <2>2
  <2> QED BY <2>3 DEF P
<1> QED BY <1>2, <1>3, <1>4

(* The variables of the XKB data after a keysym got its key, or a text its *)
(* keys.                                                                   *)
LEMMA TypesXkb ==
  ASSUME TInv, NEW x \in Xkbs, SetXkb(x), NEW missed, kbd' = KeymapReceived(kbd, x, missed)
  PROVE  /\ pool' \in Pools
         /\ pool' \in [slots : [Slots -> Unlisted \cup {None}], recency : [DOMAIN PoolCodes -> Slots]]
         /\ keymap' \in [Slots -> Unlisted \cup {None}] /\ down' \in [ModKeys -> Nat]
         /\ kbd' \in [Sessions -> Keyboard \cup {None}]
         /\ \A t \in Sessions : kbd'[t] = None <=> kbd[t] = None
<1>1. kbd \in [Sessions -> Keyboard \cup {None}]
  BY DEF TInv, TypeOK
<1>2. /\ kbd' \in [Sessions -> Keyboard \cup {None}]
      /\ \A t \in Sessions : kbd'[t] = None <=> kbd[t] = None
  BY <1>1, ReceivedTypes
<1> QED BY <1>2 DEF SetXkb, Xkbs, Pools, Keymaps, Orders

LEMMA TypesEis ==
  ASSUME TInv, NEW s \in Sessions,
         \/ \E kind \in {"pointer", "touch"} : PointerOrTouch(s, kind)
         \/ \E key \in DOMAIN Layout, pressed \in BOOLEAN : KeyboardKey(s, key, pressed)
         \/ Frame(s)
  PROVE  TInv'
<1>1. ASSUME NEW kind \in {"pointer", "touch"}, PointerOrTouch(s, kind) PROVE TInv'
  <2>1. eis[s] = "sender" /\ Stage(s, <<PlainEvent(kind)>>)
        /\ UNCHANGED <<pool, keymap, down, eis, kbd, holding, creates, wrong>>
    BY <1>1 DEF PointerOrTouch
  <2>2. <<PlainEvent(kind)>> \in Seq(Events)
    BY PlainEventType
  <2>3. pending' \in [Sessions -> Seq(Events)] /\ \A t \in Sessions : pending'[t] # <<>> => eis[t] = "sender"
    BY <2>1, <2>2, StageTypes
  <2> QED BY <2>1, <2>3 DEF TInv, TypeOK
<1>2. ASSUME NEW key \in DOMAIN Layout, NEW pressed \in BOOLEAN, KeyboardKey(s, key, pressed) PROVE TInv'
  <2> DEFINE k == Layout[key][1]
  <2>1. eis[s] = "sender" /\ Asks(s, "eis", k, pressed) /\ Stage(s, <<KeyEvent(key, pressed, k)>>)
        /\ UNCHANGED <<pool, keymap, down, eis, kbd, creates, wrong>>
    BY <1>2 DEF KeyboardKey
  <2>2. key \in Keys /\ k \in Keysyms
    BY LayoutKeys
  <2> HIDE DEF k
  <2>3. <<KeyEvent(key, pressed, k)>> \in Seq(Events)
    BY <2>2, KeyEventType
  <2>4. pending' \in [Sessions -> Seq(Events)] /\ \A t \in Sessions : pending'[t] # <<>> => eis[t] = "sender"
    BY <2>1, <2>3, StageTypes
  <2>5. holding' \in [Sessions -> SUBSET ({"eis", "dbus"} \X Keysyms)] /\ \A t \in Sessions \ {s} : holding'[t] = holding[t]
    BY <2>1, <2>2, HoldingTypes
  <2> QED BY <2>1, <2>4, <2>5 DEF TInv, TypeOK
<1>3. ASSUME Frame(s) PROVE TInv'
  <2>1. eis[s] = "sender" /\ Deliver(s, pending[s]) /\ pending' = [pending EXCEPT ![s] = <<>>]
        /\ UNCHANGED <<pool, keymap, eis, holding, creates>>
    BY <1>3 DEF Frame
  <2>2. pending[s] \in Seq(Events) /\ kbd[s] # None
    BY <2>1 DEF TInv, TypeOK
  <2>3. /\ kbd' \in [Sessions -> Keyboard \cup {None}] /\ down' \in [ModKeys -> Nat] /\ wrong' \subseteq Wrongs
        /\ \A t \in Sessions : kbd'[t] = None <=> kbd[t] = None
    BY <2>1, <2>2, DeliverTypes
  <2>4. pending' \in [Sessions -> Seq(Events)] /\ \A t \in Sessions : pending'[t] # <<>> => eis[t] = "sender"
    BY <2>1, EmptySeq DEF TInv, TypeOK
  <2> QED BY <2>1, <2>3, <2>4 DEF TInv, TypeOK
<1> QED BY <1>1, <1>2, <1>3

LEMMA TypesText ==
  ASSUME TInv, NEW s \in Sessions,
         \/ \E k \in Askable, pressed \in BOOLEAN, compiles \in Compiles : TextKeysym(s, k, pressed, compiles)
         \/ \E text \in Texts, compiles \in Compiles : TextUtf8(s, text, compiles)
  PROVE  TInv'
<1>1. ASSUME NEW k \in Askable, NEW pressed \in BOOLEAN, NEW compiles \in Compiles,
             TextKeysym(s, k, pressed, compiles)
      PROVE  TInv'
  <2> DEFINE r == keysym_to_keycode(xkb, k, compiles)
             events == IF r.key = None THEN <<>> ELSE <<KeyEvent(r.key, pressed, k)>>
  <2>1. PICK missed \in Missed :
           eis[s] = "sender" /\ Asks(s, "eis", k, pressed) /\ Stage(s, events) /\ SetXkb(r.xkb)
           /\ kbd' = KeymapReceived(kbd, r.xkb, missed) /\ UNCHANGED <<eis, creates, wrong>>
    BY <1>1 DEF TextKeysym
  <2>2. k \in Keysyms /\ compiles \in BOOLEAN
    BY DEF Askable, Compiles
  <2>3. r.xkb \in Xkbs /\ r.key \in Keys \cup {None}
    BY <2>2, XkbTypes, KeysymTypes
  <2> HIDE DEF r
  <2>4. events \in Seq(Events)
    BY <2>2, <2>3, KeyEventType, EmptySeq
  <2> HIDE DEF events
  <2>5. pending' \in [Sessions -> Seq(Events)] /\ \A t \in Sessions : pending'[t] # <<>> => eis[t] = "sender"
    BY <2>1, <2>4, StageTypes
  <2>6. holding' \in [Sessions -> SUBSET ({"eis", "dbus"} \X Keysyms)] /\ \A t \in Sessions \ {s} : holding'[t] = holding[t]
    BY <2>1, <2>2, HoldingTypes
  <2> QED BY <2>1, <2>3, <2>5, <2>6, TypesXkb DEF TInv, TypeOK
<1>2. ASSUME NEW text \in Texts, NEW compiles \in Compiles, TextUtf8(s, text, compiles)
      PROVE  TInv'
  <2> DEFINE r == inject_text_utf8(text, compiles)
  <2>1. PICK missed \in Missed :
           eis[s] = "sender" /\ Stage(s, r.events) /\ SetXkb(r.xkb)
           /\ kbd' = KeymapReceived(kbd, r.xkb, missed) /\ UNCHANGED <<eis, holding, creates, wrong>>
    BY <1>2 DEF TextUtf8
  <2>2. compiles \in BOOLEAN
    BY DEF Compiles
  <2>3. r.xkb \in Xkbs /\ r.events \in Seq(Events)
    BY <2>2, TextTypes DEF Staged
  <2> HIDE DEF r
  <2>4. pending' \in [Sessions -> Seq(Events)] /\ \A t \in Sessions : pending'[t] # <<>> => eis[t] = "sender"
    BY <2>1, <2>3, StageTypes
  <2> QED BY <2>1, <2>3, <2>4, TypesXkb DEF TInv, TypeOK
<1> QED BY <1>1, <1>2

LEMMA TypesNotify ==
  ASSUME TInv, NEW s \in Sessions,
         \/ NotifyPointer(s) \/ NotifyTouch(s)
         \/ \E key \in DOMAIN Layout, pressed \in BOOLEAN : NotifyKeyboardKeycode(s, key, pressed)
         \/ \E k \in Askable, pressed \in BOOLEAN, compiles \in Compiles : NotifyKeyboardKeysym(s, k, pressed, compiles)
  PROVE  TInv'
<1>1. ASSUME NotifyPointer(s) \/ NotifyTouch(s) PROVE TInv'
  <2>1. PICK kind \in {"pointer", "touch"} :
           kbd[s] # None /\ Deliver(s, <<PlainEvent(kind)>>) /\ UNCHANGED <<pool, keymap, eis, pending, holding, creates>>
    BY <1>1 DEF NotifyPointer, NotifyTouch
  <2>2. <<PlainEvent(kind)>> \in Seq(Events)
    BY PlainEventType
  <2>3. /\ kbd' \in [Sessions -> Keyboard \cup {None}] /\ down' \in [ModKeys -> Nat] /\ wrong' \subseteq Wrongs
        /\ \A t \in Sessions : kbd'[t] = None <=> kbd[t] = None
    BY <2>1, <2>2, DeliverTypes
  <2> QED BY <2>1, <2>3 DEF TInv, TypeOK
<1>2. ASSUME NEW key \in DOMAIN Layout, NEW pressed \in BOOLEAN, NotifyKeyboardKeycode(s, key, pressed) PROVE TInv'
  <2> DEFINE k == Layout[key][1]
  <2>1. kbd[s] # None /\ Asks(s, "dbus", k, pressed) /\ Deliver(s, <<KeyEvent(key, pressed, k)>>)
        /\ UNCHANGED <<pool, keymap, eis, pending, creates>>
    BY <1>2 DEF NotifyKeyboardKeycode
  <2>2. key \in Keys /\ k \in Keysyms
    BY LayoutKeys
  <2> HIDE DEF k
  <2>3. <<KeyEvent(key, pressed, k)>> \in Seq(Events)
    BY <2>2, KeyEventType
  <2>4. /\ kbd' \in [Sessions -> Keyboard \cup {None}] /\ down' \in [ModKeys -> Nat] /\ wrong' \subseteq Wrongs
        /\ \A t \in Sessions : kbd'[t] = None <=> kbd[t] = None
    BY <2>1, <2>3, DeliverTypes
  <2>5. holding' \in [Sessions -> SUBSET ({"eis", "dbus"} \X Keysyms)] /\ \A t \in Sessions \ {s} : holding'[t] = holding[t]
    BY <2>1, <2>2, HoldingTypes
  <2>6. eis[s] # "none"
    BY <2>1 DEF TInv
  <2> QED BY <2>1, <2>4, <2>5, <2>6 DEF TInv, TypeOK
<1>3. ASSUME NEW k \in Askable, NEW pressed \in BOOLEAN, NEW compiles \in Compiles,
             NotifyKeyboardKeysym(s, k, pressed, compiles)
      PROVE  TInv'
  <2> DEFINE r == keysym_to_keycode(xkb, k, compiles)
  <2>0. PICK missed \in Missed :
          LET boards == KeymapReceived(kbd, r.xkb, missed)
              d == inject_event_batch(boards[s], r.xkb.down, <<KeyEvent(r.key, pressed, k)>>)
          IN IF r.key = None
             THEN down' = r.xkb.down /\ kbd' = boards /\ wrong' = wrong
             ELSE kbd' = [boards EXCEPT ![s] = d.kbd] /\ down' = d.down /\ wrong' = wrong \cup d.wrong
    BY <1>3 DEF NotifyKeyboardKeysym
  <2> DEFINE boards == KeymapReceived(kbd, r.xkb, missed)
             e == KeyEvent(r.key, pressed, k)
             d == inject_event_batch(boards[s], r.xkb.down, <<e>>)
  <2>1. /\ kbd[s] # None /\ Asks(s, "dbus", k, pressed) /\ pool' = r.xkb.pool /\ keymap' = r.xkb.keymap
        /\ UNCHANGED <<eis, pending, creates>>
        /\ r.key = None => down' = r.xkb.down /\ kbd' = boards /\ wrong' = wrong
        /\ r.key # None => kbd' = [boards EXCEPT ![s] = d.kbd] /\ down' = d.down /\ wrong' = wrong \cup d.wrong
    BY <1>3, <2>0 DEF NotifyKeyboardKeysym
  <2>2. k \in Keysyms /\ compiles \in BOOLEAN
    BY DEF Askable, Compiles
  <2>3. r.xkb \in Xkbs /\ r.key \in Keys \cup {None}
    BY <2>2, XkbTypes, KeysymTypes
  <2> HIDE DEF r
  <2>4. /\ boards \in [Sessions -> Keyboard \cup {None}]
        /\ \A t \in Sessions : boards[t] = None <=> kbd[t] = None
        /\ boards[s] \in Keyboard
    <3>1. kbd \in [Sessions -> Keyboard \cup {None}]
      BY DEF TInv, TypeOK
    <3> QED BY <3>1, <2>1, <2>3, ReceivedTypes
  <2>5. r.xkb.down \in [ModKeys -> Nat]
    BY <2>3 DEF Xkbs
  <2> HIDE DEF boards
  <2>6. r.key # None => d \in States
    <3>1. r.key # None => <<e>> \in Seq(Events)
      BY <2>2, <2>3, KeyEventType
    <3> HIDE DEF e
    <3> QED BY <3>1, <2>4, <2>5, BatchType
  <2> HIDE DEF d
  <2>7. r.key # None => d.kbd \in Keyboard /\ d.kbd # None /\ d.down \in [ModKeys -> Nat] /\ d.wrong \subseteq Wrongs
    BY <2>6, InputAssumption DEF States
  <2>8. /\ kbd' \in [Sessions -> Keyboard \cup {None}] /\ down' \in [ModKeys -> Nat] /\ wrong' \subseteq Wrongs
        /\ \A t \in Sessions : kbd'[t] = None <=> kbd[t] = None
    <3>1. CASE r.key = None
      BY <3>1, <2>1, <2>4, <2>5 DEF TInv, TypeOK
    <3>2. CASE r.key # None
      BY <3>2, <2>1, <2>4, <2>7 DEF TInv, TypeOK
    <3> QED BY <3>1, <3>2
  <2>9. holding' \in [Sessions -> SUBSET ({"eis", "dbus"} \X Keysyms)] /\ \A t \in Sessions \ {s} : holding'[t] = holding[t]
    BY <2>1, <2>2, HoldingTypes
  <2>10. /\ pool' \in Pools
         /\ pool' \in [slots : [Slots -> Unlisted \cup {None}], recency : [DOMAIN PoolCodes -> Slots]]
         /\ keymap' \in [Slots -> Unlisted \cup {None}]
    BY <2>1, <2>3 DEF Xkbs, Pools, Keymaps, Orders
  <2>11. eis[s] # "none"
    BY <2>1 DEF TInv
  <2> QED BY <2>1, <2>8, <2>9, <2>10, <2>11 DEF TInv, TypeOK
<1> QED BY <1>1, <1>2, <1>3

LEMMA TypesNext ==
  ASSUME TInv, [Next]_vars
  PROVE  TInv'
<1>1. ASSUME UNCHANGED vars PROVE TInv'
  BY <1>1 DEF vars, TInv, TypeOK
<1>2. ASSUME Next PROVE TInv'
  BY <1>2, TypesSession, TypesEis, TypesText, TypesNotify DEF Next
<1> QED BY <1>1, <1>2

(* Types.                                                                  *)
THEOREM InjectionTypes == Spec => []TypeOK
<1>1. TInv => TypeOK
  BY DEF TInv
<1> QED BY <1>1, TypesFirst, TypesNext, PTL DEF Spec

-----------------------------------------------------------------------------
(* The keymap and the pool, when every spliced keymap compiles and goes to *)
(* all keyboards.                                                          *)

KInv ==
  /\ TInv
  /\ keymap = pool.slots
  /\ \A s \in Sessions : kbd[s] # None => kbd[s].keymap = keymap

(* A text leaves the keymap that the pool says, as each of its characters. *)
LEMMA TextFollowsPool ==
  ASSUME KInv, NEW text \in Texts, NEW compiles \in BOOLEAN, compiles = TRUE
  PROVE  LET x == inject_text_utf8(text, compiles).xkb IN x.keymap = x.pool.slots
<1> DEFINE n == Len(text)
<1>0. compiles = TRUE
  OBVIOUS
<1>1. TInv /\ xkb.keymap = xkb.pool.slots
  BY DEF KInv, xkb
<1>2. PICK f \in [0..n -> Staged] : Typed(f, text, compiles) /\ inject_text_utf8(text, compiles) = f[n]
  BY <1>1, TextSteps
<1>3. n \in Nat /\ \A i \in 1..n : text[i] \in Keysyms
  BY InputAssumption, LenProperties
<1>4. f[0].xkb = xkb /\ \A i \in 1..n : f[i] = StageChar(f[i - 1], text[i], compiles)
  <2>1. f[0] = [xkb |-> xkb, events |-> <<>>]
    BY <1>2, Zenon DEF Typed
  <2>2. \A i \in 1..n : f[i] = StageChar(f[i - 1], text[i], compiles)
    BY <1>2, Zenon DEF Typed
  <2> HIDE DEF n
  <2>3. f[0].xkb = xkb
    BY <2>1
  <2> QED BY <2>2, <2>3, Zenon
<1> HIDE DEF n
<1> DEFINE T == {i \in Nat : i <= n => f[i].xkb.keymap = f[i].xkb.pool.slots}
<1>5. 0 \in T
  BY <1>1, <1>4
<1>6. ASSUME NEW i \in Nat, i \in T PROVE i + 1 \in T
  <2>1. SUFFICES ASSUME i + 1 <= n PROVE f[i + 1].xkb.keymap = f[i + 1].xkb.pool.slots
    BY <1>6
  <2>2. i \in 0..n /\ i + 1 \in 1..n /\ (i + 1) - 1 = i
    BY <2>1, <1>3
  <2>3. f[i].xkb \in Xkbs /\ text[i + 1] \in Keysyms /\ f[i].xkb.keymap = f[i].xkb.pool.slots
    BY <2>2, <1>3, <1>6 DEF Staged
  <2>4. f[i + 1].xkb = keysym_to_keycode(f[i].xkb, text[i + 1], compiles).xkb
    <3>1. f[i + 1] = StageChar(f[i], text[i + 1], compiles)
      BY <2>2, <1>4
    <3>2. StageChar(f[i], text[i + 1], compiles).xkb = keysym_to_keycode(f[i].xkb, text[i + 1], compiles).xkb
      BY <2>2, <2>3, StageCharFields
    <3> QED BY <3>1, <3>2, Zenon
  <2> DEFINE r == keysym_to_keycode(f[i].xkb, text[i + 1], compiles)
  <2>5. r.xkb.keymap = r.xkb.pool.slots
    BY <1>0, <2>3, KeysymTypes
  <2> HIDE DEF r
  <2> QED BY <2>4, <2>5 DEF r
<1> HIDE DEF T
<1>7. n \in T
  BY <1>3, <1>5, <1>6, Induct
<1>8. f[n].xkb.keymap = f[n].xkb.pool.slots
  BY <1>3, <1>7 DEF T
<1> QED BY <1>2, <1>8, Zenon

LEMMA CurrentFirst ==
  ASSUME Init
  PROVE  KInv
BY TypesFirst DEF KInv, Init

(* New XKB data, with the keyboards told of a new keymap.                  *)
LEMMA CurrentXkb ==
  ASSUME KInv, NEW x \in Xkbs, x.keymap = x.pool.slots
  PROVE  \A s \in Sessions : kbd[s] # None =>
           /\ Uploaded(kbd, x)[s] \in Keyboard
           /\ Uploaded(kbd, x)[s].keymap = x.keymap
<1>1. kbd \in [Sessions -> Keyboard \cup {None}]
  BY DEF KInv, TInv, TypeOK
<1> QED BY <1>1, UploadTypes DEF KInv

(* A batch does not change the keymap of its keyboard.                     *)
LEMMA CurrentDeliver ==
  ASSUME KInv, NEW s \in Sessions, kbd[s] # None, NEW batch \in Seq(Events), Deliver(s, batch)
  PROVE  \A t \in Sessions : kbd[t] # None => kbd'[t].keymap = keymap
<1> DEFINE r == inject_event_batch(kbd[s], down, batch)
<1>1. /\ kbd \in [Sessions -> Keyboard \cup {None}] /\ kbd[s] \in Keyboard /\ down \in [ModKeys -> Nat]
      /\ \A t \in Sessions : kbd[t] # None => kbd[t].keymap = keymap
  BY DEF KInv, TInv, TypeOK
<1>2. r.kbd.keymap = kbd[s].keymap
  BY <1>1, BatchType
<1>3. kbd' = [kbd EXCEPT ![s] = r.kbd]
  BY DEF Deliver
<1> HIDE DEF r
<1> QED BY <1>1, <1>2, <1>3

LEMMA CurrentNext ==
  ASSUME "compile" \notin Faults, "upload" \notin Faults, KInv, [Next]_vars
  PROVE  KInv'
<1>1. TInv' /\ TInv
  BY TypesNext DEF KInv
<1>2. kbd \in [Sessions -> Keyboard \cup {None}] /\ pending \in [Sessions -> Seq(Events)]
      /\ \A s \in Sessions : kbd[s] # None => kbd[s].keymap = keymap
  BY DEF KInv, TInv, TypeOK
<1>3. ASSUME UNCHANGED vars PROVE KInv'
  BY <1>1, <1>3 DEF vars, KInv
<1>4. ASSUME NEW s \in Sessions, create_context(s) PROVE KInv'
  <2> DEFINE b == [keymap |-> keymap, held |-> {}, mods |-> {}, unframed |-> FALSE]
  <2>1. kbd' = [kbd EXCEPT ![s] = b] /\ UNCHANGED <<pool, keymap>>
    BY <1>4 DEF create_context
  <2>2. b.keymap = keymap
    OBVIOUS
  <2> HIDE DEF b
  <2> QED BY <1>1, <1>2, <2>1, <2>2 DEF KInv
<1>5. ASSUME NEW s \in Sessions, transition_to_active(s) PROVE KInv'
  BY <1>1, <1>5 DEF KInv, transition_to_active
<1>6. ASSUME NEW s \in Sessions, destroy_context(s) PROVE KInv'
  <2>1. kbd' = [kbd EXCEPT ![s] = None] /\ UNCHANGED <<pool, keymap>>
    BY <1>6 DEF destroy_context
  <2> QED BY <1>1, <1>2, <2>1 DEF KInv
<1>7. ASSUME NEW s \in Sessions, NEW batch \in Seq(Events), kbd[s] # None, Deliver(s, batch),
             UNCHANGED <<pool, keymap>>
      PROVE  KInv'
  <2>1. \A t \in Sessions : kbd[t] # None => kbd'[t].keymap = keymap
    BY <1>7, CurrentDeliver
  <2>2. \A t \in Sessions : kbd'[t] = None <=> kbd[t] = None
    BY <1>1, <1>7, DeliverTypes
  <2> QED BY <1>1, <1>7, <2>1, <2>2 DEF KInv
<1>8. ASSUME NEW s \in Sessions, Frame(s) PROVE KInv'
  <2>1. eis[s] = "sender" /\ Deliver(s, pending[s]) /\ UNCHANGED <<pool, keymap>> /\ pending[s] \in Seq(Events)
    BY <1>2, <1>8 DEF Frame
  <2>2. kbd[s] # None
    BY <2>1, <1>1 DEF TInv
  <2> QED BY <2>1, <2>2, <1>7
<1>9. ASSUME NEW s \in Sessions, NotifyPointer(s) \/ NotifyTouch(s) PROVE KInv'
  <2>1. PICK kind \in {"pointer", "touch"} :
          kbd[s] # None /\ Deliver(s, <<PlainEvent(kind)>>) /\ UNCHANGED <<pool, keymap>>
    BY <1>9 DEF NotifyPointer, NotifyTouch
  <2>2. <<PlainEvent(kind)>> \in Seq(Events)
    BY PlainEventType
  <2> QED BY <2>1, <2>2, <1>7
<1>10. ASSUME NEW s \in Sessions, NEW kind \in {"pointer", "touch"}, PointerOrTouch(s, kind) PROVE KInv'
  BY <1>1, <1>10 DEF KInv, PointerOrTouch
<1>11. ASSUME NEW s \in Sessions, NEW key \in DOMAIN Layout, NEW pressed \in BOOLEAN, KeyboardKey(s, key, pressed)
       PROVE  KInv'
  BY <1>1, <1>11 DEF KInv, KeyboardKey
<1>12. ASSUME NEW s \in Sessions, NEW key \in DOMAIN Layout, NEW pressed \in BOOLEAN,
              NotifyKeyboardKeycode(s, key, pressed)
       PROVE  KInv'
  <2> DEFINE batch == <<KeyEvent(key, pressed, Layout[key][1])>>
  <2>1. kbd[s] # None /\ Deliver(s, batch) /\ UNCHANGED <<pool, keymap>>
    BY <1>12 DEF NotifyKeyboardKeycode
  <2>2. batch \in Seq(Events)
    BY LayoutKeys, KeyEventType
  <2> HIDE DEF batch
  <2> QED BY <2>1, <2>2, <1>7
<1>13. ASSUME NEW x \in Xkbs, x.keymap = x.pool.slots, SetXkb(x), kbd' = Uploaded(kbd, x) PROVE KInv'
  <2>1. \A t \in Sessions : kbd'[t] = None <=> kbd[t] = None
    BY <1>2, <1>13, UploadTypes
  <2>2. \A t \in Sessions : kbd[t] # None => kbd'[t].keymap = x.keymap
    BY <1>13, CurrentXkb
  <2> QED BY <1>1, <1>13, <2>1, <2>2 DEF KInv, SetXkb
<1>14. ASSUME NEW s \in Sessions, NEW k \in Askable, NEW pressed \in BOOLEAN, NEW compiles \in Compiles,
              TextKeysym(s, k, pressed, compiles)
       PROVE  KInv'
  <2> DEFINE r == keysym_to_keycode(xkb, k, compiles)
  <2>1. SetXkb(r.xkb) /\ kbd' = Uploaded(kbd, r.xkb)
    <3>1. k \in Keysyms /\ compiles \in BOOLEAN
      BY DEF Askable, Compiles
    <3>2. kbd' = Uploaded(kbd, r.xkb)
      BY <1>1, <1>14, <3>1, NoUploadMissed
    <3> QED BY <1>14, <3>2 DEF TextKeysym
  <2>2. k \in Keysyms /\ compiles = TRUE
    BY DEF Askable, Compiles
  <2>3. xkb \in Xkbs /\ xkb.keymap = xkb.pool.slots
    BY <1>1, XkbTypes DEF KInv, xkb
  <2>4. r.xkb \in Xkbs /\ r.xkb.keymap = r.xkb.pool.slots
    BY <2>2, <2>3, KeysymTypes
  <2> HIDE DEF r
  <2> QED BY <2>1, <2>4, <1>13
<1>15. ASSUME NEW s \in Sessions, NEW text \in Texts, NEW compiles \in Compiles, TextUtf8(s, text, compiles)
       PROVE  KInv'
  <2> DEFINE r == inject_text_utf8(text, compiles)
  <2>1. SetXkb(r.xkb) /\ kbd' = Uploaded(kbd, r.xkb)
    <3>1. compiles \in BOOLEAN
      BY DEF Compiles
    <3>2. kbd' = Uploaded(kbd, r.xkb)
      BY <1>1, <1>15, <3>1, NoUploadMissed
    <3> QED BY <1>15, <3>2 DEF TextUtf8
  <2>2. compiles = TRUE
    BY DEF Compiles
  <2>3. r.xkb \in Xkbs
    BY <1>1, <2>2, TextTypes DEF Staged
  <2>4. r.xkb.keymap = r.xkb.pool.slots
    BY <2>2, TextFollowsPool
  <2> HIDE DEF r
  <2> QED BY <2>1, <2>3, <2>4, <1>13
<1>16. ASSUME NEW s \in Sessions, NEW k \in Askable, NEW pressed \in BOOLEAN, NEW compiles \in Compiles,
              NotifyKeyboardKeysym(s, k, pressed, compiles)
       PROVE  KInv'
  <2> DEFINE r == keysym_to_keycode(xkb, k, compiles)
             boards == Uploaded(kbd, r.xkb)
             e == KeyEvent(r.key, pressed, k)
             d == inject_event_batch(boards[s], r.xkb.down, <<e>>)
  <2>1. k \in Keysyms /\ compiles = TRUE
    BY DEF Askable, Compiles
  <2>2. xkb \in Xkbs /\ xkb.keymap = xkb.pool.slots
    BY <1>1, XkbTypes DEF KInv, xkb
  <2>3. r.xkb \in Xkbs /\ r.xkb.keymap = r.xkb.pool.slots /\ r.key \in Keys
    BY <2>1, <2>2, KeysymTypes
  <2>4. kbd[s] # None /\ pool' = r.xkb.pool /\ keymap' = r.xkb.keymap
        /\ kbd' = [boards EXCEPT ![s] = d.kbd]
    <3>1. r.key # None
      BY <2>3, InputAssumption
    <3>2. IF r.key = None
          THEN down' = r.xkb.down /\ kbd' = boards /\ wrong' = wrong
          ELSE kbd' = [boards EXCEPT ![s] = d.kbd] /\ down' = d.down /\ wrong' = wrong \cup d.wrong
      <4>1. k \in Keysyms /\ compiles \in BOOLEAN
        BY DEF Askable, Compiles
      <4> QED BY <1>1, <1>16, <4>1, NoUploadMissed
    <3>3. kbd' = [boards EXCEPT ![s] = d.kbd]
      BY <3>1, <3>2
    <3> QED BY <3>3, <1>16 DEF NotifyKeyboardKeysym
  <2> HIDE DEF r
  <2>5. /\ boards \in [Sessions -> Keyboard \cup {None}]
        /\ \A t \in Sessions : /\ boards[t] = None <=> kbd[t] = None
                               /\ kbd[t] # None => boards[t] \in Keyboard /\ boards[t].keymap = r.xkb.keymap
    BY <1>2, <2>3, UploadTypes, CurrentXkb
  <2>6. r.xkb.down \in [ModKeys -> Nat]
    BY <2>3 DEF Xkbs
  <2> HIDE DEF boards
  <2>7. d.kbd.keymap = boards[s].keymap /\ d.kbd \in Keyboard
    <3>1. <<e>> \in Seq(Events)
      BY <2>1, <2>3, KeyEventType
    <3> HIDE DEF e
    <3> QED BY <3>1, <2>4, <2>5, <2>6, BatchType DEF States
  <2> HIDE DEF d
  <2>8. \A t \in Sessions : kbd'[t] # None => kbd'[t].keymap = r.xkb.keymap
    BY <2>4, <2>5, <2>7
  <2> QED BY <1>1, <2>3, <2>4, <2>8 DEF KInv
<1> QED BY <1>3, <1>4, <1>5, <1>6, <1>8, <1>9, <1>10, <1>11, <1>12, <1>14, <1>15, <1>16 DEF Next

(* Whatever the clients, the compiler and the uploads do, every slot of    *)
(* the pool is in the order of reuse once and no keysym has two slots      *)
(* (DynamicKeysymPool::resolve).                                           *)
THEOREM PoolStaysSound == Spec => []PoolSound
<1>1. TInv => PoolSound
  BY DEF TInv, PoolSound, Pools, Orders, Sound
<1> QED BY <1>1, TypesFirst, TypesNext, PTL DEF Spec

(* Where every spliced keymap compiles and reaches the keyboards, they all *)
(* have the keymap the next keysym is resolved against, and it carries     *)
(* what the pool says, whichever slots are taken over from whom. Either    *)
(* failure breaks it in the code, for good: a keymap that does not compile *)
(* leaves the pool ahead of the keymap, an upload that fails is warned of  *)
(* and not repeated (keysym_to_keycode).                                   *)
THEOREM KeymapsStayCurrent ==
  ASSUME "compile" \notin Faults, "upload" \notin Faults
  PROVE  Spec => []KeymapsCurrent
<1>1. KInv => KeymapsCurrent
  BY DEF KInv, TInv, KeymapsCurrent, PoolSound, Pools, Orders, Sound
<1>2. KInv /\ [Next]_vars => KInv'
  BY CurrentNext
<1> QED BY <1>1, <1>2, CurrentFirst, PTL DEF Spec

-----------------------------------------------------------------------------
(* Events that turn a set of held keys into another: every press is of a   *)
(* key that is up, every release of one that is down.                      *)

After(A, e) ==
  IF e.kind # "key" THEN A ELSE IF e.pressed THEN A \cup {e.key} ELSE A \ {e.key}

Turn(A, e, B) == B = After(A, e) /\ (e.kind = "key" => (e.pressed <=> e.key \notin A))

Turns(H, events) == \A i \in 1..Len(events) : Turn(H[i - 1], events[i], H[i])

Toggles(events, A, B) ==
  \E H \in [0..Len(events) -> SUBSET Keys] : H[0] = A /\ H[Len(events)] = B /\ Turns(H, events)

Touches(events, key) == \E i \in DOMAIN events : events[i].kind = "key" /\ events[i].key = key

LEMMA TogglesNone ==
  ASSUME NEW A \in SUBSET Keys
  PROVE  Toggles(<<>>, A, A) /\ \A B : Toggles(<<>>, A, B) => B = A
<1> DEFINE H == [i \in 0..0 |-> A]
<1>1. H \in [0..0 -> SUBSET Keys] /\ H[0] = A /\ Len(<<>>) = 0
  BY EmptySeq
<1>2. Turns(H, <<>>)
  BY EmptySeq DEF Turns
<1> HIDE DEF H
<1> QED BY <1>1, <1>2, EmptySeq DEF Toggles

LEMMA TogglesOne ==
  ASSUME NEW A \in SUBSET Keys, NEW B, NEW e \in Events, Turn(A, e, B)
  PROVE  B \in SUBSET Keys /\ Toggles(<<e>>, A, B)
<1> DEFINE H == [i \in 0..1 |-> IF i = 0 THEN A ELSE B]
<1>1. B \in SUBSET Keys
  BY DEF Turn, After, Events
<1>2. <<e>> \in Seq(Events) /\ Len(<<e>>) = 1 /\ <<e>>[1] = e
  BY OneEvent
<1>3. H \in [0..1 -> SUBSET Keys] /\ H[0] = A /\ H[1] = B
  BY <1>1
<1> HIDE DEF H
<1>4. Turns(H, <<e>>)
  <2>1. ASSUME NEW i \in 1..1 PROVE Turn(H[i - 1], <<e>>[i], H[i])
    <3>1. i = 1 /\ i - 1 = 0
      OBVIOUS
    <3> QED BY <3>1, <1>2, <1>3
  <2> QED BY <2>1, <1>2 DEF Turns
<1> QED BY <1>1, <1>2, <1>3, <1>4 DEF Toggles

LEMMA TogglesJoin ==
  ASSUME NEW a \in Seq(Events), NEW b \in Seq(Events), NEW A, NEW B, NEW C, Toggles(a, A, B), Toggles(b, B, C)
  PROVE  Toggles(a \o b, A, C)
<1> DEFINE n == Len(a)
           m == Len(b)
<1>1. n \in Nat /\ m \in Nat
  BY LenProperties
<1>2. PICK F \in [0..n -> SUBSET Keys] : F[0] = A /\ F[n] = B /\ Turns(F, a)
  BY DEF Toggles
<1>3. PICK G \in [0..m -> SUBSET Keys] : G[0] = B /\ G[m] = C /\ Turns(G, b)
  BY DEF Toggles
<1>4. /\ Len(a \o b) = n + m
      /\ \A i \in 1..n : (a \o b)[i] = a[i]
      /\ \A i \in 1..m : (a \o b)[n + i] = b[i]
  BY SentTogether
<1>5. /\ \A i \in 1..n : Turn(F[i - 1], a[i], F[i])
      /\ \A i \in 1..m : Turn(G[i - 1], b[i], G[i])
  BY <1>2, <1>3 DEF Turns
<1> HIDE DEF n, m
<1> DEFINE H == [i \in 0..(n + m) |-> IF i <= n THEN F[i] ELSE G[i - n]]
<1>6. H \in [0..(n + m) -> SUBSET Keys]
  <2>1. ASSUME NEW i \in 0..(n + m), ~(i <= n) PROVE i - n \in 0..m
    BY <1>1, <2>1
  <2>2. ASSUME NEW i \in 0..(n + m), i <= n PROVE i \in 0..n
    BY <1>1, <2>2
  <2> QED BY <2>1, <2>2
<1>7. H[0] = A /\ H[n + m] = C
  <2>1. H[0] = F[0]
    BY <1>1
  <2>2. CASE m = 0
    <3>1. H[n + m] = F[n]
      BY <1>1, <2>2
    <3> QED BY <3>1, <2>1, <2>2, <1>2, <1>3
  <2>3. CASE m # 0
    <3>1. H[n + m] = G[m]
      BY <1>1, <2>3
    <3> QED BY <3>1, <2>1, <1>2, <1>3
  <2> QED BY <2>2, <2>3
<1>8. ASSUME NEW i \in 1..(n + m) PROVE Turn(H[i - 1], (a \o b)[i], H[i])
  <2>1. CASE i <= n
    <3>1. i \in 1..n /\ H[i - 1] = F[i - 1] /\ H[i] = F[i]
      BY <1>1, <2>1
    <3> HIDE DEF H
    <3> QED BY <3>1, <1>4, <1>5
  <2>2. CASE i > n
    <3>1. i - n \in 1..m /\ n + (i - n) = i /\ (i - n) - 1 = (i - 1) - n
      BY <1>1, <2>2
    <3>2. H[i] = G[i - n]
      BY <1>1, <2>2
    <3>3. H[i - 1] = G[(i - n) - 1]
      <4>1. CASE i - 1 = n
        <5>1. H[i - 1] = F[n] /\ (i - n) - 1 = 0
          BY <1>1, <4>1
        <5> QED BY <5>1, <1>2, <1>3
      <4>2. CASE i - 1 # n
        <5>1. i - 1 \in 0..(n + m) /\ ~(i - 1 <= n)
          BY <1>1, <2>2, <4>2
        <5>2. H[i - 1] = G[(i - 1) - n]
          BY <5>1
        <5> QED BY <5>2, <3>1
      <4> QED BY <4>1, <4>2
    <3>4. (a \o b)[i] = b[i - n]
      BY <3>1, <1>4
    <3>5. Turn(G[(i - n) - 1], b[i - n], G[i - n])
      BY <3>1, <1>5
    <3> HIDE DEF H
    <3> QED BY <3>2, <3>3, <3>4, <3>5
  <2>3. i <= n \/ i > n
    BY <1>1
  <2> HIDE DEF H
  <2> QED BY <2>1, <2>2, <2>3, Zenon
<1> HIDE DEF H
<1>9. Turns(H, a \o b)
  BY <1>4, <1>8 DEF Turns
<1> QED BY <1>4, <1>6, <1>7, <1>9 DEF Toggles

(* A key no event is of is as it was.                                      *)
LEMMA Untouched ==
  ASSUME NEW events \in Seq(Events), NEW A, NEW B, Toggles(events, A, B), NEW key, ~Touches(events, key)
  PROVE  key \in A <=> key \in B
<1> DEFINE n == Len(events)
<1>1. n \in Nat /\ DOMAIN events = 1..n
  BY LenProperties
<1>2. PICK H \in [0..n -> SUBSET Keys] : H[0] = A /\ H[n] = B /\ Turns(H, events)
  BY DEF Toggles
<1>3. \A i \in 1..n : Turn(H[i - 1], events[i], H[i])
  BY <1>2 DEF Turns
<1> HIDE DEF n
<1> DEFINE T == {i \in Nat : i <= n => (key \in A <=> key \in H[i])}
<1>4. 0 \in T
  BY <1>2
<1>5. ASSUME NEW i \in Nat, i \in T PROVE i + 1 \in T
  <2>1. SUFFICES ASSUME i + 1 <= n PROVE key \in A <=> key \in H[i + 1]
    BY <1>5
  <2>2. i + 1 \in 1..n /\ (i + 1) - 1 = i /\ i <= n
    BY <2>1, <1>1
  <2>3. Turn(H[i], events[i + 1], H[i + 1]) /\ (key \in A <=> key \in H[i])
    BY <2>2, <1>3, <1>5
  <2>4. ~(events[i + 1].kind = "key" /\ events[i + 1].key = key)
    BY <2>2, <1>1 DEF Touches
  <2> QED BY <2>3, <2>4 DEF Turn, After
<1> HIDE DEF T
<1>6. n \in T
  BY <1>1, <1>4, <1>5, Induct
<1> QED BY <1>1, <1>2, <1>6 DEF T

(* What another request does to such a key, it may do before.              *)
LEMMA TogglesApart ==
  ASSUME NEW events \in Seq(Events), NEW A, NEW B, Toggles(events, A, B), NEW key \in Keys, ~Touches(events, key)
  PROVE  Toggles(events, A \cup {key}, B \cup {key}) /\ Toggles(events, A \ {key}, B \ {key})
<1> DEFINE n == Len(events)
<1>1. n \in Nat /\ DOMAIN events = 1..n
  BY LenProperties
<1>2. PICK H \in [0..n -> SUBSET Keys] : H[0] = A /\ H[n] = B /\ Turns(H, events)
  BY DEF Toggles
<1>3. \A i \in 1..n : i - 1 \in 0..n /\ i \in 0..n /\ Turn(H[i - 1], events[i], H[i])
  BY <1>1, <1>2 DEF Turns
<1>4. 0 \in 0..n /\ n \in 0..n
  BY <1>1
<1> DEFINE F == [i \in 0..n |-> H[i] \cup {key}]
           G == [i \in 0..n |-> H[i] \ {key}]
<1>5. F \in [0..n -> SUBSET Keys] /\ G \in [0..n -> SUBSET Keys]
  OBVIOUS
<1>6. F[0] = A \cup {key} /\ F[n] = B \cup {key} /\ G[0] = A \ {key} /\ G[n] = B \ {key}
  BY <1>2, <1>4
<1>7. ASSUME NEW i \in 1..n PROVE Turn(F[i - 1], events[i], F[i]) /\ Turn(G[i - 1], events[i], G[i])
  <2>1. ~(events[i].kind = "key" /\ events[i].key = key)
    BY <1>1 DEF Touches
  <2>2. Turn(H[i - 1], events[i], H[i])
    BY <1>3
  <2>3. F[i - 1] = H[i - 1] \cup {key} /\ F[i] = H[i] \cup {key} /\ G[i - 1] = H[i - 1] \ {key} /\ G[i] = H[i] \ {key}
    BY <1>3
  <2> HIDE DEF F, G
  <2> QED BY <2>1, <2>2, <2>3 DEF Turn, After
<1> HIDE DEF F, G
<1>8. Turns(F, events) /\ Turns(G, events)
  BY <1>7 DEF Turns
<1> QED BY <1>5, <1>6, <1>8 DEF Toggles

-----------------------------------------------------------------------------
(* The keys of the keysyms a client holds.                                 *)

OneKeyEach == \A a, b \in DOMAIN Layout : Layout[a][1] = Layout[b][1] => a = b

FirstSym(km, key) == Symbols(km, key)[1]

Held(hs) == {h[2] : h \in hs}
HeldBy(km, hs) == {key \in Keys : FirstSym(km, key) \in Held(hs)}

Holds(km, hs) ==
  /\ \A h \in hs : \E key \in Keys : FirstSym(km, key) = h[2]
  /\ \A h, g \in hs : h[2] = g[2] => h = g

(* A slot types its keysym, a key of the layout its first.                 *)
LEMMA FirstSyms ==
  ASSUME NEW km \in Keymaps, NEW key \in Keys
  PROVE  /\ key \in Slots => FirstSym(km, key) = km[key] /\ km[key] \in Unlisted \cup {None}
         /\ key \notin Slots => /\ key \in DOMAIN Layout /\ FirstSym(km, key) = Layout[key][1]
                                /\ FirstSym(km, key) \notin Unlisted \cup {None}
<1>1. CASE key \in Slots
  BY <1>1 DEF FirstSym, Symbols, Keymaps
<1>2. CASE key \notin Slots
  <2>1. key \in DOMAIN Layout
    BY <1>2 DEF Keys
  <2> QED BY <2>1, <1>2, LayoutKeys, InputAssumption DEF FirstSym, Symbols
<1> QED BY <1>1, <1>2

(* A keysym is typed by one key.                                           *)
LEMMA OneKey ==
  ASSUME OneKeyEach, NEW km \in Keymaps, Sound(km), NEW a \in Keys, NEW b \in Keys,
         FirstSym(km, a) = FirstSym(km, b), FirstSym(km, a) # None
  PROVE  a = b
<1>1. CASE a \in Slots /\ b \in Slots
  BY <1>1, FirstSyms DEF Sound
<1>2. CASE a \notin Slots /\ b \notin Slots
  BY <1>2, FirstSyms DEF OneKeyEach
<1>3. CASE a \in Slots /\ b \notin Slots
  BY <1>3, FirstSyms
<1>4. CASE a \notin Slots /\ b \in Slots
  BY <1>4, FirstSyms
<1> QED BY <1>1, <1>2, <1>3, <1>4

Asking(hs, via, k, pressed, hs2) ==
  IF pressed THEN (\A v \in Vias : <<v, k>> \notin hs) /\ hs2 = hs \cup {<<via, k>>}
             ELSE <<via, k>> \in hs /\ hs2 = hs \ {<<via, k>>}

(* What a client asks for turns the keys of what it holds.                 *)
LEMMA AskedTurn ==
  ASSUME OneKeyEach, NEW km \in Keymaps, Sound(km), NEW hs \in SUBSET (Vias \X Keysyms), NEW hs2,
         Holds(km, hs), NEW via \in Vias, NEW k \in Keysyms, NEW pressed \in BOOLEAN,
         Asking(hs, via, k, pressed, hs2), NEW key \in Keys, FirstSym(km, key) = k
  PROVE  /\ Holds(km, hs2)
         /\ Turn(HeldBy(km, hs), KeyEvent(key, pressed, k), HeldBy(km, hs2))
<1> DEFINE e == KeyEvent(key, pressed, k)
<1>1. k # None
  <2>1. None \notin Unlisted /\ \A other \in DOMAIN Layout : None \notin Range(Layout[other])
    BY InputAssumption
  <2> QED BY <2>1 DEF Keysyms
<1>2. \A other \in Keys : FirstSym(km, other) = k => other = key
  BY <1>1, OneKey
<1>3. e.kind = "key" /\ e.key = key /\ e.pressed = pressed
  BY KeyEventType
<1>4. \A h \in hs : h[1] \in Vias /\ h[2] \in Keysyms /\ h = <<h[1], h[2]>>
  OBVIOUS
<1> HIDE DEF e
<1>5. CASE pressed
  <2>1. hs2 = hs \cup {<<via, k>>} /\ k \notin Held(hs)
    BY <1>4, <1>5 DEF Asking, Held
  <2>2. Held(hs2) = Held(hs) \cup {k}
    <3> DEFINE h == <<via, k>>
    <3>1. h[2] = k /\ hs2 = hs \cup {h}
      BY <2>1
    <3> HIDE DEF h
    <3>2. Held(hs2) = Held(hs) \cup {h[2]}
      BY <3>1 DEF Held
    <3> QED BY <3>1, <3>2
  <2>3. HeldBy(km, hs2) = HeldBy(km, hs) \cup {key} /\ key \notin HeldBy(km, hs)
    BY <2>1, <2>2, <1>2 DEF HeldBy
  <2>4. Holds(km, hs2)
    <3>1. \A h \in hs2 : \E other \in Keys : FirstSym(km, other) = h[2]
      BY <2>1 DEF Holds
    <3>2. \A h, g \in hs2 : h[2] = g[2] => h = g
      BY <2>1 DEF Holds, Held
    <3> QED BY <3>1, <3>2 DEF Holds
  <2> QED BY <2>3, <2>4, <1>3, <1>5 DEF Turn, After, e
<1>6. CASE ~pressed
  <2>1. hs2 = hs \ {<<via, k>>} /\ <<via, k>> \in hs /\ k \in Held(hs)
    BY <1>6 DEF Asking, Held
  <2>2. Held(hs2) = Held(hs) \ {k}
    BY <2>1 DEF Held, Holds
  <2>3. HeldBy(km, hs2) = HeldBy(km, hs) \ {key} /\ key \in HeldBy(km, hs)
    BY <2>1, <2>2, <1>2 DEF HeldBy
  <2>4. Holds(km, hs2)
    BY <2>1 DEF Holds
  <2> QED BY <2>3, <2>4, <1>3, <1>6 DEF Turn, After, e
<1> QED BY <1>5, <1>6

-----------------------------------------------------------------------------
(* A session with its keyboard: what it has staged is typed as asked under *)
(* the keymap, and leaves the keyboard holding what the client holds.      *)

AsAsked(km, events) ==
  \A i \in DOMAIN events :
    /\ events[i].kind # "touch"
    /\ events[i].kind = "key" => FirstSym(km, events[i].key) = events[i].asked

Served(km, board, events, hs) ==
  /\ board.unframed = FALSE
  /\ AsAsked(km, events)
  /\ Toggles(events, board.held, HeldBy(km, hs))
  /\ Holds(km, hs)

(* The events of two sequences put together are those of either.           *)
FromBoth(c, a, b) ==
  /\ \A i \in DOMAIN c : (\E j \in DOMAIN a : c[i] = a[j]) \/ (\E j \in DOMAIN b : c[i] = b[j])
  /\ \A j \in DOMAIN a : \E i \in DOMAIN c : c[i] = a[j]
  /\ \A j \in DOMAIN b : \E i \in DOMAIN c : c[i] = b[j]

LEMMA JoinedEvents ==
  ASSUME NEW a \in Seq(Events), NEW b \in Seq(Events)
  PROVE  FromBoth(a \o b, a, b)
<1>1. /\ Len(a) \in Nat /\ DOMAIN a = 1..Len(a) /\ Len(b) \in Nat /\ DOMAIN b = 1..Len(b)
  BY LenProperties
<1>2. /\ a \o b \in Seq(Events) /\ Len(a \o b) = Len(a) + Len(b)
      /\ \A i \in 1..Len(a) : (a \o b)[i] = a[i]
      /\ \A i \in 1..Len(b) : (a \o b)[Len(a) + i] = b[i]
  BY SentTogether
<1>3. DOMAIN (a \o b) = 1..(Len(a) + Len(b))
  BY <1>2, LenProperties
<1>4. ASSUME NEW i \in 1..(Len(a) + Len(b))
      PROVE  \/ \E j \in 1..Len(a) : (a \o b)[i] = a[j]
             \/ \E j \in 1..Len(b) : (a \o b)[i] = b[j]
  <2>1. CASE i <= Len(a)
    BY <2>1, <1>1, <1>2
  <2>2. CASE i > Len(a)
    <3>1. i - Len(a) \in 1..Len(b) /\ Len(a) + (i - Len(a)) = i
      BY <2>2, <1>1
    <3> QED BY <3>1, <1>2
  <2> QED BY <2>1, <2>2, <1>1
<1>5. ASSUME NEW j \in 1..Len(a) PROVE \E i \in 1..(Len(a) + Len(b)) : (a \o b)[i] = a[j]
  <2>1. j \in 1..(Len(a) + Len(b))
    BY <1>1
  <2> QED BY <2>1, <1>2
<1>6. ASSUME NEW j \in 1..Len(b) PROVE \E i \in 1..(Len(a) + Len(b)) : (a \o b)[i] = b[j]
  <2>1. Len(a) + j \in 1..(Len(a) + Len(b))
    BY <1>1
  <2> QED BY <2>1, <1>2
<1> QED BY <1>1, <1>3, <1>4, <1>5, <1>6 DEF FromBoth

LEMMA AsAskedJoin ==
  ASSUME NEW km, NEW a \in Seq(Events), NEW b \in Seq(Events), AsAsked(km, a), AsAsked(km, b)
  PROVE  AsAsked(km, a \o b)
<1>1. FromBoth(a \o b, a, b)
  BY JoinedEvents
<1> DEFINE c == a \o b
<1> HIDE DEF c
<1>2. AsAsked(km, c)
  BY <1>1 DEF c, FromBoth, AsAsked
<1> QED BY <1>2 DEF c

(* More is staged.                                                         *)
LEMMA ServedStage ==
  ASSUME NEW km, NEW board, NEW events \in Seq(Events), NEW more \in Seq(Events), NEW hs, NEW hs2,
         Served(km, board, events, hs), AsAsked(km, more), Holds(km, hs2),
         Toggles(more, HeldBy(km, hs), HeldBy(km, hs2))
  PROVE  Served(km, board, events \o more, hs2)
BY TogglesJoin, AsAskedJoin DEF Served

(* A key event asked for is staged.                                        *)
LEMMA ServedKey ==
  ASSUME OneKeyEach, NEW km \in Keymaps, Sound(km), NEW board, NEW events \in Seq(Events),
         NEW hs \in SUBSET (Vias \X Keysyms), NEW hs2, Served(km, board, events, hs),
         NEW via \in Vias, NEW k \in Keysyms, NEW pressed \in BOOLEAN,
         Asking(hs, via, k, pressed, hs2), NEW key \in Keys, FirstSym(km, key) = k
  PROVE  Served(km, board, events \o <<KeyEvent(key, pressed, k)>>, hs2)
<1> DEFINE e == KeyEvent(key, pressed, k)
<1>1. Holds(km, hs2) /\ Turn(HeldBy(km, hs), e, HeldBy(km, hs2))
  BY AskedTurn DEF Served
<1>2. e \in Events /\ e.kind = "key" /\ e.key = key /\ e.asked = k
  BY KeyEventType
<1> HIDE DEF e
<1>3. <<e>> \in Seq(Events) /\ Len(<<e>>) = 1 /\ <<e>>[1] = e
  BY <1>2, OneEvent
<1>4. HeldBy(km, hs) \in SUBSET Keys
  BY DEF HeldBy
<1>5. Toggles(<<e>>, HeldBy(km, hs), HeldBy(km, hs2))
  BY <1>1, <1>2, <1>4, TogglesOne
<1>6. AsAsked(km, <<e>>)
  <2>1. DOMAIN <<e>> = 1..1
    BY <1>3, LenProperties
  <2> QED BY <2>1, <1>2, <1>3 DEF AsAsked
<1>7. Served(km, board, events \o <<e>>, hs2)
  BY <1>1, <1>3, <1>5, <1>6, ServedStage
<1> QED BY <1>7 DEF e

LEMMA ServedPointer ==
  ASSUME NEW km, NEW board, NEW events \in Seq(Events), NEW hs, Served(km, board, events, hs)
  PROVE  /\ Served(km, board, events \o <<PlainEvent("pointer")>>, hs)
         /\ \A A \in SUBSET Keys : Toggles(<<PlainEvent("pointer")>>, A, A)
         /\ AsAsked(km, <<PlainEvent("pointer")>>)
<1> DEFINE e == PlainEvent("pointer")
<1>1. e \in Events /\ e.kind = "pointer"
  BY PlainEventType
<1> HIDE DEF e
<1>2. <<e>> \in Seq(Events) /\ Len(<<e>>) = 1 /\ <<e>>[1] = e
  BY <1>1, OneEvent
<1>3. HeldBy(km, hs) \in SUBSET Keys
  BY DEF HeldBy
<1>4. \A A \in SUBSET Keys : Toggles(<<e>>, A, A)
  <2>1. \A A \in SUBSET Keys : Turn(A, e, A)
    BY <1>1 DEF Turn, After
  <2> QED BY <2>1, <1>1, TogglesOne
<1>5. AsAsked(km, <<e>>)
  <2>1. DOMAIN <<e>> = 1..1
    BY <1>2, LenProperties
  <2> QED BY <2>1, <1>1, <1>2 DEF AsAsked
<1>6. Served(km, board, events \o <<e>>, hs)
  BY <1>2, <1>3, <1>4, <1>5, ServedStage DEF Served
<1> QED BY <1>4, <1>5, <1>6 DEF e

-----------------------------------------------------------------------------
(* A splice that takes no slot in use changes nothing for a session.       *)
LEMMA ServedSplice ==
  ASSUME NEW km \in Keymaps, NEW km2 \in Keymaps, Sound(km2), NEW board, NEW board2,
         NEW events \in Seq(Events), NEW hs \in SUBSET (Vias \X Keysyms), Served(km, board, events, hs),
         board2.held = board.held, board2.unframed = board.unframed,
         \A slot \in Slots : slot \in board.held \/ Touches(events, slot) => km2[slot] = km[slot]
  PROVE  Served(km2, board2, events, hs)
<1>1. ASSUME NEW key \in Keys, key \in Slots => km2[key] = km[key]
      PROVE  FirstSym(km2, key) = FirstSym(km, key)
  BY <1>1 DEF FirstSym, Symbols
<1>2. ASSUME NEW key \in Slots, key \in HeldBy(km, hs) PROVE km2[key] = km[key]
  BY <1>2, Untouched DEF Served
<1>3. ASSUME NEW key \in HeldBy(km, hs) PROVE FirstSym(km2, key) = FirstSym(km, key) /\ key \in Keys
  <2>1. key \in Keys /\ (key \in Slots => km2[key] = km[key])
    BY <1>3, <1>2 DEF HeldBy
  <2> QED BY <2>1, <1>1
<1>4. AsAsked(km2, events)
  <2>1. ASSUME NEW i \in DOMAIN events, events[i].kind = "key"
        PROVE  FirstSym(km2, events[i].key) = FirstSym(km, events[i].key)
    <3>1. events[i] \in Events
      BY ElementOfSeq, LenProperties
    <3>2. events[i].key \in Keys
      BY <3>1, <2>1 DEF Events
    <3>3. events[i].key \in Slots => km2[events[i].key] = km[events[i].key]
      BY <2>1 DEF Touches
    <3> QED BY <3>2, <3>3, <1>1
  <2> QED BY <2>1 DEF AsAsked, Served
<1>5. Holds(km2, hs)
  <2>1. ASSUME NEW h \in hs PROVE \E key \in Keys : FirstSym(km2, key) = h[2]
    <3>1. PICK key \in Keys : FirstSym(km, key) = h[2]
      BY DEF Served, Holds
    <3>2. key \in HeldBy(km, hs)
      BY <3>1 DEF HeldBy, Held
    <3> QED BY <3>1, <3>2, <1>3
  <2> QED BY <2>1 DEF Served, Holds
<1>6. HeldBy(km, hs) \subseteq HeldBy(km2, hs)
  BY <1>3 DEF HeldBy
<1>7. HeldBy(km2, hs) \subseteq HeldBy(km, hs)
  <2>1. SUFFICES ASSUME NEW key \in Keys, NEW h \in hs, FirstSym(km2, key) = h[2]
                 PROVE  FirstSym(km, key) = h[2]
    BY DEF HeldBy, Held
  <2>2. PICK other \in Keys : FirstSym(km, other) = h[2]
    BY DEF Served, Holds
  <2>3. FirstSym(km2, other) = h[2]
    <3>1. other \in HeldBy(km, hs)
      BY <2>2 DEF HeldBy, Held
    <3> QED BY <3>1, <2>2, <1>3
  <2>4. CASE key \notin Slots
    BY <2>1, <2>4, <1>1
  <2>5. CASE key \in Slots
    <3>1. h[2] \in Unlisted \cup {None}
      BY <2>1, <2>5, FirstSyms
    <3>2. other \in Slots /\ km2[other] = h[2] /\ km2[key] = h[2]
      BY <3>1, <2>1, <2>3, <2>5, FirstSyms
    <3>3. h[2] # None
      <4>1. h[2] \in Keysyms
        OBVIOUS
      <4>2. None \notin Keysyms
        BY InputAssumption DEF Keysyms
      <4> QED BY <4>1, <4>2
    <3>4. key = other
      BY <3>2, <3>3, <2>5 DEF Sound
    <3> QED BY <3>4, <2>2
  <2> QED BY <2>4, <2>5
<1>8. HeldBy(km2, hs) = HeldBy(km, hs)
  BY <1>6, <1>7
<1>9. Toggles(events, board2.held, HeldBy(km2, hs)) /\ board2.unframed = FALSE
  BY <1>8 DEF Served
<1> QED BY <1>4, <1>5, <1>9 DEF Served

-----------------------------------------------------------------------------
(* A batch on its way to the keyboard.                                     *)

Downs(dn, held) == \A m \in ModKeys : dn[m] = IF m \in held THEN 1 ELSE 0

Fine(st, held) == ~st.failed /\ st.wrong \subseteq {"modifiers"} /\ st.kbd.held = held
Exact(st, held) == st.wrong = {} /\ Downs(st.down, held)

LEMMA FineStep ==
  ASSUME NEW st \in States, NEW A \in SUBSET Keys, Fine(st, A), NEW e \in Events, NEW B, Turn(A, e, B),
         e.kind # "touch", e.kind = "key" => FirstSym(st.kbd.keymap, e.key) = e.asked
  PROVE  /\ Fine(apply_event(st, e), B)
         /\ Exact(st, A) => Exact(apply_event(st, e), B)
         /\ apply_event(st, e).kbd.unframed => st.kbd.unframed \/ e.kind = "pointer"
<1>1. st.kbd \in Keyboard /\ st.down \in [ModKeys -> Nat]
  BY DEF States
<1>2. CASE e.kind = "key"
  <2> DEFINE dn == update_key(st.down, e.key, e.pressed)
             held == IF e.pressed THEN st.kbd.held \cup {e.key} ELSE st.kbd.held \ {e.key}
             typed == Symbols(st.kbd.keymap, e.key)[1]
             wr == st.wrong \cup {w \in {"symbol"} : e.pressed /\ typed # e.asked}
                     \cup {w \in {"modifiers"} : Pressed(dn) # held \cap ModKeys}
             b == [keymap |-> st.kbd.keymap, held |-> held, mods |-> Pressed(dn), unframed |-> st.kbd.unframed]
  <2>1. /\ dn \in [ModKeys -> Nat]
        /\ apply_event(st, e) = [kbd |-> b, down |-> dn, failed |-> st.failed, wrong |-> wr]
    BY <1>2, ApplyKey DEF Fine
  <2>2. held = B /\ (e.pressed <=> e.key \notin A) /\ typed = e.asked
    BY <1>2 DEF Turn, After, Fine, FirstSym
  <2>3. ASSUME Downs(st.down, A) PROVE Downs(dn, B)
    <3>1. CASE e.key \notin ModKeys
      <4>1. dn = st.down /\ \A m \in ModKeys : m \in B <=> m \in A
        BY <3>1, <1>2 DEF update_key, Turn, After
      <4> QED BY <4>1, <2>3 DEF Downs
    <3>2. CASE e.key \in ModKeys /\ e.pressed
      <4>1. st.down[e.key] = 0 /\ dn = [st.down EXCEPT ![e.key] = st.down[e.key] + 1]
        BY <3>2, <2>2, <2>3 DEF update_key, Downs
      <4>2. dn = [st.down EXCEPT ![e.key] = 1] /\ B = A \cup {e.key}
        BY <4>1, <3>2, <1>2 DEF Turn, After
      <4> HIDE DEF dn
      <4> QED BY <4>2, <3>2, <1>1, <2>3 DEF Downs
    <3>3. CASE e.key \in ModKeys /\ ~e.pressed
      <4>1. st.down[e.key] = 1
        BY <3>3, <2>2, <2>3 DEF Downs
      <4>2. dn = [st.down EXCEPT ![e.key] = 0] /\ B = A \ {e.key}
        BY <4>1, <3>3, <1>2 DEF Turn, After, update_key
      <4> HIDE DEF dn
      <4> QED BY <4>2, <3>3, <1>1, <2>3 DEF Downs
    <3> QED BY <3>1, <3>2, <3>3
  <2> HIDE DEF dn, held, typed
  <2>4. Downs(st.down, A) => Pressed(dn) = B \cap ModKeys
    BY <2>3 DEF Pressed, Downs
  <2>5. wr \subseteq {"modifiers"} /\ (Exact(st, A) => wr = {})
    BY <2>2, <2>4 DEF Fine, Exact
  <2> HIDE DEF wr
  <2>6. b.held = B /\ b.unframed = st.kbd.unframed
    BY <2>2
  <2> HIDE DEF b
  <2> QED BY <2>1, <2>3, <2>5, <2>6 DEF Fine, Exact
<1>3. CASE e.kind # "key"
  <2> DEFINE b == [keymap |-> st.kbd.keymap, held |-> st.kbd.held, mods |-> st.kbd.mods, unframed |-> TRUE]
  <2>1. e.kind = "pointer" /\ B = A
    BY <1>3 DEF Events, Turn, After
  <2>2. apply_event(st, e) = [kbd |-> b, down |-> st.down, failed |-> st.failed, wrong |-> st.wrong]
    BY <2>1, <1>3, ApplyOther DEF Fine
  <2>3. b.held = st.kbd.held
    OBVIOUS
  <2> HIDE DEF b
  <2> QED BY <2>1, <2>2, <2>3 DEF Fine, Exact
<1> QED BY <1>2, <1>3

(* A batch that is typed as asked turns the keys held as its events do.    *)
LEMMA BatchServed ==
  ASSUME NEW board \in Keyboard, board.unframed = FALSE, NEW dn \in [ModKeys -> Nat],
         NEW batch \in Seq(Events), AsAsked(board.keymap, batch), NEW B, Toggles(batch, board.held, B)
  PROVE  LET r == inject_event_batch(board, dn, batch)
         IN  /\ r.kbd.held = B /\ r.kbd.unframed = FALSE /\ r.wrong \subseteq {"modifiers"}
             /\ Downs(dn, board.held) => r.wrong = {} /\ Downs(r.down, B)
<1> DEFINE start == [kbd |-> board, down |-> dn, failed |-> FALSE,
                     wrong |-> IF board.unframed THEN {"frame"} ELSE {}]
           n == Len(batch)
           last == Applied(start, batch)
<1>1. /\ start \in States /\ start.kbd = board /\ Fine(start, board.held)
      /\ Downs(dn, board.held) => Exact(start, board.held)
  BY DEF States, Wrongs, Fine, Exact
<1>2. inject_event_batch(board, dn, batch) = commit_and_flush(last, HasPointer(batch))
  BY DEF inject_event_batch
<1> HIDE DEF start
<1>3. PICK f \in [0..n -> States] : Through(f, start, batch) /\ last = f[n]
  BY <1>1, AppliedSteps
<1>4. n \in Nat /\ DOMAIN batch = 1..n /\ \A i \in 1..n : batch[i] \in Events
  BY LenProperties
<1>5. PICK H \in [0..n -> SUBSET Keys] : H[0] = board.held /\ H[n] = B /\ Turns(H, batch)
  BY DEF Toggles
<1>6. f[0] = start /\ \A i \in 1..n : f[i] = apply_event(f[i - 1], batch[i]) /\ Turn(H[i - 1], batch[i], H[i])
  BY <1>3, <1>5 DEF Through, Turns
<1> HIDE DEF n, last
<1> DEFINE T == {i \in Nat : i <= n => /\ Fine(f[i], H[i])
                                       /\ Downs(dn, board.held) => Exact(f[i], H[i])
                                       /\ f[i].kbd.keymap = board.keymap
                                       /\ f[i].kbd.unframed => HasPointer(batch)}
<1>7. 0 \in T
  BY <1>1, <1>5, <1>6
<1>8. ASSUME NEW i \in Nat, i \in T PROVE i + 1 \in T
  <2>1. SUFFICES ASSUME i + 1 <= n
                 PROVE  /\ Fine(f[i + 1], H[i + 1])
                        /\ Downs(dn, board.held) => Exact(f[i + 1], H[i + 1])
                        /\ f[i + 1].kbd.keymap = board.keymap
                        /\ f[i + 1].kbd.unframed => HasPointer(batch)
    BY <1>8
  <2>2. i \in 0..n /\ i + 1 \in 1..n /\ (i + 1) - 1 = i /\ i + 1 \in 0..n
    BY <2>1, <1>4
  <2>3. /\ Fine(f[i], H[i]) /\ (Downs(dn, board.held) => Exact(f[i], H[i]))
        /\ f[i].kbd.keymap = board.keymap /\ (f[i].kbd.unframed => HasPointer(batch))
        /\ f[i] \in States /\ H[i] \in SUBSET Keys /\ batch[i + 1] \in Events
    BY <2>2, <1>3, <1>4, <1>5, <1>8
  <2>4. f[i + 1] = apply_event(f[i], batch[i + 1]) /\ Turn(H[i], batch[i + 1], H[i + 1])
    BY <2>2, <1>6
  <2>5. /\ batch[i + 1].kind # "touch"
        /\ batch[i + 1].kind = "key" => FirstSym(board.keymap, batch[i + 1].key) = batch[i + 1].asked
        /\ batch[i + 1].kind = "pointer" => HasPointer(batch)
    BY <2>2, <1>4 DEF AsAsked, HasPointer
  <2> HIDE DEF T
  <2>6. /\ Fine(apply_event(f[i], batch[i + 1]), H[i + 1])
        /\ Exact(f[i], H[i]) => Exact(apply_event(f[i], batch[i + 1]), H[i + 1])
        /\ apply_event(f[i], batch[i + 1]).kbd.unframed => f[i].kbd.unframed \/ batch[i + 1].kind = "pointer"
    BY <2>3, <2>4, <2>5, FineStep
  <2>7. apply_event(f[i], batch[i + 1]).kbd.keymap = board.keymap
    BY <2>3, ApplyType
  <2> QED BY <2>3, <2>4, <2>5, <2>6, <2>7
<1> HIDE DEF T
<1>9. n \in T /\ n \in 0..n
  BY <1>4, <1>7, <1>8, Induct
<1>10. /\ last \in States /\ Fine(last, B) /\ (last.kbd.unframed => HasPointer(batch))
       /\ Downs(dn, board.held) => Exact(last, B)
  BY <1>3, <1>4, <1>5, <1>9 DEF T
<1>11. LET r == commit_and_flush(last, HasPointer(batch))
       IN  /\ r.kbd.held = B /\ r.kbd.unframed = FALSE /\ r.wrong \subseteq {"modifiers"}
           /\ Downs(dn, board.held) => r.wrong = {} /\ Downs(r.down, B)
  <2>1. last.kbd \in Keyboard /\ last.kbd.unframed \in BOOLEAN
    BY <1>10 DEF States, Keyboard
  <2>2. CASE ~HasPointer(batch)
    BY <2>1, <2>2, <1>10 DEF commit_and_flush, Fine, Exact
  <2>3. CASE HasPointer(batch)
    <3> DEFINE b == [keymap |-> last.kbd.keymap, held |-> last.kbd.held, mods |-> last.kbd.mods, unframed |-> FALSE]
    <3>1. commit_and_flush(last, HasPointer(batch)) = [last EXCEPT !.kbd.unframed = FALSE]
      BY <2>3, <1>10 DEF commit_and_flush, Fine
    <3>2. commit_and_flush(last, HasPointer(batch)) =
            [kbd |-> b, down |-> last.down, failed |-> last.failed, wrong |-> last.wrong]
      BY <3>1, <1>10, StateFrame
    <3>3. b.held = last.kbd.held /\ b.unframed = FALSE
      OBVIOUS
    <3> HIDE DEF b
    <3> QED BY <3>2, <3>3, <1>10 DEF Fine, Exact
  <2> QED BY <2>2, <2>3
<1> QED BY <1>2, <1>11

-----------------------------------------------------------------------------
(* What injection keeps true.                                              *)

Counted(dn, boards) ==
  \A m \in ModKeys : dn[m] = IF \E s \in Sessions : boards[s] # None /\ m \in boards[s].held THEN 1 ELSE 0

NInv ==
  /\ KInv
  /\ wrong \subseteq {"modifiers"}
  /\ "shared_mods" \notin Faults => wrong = {} /\ Counted(down, kbd)
  /\ \A s \in Sessions : kbd[s] # None => Served(keymap, kbd[s], pending[s], holding[s])

LEMMA NTypes ==
  ASSUME NInv
  PROVE  /\ keymap \in Keymaps /\ Sound(keymap) /\ down \in [ModKeys -> Nat]
         /\ kbd \in [Sessions -> Keyboard \cup {None}] /\ pending \in [Sessions -> Seq(Events)]
         /\ holding \in [Sessions -> SUBSET (Vias \X Keysyms)]
         /\ xkb \in Xkbs /\ xkb.keymap = xkb.pool.slots /\ xkb.keymap = keymap /\ xkb.down = down
         /\ \A s \in Sessions : kbd[s] # None => kbd[s] \in Keyboard /\ kbd[s].keymap = keymap
         /\ \A s \in Sessions : kbd[s] = None => pending[s] = <<>> /\ holding[s] = {}
<1>1. TInv /\ keymap = pool.slots /\ \A s \in Sessions : kbd[s] # None => kbd[s].keymap = keymap
  BY DEF NInv, KInv
<1>2. xkb \in Xkbs /\ xkb.keymap = xkb.pool.slots /\ xkb.keymap = keymap /\ xkb.down = down
  BY <1>1, XkbTypes DEF xkb
<1>3. keymap \in Keymaps /\ Sound(keymap)
  BY <1>1 DEF TInv, Pools
<1> QED BY <1>1, <1>2, <1>3 DEF TInv, TypeOK, Vias

(* A keymap is spliced only while no modifier is down.                     *)
LEMMA QuietDown ==
  ASSUME NInv, NEW x, SpliceIsQuiet(x), x.keymap # keymap
  PROVE  down = [m \in ModKeys |-> 0]
<1>1. Pressed(down) = {}
  BY DEF SpliceIsQuiet
<1>2. down \in [ModKeys -> Nat]
  BY NTypes
<1>3. \A m \in ModKeys : down[m] = 0
  BY <1>1, <1>2 DEF Pressed
<1> QED BY <1>2, <1>3

LEMMA PlainTyped ==
  ASSUME NEW km \in Keymaps, NEW key \in Keys, NEW k \in Range(Symbols(km, key)), Plain(k)
  PROVE  FirstSym(km, key) = k
<1>1. CASE key \in Slots
  BY <1>1 DEF FirstSym, Symbols, Range
<1>2. CASE key \notin Slots
  <2>1. key \in DOMAIN Layout /\ Symbols(km, key) = Layout[key]
    BY <1>2 DEF Keys, Symbols
  <2> QED BY <2>1 DEF FirstSym, Plain
<1> QED BY <1>1, <1>2

(* A keysym that is asked for gets a key that types it.                    *)
LEMMA KeysymTyped ==
  ASSUME NInv, NEW k \in Keysyms, Plain(k), NEW compiles \in BOOLEAN, compiles = TRUE,
         SpliceIsQuiet(keysym_to_keycode(xkb, k, compiles).xkb)
  PROVE  /\ keysym_to_keycode(xkb, k, compiles).xkb \in Xkbs
         /\ keysym_to_keycode(xkb, k, compiles).xkb.keymap = keysym_to_keycode(xkb, k, compiles).xkb.pool.slots
         /\ keysym_to_keycode(xkb, k, compiles).xkb.down = down
         /\ keysym_to_keycode(xkb, k, compiles).key \in Keys
         /\ FirstSym(keysym_to_keycode(xkb, k, compiles).xkb.keymap, keysym_to_keycode(xkb, k, compiles).key) = k
<1> DEFINE r == keysym_to_keycode(xkb, k, compiles)
<1>0. compiles = TRUE
  OBVIOUS
<1>1. keymap \in Keymaps /\ xkb \in Xkbs /\ xkb.keymap = xkb.pool.slots /\ xkb.keymap = keymap /\ xkb.down = down
  BY NTypes
<1>2. r.xkb \in Xkbs /\ r.xkb.keymap = r.xkb.pool.slots /\ r.key \in Keys
      /\ (Kept(xkb, r.xkb, k, r.key) \/ Spliced(xkb, r.xkb, k, r.key))
  BY <1>0, <1>1, KeysymTypes
<1>3. SpliceIsQuiet(r.xkb)
  OBVIOUS
<1> HIDE DEF r
<1>4. CASE Kept(xkb, r.xkb, k, r.key)
  <2>1. r.xkb = xkb /\ r.key \in static_keysym_to_keycode(keymap, k)
    BY <1>1, <1>4 DEF Kept
  <2>2. FirstSym(keymap, r.key) = k
    BY <2>1, <1>1, <1>2, PlainTyped DEF static_keysym_to_keycode
  <2>3. r.xkb.keymap = keymap /\ r.xkb.down = down
    BY <2>1, <1>1
  <2>4. FirstSym(r.xkb.keymap, r.key) = k
    BY <2>2, <2>3
  <2> QED BY <2>3, <2>4, <1>2 DEF r
<1>5. CASE Spliced(xkb, r.xkb, k, r.key)
  <2>1. /\ r.key \in Slots /\ r.xkb.keymap = [keymap EXCEPT ![r.key] = k] /\ keymap[r.key] # k
        /\ r.xkb.down = [m \in ModKeys |-> 0]
    BY <1>1, <1>5 DEF Spliced
  <2>2. r.xkb.keymap[r.key] = k
    BY <2>1, <1>1 DEF Keymaps
  <2>3. r.xkb.keymap # keymap
    BY <2>1, <2>2
  <2>4. r.xkb.down = down
    BY <2>1, <2>3, <1>3, QuietDown
  <2>5. FirstSym(r.xkb.keymap, r.key) = k
    BY <2>1, <2>2, <1>2, FirstSyms DEF Xkbs
  <2> QED BY <2>4, <2>5, <1>2 DEF r
<1> QED BY <1>2, <1>4, <1>5

(* Every session is served under the new keymap as under the old.          *)
LEMMA SpliceServed ==
  ASSUME NInv, NEW x \in Xkbs, x.keymap = x.pool.slots, x.down = down, SpliceIsQuiet(x)
  PROVE  /\ Counted(down, kbd) => Counted(x.down, Uploaded(kbd, x))
         /\ \A s \in Sessions : kbd[s] # None => Served(x.keymap, Uploaded(kbd, x)[s], pending[s], holding[s])
<1> DEFINE boards == Uploaded(kbd, x)
<1>1. /\ keymap \in Keymaps /\ kbd \in [Sessions -> Keyboard \cup {None}]
      /\ \A s \in Sessions : pending[s] \in Seq(Events) /\ holding[s] \in SUBSET (Vias \X Keysyms)
  BY NTypes
<1>2. \A s \in Sessions : kbd[s] # None => Served(keymap, kbd[s], pending[s], holding[s])
  BY DEF NInv
<1>3. \A s \in Sessions : /\ boards[s] = None <=> kbd[s] = None
                          /\ kbd[s] # None => boards[s].held = kbd[s].held /\ boards[s].unframed = kbd[s].unframed
  BY <1>1, UploadTypes
<1>4. x.keymap \in Keymaps /\ Sound(x.keymap)
  BY DEF Xkbs, Pools
<1>5. x.keymap = keymap => boards = kbd
  BY DEF Uploaded
<1> HIDE DEF boards
<1>6. Counted(down, kbd) => Counted(x.down, boards)
  BY <1>3 DEF Counted
<1>7. ASSUME NEW s \in Sessions, kbd[s] # None PROVE Served(x.keymap, boards[s], pending[s], holding[s])
  <2>1. CASE x.keymap = keymap
    BY <2>1, <1>2, <1>5, <1>7
  <2>2. CASE x.keymap # keymap
    <3>1. \A slot \in Slots : slot \in kbd[s].held \/ Touches(pending[s], slot) => x.keymap[slot] = keymap[slot]
      BY <2>2, <1>7 DEF SpliceIsQuiet, InUse, Touches
    <3>2. /\ boards[s].held = kbd[s].held /\ boards[s].unframed = kbd[s].unframed
          /\ Served(keymap, kbd[s], pending[s], holding[s])
          /\ pending[s] \in Seq(Events) /\ holding[s] \in SUBSET (Vias \X Keysyms)
      BY <1>1, <1>2, <1>3, <1>7
    <3> QED BY <3>1, <3>2, <1>1, <1>4, ServedSplice
  <2> QED BY <2>1, <2>2
<1> QED BY <1>6, <1>7 DEF boards

(* A batch for s. The modifiers are right while no other session holds one. *)
With(boards, s, b) == [boards EXCEPT ![s] = b]

Alone(boards, s) == \A t \in Sessions \ {s} : boards[t] # None => boards[t].held \cap ModKeys = {}

Delivered(boards, dn, s, r, B) ==
  /\ r.kbd \in Keyboard /\ r.kbd # None /\ r.kbd.held = B /\ r.kbd.unframed = FALSE
  /\ r.wrong \subseteq {"modifiers"}
  /\ Counted(dn, boards) /\ Alone(boards, s) => r.wrong = {} /\ Counted(r.down, With(boards, s, r.kbd))

LEMMA DeliverServed ==
  ASSUME NEW boards \in [Sessions -> Keyboard \cup {None}], NEW dn \in [ModKeys -> Nat],
         NEW s \in Sessions, boards[s] # None, boards[s].unframed = FALSE,
         NEW batch \in Seq(Events), AsAsked(boards[s].keymap, batch), NEW B, Toggles(batch, boards[s].held, B)
  PROVE  Delivered(boards, dn, s, inject_event_batch(boards[s], dn, batch), B)
<1> DEFINE r == inject_event_batch(boards[s], dn, batch)
<1>1. boards[s] \in Keyboard
  OBVIOUS
<1>2. Counted(dn, boards) /\ Alone(boards, s) => Downs(dn, boards[s].held)
  BY DEF Counted, Downs, Alone
<1>3. /\ r.kbd.held = B /\ r.kbd.unframed = FALSE /\ r.wrong \subseteq {"modifiers"}
      /\ Downs(dn, boards[s].held) => r.wrong = {} /\ Downs(r.down, B)
  BY <1>1, BatchServed
<1>4. r.kbd \in Keyboard /\ r.kbd # None
  BY <1>1, BatchType, InputAssumption DEF States
<1> HIDE DEF r
<1>5. ASSUME Counted(dn, boards), Alone(boards, s) PROVE r.wrong = {} /\ Counted(r.down, With(boards, s, r.kbd))
  <2> DEFINE after == With(boards, s, r.kbd)
  <2>1. after[s] = r.kbd /\ \A t \in Sessions \ {s} : after[t] = boards[t]
    BY DEF With
  <2> HIDE DEF after
  <2>2. ASSUME NEW m \in ModKeys PROVE (\E t \in Sessions : after[t] # None /\ m \in after[t].held) <=> m \in B
    BY <2>1, <1>3, <1>4, <1>5 DEF Alone
  <2>3. r.wrong = {} /\ Counted(r.down, after)
    BY <2>2, <1>2, <1>3, <1>5 DEF Counted, Downs
  <2> QED BY <2>3 DEF after
<1> QED BY <1>3, <1>4, <1>5 DEF r, Delivered

(* A key event that goes past what is staged.                              *)
Passes(km, board, events, hs, e) ==
  /\ AsAsked(km, <<e>>)
  /\ Toggles(<<e>>, board.held, After(board.held, e))
  /\ \A b : b.held = After(board.held, e) /\ b.unframed = FALSE => Served(km, b, events, hs)

LEMMA ServedDirect ==
  ASSUME OneKeyEach, NEW km \in Keymaps, Sound(km), NEW board \in Keyboard, NEW events \in Seq(Events),
         NEW hs \in SUBSET (Vias \X Keysyms), NEW hs2, Served(km, board, events, hs),
         NEW via \in Vias, NEW k \in Keysyms, NEW pressed \in BOOLEAN,
         Asking(hs, via, k, pressed, hs2), NEW key \in Keys, FirstSym(km, key) = k,
         \A i \in DOMAIN events : events[i].kind = "key" => events[i].asked # k
  PROVE  Passes(km, board, events, hs2, KeyEvent(key, pressed, k))
<1> DEFINE e == KeyEvent(key, pressed, k)
           A == board.held
<1>1. Holds(km, hs2) /\ Turn(HeldBy(km, hs), e, HeldBy(km, hs2))
  BY AskedTurn DEF Served
<1>2. e \in Events /\ e.kind = "key" /\ e.key = key /\ e.asked = k /\ e.pressed = pressed
  BY KeyEventType
<1> HIDE DEF e
<1>3. ~Touches(events, key)
  BY DEF Touches, Served, AsAsked
<1>4. Toggles(events, A, HeldBy(km, hs)) /\ AsAsked(km, events) /\ A \in SUBSET Keys
  BY DEF Served, Keyboard
<1>5. key \in A <=> key \in HeldBy(km, hs)
  BY <1>3, <1>4, Untouched
<1> HIDE DEF A
<1>6. Turn(A, e, After(A, e))
  BY <1>1, <1>2, <1>5 DEF Turn
<1>7. Toggles(<<e>>, A, After(A, e))
  BY <1>2, <1>4, <1>6, TogglesOne
<1>8. AsAsked(km, <<e>>)
  <2>1. <<e>> \in Seq(Events) /\ Len(<<e>>) = 1 /\ <<e>>[1] = e
    BY <1>2, OneEvent
  <2>2. DOMAIN <<e>> = 1..1
    BY <2>1, LenProperties
  <2> QED BY <2>1, <2>2, <1>2 DEF AsAsked
<1>9. Toggles(events, After(A, e), HeldBy(km, hs2))
  <2>1. Toggles(events, A \cup {key}, HeldBy(km, hs) \cup {key}) /\ Toggles(events, A \ {key}, HeldBy(km, hs) \ {key})
    BY <1>3, <1>4, TogglesApart
  <2> QED BY <2>1, <1>1, <1>2 DEF Turn, After
<1>10. \A b : b.held = After(A, e) /\ b.unframed = FALSE => Served(km, b, events, hs2)
  BY <1>1, <1>4, <1>9 DEF Served
<1> QED BY <1>7, <1>8, <1>10 DEF e, A, Passes

-----------------------------------------------------------------------------
(* Texts: as long as the keymap is the old one nothing was spliced, and    *)
(* what a splice took is among the events.                                 *)

LEMMA TypedOnceEvents ==
  ASSUME NEW key \in Keys, NEW k \in Keysyms
  PROVE  /\ TypedOnce(key, k) \in Seq(Events)
         /\ \A i \in DOMAIN TypedOnce(key, k) :
              /\ TypedOnce(key, k)[i].kind = "key"
              /\ TypedOnce(key, k)[i].key = key /\ TypedOnce(key, k)[i].asked = k
         /\ \E i \in DOMAIN TypedOnce(key, k) : TypedOnce(key, k)[i].key = key /\ TypedOnce(key, k)[i].asked = k
         /\ \A B \in SUBSET Keys : key \notin B => Toggles(TypedOnce(key, k), B, B)
<1> DEFINE two == TypedOnce(key, k)
           a == KeyEvent(key, TRUE, k)
           b == KeyEvent(key, FALSE, k)
<1>1. two \in Seq(Events) /\ Len(two) = 2 /\ two[1] = a /\ two[2] = b
  BY PressRelease DEF TypedOnce
<1>2. /\ a.kind = "key" /\ a.key = key /\ a.asked = k /\ a.pressed = TRUE
      /\ b.kind = "key" /\ b.key = key /\ b.asked = k /\ b.pressed = FALSE
  BY DEF KeyEvent
<1> HIDE DEF two, a, b
<1>3. DOMAIN two = 1..2
  BY <1>1, LenProperties
<1>4. \A i \in DOMAIN two : two[i].kind = "key" /\ two[i].key = key /\ two[i].asked = k
  <2>1. \A i \in 1..2 : i = 1 \/ i = 2
    OBVIOUS
  <2> QED BY <2>1, <1>1, <1>2, <1>3
<1>5. \E i \in DOMAIN two : two[i].key = key /\ two[i].asked = k
  <2>1. 1 \in DOMAIN two
    BY <1>3
  <2> QED BY <2>1, <1>4
<1>6. ASSUME NEW B \in SUBSET Keys, key \notin B PROVE Toggles(two, B, B)
  <2> DEFINE H == [i \in 0..2 |-> IF i = 1 THEN B \cup {key} ELSE B]
  <2>1. H \in [0..2 -> SUBSET Keys] /\ H[0] = B /\ H[1] = B \cup {key} /\ H[2] = B
    OBVIOUS
  <2> HIDE DEF H
  <2>2. Turn(B, a, B \cup {key}) /\ Turn(B \cup {key}, b, B)
    BY <1>2, <1>6 DEF Turn, After
  <2>3. ASSUME NEW i \in 1..2 PROVE Turn(H[i - 1], two[i], H[i])
    <3>1. CASE i = 1
      <4>1. i - 1 = 0
        BY <3>1
      <4> QED BY <4>1, <3>1, <2>1, <2>2, <1>1
    <3>2. CASE i = 2
      <4>1. i - 1 = 1
        BY <3>2
      <4> QED BY <4>1, <3>2, <2>1, <2>2, <1>1
    <3> QED BY <3>1, <3>2
  <2>4. Turns(H, two)
    BY <2>3, <1>1 DEF Turns
  <2> QED BY <2>1, <2>4, <1>1 DEF Toggles
<1> QED BY <1>1, <1>4, <1>5, <1>6 DEF two

TextSound(st, syms) ==
  /\ st.xkb.keymap = st.xkb.pool.slots
  /\ st.xkb.down = down \/ st.xkb.down = [m \in ModKeys |-> 0]
  /\ \/ st.xkb = xkb
     \/ \E j \in DOMAIN st.events : /\ st.events[j].key \in Slots
                                    /\ \A slot \in Slots : keymap[slot] # st.events[j].asked
  /\ \A j \in DOMAIN st.events : st.events[j].kind = "key" /\ st.events[j].asked \in syms
  /\ \A B \in SUBSET Keys : (\A key \in B : ~Touches(st.events, key)) => Toggles(st.events, B, B)

LEMMA TextStep ==
  ASSUME NInv, NEW st \in Staged, NEW syms, TextSound(st, syms), NEW k \in Keysyms, k \in syms,
         NEW compiles \in BOOLEAN, compiles = TRUE
  PROVE  TextSound(StageChar(st, k, compiles), syms)
<1> DEFINE r == keysym_to_keycode(st.xkb, k, compiles)
           nx == StageChar(st, k, compiles)
           two == TypedOnce(r.key, k)
<1>0. compiles = TRUE
  OBVIOUS
<1>1. st.xkb \in Xkbs /\ st.events \in Seq(Events) /\ st.xkb.keymap = st.xkb.pool.slots
  BY DEF Staged, TextSound
<1>2. r.xkb \in Xkbs /\ r.xkb.keymap = r.xkb.pool.slots /\ r.key \in Keys
      /\ (Kept(st.xkb, r.xkb, k, r.key) \/ Spliced(st.xkb, r.xkb, k, r.key))
  BY <1>0, <1>1, KeysymTypes
<1>3. r.key # None
  BY <1>2, InputAssumption
<1>4. nx.xkb = r.xkb /\ nx.events = st.events \o two
  BY <1>3, StageCharFields
<1> HIDE DEF r, nx
<1>5. /\ two \in Seq(Events)
      /\ \A i \in DOMAIN two : two[i].kind = "key" /\ two[i].key = r.key /\ two[i].asked = k
      /\ \E i \in DOMAIN two : two[i].key = r.key /\ two[i].asked = k
      /\ \A B \in SUBSET Keys : r.key \notin B => Toggles(two, B, B)
  BY <1>2, TypedOnceEvents
<1> HIDE DEF two
<1>6. /\ \A i \in DOMAIN nx.events : \/ \E j \in DOMAIN st.events : nx.events[i] = st.events[j]
                                    \/ \E j \in DOMAIN two : nx.events[i] = two[j]
      /\ \A j \in DOMAIN st.events : \E i \in DOMAIN nx.events : nx.events[i] = st.events[j]
      /\ \A j \in DOMAIN two : \E i \in DOMAIN nx.events : nx.events[i] = two[j]
  <2>1. FromBoth(st.events \o two, st.events, two)
    BY <1>1, <1>5, JoinedEvents
  <2>2. FromBoth(nx.events, st.events, two)
    BY <2>1, <1>4
  <2> QED BY <2>2 DEF FromBoth
<1>7. nx.xkb.keymap = nx.xkb.pool.slots
  BY <1>2, <1>4
<1>8. nx.xkb.down = down \/ nx.xkb.down = [m \in ModKeys |-> 0]
  BY <1>2, <1>4 DEF Kept, Spliced, TextSound
<1>9. \/ nx.xkb = xkb
      \/ \E j \in DOMAIN nx.events : /\ nx.events[j].key \in Slots
                                     /\ \A slot \in Slots : keymap[slot] # nx.events[j].asked
  <2>1. CASE st.xkb = xkb /\ Kept(st.xkb, r.xkb, k, r.key)
    BY <2>1, <1>4 DEF Kept
  <2>2. CASE st.xkb = xkb /\ Spliced(st.xkb, r.xkb, k, r.key)
    <3>1. r.key \in Slots /\ \A slot \in Slots : keymap[slot] # k
      BY <2>2, NTypes DEF Spliced
    <3>2. PICK i \in DOMAIN two : two[i].key = r.key /\ two[i].asked = k
      BY <1>5
    <3>3. PICK j \in DOMAIN nx.events : nx.events[j] = two[i]
      BY <1>6
    <3> QED BY <3>1, <3>2, <3>3
  <2>3. CASE st.xkb # xkb
    <3>1. PICK i \in DOMAIN st.events : /\ st.events[i].key \in Slots
                                        /\ \A slot \in Slots : keymap[slot] # st.events[i].asked
      BY <2>3 DEF TextSound
    <3>2. PICK j \in DOMAIN nx.events : nx.events[j] = st.events[i]
      BY <1>6
    <3> QED BY <3>1, <3>2
  <2> QED BY <2>1, <2>2, <2>3, <1>2
<1>10. \A j \in DOMAIN nx.events : nx.events[j].kind = "key" /\ nx.events[j].asked \in syms
  BY <1>5, <1>6 DEF TextSound
<1>11. ASSUME NEW B \in SUBSET Keys, \A key \in B : ~Touches(nx.events, key) PROVE Toggles(nx.events, B, B)
  <2>1. \A key \in B : ~Touches(st.events, key)
    BY <1>6, <1>11 DEF Touches
  <2>2. r.key \notin B
    <3>1. Touches(nx.events, r.key)
      BY <1>5, <1>6 DEF Touches
    <3> QED BY <3>1, <1>11
  <2>3. Toggles(st.events, B, B) /\ Toggles(two, B, B)
    BY <2>1, <2>2, <1>5 DEF TextSound
  <2> QED BY <2>3, <1>1, <1>4, <1>5, TogglesJoin
<1> HIDE DEF TextSound
<1>12. TextSound(nx, syms)
  BY <1>7, <1>8, <1>9, <1>10, <1>11 DEF TextSound
<1> QED BY <1>12 DEF nx

LEMMA TextIsSound ==
  ASSUME NInv, NEW text \in Texts, NEW compiles \in BOOLEAN, compiles = TRUE
  PROVE  inject_text_utf8(text, compiles) \in Staged /\ TextSound(inject_text_utf8(text, compiles), Range(text))
<1> DEFINE n == Len(text)
           syms == Range(text)
<1>0. compiles = TRUE
  OBVIOUS
<1>1. TInv
  BY DEF NInv, KInv
<1>2. PICK f \in [0..n -> Staged] : Typed(f, text, compiles) /\ inject_text_utf8(text, compiles) = f[n]
  BY <1>1, TextSteps
<1>3. n \in Nat /\ DOMAIN text = 1..n /\ \A i \in 1..n : text[i] \in Keysyms /\ text[i] \in syms
  BY InputAssumption, LenProperties DEF Range
<1>4. f[0] = [xkb |-> xkb, events |-> <<>>]
  BY <1>2, Zenon DEF Typed
<1>5. \A i \in 1..n : f[i] = StageChar(f[i - 1], text[i], compiles)
  BY <1>2, Zenon DEF Typed
<1> HIDE DEF n, syms
<1> DEFINE T == {i \in Nat : i <= n => TextSound(f[i], syms)}
<1>6. 0 \in T
  <2>1. f[0].xkb = xkb /\ f[0].events = <<>>
    BY <1>4
  <2>2. DOMAIN <<>> = {}
    BY EmptySeq, LenProperties
  <2>3. \A B \in SUBSET Keys : Toggles(<<>>, B, B)
    BY TogglesNone
  <2> QED BY <2>1, <2>2, <2>3, NTypes DEF TextSound
<1>7. ASSUME NEW i \in Nat, i \in T PROVE i + 1 \in T
  <2>1. SUFFICES ASSUME i + 1 <= n PROVE TextSound(f[i + 1], syms)
    BY <1>7
  <2>2. i \in 0..n /\ i + 1 \in 1..n /\ (i + 1) - 1 = i /\ i <= n
    BY <2>1, <1>3
  <2>3. f[i] \in Staged /\ text[i + 1] \in Keysyms /\ text[i + 1] \in syms /\ TextSound(f[i], syms)
    BY <2>2, <1>2, <1>3, <1>7
  <2>4. f[i + 1] = StageChar(f[i], text[i + 1], compiles)
    BY <2>2, <1>5
  <2> HIDE DEF T
  <2> QED BY <2>3, <2>4, <1>0, TextStep
<1> HIDE DEF T
<1>8. n \in T /\ n \in 0..n
  BY <1>3, <1>6, <1>7, Induct
<1>9. TextSound(f[n], syms) /\ f[n] \in Staged
  BY <1>3, <1>8, <1>2 DEF T
<1> QED BY <1>2, <1>9, Zenon DEF syms

(* A text that fits the pool is typed by keys its client does not hold.    *)
LEMMA TextServed ==
  ASSUME NInv, NEW text \in Texts, NEW compiles \in BOOLEAN, compiles = TRUE,
         SpliceIsQuiet(inject_text_utf8(text, compiles).xkb), FitsPool(inject_text_utf8(text, compiles)),
         \A k \in Range(text) : Plain(k)
  PROVE  LET r == inject_text_utf8(text, compiles)
         IN  /\ r.xkb \in Xkbs /\ r.xkb.keymap = r.xkb.pool.slots /\ r.xkb.down = down
             /\ r.events \in Seq(Events) /\ AsAsked(r.xkb.keymap, r.events)
             /\ \A hs : Held(hs) \cap Range(text) = {} =>
                  Toggles(r.events, HeldBy(r.xkb.keymap, hs), HeldBy(r.xkb.keymap, hs))
<1> DEFINE r == inject_text_utf8(text, compiles)
<1>0. compiles = TRUE
  OBVIOUS
<1>1. r \in Staged /\ TextSound(r, Range(text))
  BY <1>0, TextIsSound
<1>2. SpliceIsQuiet(r.xkb) /\ FitsPool(r)
  OBVIOUS
<1> HIDE DEF r
<1>3. r.xkb \in Xkbs /\ r.events \in Seq(Events) /\ r.xkb.keymap = r.xkb.pool.slots /\ r.xkb.keymap \in Keymaps
  BY <1>1 DEF Staged, TextSound, Xkbs
<1>4. ASSUME NEW i \in DOMAIN r.events
      PROVE  /\ r.events[i] \in Events /\ r.events[i].kind = "key" /\ r.events[i].key \in Keys
             /\ r.events[i].asked \in Range(text)
             /\ FirstSym(r.xkb.keymap, r.events[i].key) = r.events[i].asked
  <2>1. r.events[i] \in Events
    BY <1>3, ElementOfSeq, LenProperties
  <2>2. r.events[i].kind = "key" /\ r.events[i].asked \in Range(text)
    BY <1>1 DEF TextSound
  <2>3. r.events[i].key \in Keys
    BY <2>1, <2>2 DEF Events
  <2>4. r.events[i].asked \in Range(Symbols(r.xkb.keymap, r.events[i].key)) /\ Plain(r.events[i].asked)
    BY <1>2, <2>2 DEF FitsPool
  <2> QED BY <2>1, <2>2, <2>3, <2>4, <1>3, PlainTyped
<1>5. r.xkb.down = down
  <2>1. CASE r.xkb.keymap # keymap
    BY <2>1, <1>1, <1>2, QuietDown DEF TextSound
  <2>2. CASE r.xkb.keymap = keymap
    <3>1. r.xkb = xkb
      <4>1. ASSUME NEW j \in DOMAIN r.events, r.events[j].key \in Slots,
                   \A slot \in Slots : keymap[slot] # r.events[j].asked
            PROVE  FALSE
        <5>1. FirstSym(keymap, r.events[j].key) = r.events[j].asked
          BY <4>1, <2>2, <1>4
        <5> QED BY <5>1, <4>1 DEF FirstSym, Symbols
      <4> QED BY <4>1, <1>1 DEF TextSound
    <3> QED BY <3>1, NTypes
  <2> QED BY <2>1, <2>2
<1>6. AsAsked(r.xkb.keymap, r.events)
  BY <1>4 DEF AsAsked
<1>7. ASSUME NEW hs, Held(hs) \cap Range(text) = {}
      PROVE  Toggles(r.events, HeldBy(r.xkb.keymap, hs), HeldBy(r.xkb.keymap, hs))
  <2>1. \A key \in HeldBy(r.xkb.keymap, hs) : ~Touches(r.events, key)
    BY <1>4, <1>7 DEF HeldBy, Touches
  <2>2. HeldBy(r.xkb.keymap, hs) \in SUBSET Keys
    BY DEF HeldBy
  <2> QED BY <2>1, <2>2, <1>1 DEF TextSound
<1> QED BY <1>3, <1>5, <1>6, <1>7 DEF r

-----------------------------------------------------------------------------
(* The steps.                                                              *)

LEMMA NFirst ==
  ASSUME Init
  PROVE  NInv
<1>1. wrong = {} /\ down = [m \in ModKeys |-> 0] /\ kbd = [s \in Sessions |-> None]
  BY DEF Init
<1>2. Counted(down, kbd)
  BY <1>1 DEF Counted
<1> QED BY <1>1, <1>2, CurrentFirst DEF NInv

(* A client that asks.                                                     *)
LEMMA AsksIsAsking ==
  ASSUME NInv, NEW s \in Sessions, NEW via \in Vias, NEW k \in Keysyms, NEW pressed \in BOOLEAN,
         Asks(s, via, k, pressed)
  PROVE  /\ Asking(holding[s], via, k, pressed, holding'[s])
         /\ \A t \in Sessions \ {s} : holding'[t] = holding[t]
         /\ via = "dbus" => \A i \in DOMAIN pending[s] : pending[s][i].kind = "key" => pending[s][i].asked # k
<1>1. holding \in [Sessions -> SUBSET (Vias \X Keysyms)]
  BY NTypes
<1>2. holding' = [holding EXCEPT ![s] = IF pressed THEN @ \cup {<<via, k>>} ELSE @ \ {<<via, k>>}]
  BY DEF Asks
<1> QED BY <1>1, <1>2 DEF Asks, Asking

(* A session that comes, that its client makes a sender, that goes.        *)
LEMMA SessionServed ==
  ASSUME NInv, KInv', NEW s \in Sessions,
         create_context(s) \/ transition_to_active(s) \/ destroy_context(s)
  PROVE  NInv'
<1>0. /\ wrong \subseteq {"modifiers"} /\ ("shared_mods" \notin Faults => wrong = {} /\ Counted(down, kbd))
      /\ \A t \in Sessions : kbd[t] # None => Served(keymap, kbd[t], pending[t], holding[t])
      /\ kbd \in [Sessions -> Keyboard \cup {None}] /\ keymap \in Keymaps
      /\ pending \in [Sessions -> Seq(Events)] /\ holding \in [Sessions -> SUBSET (Vias \X Keysyms)]
      /\ \A t \in Sessions : eis[t] = "none" <=> kbd[t] = None
      /\ \A t \in Sessions : kbd[t] = None => pending[t] = <<>> /\ holding[t] = {}
  BY NTypes DEF NInv, KInv, TInv
<1>1. ASSUME create_context(s) PROVE NInv'
  <2> DEFINE b == [keymap |-> keymap, held |-> {}, mods |-> {}, unframed |-> FALSE]
  <2>1. eis[s] = "none" /\ kbd' = [kbd EXCEPT ![s] = b] /\ UNCHANGED <<pool, keymap, down, pending, holding, wrong>>
    BY <1>1 DEF create_context
  <2>2. b.held = {} /\ b.unframed = FALSE
    OBVIOUS
  <2> HIDE DEF b
  <2>3. pending[s] = <<>> /\ holding[s] = {}
    BY <2>1, <1>0
  <2>4. HeldBy(keymap, {}) = {} /\ Holds(keymap, {}) /\ AsAsked(keymap, <<>>)
    BY EmptySeq DEF HeldBy, Held, Holds, AsAsked
  <2>5. Served(keymap, b, <<>>, {})
    <3>1. Toggles(<<>>, {}, {})
      BY TogglesNone
    <3> QED BY <3>1, <2>2, <2>4 DEF Served
  <2>6. kbd'[s] = b /\ \A t \in Sessions \ {s} : kbd'[t] = kbd[t]
    BY <2>1, <1>0
  <2>7. Counted(down, kbd) => Counted(down', kbd')
    <3>1. ASSUME NEW m \in ModKeys
          PROVE  (\E t \in Sessions : kbd'[t] # None /\ m \in kbd'[t].held)
                   <=> (\E t \in Sessions : kbd[t] # None /\ m \in kbd[t].held)
      BY <2>1, <2>2, <2>6, <1>0
    <3> QED BY <3>1, <2>1 DEF Counted
  <2>8. \A t \in Sessions : kbd'[t] # None => Served(keymap', kbd'[t], pending'[t], holding'[t])
    BY <2>1, <2>3, <2>5, <2>6, <1>0
  <2> QED BY <2>1, <2>7, <2>8, <1>0 DEF NInv
<1>2. ASSUME transition_to_active(s) PROVE NInv'
  <2>1. UNCHANGED <<keymap, down, pending, kbd, holding, wrong>>
    BY <1>2 DEF transition_to_active
  <2> QED BY <2>1, <1>0 DEF NInv
<1>3. ASSUME destroy_context(s) PROVE NInv'
  <2>1. /\ eis[s] # "none" /\ ("shared_mods" \notin Faults => Pressed(down) \cap kbd[s].held = {})
        /\ kbd' = [kbd EXCEPT ![s] = None] /\ pending' = [pending EXCEPT ![s] = <<>>]
        /\ holding' = [holding EXCEPT ![s] = {}] /\ UNCHANGED <<keymap, down, wrong>>
    BY <1>3 DEF destroy_context
  <2>2. kbd'[s] = None /\ \A t \in Sessions \ {s} : kbd'[t] = kbd[t]
    BY <2>1, <1>0
  <2>3. ASSUME "shared_mods" \notin Faults PROVE Counted(down', kbd')
    <3>1. ASSUME NEW m \in ModKeys, m \in kbd[s].held PROVE FALSE
      <4>1. down[m] = 1
        BY <3>1, <2>1, <2>3, <1>0 DEF Counted
      <4> QED BY <4>1, <3>1, <2>1, <2>3 DEF Pressed
    <3>2. ASSUME NEW m \in ModKeys
          PROVE  (\E t \in Sessions : kbd'[t] # None /\ m \in kbd'[t].held)
                   <=> (\E t \in Sessions : kbd[t] # None /\ m \in kbd[t].held)
      BY <3>1, <2>2
    <3> QED BY <3>2, <2>1, <2>3, <1>0 DEF Counted
  <2>4. \A t \in Sessions : kbd'[t] # None => Served(keymap', kbd'[t], pending'[t], holding'[t])
    BY <2>1, <2>2, <1>0
  <2> QED BY <2>1, <2>3, <2>4, <1>0 DEF NInv
<1> QED BY <1>1, <1>2, <1>3

(* Nothing becomes of a touch event.                                       *)
LEMMA TouchFails ==
  ASSUME NEW board \in Keyboard, board.unframed = FALSE, NEW dn \in [ModKeys -> Nat]
  PROVE  LET r == inject_event_batch(board, dn, <<PlainEvent("touch")>>)
         IN  r.kbd = board /\ r.down = dn /\ r.wrong = {}
<1> DEFINE start == [kbd |-> board, down |-> dn, failed |-> FALSE,
                     wrong |-> IF board.unframed THEN {"frame"} ELSE {}]
           e == PlainEvent("touch")
           r == inject_event_batch(board, dn, <<e>>)
           last == Applied(start, <<e>>)
<1>1. e \in Events /\ e.kind = "touch"
  BY PlainEventType
<1> HIDE DEF e
<1>2. <<e>> \in Seq(Events) /\ Len(<<e>>) = 1 /\ <<e>>[1] = e
  BY <1>1, OneEvent
<1>3. start \in States /\ start.kbd = board /\ start.down = dn /\ ~start.failed /\ start.wrong = {}
  BY DEF States, Wrongs
<1>4. r = commit_and_flush(last, HasPointer(<<e>>))
  BY DEF inject_event_batch
<1> HIDE DEF start, r
<1>5. PICK f \in [0..1 -> States] : f[0] = start /\ f[1] = apply_event(f[0], e) /\ last = f[1]
  <2>1. PICK f \in [0..Len(<<e>>) -> States] : Through(f, start, <<e>>) /\ last = f[Len(<<e>>)]
    BY <1>2, <1>3, AppliedSteps
  <2>2. f[0] = start /\ \A i \in 1..1 : f[i] = apply_event(f[i - 1], <<e>>[i])
    BY <2>1, <1>2 DEF Through
  <2>3. 1 \in 1..1 /\ 1 - 1 = 0
    OBVIOUS
  <2>4. f[1] = apply_event(f[0], e)
    BY <2>2, <2>3, <1>2
  <2> QED BY <2>1, <2>2, <2>4, <1>2
<1> HIDE DEF last
<1>6. last = [kbd |-> board, down |-> dn, failed |-> TRUE, wrong |-> {}]
  BY <1>1, <1>3, <1>5, ApplyOther
<1>7. r = last
  BY <1>4, <1>6 DEF commit_and_flush
<1>8. r.kbd = board /\ r.down = dn /\ r.wrong = {}
  BY <1>6, <1>7
<1> QED BY <1>8 DEF r, e

(* What goes to the keyboard at once, and the frame.                       *)
LEMMA DeliveredServed ==
  ASSUME OneKeyEach, NInv, KInv', NEW s \in Sessions,
         \/ Frame(s) \/ NotifyPointer(s) \/ NotifyTouch(s)
         \/ \E key \in DOMAIN Layout, pressed \in BOOLEAN : NotifyKeyboardKeycode(s, key, pressed)
  PROVE  NInv'
<1>0. /\ wrong \subseteq {"modifiers"} /\ ("shared_mods" \notin Faults => wrong = {} /\ Counted(down, kbd))
      /\ \A t \in Sessions : kbd[t] # None => Served(keymap, kbd[t], pending[t], holding[t])
      /\ kbd \in [Sessions -> Keyboard \cup {None}] /\ keymap \in Keymaps /\ Sound(keymap) /\ down \in [ModKeys -> Nat]
      /\ pending \in [Sessions -> Seq(Events)] /\ holding \in [Sessions -> SUBSET (Vias \X Keysyms)]
      /\ \A t \in Sessions : eis[t] = "none" <=> kbd[t] = None
      /\ \A t \in Sessions : kbd[t] # None => kbd[t] \in Keyboard /\ kbd[t].keymap = keymap
  BY NTypes DEF NInv, KInv, TInv
<1>1. ASSUME NEW batch \in Seq(Events), NEW B, kbd[s] # None, Deliver(s, batch),
             AsAsked(keymap, batch), Toggles(batch, kbd[s].held, B), keymap' = keymap,
             \A b : b.held = B /\ b.unframed = FALSE => Served(keymap, b, pending'[s], holding'[s]),
             \A t \in Sessions \ {s} : pending'[t] = pending[t] /\ holding'[t] = holding[t]
      PROVE  NInv'
  <2> DEFINE r == inject_event_batch(kbd[s], down, batch)
  <2>1. "shared_mods" \notin Faults => Alone(kbd, s)
    BY <1>1 DEF Deliver, AloneWithModifiers, Alone
  <2>2. kbd' = [kbd EXCEPT ![s] = r.kbd] /\ down' = r.down /\ wrong' = wrong \cup r.wrong
    BY <1>1 DEF Deliver
  <2>3. kbd[s].unframed = FALSE /\ kbd[s].keymap = keymap
    BY <1>0, <1>1 DEF Served
  <2>4. /\ r.kbd # None /\ r.kbd.held = B /\ r.kbd.unframed = FALSE /\ r.wrong \subseteq {"modifiers"}
        /\ "shared_mods" \notin Faults => r.wrong = {} /\ Counted(r.down, With(kbd, s, r.kbd))
    <3>1. AsAsked(kbd[s].keymap, batch)
      BY <1>1, <2>3
    <3>2. Delivered(kbd, down, s, r, B)
      BY <3>1, <2>3, <1>0, <1>1, DeliverServed
    <3> QED BY <3>2, <2>1, <1>0 DEF Delivered
  <2> HIDE DEF r
  <2>5. "shared_mods" \notin Faults => Counted(down', kbd')
    BY <2>2, <2>4 DEF With
  <2>6. kbd'[s] = r.kbd /\ \A t \in Sessions \ {s} : kbd'[t] = kbd[t]
    BY <2>2, <1>0
  <2>7. \A t \in Sessions : kbd'[t] # None => Served(keymap', kbd'[t], pending'[t], holding'[t])
    BY <2>4, <2>6, <1>0, <1>1
  <2>8. wrong' \subseteq {"modifiers"} /\ ("shared_mods" \notin Faults => wrong' = {})
    BY <2>2, <2>4, <1>0
  <2> QED BY <2>5, <2>7, <2>8 DEF NInv
<1>2. ASSUME Frame(s) PROVE NInv'
  <2> DEFINE B == HeldBy(keymap, holding[s])
  <2>1. /\ eis[s] = "sender" /\ Deliver(s, pending[s]) /\ pending' = [pending EXCEPT ![s] = <<>>]
        /\ UNCHANGED <<keymap, holding>>
    BY <1>2 DEF Frame
  <2>2. kbd[s] # None /\ pending[s] \in Seq(Events) /\ Served(keymap, kbd[s], pending[s], holding[s])
    BY <2>1, <1>0
  <2>3. B \in SUBSET Keys
    BY DEF HeldBy
  <2>4. \A b : b.held = B /\ b.unframed = FALSE => Served(keymap, b, <<>>, holding[s])
    <3>1. Toggles(<<>>, B, B) /\ AsAsked(keymap, <<>>)
      BY <2>3, TogglesNone, EmptySeq DEF AsAsked
    <3> QED BY <3>1, <2>2 DEF Served
  <2>5. AsAsked(keymap, pending[s]) /\ Toggles(pending[s], kbd[s].held, B)
    BY <2>2 DEF Served
  <2> HIDE DEF B
  <2>6. pending'[s] = <<>> /\ \A t \in Sessions \ {s} : pending'[t] = pending[t]
    BY <2>1, <1>0
  <2> QED BY <2>1, <2>2, <2>4, <2>5, <2>6, <1>1
<1>3. ASSUME NotifyPointer(s) PROVE NInv'
  <2> DEFINE batch == <<PlainEvent("pointer")>>
  <2>1. kbd[s] # None /\ Deliver(s, batch) /\ UNCHANGED <<keymap, pending, holding>>
    BY <1>3 DEF NotifyPointer
  <2>2. kbd[s] \in Keyboard /\ Served(keymap, kbd[s], pending[s], holding[s]) /\ pending[s] \in Seq(Events)
    BY <2>1, <1>0
  <2>3. AsAsked(keymap, batch) /\ Toggles(batch, kbd[s].held, kbd[s].held)
    <3>1. kbd[s].held \in SUBSET Keys
      BY <2>2 DEF Keyboard
    <3> QED BY <3>1, <2>2, ServedPointer
  <2>4. batch \in Seq(Events)
    BY PlainEventType, OneEvent
  <2> HIDE DEF batch
  <2>5. \A b : b.held = kbd[s].held /\ b.unframed = FALSE => Served(keymap, b, pending[s], holding[s])
    BY <2>2 DEF Served
  <2> QED BY <2>1, <2>3, <2>4, <2>5, <1>1
<1>4. ASSUME NotifyTouch(s) PROVE NInv'
  <2>1. kbd[s] # None /\ Deliver(s, <<PlainEvent("touch")>>) /\ UNCHANGED <<keymap, pending, holding>>
    BY <1>4 DEF NotifyTouch
  <2>2. kbd[s] \in Keyboard /\ kbd[s].unframed = FALSE
    BY <2>1, <1>0 DEF Served
  <2> DEFINE r == inject_event_batch(kbd[s], down, <<PlainEvent("touch")>>)
  <2>3. r.kbd = kbd[s] /\ r.down = down /\ r.wrong = {}
    BY <2>2, <1>0, TouchFails
  <2>4. kbd' = [kbd EXCEPT ![s] = r.kbd] /\ down' = r.down /\ wrong' = wrong \cup r.wrong
    BY <2>1 DEF Deliver
  <2> HIDE DEF r
  <2>5. kbd' = kbd /\ down' = down /\ wrong' = wrong
    BY <2>3, <2>4, <1>0
  <2> QED BY <2>1, <2>5, <1>0 DEF NInv
<1>5. ASSUME NEW key \in DOMAIN Layout, NEW pressed \in BOOLEAN, NotifyKeyboardKeycode(s, key, pressed)
      PROVE  NInv'
  <2> DEFINE k == Layout[key][1]
             e == KeyEvent(key, pressed, k)
             B == After(kbd[s].held, e)
  <2>1. kbd[s] # None /\ Asks(s, "dbus", k, pressed) /\ Deliver(s, <<e>>) /\ UNCHANGED <<keymap, pending>>
    BY <1>5 DEF NotifyKeyboardKeycode
  <2>2. key \in Keys /\ k \in Keysyms /\ FirstSym(keymap, key) = k
    BY LayoutKeys DEF FirstSym, Symbols
  <2> HIDE DEF k
  <2>3. e \in Events
    BY <2>2, KeyEventType
  <2>4. /\ Asking(holding[s], "dbus", k, pressed, holding'[s])
        /\ \A t \in Sessions \ {s} : holding'[t] = holding[t]
        /\ \A i \in DOMAIN pending[s] : pending[s][i].kind = "key" => pending[s][i].asked # k
    BY <2>1, <2>2, AsksIsAsking DEF Vias
  <2>5. /\ kbd[s] \in Keyboard /\ pending[s] \in Seq(Events) /\ holding[s] \in SUBSET (Vias \X Keysyms)
        /\ Served(keymap, kbd[s], pending[s], holding[s])
    BY <2>1, <1>0
  <2>6. /\ AsAsked(keymap, <<e>>) /\ Toggles(<<e>>, kbd[s].held, B)
        /\ \A b : b.held = B /\ b.unframed = FALSE => Served(keymap, b, pending[s], holding'[s])
    <3>1. "dbus" \in Vias
      BY DEF Vias
    <3>2. Passes(keymap, kbd[s], pending[s], holding'[s], e)
      BY <3>1, <2>2, <2>4, <2>5, <1>0, ServedDirect
    <3> QED BY <3>2 DEF Passes
  <2> HIDE DEF e, B
  <2>7. <<e>> \in Seq(Events)
    BY <2>3, OneEvent
  <2> QED BY <2>1, <2>4, <2>6, <2>7, <1>1
<1> QED BY <1>2, <1>3, <1>4, <1>5

(* What is staged.                                                         *)
LEMMA StagedServed ==
  ASSUME OneKeyEach, "touch" \notin Faults, NInv, KInv', NEW s \in Sessions,
         \/ \E kind \in {"pointer", "touch"} : PointerOrTouch(s, kind)
         \/ \E key \in DOMAIN Layout, pressed \in BOOLEAN : KeyboardKey(s, key, pressed)
  PROVE  NInv'
<1>0. /\ wrong \subseteq {"modifiers"} /\ ("shared_mods" \notin Faults => wrong = {} /\ Counted(down, kbd))
      /\ \A t \in Sessions : kbd[t] # None => Served(keymap, kbd[t], pending[t], holding[t])
      /\ keymap \in Keymaps /\ Sound(keymap)
      /\ pending \in [Sessions -> Seq(Events)] /\ holding \in [Sessions -> SUBSET (Vias \X Keysyms)]
      /\ \A t \in Sessions : eis[t] = "none" <=> kbd[t] = None
  BY NTypes DEF NInv, KInv, TInv
<1>1. ASSUME NEW more, eis[s] = "sender", Stage(s, more), UNCHANGED <<keymap, down, kbd, wrong>>,
             Served(keymap, kbd[s], pending[s] \o more, holding'[s]),
             \A t \in Sessions \ {s} : holding'[t] = holding[t]
      PROVE  NInv'
  <2>1. pending' = [pending EXCEPT ![s] = pending[s] \o more]
    BY <1>1 DEF Stage
  <2>2. pending'[s] = pending[s] \o more /\ \A t \in Sessions \ {s} : pending'[t] = pending[t]
    BY <2>1, <1>0
  <2>3. \A t \in Sessions : kbd[t] # None => Served(keymap, kbd[t], pending'[t], holding'[t])
    BY <2>2, <1>0, <1>1
  <2> QED BY <2>3, <1>0, <1>1 DEF NInv
<1>2. ASSUME NEW kind \in {"pointer", "touch"}, PointerOrTouch(s, kind) PROVE NInv'
  <2>1. kind = "pointer"
    BY <1>2 DEF PointerOrTouch
  <2>2. eis[s] = "sender" /\ Stage(s, <<PlainEvent("pointer")>>) /\ UNCHANGED <<keymap, down, kbd, holding, wrong>>
    BY <2>1, <1>2 DEF PointerOrTouch
  <2>3. pending[s] \in Seq(Events) /\ Served(keymap, kbd[s], pending[s], holding[s])
    BY <2>2, <1>0
  <2>4. Served(keymap, kbd[s], pending[s] \o <<PlainEvent("pointer")>>, holding[s])
    BY <2>3, ServedPointer
  <2> QED BY <2>2, <2>4, <1>1
<1>3. ASSUME NEW key \in DOMAIN Layout, NEW pressed \in BOOLEAN, KeyboardKey(s, key, pressed) PROVE NInv'
  <2> DEFINE k == Layout[key][1]
             e == KeyEvent(key, pressed, k)
  <2>1. eis[s] = "sender" /\ Asks(s, "eis", k, pressed) /\ Stage(s, <<e>>) /\ UNCHANGED <<keymap, down, kbd, wrong>>
    BY <1>3 DEF KeyboardKey
  <2>2. key \in Keys /\ k \in Keysyms /\ FirstSym(keymap, key) = k
    BY LayoutKeys DEF FirstSym, Symbols
  <2> HIDE DEF k
  <2>3. /\ Asking(holding[s], "eis", k, pressed, holding'[s])
        /\ \A t \in Sessions \ {s} : holding'[t] = holding[t]
    BY <2>1, <2>2, AsksIsAsking DEF Vias
  <2>4. /\ pending[s] \in Seq(Events) /\ holding[s] \in SUBSET (Vias \X Keysyms)
        /\ Served(keymap, kbd[s], pending[s], holding[s])
    BY <2>1, <1>0
  <2>5. Served(keymap, kbd[s], pending[s] \o <<e>>, holding'[s])
    <3>1. "eis" \in Vias
      BY DEF Vias
    <3> QED BY <3>1, <2>2, <2>3, <2>4, <1>0, ServedKey
  <2> HIDE DEF e
  <2> QED BY <2>1, <2>3, <2>5, <1>1
<1> QED BY <1>2, <1>3

(* What goes through the pool first.                                       *)
LEMMA ResolvedServed ==
  ASSUME OneKeyEach, Faults \subseteq {"shared_mods"}, NInv, KInv', NEW s \in Sessions,
         \/ \E k \in Askable, pressed \in BOOLEAN, compiles \in Compiles :
              TextKeysym(s, k, pressed, compiles) \/ NotifyKeyboardKeysym(s, k, pressed, compiles)
         \/ \E text \in Texts, compiles \in Compiles : TextUtf8(s, text, compiles)
  PROVE  NInv'
<1>0. /\ wrong \subseteq {"modifiers"} /\ ("shared_mods" \notin Faults => wrong = {} /\ Counted(down, kbd))
      /\ \A t \in Sessions : kbd[t] # None => Served(keymap, kbd[t], pending[t], holding[t])
      /\ kbd \in [Sessions -> Keyboard \cup {None}]
      /\ pending \in [Sessions -> Seq(Events)] /\ holding \in [Sessions -> SUBSET (Vias \X Keysyms)]
      /\ \A t \in Sessions : eis[t] = "none" <=> kbd[t] = None
  BY NTypes DEF NInv, KInv, TInv
<1>1. \A k \in Askable : k \in Keysyms /\ Plain(k)
  BY DEF Askable
<1>2. \A compiles \in Compiles : compiles = TRUE /\ compiles \in BOOLEAN
  BY DEF Compiles
<1>all. TInv /\ "upload" \notin Faults
  BY DEF NInv, KInv
<1>3. \A x : Quiet(x) => SpliceIsQuiet(x)
  BY DEF Quiet
<1>4. ASSUME NEW x \in Xkbs, x.keymap = x.pool.slots, x.down = down, SpliceIsQuiet(x)
      PROVE  /\ Uploaded(kbd, x) \in [Sessions -> Keyboard \cup {None}] /\ x.keymap \in Keymaps /\ Sound(x.keymap)
             /\ \A t \in Sessions : /\ Uploaded(kbd, x)[t] = None <=> kbd[t] = None
                                    /\ kbd[t] # None =>
                                         /\ Uploaded(kbd, x)[t] \in Keyboard
                                         /\ Uploaded(kbd, x)[t].held = kbd[t].held
                                         /\ Uploaded(kbd, x)[t].keymap = x.keymap
             /\ Counted(down, kbd) => Counted(down, Uploaded(kbd, x))
             /\ \A t \in Sessions : kbd[t] # None => Served(x.keymap, Uploaded(kbd, x)[t], pending[t], holding[t])
  <2>1. Counted(down, kbd) => Counted(x.down, Uploaded(kbd, x))
    BY <1>4, SpliceServed
  <2>2. \A t \in Sessions : kbd[t] # None => Served(x.keymap, Uploaded(kbd, x)[t], pending[t], holding[t])
    BY <1>4, SpliceServed
  <2>3. \A t \in Sessions : kbd[t] # None => Uploaded(kbd, x)[t].keymap = x.keymap /\ Uploaded(kbd, x)[t] \in Keyboard
    BY <1>4, CurrentXkb DEF NInv
  <2>4. /\ Uploaded(kbd, x) \in [Sessions -> Keyboard \cup {None}]
        /\ \A t \in Sessions : /\ Uploaded(kbd, x)[t] = None <=> kbd[t] = None
                               /\ kbd[t] # None => Uploaded(kbd, x)[t].held = kbd[t].held
    BY <1>0, UploadTypes
  <2>5. x.keymap \in Keymaps /\ Sound(x.keymap)
    BY <1>4 DEF Xkbs, Pools
  <2> QED BY <2>1, <2>2, <2>3, <2>4, <2>5, <1>4
<1>5. ASSUME NEW x \in Xkbs, x.keymap = x.pool.slots, x.down = down, SpliceIsQuiet(x), SetXkb(x),
             kbd' = Uploaded(kbd, x), NEW more, Stage(s, more), eis[s] = "sender", wrong' = wrong,
             Served(x.keymap, Uploaded(kbd, x)[s], pending[s] \o more, holding'[s]),
             \A t \in Sessions \ {s} : holding'[t] = holding[t]
      PROVE  NInv'
  <2>1. pending' = [pending EXCEPT ![s] = pending[s] \o more]
    BY <1>5 DEF Stage
  <2>2. pending'[s] = pending[s] \o more /\ \A t \in Sessions \ {s} : pending'[t] = pending[t]
    BY <2>1, <1>0
  <2>3. keymap' = x.keymap /\ down' = down
    BY <1>5 DEF SetXkb
  <2>4. \A t \in Sessions : kbd'[t] # None => Served(keymap', kbd'[t], pending'[t], holding'[t])
    BY <2>2, <2>3, <1>4, <1>5
  <2>5. Counted(down, kbd) => Counted(down', kbd')
    BY <2>3, <1>4, <1>5
  <2> QED BY <2>4, <2>5, <1>0, <1>5 DEF NInv
<1>6. ASSUME NEW k \in Askable, NEW pressed \in BOOLEAN, NEW compiles \in Compiles,
             TextKeysym(s, k, pressed, compiles)
      PROVE  NInv'
  <2> DEFINE r == keysym_to_keycode(xkb, k, compiles)
             e == KeyEvent(r.key, pressed, k)
             more == IF r.key = None THEN <<>> ELSE <<e>>
  <2>1. /\ eis[s] = "sender" /\ Quiet(r.xkb) /\ Asks(s, "eis", k, pressed) /\ Stage(s, more)
        /\ SetXkb(r.xkb) /\ kbd' = Uploaded(kbd, r.xkb) /\ wrong' = wrong
    <3>1. kbd' = Uploaded(kbd, r.xkb)
      BY <1>1, <1>2, <1>all, <1>6, NoUploadMissed
    <3> QED BY <3>1, <1>6 DEF TextKeysym
  <2>2. SpliceIsQuiet(r.xkb) /\ k \in Keysyms /\ Plain(k) /\ compiles \in BOOLEAN /\ compiles = TRUE
    BY <2>1, <1>1, <1>2, <1>3
  <2>3. /\ r.xkb \in Xkbs /\ r.xkb.keymap = r.xkb.pool.slots /\ r.xkb.down = down
        /\ r.key \in Keys /\ FirstSym(r.xkb.keymap, r.key) = k
    BY <2>2, KeysymTyped
  <2> HIDE DEF r
  <2>4. more = <<e>>
    BY <2>3, InputAssumption
  <2>5. /\ Asking(holding[s], "eis", k, pressed, holding'[s])
        /\ \A t \in Sessions \ {s} : holding'[t] = holding[t]
    BY <2>1, <2>2, AsksIsAsking DEF Vias
  <2>6. /\ pending[s] \in Seq(Events) /\ holding[s] \in SUBSET (Vias \X Keysyms)
        /\ r.xkb.keymap \in Keymaps /\ Sound(r.xkb.keymap)
        /\ Served(r.xkb.keymap, Uploaded(kbd, r.xkb)[s], pending[s], holding[s])
    BY <2>1, <2>2, <2>3, <1>0, <1>4
  <2>7. Served(r.xkb.keymap, Uploaded(kbd, r.xkb)[s], pending[s] \o <<e>>, holding'[s])
    <3>1. "eis" \in Vias
      BY DEF Vias
    <3> QED BY <3>1, <2>2, <2>3, <2>5, <2>6, ServedKey
  <2> HIDE DEF e, more
  <2> QED BY <2>1, <2>2, <2>3, <2>4, <2>5, <2>7, <1>5
<1>7. ASSUME NEW text \in Texts, NEW compiles \in Compiles, TextUtf8(s, text, compiles)
      PROVE  NInv'
  <2> DEFINE r == inject_text_utf8(text, compiles)
  <2>1. /\ eis[s] = "sender" /\ Quiet(r.xkb) /\ FitsPool(r) /\ Stage(s, r.events)
        /\ Range(text) \subseteq Askable /\ Held(holding[s]) \cap Range(text) = {}
        /\ SetXkb(r.xkb) /\ kbd' = Uploaded(kbd, r.xkb) /\ wrong' = wrong /\ holding' = holding
    <3>1. kbd' = Uploaded(kbd, r.xkb)
      BY <1>2, <1>all, <1>7, NoUploadMissed
    <3> QED BY <3>1, <1>7 DEF TextUtf8, Held
  <2>2. SpliceIsQuiet(r.xkb) /\ (\A k \in Range(text) : Plain(k)) /\ compiles \in BOOLEAN /\ compiles = TRUE
    BY <2>1, <1>1, <1>2, <1>3
  <2>3. /\ r.xkb \in Xkbs /\ r.xkb.keymap = r.xkb.pool.slots /\ r.xkb.down = down
        /\ r.events \in Seq(Events) /\ AsAsked(r.xkb.keymap, r.events)
        /\ Toggles(r.events, HeldBy(r.xkb.keymap, holding[s]), HeldBy(r.xkb.keymap, holding[s]))
    BY <2>1, <2>2, TextServed
  <2> HIDE DEF r
  <2>4. pending[s] \in Seq(Events) /\ Served(r.xkb.keymap, Uploaded(kbd, r.xkb)[s], pending[s], holding[s])
    BY <2>1, <2>2, <2>3, <1>0, <1>4
  <2>5. Served(r.xkb.keymap, Uploaded(kbd, r.xkb)[s], pending[s] \o r.events, holding[s])
    BY <2>3, <2>4, ServedStage DEF Served
  <2> QED BY <2>1, <2>2, <2>3, <2>5, <1>5
<1>8. ASSUME NEW k \in Askable, NEW pressed \in BOOLEAN, NEW compiles \in Compiles,
             NotifyKeyboardKeysym(s, k, pressed, compiles)
      PROVE  NInv'
  <2> DEFINE r == keysym_to_keycode(xkb, k, compiles)
             boards == Uploaded(kbd, r.xkb)
             e == KeyEvent(r.key, pressed, k)
             d == inject_event_batch(boards[s], r.xkb.down, <<e>>)
             B == After(boards[s].held, e)
  <2>1. /\ kbd[s] # None /\ Quiet(r.xkb) /\ ("shared_mods" \notin Faults => Alone(kbd, s)) /\ Asks(s, "dbus", k, pressed)
        /\ keymap' = r.xkb.keymap /\ pending' = pending
        /\ r.key # None => kbd' = [boards EXCEPT ![s] = d.kbd] /\ down' = d.down /\ wrong' = wrong \cup d.wrong
    <3>1. r.key # None => kbd' = [boards EXCEPT ![s] = d.kbd] /\ down' = d.down /\ wrong' = wrong \cup d.wrong
      BY <1>1, <1>2, <1>all, <1>8, NoUploadMissed
    <3> QED BY <3>1, <1>8 DEF NotifyKeyboardKeysym, AloneWithModifiers, Alone
  <2>2. SpliceIsQuiet(r.xkb) /\ k \in Keysyms /\ Plain(k) /\ compiles \in BOOLEAN /\ compiles = TRUE
    BY <2>1, <1>1, <1>2, <1>3
  <2>3. /\ r.xkb \in Xkbs /\ r.xkb.keymap = r.xkb.pool.slots /\ r.xkb.down = down
        /\ r.key \in Keys /\ FirstSym(r.xkb.keymap, r.key) = k
    BY <2>2, KeysymTyped
  <2> HIDE DEF r
  <2>4. r.key # None
    BY <2>3, InputAssumption
  <2>5. /\ Asking(holding[s], "dbus", k, pressed, holding'[s])
        /\ \A t \in Sessions \ {s} : holding'[t] = holding[t]
        /\ \A i \in DOMAIN pending[s] : pending[s][i].kind = "key" => pending[s][i].asked # k
    BY <2>1, <2>2, AsksIsAsking DEF Vias
  <2>6. /\ pending[s] \in Seq(Events) /\ holding[s] \in SUBSET (Vias \X Keysyms)
        /\ r.xkb.keymap \in Keymaps /\ Sound(r.xkb.keymap)
        /\ boards \in [Sessions -> Keyboard \cup {None}] /\ boards[s] # None /\ boards[s] \in Keyboard
        /\ boards[s].keymap = r.xkb.keymap
        /\ (Counted(down, kbd) => Counted(r.xkb.down, boards)) /\ r.xkb.down \in [ModKeys -> Nat]
        /\ \A t \in Sessions : kbd[t] # None => Served(r.xkb.keymap, boards[t], pending[t], holding[t])
    BY <2>1, <2>2, <2>3, <1>0, <1>4 DEF Xkbs
  <2>7. "shared_mods" \notin Faults => Alone(boards, s)
    BY <2>1, <2>2, <2>3, <1>4 DEF Alone
  <2>8. \A t \in Sessions : boards[t] = None <=> kbd[t] = None
    BY <2>2, <2>3, <1>4
  <2> HIDE DEF boards
  <2>9. e \in Events /\ <<e>> \in Seq(Events)
    BY <2>2, <2>3, KeyEventType, OneEvent
  <2>10. Served(r.xkb.keymap, boards[s], pending[s], holding[s]) /\ boards[s].unframed = FALSE
    BY <2>1, <2>6 DEF Served
  <2>11. Passes(r.xkb.keymap, boards[s], pending[s], holding'[s], e)
    <3>1. "dbus" \in Vias
      BY DEF Vias
    <3> QED BY <3>1, <2>2, <2>3, <2>5, <2>6, <2>10, ServedDirect
  <2> HIDE DEF e, B
  <2>12. /\ AsAsked(boards[s].keymap, <<e>>) /\ Toggles(<<e>>, boards[s].held, B)
         /\ \A b : b.held = B /\ b.unframed = FALSE => Served(r.xkb.keymap, b, pending[s], holding'[s])
    BY <2>11, <2>6 DEF Passes, B
  <2>13. Delivered(boards, r.xkb.down, s, d, B)
    BY <2>6, <2>9, <2>10, <2>12, DeliverServed
  <2> HIDE DEF d
  <2>14. /\ kbd' = [boards EXCEPT ![s] = d.kbd] /\ down' = d.down /\ wrong' \subseteq {"modifiers"}
         /\ d.kbd # None /\ d.kbd.held = B /\ d.kbd.unframed = FALSE
         /\ "shared_mods" \notin Faults => wrong' = {} /\ Counted(d.down, With(boards, s, d.kbd))
    BY <2>1, <2>4, <2>6, <2>7, <2>13, <1>0 DEF Delivered
  <2>15. "shared_mods" \notin Faults => Counted(down', kbd')
    BY <2>14 DEF With
  <2>16. kbd'[s] = d.kbd /\ \A t \in Sessions \ {s} : kbd'[t] = boards[t]
    BY <2>14, <2>6
  <2>17. \A t \in Sessions : kbd'[t] # None => Served(keymap', kbd'[t], pending'[t], holding'[t])
    BY <2>1, <2>5, <2>6, <2>8, <2>12, <2>14, <2>16
  <2> QED BY <2>14, <2>15, <2>17 DEF NInv
<1> QED BY <1>6, <1>7, <1>8

LEMMA NNext ==
  ASSUME OneKeyEach, Faults \subseteq {"shared_mods"}, NInv, [Next]_vars
  PROVE  NInv'
<1>1. KInv'
  BY CurrentNext DEF NInv
<1>2. ASSUME UNCHANGED vars PROVE NInv'
  BY <1>1, <1>2 DEF vars, NInv
<1>3. "touch" \notin Faults
  OBVIOUS
<1>4. ASSUME Next PROVE NInv'
  BY <1>1, <1>3, <1>4, SessionServed, DeliveredServed, StagedServed, ResolvedServed DEF Next
<1> QED BY <1>2, <1>4

(* Every release goes to the key of its press, since what is held is what  *)
(* the staged events lead away from.                                       *)
LEMMA NoneStuck ==
  ASSUME NInv
  PROVE  NoKeyStuck
<1>1. ASSUME NEW s \in Sessions, kbd[s] # None, holding[s] = {}, pending[s] = <<>> PROVE kbd[s].held = {}
  <2>1. Toggles(<<>>, kbd[s].held, HeldBy(keymap, {})) /\ kbd[s] \in Keyboard
    BY <1>1, NTypes DEF NInv, Served
  <2>2. HeldBy(keymap, {}) = {} /\ kbd[s].held \in SUBSET Keys
    BY <2>1 DEF HeldBy, Held, Keyboard
  <2> QED BY <2>1, <2>2, TogglesNone
<1> QED BY <1>1 DEF NoKeyStuck

(* What reaches the compositor is what the clients asked for: each press   *)
(* types its keysym under the keymap of that moment, the modifiers sent    *)
(* with a key are those of its own keyboard, a pointer frame is that of    *)
(* one batch; and the keyboard of a client that holds nothing and has      *)
(* nothing staged holds nothing.  Without the environment's faults, on a   *)
(* layout with no two keys of one first keysym.                            *)
THEOREM InjectionIsAsked ==
  ASSUME OneKeyEach, Faults = {}
  PROVE  Spec => []InjectedAsAsked
<1>1. ASSUME NInv PROVE InjectedAsAsked
  BY <1>1, NoneStuck DEF NInv, InjectedAsAsked, TypedAsAsked, ModifiersOwn, FramesWhole
<1>2. NInv /\ [Next]_vars => NInv'
  BY NNext
<1> QED BY <1>1, <1>2, NFirst, PTL DEF Spec

(* When another session holds a modifier, or ended holding one, only the   *)
(* modifiers may be wrong: what is pressed is still the key asked for,     *)
(* frames are whole, and no key stays down.                                *)
THEOREM OnlyModifiersAreShared ==
  ASSUME OneKeyEach, Faults \subseteq {"shared_mods"}
  PROVE  Spec => [](TypedAsAsked /\ FramesWhole /\ NoKeyStuck)
<1>1. ASSUME NInv PROVE TypedAsAsked /\ FramesWhole /\ NoKeyStuck
  BY <1>1, NoneStuck DEF NInv, TypedAsAsked, FramesWhole
<1>2. NInv /\ [Next]_vars => NInv'
  BY NNext
<1> QED BY <1>1, <1>2, NFirst, PTL DEF Spec

-----------------------------------------------------------------------------
(* To a client its keyboard is its own: what it types and what is staged   *)
(* for it, seen without keys.                                              *)

DownBy(km, held) == {FirstSym(km, key) : key \in held}
Wants(events) == [i \in DOMAIN events |-> Wanted(events[i])]

LEMMA WantedEvent ==
  ASSUME NEW e \in Events
  PROVE  /\ Wanted(e).kind = e.kind
         /\ e.kind = "key" => Wanted(e).asked = e.asked /\ Wanted(e).pressed = e.pressed
BY DEF Wanted

LEMMA WantsTypes ==
  ASSUME NEW a \in Seq(Events)
  PROVE  /\ Wants(a) \in Seq({Wanted(e) : e \in Events})
         /\ Len(Wants(a)) = Len(a) /\ DOMAIN Wants(a) = 1..Len(a)
         /\ \A i \in 1..Len(a) : Wants(a)[i] = Wanted(a[i]) /\ a[i] \in Events
<1> DEFINE W == {Wanted(e) : e \in Events}
           n == Len(a)
<1>1. n \in Nat /\ DOMAIN a = 1..n /\ \A i \in 1..n : a[i] \in Events
  BY LenProperties
<1>2. Wants(a) \in [1..n -> W] /\ \A i \in 1..n : Wants(a)[i] = Wanted(a[i])
  BY <1>1 DEF Wants
<1> HIDE DEF W, n
<1>3. Wants(a) \in Seq(W)
  BY <1>1, <1>2, SeqDef
<1>4. Len(Wants(a)) = n
  BY <1>1, <1>2, <1>3, LenProperties
<1> QED BY <1>1, <1>2, <1>3, <1>4 DEF W, n

(* Nothing, one event, and two sequences in a row.                         *)
LEMMA WantsJoin ==
  ASSUME NEW a \in Seq(Events), NEW b \in Seq(Events)
  PROVE  Wants(a \o b) = Wants(a) \o Wants(b)
<1> DEFINE W == {Wanted(e) : e \in Events}
           p == Wants(a \o b)
           u == Wants(a)
           v == Wants(b)
           q == u \o v
<1>1. /\ a \o b \in Seq(Events) /\ Len(a) \in Nat /\ Len(b) \in Nat /\ Len(a \o b) = Len(a) + Len(b)
      /\ \A i \in 1..Len(a) : (a \o b)[i] = a[i]
      /\ \A i \in 1..Len(b) : (a \o b)[Len(a) + i] = b[i]
  BY SentTogether
<1>2. /\ u \in Seq(W) /\ Len(u) = Len(a) /\ \A i \in 1..Len(a) : u[i] = Wanted(a[i])
      /\ v \in Seq(W) /\ Len(v) = Len(b) /\ \A i \in 1..Len(b) : v[i] = Wanted(b[i])
      /\ p \in Seq(W) /\ Len(p) = Len(a) + Len(b)
      /\ \A i \in 1..(Len(a) + Len(b)) : p[i] = Wanted((a \o b)[i])
  BY <1>1, WantsTypes
<1> HIDE DEF W, p, u, v
<1>3. /\ q \in Seq(W) /\ Len(q) = Len(a) + Len(b)
      /\ \A i \in 1..Len(a) : q[i] = Wanted(a[i])
      /\ \A i \in 1..Len(b) : q[Len(a) + i] = Wanted(b[i])
  <2>1. /\ q \in Seq(W) /\ Len(q) = Len(u) + Len(v)
        /\ \A i \in 1..Len(u) : q[i] = u[i]
        /\ \A i \in 1..Len(v) : q[Len(u) + i] = v[i]
    <3>1. u \in Seq(W) /\ v \in Seq(W)
      BY <1>2
    <3> QED BY <3>1, SentTogether
  <2> HIDE DEF q
  <2> QED BY <2>1, <1>2
<1> HIDE DEF q
<1>4. ASSUME NEW i \in 1..(Len(a) + Len(b)) PROVE p[i] = q[i]
  <2>1. CASE i \in 1..Len(a)
    BY <2>1, <1>1, <1>2, <1>3
  <2>2. CASE i \notin 1..Len(a)
    <3>1. i - Len(a) \in 1..Len(b) /\ Len(a) + (i - Len(a)) = i
      BY <2>2, <1>1
    <3>2. q[i] = Wanted(b[i - Len(a)]) /\ (a \o b)[i] = b[i - Len(a)]
      BY <3>1, <1>1, <1>3
    <3> QED BY <3>2, <1>2
  <2> QED BY <2>1, <2>2
<1>5. p = q
  BY <1>2, <1>3, <1>4, SeqEqual
<1> QED BY <1>5 DEF p, q, u, v

LEMMA WantsOne ==
  ASSUME NEW e \in Events
  PROVE  Wants(<<e>>) = <<Wanted(e)>> /\ Wants(<<>>) = <<>>
<1>1. <<e>> \in Seq(Events) /\ Len(<<e>>) = 1 /\ <<e>>[1] = e
  BY OneEvent
<1>2. DOMAIN <<e>> = 1..1
  BY <1>1, LenProperties
<1>3. Wants(<<e>>) = [i \in 1..1 |-> Wanted(e)]
  BY <1>1, <1>2 DEF Wants
<1>4. <<Wanted(e)>> = [i \in 1..1 |-> Wanted(e)]
  OBVIOUS
<1>5. Wants(<<>>) = <<>>
  <2>1. <<>> \in Seq(Events)
    BY EmptySeq
  <2>2. Len(Wants(<<>>)) = 0 /\ Wants(<<>>) \in Seq({Wanted(v) : v \in Events})
    BY <2>1, WantsTypes, EmptySeq
  <2> QED BY <2>2, EmptySeq
<1> QED BY <1>3, <1>4, <1>5

(* A key is down when its last event is a press, or when it was down and   *)
(* no event is of it.                                                      *)
LastPress(events, key) ==
  \E i \in DOMAIN events :
    /\ events[i].kind = "key" /\ events[i].key = key /\ events[i].pressed
    /\ \A j \in DOMAIN events : j > i => ~(events[j].kind = "key" /\ events[j].key = key)

LEMMA LastTurn ==
  ASSUME NEW events \in Seq(Events), NEW A, NEW B, Toggles(events, A, B), NEW key
  PROVE  key \in B <=> (key \in A /\ ~Touches(events, key)) \/ LastPress(events, key)
<1> DEFINE n == Len(events)
           Of(i) == events[i].kind = "key" /\ events[i].key = key
<1>1. n \in Nat /\ DOMAIN events = 1..n
  BY LenProperties
<1>2. PICK H \in [0..n -> SUBSET Keys] : H[0] = A /\ H[n] = B /\ Turns(H, events)
  BY DEF Toggles
<1>3. \A i \in 1..n : key \in H[i] <=> IF Of(i) THEN events[i].pressed ELSE key \in H[i - 1]
  <2>1. ASSUME NEW i \in 1..n PROVE Turn(H[i - 1], events[i], H[i])
    BY <1>2 DEF Turns
  <2> QED BY <2>1 DEF Turn, After
<1> HIDE DEF n, Of
<1> DEFINE Says(m) == key \in H[m] <=>
             \/ key \in A /\ \A i \in 1..m : ~Of(i)
             \/ \E i \in 1..m : Of(i) /\ events[i].pressed /\ \A j \in 1..m : j > i => ~Of(j)
           T == {m \in Nat : m <= n => Says(m)}
<1>4. 0 \in T
  BY <1>2
<1>5. ASSUME NEW m \in Nat, m \in T PROVE m + 1 \in T
  <2>1. SUFFICES ASSUME m + 1 <= n PROVE Says(m + 1)
    OBVIOUS
  <2>2. Says(m) /\ m + 1 \in 1..n /\ (m + 1) - 1 = m
    BY <2>1, <1>1, <1>5
  <2>3. key \in H[m + 1] <=> IF Of(m + 1) THEN events[m + 1].pressed ELSE key \in H[m]
    BY <2>2, <1>3
  <2>4. \A i : i \in 1..(m + 1) <=> i \in 1..m \/ i = m + 1
    BY <1>5
  <2>5. CASE Of(m + 1)
    <3>1. m + 1 \in 1..(m + 1) /\ \A j \in 1..(m + 1) : ~(j > m + 1)
      OBVIOUS
    <3>2. \A i \in 1..m : m + 1 > i
      OBVIOUS
    <3> QED BY <2>3, <2>4, <2>5, <3>1, <3>2
  <2>6. CASE ~Of(m + 1)
    BY <2>2, <2>3, <2>4, <2>6
  <2> QED BY <2>5, <2>6
<1> HIDE DEF T
<1>6. n \in T
  BY <1>1, <1>4, <1>5, Induct
<1>7. Says(n)
  BY <1>1, <1>6 DEF T
<1> QED BY <1>1, <1>2, <1>7 DEF Of, Touches, LastPress

(* The keysyms of a frame's keys, by the keys or by the events alone.      *)
LEMMA FrameLeaves ==
  ASSUME OneKeyEach, NEW km \in Keymaps, Sound(km), NEW events \in Seq(Events), AsAsked(km, events),
         NEW A \in SUBSET Keys, NEW B \in SUBSET Keys, Toggles(events, A, B),
         \A key \in A \cup B : FirstSym(km, key) \in Keysyms
  PROVE  DownBy(km, B) = Private!Left(DownBy(km, A), Wants(events))
<1> DEFINE w == Wants(events)
           Of(i, k) == w[i].kind = "key" /\ w[i].asked = k
           In(k) == \/ k \in DownBy(km, A) /\ \A i \in DOMAIN w : ~Of(i, k)
                    \/ \E i \in DOMAIN w : Of(i, k) /\ w[i].pressed /\ \A j \in DOMAIN w : j > i => ~Of(j, k)
<1>1. Private!Left(DownBy(km, A), w) = {k \in Keysyms : In(k)}
  BY DEF Private!Left
<1>2. DOMAIN events = 1..Len(events) /\ DOMAIN w = DOMAIN events
  BY LenProperties, WantsTypes
<1>3. \A i \in DOMAIN events :
        /\ w[i].kind = events[i].kind /\ events[i] \in Events
        /\ events[i].kind = "key" => /\ w[i].asked = events[i].asked /\ w[i].pressed = events[i].pressed
                                     /\ events[i].key \in Keys
                                     /\ FirstSym(km, events[i].key) = events[i].asked
  <2>1. ASSUME NEW i \in DOMAIN events PROVE w[i] = Wanted(events[i]) /\ events[i] \in Events
    BY <1>2, <2>1, WantsTypes
  <2>2. ASSUME NEW i \in DOMAIN events, events[i].kind = "key" PROVE events[i].key \in Keys
    BY <2>1, <2>2 DEF Events
  <2> QED BY <2>1, <2>2, WantedEvent DEF AsAsked
<1> HIDE DEF w
<1>4. None \notin Keysyms
  BY InputAssumption DEF Keysyms
<1>5. ASSUME NEW k \in Keysyms PROVE k \in DownBy(km, B) <=> In(k)
  <2>1. CASE \E key \in Keys : FirstSym(km, key) = k
    <3>1. PICK key \in Keys : FirstSym(km, key) = k
      BY <2>1
    <3>2. \A other \in Keys : FirstSym(km, other) = k => other = key
      BY <3>1, <1>4, OneKey
    <3>3. (k \in DownBy(km, A) <=> key \in A) /\ (k \in DownBy(km, B) <=> key \in B)
      BY <3>1, <3>2 DEF DownBy
    <3>4. \A i \in DOMAIN events : /\ Of(i, k) <=> (events[i].kind = "key" /\ events[i].key = key)
                                   /\ Of(i, k) => w[i].pressed = events[i].pressed
      BY <1>3, <3>1, <3>2
    <3>5. key \in B <=> (key \in A /\ ~Touches(events, key)) \/ LastPress(events, key)
      BY LastTurn
    <3> HIDE DEF Of
    <3> QED BY <1>2, <3>3, <3>4, <3>5 DEF Touches, LastPress
  <2>2. CASE \A key \in Keys : FirstSym(km, key) # k
    <3>1. \A i \in DOMAIN w : ~Of(i, k)
      BY <1>2, <1>3, <2>2
    <3>2. k \notin DownBy(km, A) /\ k \notin DownBy(km, B)
      BY <2>2 DEF DownBy
    <3> QED BY <3>1, <3>2
  <2> QED BY <2>1, <2>2
<1> HIDE DEF In
<1>6. DownBy(km, B) \subseteq Keysyms
  BY DEF DownBy
<1>7. DownBy(km, B) = {k \in Keysyms : In(k)}
  BY <1>5, <1>6
<1> QED BY <1>1, <1>7 DEF w

(* One key that turns.                                                     *)
LEMMA KeyLeaves ==
  ASSUME OneKeyEach, NEW km \in Keymaps, Sound(km), NEW A \in SUBSET Keys,
         NEW key \in Keys, NEW pressed \in BOOLEAN, NEW k \in Keysyms, FirstSym(km, key) = k
  PROVE  DownBy(km, After(A, KeyEvent(key, pressed, k)))
           = IF pressed THEN DownBy(km, A) \cup {k} ELSE DownBy(km, A) \ {k}
<1>1. After(A, KeyEvent(key, pressed, k)) = IF pressed THEN A \cup {key} ELSE A \ {key}
  <2> DEFINE e == KeyEvent(key, pressed, k)
  <2>1. e.kind = "key" /\ e.key = key /\ e.pressed = pressed
    BY KeyEventType
  <2> HIDE DEF e
  <2>2. After(A, e) = IF pressed THEN A \cup {key} ELSE A \ {key}
    BY <2>1 DEF After
  <2> QED BY <2>2 DEF e
<1>2. k # None
  BY InputAssumption DEF Keysyms
<1>3. \A other \in Keys : FirstSym(km, other) = k => other = key
  BY <1>2, OneKey
<1> QED BY <1>1, <1>3 DEF DownBy

(* A keyboard holds no key that types nothing.                             *)
LEMMA HeldAreNamed ==
  ASSUME NEW km \in Keymaps, NEW board, NEW events \in Seq(Events),
         NEW hs \in SUBSET (Vias \X Keysyms), Served(km, board, events, hs)
  PROVE  \A key \in board.held \cup HeldBy(km, hs) : FirstSym(km, key) \in Keysyms
<1>1. \A key \in HeldBy(km, hs) : FirstSym(km, key) \in Keysyms
  BY DEF HeldBy, Held
<1>2. ASSUME NEW key \in board.held, ~Touches(events, key) PROVE FirstSym(km, key) \in Keysyms
  BY <1>1, <1>2, Untouched DEF Served
<1>3. ASSUME NEW key \in board.held, Touches(events, key) PROVE FirstSym(km, key) \in Keysyms
  <2>1. PICK i \in DOMAIN events : events[i].kind = "key" /\ events[i].key = key
    BY <1>3 DEF Touches
  <2>2. events[i] \in Events
    BY LenProperties, ElementOfSeq
  <2>3. events[i].asked \in Keysyms
    BY <2>1, <2>2 DEF Events
  <2> QED BY <2>1, <2>3 DEF Served, AsAsked
<1> QED BY <1>1, <1>2, <1>3

(* What is seen of a session before a step and after it.                   *)
LEMMA SeenNow ==
  ASSUME NInv, NEW s \in Sessions
  PROVE  /\ Typing[s] = IF kbd[s] = None THEN None ELSE DownBy(keymap, kbd[s].held)
         /\ Waiting[s] = Wants(pending[s])
<1>1. kbd[s] # None => kbd[s].keymap = keymap
  BY NTypes
<1>2. kbd[s] # None => Typing[s] = {FirstSym(kbd[s].keymap, key) : key \in kbd[s].held}
  BY DEF Typing, FirstSym
<1> QED BY <1>1, <1>2 DEF Typing, Waiting, Wants, DownBy

LEMMA SeenNext ==
  ASSUME NInv', NEW s \in Sessions
  PROVE  /\ Typing'[s] = IF kbd'[s] = None THEN None ELSE DownBy(keymap', kbd'[s].held)
         /\ Waiting'[s] = Wants(pending'[s])
<1>1. kbd'[s] # None => kbd'[s].keymap = keymap'
  BY DEF NInv, KInv
<1>2. kbd'[s] # None => Typing'[s] = {FirstSym(kbd'[s].keymap, key) : key \in kbd'[s].held}
  BY DEF Typing, FirstSym
<1> QED BY <1>1, <1>2 DEF Typing, Waiting, Wants, DownBy

(* A keyboard types keysyms, whatever it holds.                            *)
LEMMA KeyboardSeen ==
  ASSUME NInv, NEW s \in Sessions, kbd[s] # None
  PROVE  /\ kbd[s].held \in SUBSET Keys /\ HeldBy(keymap, holding[s]) \in SUBSET Keys
         /\ \A key \in kbd[s].held \cup HeldBy(keymap, holding[s]) : FirstSym(keymap, key) \in Keysyms
         /\ Typing[s] = DownBy(keymap, kbd[s].held) /\ Typing[s] # None
<1>1. /\ keymap \in Keymaps /\ pending[s] \in Seq(Events) /\ holding[s] \in SUBSET (Vias \X Keysyms)
      /\ kbd[s] \in Keyboard /\ Served(keymap, kbd[s], pending[s], holding[s])
  BY NTypes DEF NInv
<1>2. kbd[s].held \in SUBSET Keys /\ HeldBy(keymap, holding[s]) \in SUBSET Keys
  BY <1>1 DEF Keyboard, HeldBy
<1>3. \A key \in kbd[s].held \cup HeldBy(keymap, holding[s]) : FirstSym(keymap, key) \in Keysyms
  BY <1>1, HeldAreNamed
<1>4. Typing[s] = DownBy(keymap, kbd[s].held)
  BY SeenNow
<1>5. DownBy(keymap, kbd[s].held) \in SUBSET Keysyms
  BY <1>3 DEF DownBy
<1>6. DownBy(keymap, kbd[s].held) # None
  BY <1>5, InputAssumption
<1> QED BY <1>2, <1>3, <1>4, <1>6

Seen(s, typing, waiting) ==
  /\ Typing' = [Typing EXCEPT ![s] = typing]
  /\ Waiting' = [Waiting EXCEPT ![s] = waiting]

(* A step of a session that leaves what the others type and have staged.   *)
LEMMA SeenStep ==
  ASSUME NInv, NInv', NEW s \in Sessions, NEW typing, NEW waiting,
         Typing'[s] = typing, Waiting'[s] = waiting,
         \A t \in Sessions \ {s} :
           /\ kbd'[t] = None <=> kbd[t] = None
           /\ kbd[t] # None => DownBy(keymap', kbd'[t].held) = DownBy(keymap, kbd[t].held)
           /\ pending'[t] = pending[t]
  PROVE  Seen(s, typing, waiting)
<1>1. \A t \in Sessions \ {s} : Typing'[t] = Typing[t] /\ Waiting'[t] = Waiting[t]
  <2>1. ASSUME NEW t \in Sessions \ {s} PROVE Typing'[t] = Typing[t] /\ Waiting'[t] = Waiting[t]
    BY <2>1, SeenNow, SeenNext
  <2> QED BY <2>1
<1>2. /\ Typing = [t \in Sessions |-> Typing[t]] /\ Typing' = [t \in Sessions |-> Typing'[t]]
      /\ Waiting = [t \in Sessions |-> Waiting[t]] /\ Waiting' = [t \in Sessions |-> Waiting'[t]]
  BY DEF Typing, Waiting
<1>3. Typing' = [Typing EXCEPT ![s] = typing]
  BY <1>1, <1>2
<1>4. Waiting' = [Waiting EXCEPT ![s] = waiting]
  BY <1>1, <1>2
<1> QED BY <1>3, <1>4 DEF Seen

(* The steps of the specification, as they are seen.                       *)
LEMMA SeenActions ==
  ASSUME NEW s \in Sessions, NEW typing, NEW waiting, Seen(s, typing, waiting)
  PROVE  /\ typing = Typing[s] /\ waiting = Waiting[s] => UNCHANGED <<Typing, Waiting>>
         /\ Typing[s] = None /\ typing = {} /\ waiting = Waiting[s] => Private!Open(s)
         /\ Typing[s] # None /\ typing = None /\ waiting = <<>> => Private!Close(s)
         /\ Typing[s] # None /\ typing = Private!Left(Typing[s], Waiting[s]) /\ waiting = <<>> => Private!Frame(s)
<1>1. /\ Typing' = [Typing EXCEPT ![s] = typing] /\ Waiting' = [Waiting EXCEPT ![s] = waiting]
      /\ Typing = [t \in Sessions |-> Typing[t]] /\ Waiting = [t \in Sessions |-> Waiting[t]]
  BY DEF Seen, Typing, Waiting
<1>2. (typing = Typing[s] => Typing' = Typing) /\ (waiting = Waiting[s] => Waiting' = Waiting)
  BY <1>1
<1>3. ASSUME Typing[s] = None, typing = {}, waiting = Waiting[s] PROVE Private!Open(s)
  BY <1>1, <1>2, <1>3 DEF Private!Open
<1>4. ASSUME Typing[s] # None, typing = None, waiting = <<>> PROVE Private!Close(s)
  BY <1>1, <1>4 DEF Private!Close
<1>5. ASSUME Typing[s] # None, typing = Private!Left(Typing[s], Waiting[s]), waiting = <<>> PROVE Private!Frame(s)
  BY <1>1, <1>5 DEF Private!Frame
<1> HIDE DEF Seen
<1> QED BY <1>2, <1>3, <1>4, <1>5

LEMMA SeenWait ==
  ASSUME NEW s \in Sessions, Typing[s] # None, NEW events, Seen(s, Typing[s], Waiting[s] \o events)
  PROVE  Private!Wait(s, events)
<1>1. Typing = [t \in Sessions |-> Typing[t]] /\ Waiting = [t \in Sessions |-> Waiting[t]]
  BY DEF Typing, Waiting
<1> QED BY <1>1 DEF Seen, Private!Wait

LEMMA SeenType ==
  ASSUME NEW s \in Sessions, Typing[s] # None, NEW k, NEW pressed,
         Seen(s, IF pressed THEN Typing[s] \cup {k} ELSE Typing[s] \ {k}, Waiting[s])
  PROVE  Private!Type(s, k, pressed)
<1>1. Typing = [t \in Sessions |-> Typing[t]] /\ Waiting = [t \in Sessions |-> Waiting[t]]
  BY DEF Typing, Waiting
<1> QED BY <1>1 DEF Seen, Private!Type

(* A splice is not seen.                                                   *)
LEMMA SpliceUnseen ==
  ASSUME NInv, NEW x \in Xkbs, SpliceIsQuiet(x), NEW s \in Sessions, kbd[s] # None
  PROVE  /\ Uploaded(kbd, x)[s] # None /\ Uploaded(kbd, x)[s].held = kbd[s].held
         /\ DownBy(x.keymap, kbd[s].held) = DownBy(keymap, kbd[s].held)
<1>1. kbd \in [Sessions -> Keyboard \cup {None}] /\ keymap \in Keymaps /\ kbd[s].held \subseteq Keys
  BY NTypes DEF Keyboard
<1>2. Uploaded(kbd, x)[s] # None /\ Uploaded(kbd, x)[s].held = kbd[s].held
  BY <1>1, UploadTypes
<1>3. ASSUME NEW key \in kbd[s].held PROVE FirstSym(x.keymap, key) = FirstSym(keymap, key)
  <2>1. key \in Slots => x.keymap[key] = keymap[key]
    BY <1>3 DEF SpliceIsQuiet, InUse
  <2> QED BY <2>1 DEF FirstSym, Symbols
<1> QED BY <1>2, <1>3 DEF DownBy

(* A batch for a keyboard, which the others do not see.                    *)
LEMMA DeliverSeen ==
  ASSUME NInv, NEW s \in Sessions, kbd[s] # None, NEW batch \in Seq(Events), Deliver(s, batch),
         AsAsked(keymap, batch), NEW B, Toggles(batch, kbd[s].held, B)
  PROVE  kbd'[s] # None /\ kbd'[s].held = B /\ \A t \in Sessions \ {s} : kbd'[t] = kbd[t]
<1> DEFINE r == inject_event_batch(kbd[s], down, batch)
<1>1. /\ kbd \in [Sessions -> Keyboard \cup {None}] /\ down \in [ModKeys -> Nat]
      /\ kbd[s].keymap = keymap /\ kbd[s].unframed = FALSE
  BY NTypes DEF NInv, Served
<1>2. AsAsked(kbd[s].keymap, batch)
  BY <1>1
<1>3. Delivered(kbd, down, s, r, B)
  BY <1>1, <1>2, DeliverServed
<1>4. kbd' = [kbd EXCEPT ![s] = r.kbd]
  BY DEF Deliver
<1> HIDE DEF r
<1> QED BY <1>1, <1>3, <1>4 DEF Delivered


(* The sessions that do not take part in a step that splices nothing.      *)
LEMMA OthersSee ==
  ASSUME NInv, NInv', NEW s \in Sessions, NEW typing, NEW waiting, keymap' = keymap,
         Typing'[s] = typing, Waiting'[s] = waiting,
         \A t \in Sessions \ {s} : kbd'[t] = kbd[t] /\ pending'[t] = pending[t]
  PROVE  Seen(s, typing, waiting)
<1>1. ASSUME NEW t \in Sessions \ {s}
      PROVE  /\ kbd'[t] = None <=> kbd[t] = None
             /\ kbd[t] # None => DownBy(keymap', kbd'[t].held) = DownBy(keymap, kbd[t].held)
             /\ pending'[t] = pending[t]
  OBVIOUS
<1> QED BY <1>1, SeenStep

(* A session that comes, that its client makes a sender, that goes.        *)
LEMMA SessionSeen ==
  ASSUME NInv, NInv', NEW s \in Sessions,
         create_context(s) \/ transition_to_active(s) \/ destroy_context(s)
  PROVE  [Private!Next]_<<Typing, Waiting>>
<1>0. /\ kbd \in [Sessions -> Keyboard \cup {None}] /\ pending \in [Sessions -> Seq(Events)]
      /\ \A t \in Sessions : eis[t] = "none" <=> kbd[t] = None
  BY NTypes DEF NInv, KInv, TInv
<1>1. CASE create_context(s)
  <2> DEFINE b == [keymap |-> keymap, held |-> {}, mods |-> {}, unframed |-> FALSE]
  <2>1. eis[s] = "none" /\ kbd' = [kbd EXCEPT ![s] = b] /\ UNCHANGED <<keymap, pending>>
    BY <1>1 DEF create_context
  <2>2. b \in Keyboard /\ b.held = {}
    BY NTypes DEF Keyboard, Keymaps
  <2> HIDE DEF b
  <2>3. kbd'[s] = b /\ b # None /\ \A t \in Sessions \ {s} : kbd'[t] = kbd[t]
    BY <2>1, <2>2, <1>0, InputAssumption
  <2>4. Typing[s] = None /\ Typing'[s] = {} /\ Waiting'[s] = Waiting[s]
    <3>1. DownBy(keymap', {}) = {}
      BY DEF DownBy
    <3> QED BY <3>1, <2>1, <2>2, <2>3, <1>0, SeenNow, SeenNext
  <2>5. Seen(s, {}, Waiting[s])
    BY <2>1, <2>3, <2>4, OthersSee
  <2>6. Private!Open(s)
    BY <2>4, <2>5, SeenActions
  <2> QED BY <2>6 DEF Private!Next
<1>2. CASE transition_to_active(s)
  <2>1. UNCHANGED <<pending, kbd>>
    BY <1>2 DEF transition_to_active
  <2> QED BY <2>1 DEF Typing, Waiting
<1>3. CASE destroy_context(s)
  <2>1. /\ eis[s] # "none" /\ kbd' = [kbd EXCEPT ![s] = None]
        /\ pending' = [pending EXCEPT ![s] = <<>>] /\ keymap' = keymap
    BY <1>3 DEF destroy_context
  <2>2. /\ kbd'[s] = None /\ pending'[s] = <<>>
        /\ \A t \in Sessions \ {s} : kbd'[t] = kbd[t] /\ pending'[t] = pending[t]
    BY <2>1, <1>0
  <2>3. Typing[s] # None /\ Typing'[s] = None /\ Waiting'[s] = <<>>
    <3>1. Wants(<<>>) = <<>>
      BY PlainEventType, WantsOne
    <3>2. Typing[s] # None
      BY <2>1, <1>0, KeyboardSeen
    <3> QED BY <3>1, <3>2, <2>1, <2>2, <1>0, SeenNow, SeenNext
  <2>4. Seen(s, None, <<>>)
    BY <2>1, <2>2, <2>3, OthersSee
  <2>5. Private!Close(s)
    BY <2>3, <2>4, SeenActions
  <2> QED BY <2>5 DEF Private!Next
<1> QED BY <1>1, <1>2, <1>3

(* What is staged is seen to wait, and nothing else is.                    *)
LEMMA StageSeen ==
  ASSUME NInv, NInv', NEW s \in Sessions, NEW more \in Seq(Events), eis[s] = "sender", Stage(s, more),
         \A t \in Sessions : /\ kbd'[t] = None <=> kbd[t] = None
                             /\ kbd[t] # None => DownBy(keymap', kbd'[t].held) = DownBy(keymap, kbd[t].held)
  PROVE  Private!Wait(s, Wants(more))
<1>1. pending \in [Sessions -> Seq(Events)] /\ kbd[s] # None
  BY NTypes DEF NInv, KInv, TInv
<1>2. pending' = [pending EXCEPT ![s] = pending[s] \o more]
  BY DEF Stage
<1>3. pending'[s] = pending[s] \o more /\ \A t \in Sessions \ {s} : pending'[t] = pending[t]
  BY <1>1, <1>2
<1>4. Wants(pending[s] \o more) = Wants(pending[s]) \o Wants(more)
  BY <1>1, WantsJoin
<1>5. Typing'[s] = Typing[s] /\ Waiting'[s] = Waiting[s] \o Wants(more)
  BY <1>1, <1>3, <1>4, SeenNow, SeenNext
<1>6. Seen(s, Typing[s], Waiting[s] \o Wants(more))
  BY <1>3, <1>5, SeenStep
<1> QED BY <1>1, <1>6, KeyboardSeen, SeenWait

(* What is delivered is seen on its own keyboard.                          *)
LEMMA DirectSeen ==
  ASSUME NInv, NInv', NEW s \in Sessions, kbd[s] # None, NEW batch \in Seq(Events), Deliver(s, batch),
         AsAsked(keymap, batch), NEW B, Toggles(batch, kbd[s].held, B), keymap' = keymap,
         \A t \in Sessions \ {s} : pending'[t] = pending[t]
  PROVE  Seen(s, DownBy(keymap, B), Wants(pending'[s]))
<1>1. kbd'[s] # None /\ kbd'[s].held = B /\ \A t \in Sessions \ {s} : kbd'[t] = kbd[t]
  BY DeliverSeen
<1>2. Typing'[s] = DownBy(keymap, B) /\ Waiting'[s] = Wants(pending'[s])
  BY <1>1, SeenNext
<1> QED BY <1>1, <1>2, OthersSee

(* What goes to the keyboard at once, and the frame.                       *)
LEMMA DeliveredSeen ==
  ASSUME OneKeyEach, NInv, NInv', NEW s \in Sessions,
         \/ Frame(s) \/ NotifyPointer(s) \/ NotifyTouch(s)
         \/ \E key \in DOMAIN Layout, pressed \in BOOLEAN : NotifyKeyboardKeycode(s, key, pressed)
  PROVE  [Private!Next]_<<Typing, Waiting>>
<1>0. /\ kbd \in [Sessions -> Keyboard \cup {None}] /\ keymap \in Keymaps /\ Sound(keymap) /\ down \in [ModKeys -> Nat]
      /\ pending \in [Sessions -> Seq(Events)] /\ holding \in [Sessions -> SUBSET (Vias \X Keysyms)]
      /\ \A t \in Sessions : eis[t] = "none" <=> kbd[t] = None
      /\ \A t \in Sessions : kbd[t] # None => kbd[t] \in Keyboard /\ Served(keymap, kbd[t], pending[t], holding[t])
  BY NTypes DEF NInv, KInv, TInv
<1>1. ASSUME Frame(s) PROVE Private!Next
  <2> DEFINE B == HeldBy(keymap, holding[s])
  <2>1. /\ eis[s] = "sender" /\ Deliver(s, pending[s]) /\ pending' = [pending EXCEPT ![s] = <<>>]
        /\ keymap' = keymap
    BY <1>1 DEF Frame
  <2>2. /\ kbd[s] # None /\ pending[s] \in Seq(Events)
        /\ AsAsked(keymap, pending[s]) /\ Toggles(pending[s], kbd[s].held, B)
    BY <2>1, <1>0 DEF Served
  <2>3. pending'[s] = <<>> /\ \A t \in Sessions \ {s} : pending'[t] = pending[t]
    BY <2>1, <1>0
  <2>4. /\ kbd[s].held \in SUBSET Keys /\ B \in SUBSET Keys
        /\ \A key \in kbd[s].held \cup B : FirstSym(keymap, key) \in Keysyms
        /\ Typing[s] = DownBy(keymap, kbd[s].held) /\ Typing[s] # None
    BY <2>2, KeyboardSeen
  <2> HIDE DEF B
  <2>5. DownBy(keymap, B) = Private!Left(Typing[s], Waiting[s])
    <3> DEFINE A == kbd[s].held
               batch == pending[s]
    <3>1. /\ A \in SUBSET Keys /\ batch \in Seq(Events) /\ AsAsked(keymap, batch) /\ Toggles(batch, A, B)
          /\ \A key \in A \cup B : FirstSym(keymap, key) \in Keysyms
      BY <2>2, <2>4
    <3> HIDE DEF A, batch
    <3>2. DownBy(keymap, B) = Private!Left(DownBy(keymap, A), Wants(batch))
      BY <3>1, <2>4, <1>0, FrameLeaves
    <3> QED BY <3>2, <2>4, SeenNow DEF A, batch
  <2>6. Seen(s, DownBy(keymap, B), Wants(<<>>))
    BY <2>1, <2>2, <2>3, DirectSeen
  <2>7. Wants(<<>>) = <<>>
    BY PlainEventType, WantsOne
  <2>8. Private!Frame(s)
    BY <2>4, <2>5, <2>6, <2>7, SeenActions
  <2> QED BY <2>8 DEF Private!Next
<1>2. ASSUME NotifyPointer(s) PROVE UNCHANGED <<Typing, Waiting>>
  <2> DEFINE batch == <<PlainEvent("pointer")>>
  <2>1. kbd[s] # None /\ Deliver(s, batch) /\ UNCHANGED <<keymap, pending>>
    BY <1>2 DEF NotifyPointer
  <2>2. kbd[s].held \in SUBSET Keys /\ Typing[s] = DownBy(keymap, kbd[s].held)
    BY <2>1, KeyboardSeen
  <2>3. AsAsked(keymap, batch) /\ Toggles(batch, kbd[s].held, kbd[s].held)
    BY <2>1, <2>2, <1>0, ServedPointer
  <2>4. batch \in Seq(Events)
    BY PlainEventType, OneEvent
  <2> HIDE DEF batch
  <2>5. Seen(s, DownBy(keymap, kbd[s].held), Wants(pending'[s]))
    BY <2>1, <2>3, <2>4, DirectSeen
  <2>6. Seen(s, Typing[s], Waiting[s])
    BY <2>1, <2>2, <2>5, SeenNow
  <2> QED BY <2>6, SeenActions
<1>3. ASSUME NotifyTouch(s) PROVE UNCHANGED <<Typing, Waiting>>
  <2>1. kbd[s] # None /\ Deliver(s, <<PlainEvent("touch")>>) /\ UNCHANGED <<keymap, pending, holding>>
    BY <1>3 DEF NotifyTouch
  <2>2. kbd[s] \in Keyboard /\ kbd[s].unframed = FALSE
    BY <2>1, <1>0 DEF Served
  <2> DEFINE r == inject_event_batch(kbd[s], down, <<PlainEvent("touch")>>)
  <2>3. r.kbd = kbd[s]
    BY <2>2, <1>0, TouchFails
  <2>4. kbd' = [kbd EXCEPT ![s] = r.kbd]
    BY <2>1 DEF Deliver
  <2> HIDE DEF r
  <2>5. kbd' = kbd
    BY <2>3, <2>4, <1>0
  <2> QED BY <2>1, <2>5 DEF Typing, Waiting
<1>4. ASSUME NEW key \in DOMAIN Layout, NEW pressed \in BOOLEAN, NotifyKeyboardKeycode(s, key, pressed)
      PROVE  Private!Next
  <2> DEFINE k == Layout[key][1]
             e == KeyEvent(key, pressed, k)
             B == After(kbd[s].held, e)
  <2>1. kbd[s] # None /\ Asks(s, "dbus", k, pressed) /\ Deliver(s, <<e>>) /\ UNCHANGED <<keymap, pending>>
    BY <1>4 DEF NotifyKeyboardKeycode
  <2>2. key \in Keys /\ k \in Keysyms /\ FirstSym(keymap, key) = k
    BY LayoutKeys DEF FirstSym, Symbols
  <2> HIDE DEF k
  <2>3. e \in Events
    BY <2>2, KeyEventType
  <2>4. /\ Asking(holding[s], "dbus", k, pressed, holding'[s])
        /\ \A i \in DOMAIN pending[s] : pending[s][i].kind = "key" => pending[s][i].asked # k
    BY <2>1, <2>2, AsksIsAsking DEF Vias
  <2>5. /\ kbd[s] \in Keyboard /\ pending[s] \in Seq(Events) /\ holding[s] \in SUBSET (Vias \X Keysyms)
        /\ Served(keymap, kbd[s], pending[s], holding[s])
    BY <2>1, <1>0
  <2>6. AsAsked(keymap, <<e>>) /\ Toggles(<<e>>, kbd[s].held, B)
    <3>1. "dbus" \in Vias
      BY DEF Vias
    <3>2. Passes(keymap, kbd[s], pending[s], holding'[s], e)
      BY <3>1, <2>2, <2>4, <2>5, <1>0, ServedDirect
    <3> QED BY <3>2 DEF Passes
  <2>7. kbd[s].held \in SUBSET Keys /\ Typing[s] = DownBy(keymap, kbd[s].held) /\ Typing[s] # None
    BY <2>1, KeyboardSeen
  <2>8. DownBy(keymap, B) = IF pressed THEN Typing[s] \cup {k} ELSE Typing[s] \ {k}
    <3> DEFINE A == kbd[s].held
    <3>1. /\ keymap \in Keymaps /\ Sound(keymap) /\ A \in SUBSET Keys
          /\ key \in Keys /\ k \in Keysyms /\ FirstSym(keymap, key) = k
      BY <2>2, <2>7, <1>0
    <3> HIDE DEF A
    <3>2. DownBy(keymap, After(A, KeyEvent(key, pressed, k)))
            = IF pressed THEN DownBy(keymap, A) \cup {k} ELSE DownBy(keymap, A) \ {k}
      BY <3>1, KeyLeaves
    <3> QED BY <3>2, <2>7 DEF A
  <2> HIDE DEF e, B
  <2>9. <<e>> \in Seq(Events)
    BY <2>3, OneEvent
  <2>10. Seen(s, DownBy(keymap, B), Wants(pending'[s]))
    BY <2>1, <2>6, <2>9, DirectSeen
  <2>11. Seen(s, IF pressed THEN Typing[s] \cup {k} ELSE Typing[s] \ {k}, Waiting[s])
    BY <2>1, <2>8, <2>10, SeenNow
  <2>12. Private!Type(s, k, pressed)
    BY <2>7, <2>11, SeenType
  <2> QED BY <2>2, <2>12 DEF Private!Next
<1> QED BY <1>1, <1>2, <1>3, <1>4

(* A key event waits as what was asked for.                                *)
LEMMA WantedKey ==
  ASSUME NEW key \in Keys, NEW pressed \in BOOLEAN, NEW k \in Keysyms
  PROVE  /\ KeyEvent(key, pressed, k) \in Events /\ <<KeyEvent(key, pressed, k)>> \in Seq(Events)
         /\ Wanted(KeyEvent(key, pressed, k)) = Private!Asked(k, pressed)
         /\ Wants(<<KeyEvent(key, pressed, k)>>) = <<Private!Asked(k, pressed)>>
<1> DEFINE e == KeyEvent(key, pressed, k)
<1>1. e \in Events /\ e.kind = "key" /\ e.asked = k /\ e.pressed = pressed
  BY KeyEventType
<1> HIDE DEF e
<1>2. Wanted(e) = Private!Asked(k, pressed)
  BY <1>1 DEF Wanted, Private!Asked
<1>3. Wants(<<e>>) = <<Wanted(e)>> /\ <<e>> \in Seq(Events)
  BY <1>1, WantsOne, OneEvent
<1> QED BY <1>1, <1>2, <1>3 DEF e

(* What is staged.                                                         *)
LEMMA StagedSeen ==
  ASSUME "touch" \notin Faults, NInv, NInv', NEW s \in Sessions,
         \/ \E kind \in {"pointer", "touch"} : PointerOrTouch(s, kind)
         \/ \E key \in DOMAIN Layout, pressed \in BOOLEAN : KeyboardKey(s, key, pressed)
  PROVE  Private!Next
<1>1. ASSUME NEW more \in Seq(Events), eis[s] = "sender", Stage(s, more), UNCHANGED <<keymap, kbd>>
      PROVE  Private!Wait(s, Wants(more))
  <2>1. \A t \in Sessions : /\ kbd'[t] = None <=> kbd[t] = None
                            /\ kbd[t] # None => DownBy(keymap', kbd'[t].held) = DownBy(keymap, kbd[t].held)
    BY <1>1
  <2> QED BY <2>1, <1>1, StageSeen
<1>2. ASSUME NEW kind \in {"pointer", "touch"}, PointerOrTouch(s, kind) PROVE Private!Next
  <2> DEFINE e == PlainEvent("pointer")
  <2>1. kind = "pointer"
    BY <1>2 DEF PointerOrTouch
  <2>2. eis[s] = "sender" /\ Stage(s, <<e>>) /\ UNCHANGED <<keymap, kbd>>
    BY <2>1, <1>2 DEF PointerOrTouch
  <2>3. e \in Events /\ <<e>> \in Seq(Events) /\ Wanted(e) = Private!Pointer
    BY PlainEventType, OneEvent DEF Wanted, PlainEvent, Private!Pointer
  <2> HIDE DEF e
  <2>4. Private!Wait(s, <<Private!Pointer>>)
    BY <2>2, <2>3, <1>1, WantsOne
  <2> QED BY <2>4 DEF Private!Next
<1>3. ASSUME NEW key \in DOMAIN Layout, NEW pressed \in BOOLEAN, KeyboardKey(s, key, pressed) PROVE Private!Next
  <2> DEFINE k == Layout[key][1]
             e == KeyEvent(key, pressed, k)
  <2>1. eis[s] = "sender" /\ Stage(s, <<e>>) /\ UNCHANGED <<keymap, kbd>>
    BY <1>3 DEF KeyboardKey
  <2>2. key \in Keys /\ k \in Keysyms
    BY LayoutKeys
  <2> HIDE DEF k
  <2>3. <<e>> \in Seq(Events) /\ Wants(<<e>>) = <<Private!Asked(k, pressed)>>
    BY <2>2, WantedKey
  <2> HIDE DEF e
  <2>4. Private!Wait(s, <<Private!Asked(k, pressed)>>)
    BY <2>1, <2>3, <1>1
  <2> QED BY <2>2, <2>4 DEF Private!Next
<1> QED BY <1>2, <1>3

(* A splice is not seen on any keyboard.                                   *)
LEMMA UploadSeen ==
  ASSUME NInv, NEW x \in Xkbs, SpliceIsQuiet(x)
  PROVE  \A t \in Sessions :
           /\ Uploaded(kbd, x)[t] = None <=> kbd[t] = None
           /\ kbd[t] # None => /\ Uploaded(kbd, x)[t].held = kbd[t].held
                               /\ DownBy(x.keymap, Uploaded(kbd, x)[t].held) = DownBy(keymap, kbd[t].held)
<1>1. kbd \in [Sessions -> Keyboard \cup {None}]
  BY NTypes
<1>2. \A t \in Sessions : Uploaded(kbd, x)[t] = None <=> kbd[t] = None
  BY <1>1, UploadTypes
<1>3. ASSUME NEW t \in Sessions, kbd[t] # None
      PROVE  /\ Uploaded(kbd, x)[t].held = kbd[t].held
             /\ DownBy(x.keymap, Uploaded(kbd, x)[t].held) = DownBy(keymap, kbd[t].held)
  <2>1. Uploaded(kbd, x)[t].held = kbd[t].held /\ DownBy(x.keymap, kbd[t].held) = DownBy(keymap, kbd[t].held)
    BY <1>3, SpliceUnseen
  <2> QED BY <2>1
<1> QED BY <1>2, <1>3

(* A text waits as its keystrokes, whatever keys its characters got.       *)
LEMMA CharacterWants ==
  ASSUME NEW st \in Staged, st.xkb.keymap = st.xkb.pool.slots, NEW k \in Keysyms,
         NEW compiles \in BOOLEAN, compiles = TRUE
  PROVE  LET nx == StageChar(st, k, compiles)
         IN  /\ nx.xkb.keymap = nx.xkb.pool.slots
             /\ nx.events \in Seq(Events) /\ Len(nx.events) = Len(st.events) + 2
             /\ \A j \in 1..Len(st.events) : nx.events[j] = st.events[j]
             /\ Wanted(nx.events[Len(st.events) + 1]) = Private!Asked(k, TRUE)
             /\ Wanted(nx.events[Len(st.events) + 2]) = Private!Asked(k, FALSE)
<1> DEFINE r == keysym_to_keycode(st.xkb, k, compiles)
           nx == StageChar(st, k, compiles)
           two == TypedOnce(r.key, k)
<1>0. compiles = TRUE
  OBVIOUS
<1>1. st.xkb \in Xkbs /\ st.events \in Seq(Events)
  BY DEF Staged
<1>2. r.key \in Keys /\ r.xkb.keymap = r.xkb.pool.slots
  BY <1>0, <1>1, KeysymTypes
<1>3. nx.xkb = r.xkb /\ (r.key # None => nx.events = st.events \o two)
  BY StageCharFields
<1>4. /\ two \in Seq(Events) /\ Len(two) = 2
      /\ two[1] = KeyEvent(r.key, TRUE, k) /\ two[2] = KeyEvent(r.key, FALSE, k)
  BY <1>2, PressRelease DEF TypedOnce
<1>5. Wanted(KeyEvent(r.key, TRUE, k)) = Private!Asked(k, TRUE) /\ Wanted(KeyEvent(r.key, FALSE, k)) = Private!Asked(k, FALSE)
  BY <1>2, WantedKey
<1> HIDE DEF r, nx, two
<1>6. nx.events = st.events \o two
  BY <1>2, <1>3, InputAssumption
<1>7. /\ nx.events \in Seq(Events) /\ Len(nx.events) = Len(st.events) + 2
      /\ \A j \in 1..Len(st.events) : nx.events[j] = st.events[j]
      /\ \A j \in 1..2 : nx.events[Len(st.events) + j] = two[j]
  <2> DEFINE a == st.events
             c == a \o two
  <2>1. a \in Seq(Events)
    BY <1>1
  <2> HIDE DEF a
  <2>2. /\ c \in Seq(Events) /\ Len(c) = Len(a) + Len(two)
        /\ \A j \in 1..Len(a) : c[j] = a[j]
        /\ \A j \in 1..Len(two) : c[Len(a) + j] = two[j]
    BY <2>1, <1>4, SentTogether
  <2> HIDE DEF c
  <2>3. nx.events = c
    BY <1>6 DEF c, a
  <2> QED BY <2>2, <2>3, <1>4 DEF a
<1>8. 1 \in 1..2 /\ 2 \in 1..2
  OBVIOUS
<1>9. nx.events[Len(st.events) + 1] = two[1] /\ nx.events[Len(st.events) + 2] = two[2]
  BY <1>7, <1>8
<1>10. nx.xkb.keymap = nx.xkb.pool.slots
  BY <1>2, <1>3
<1>11. /\ Wanted(nx.events[Len(st.events) + 1]) = Private!Asked(k, TRUE)
       /\ Wanted(nx.events[Len(st.events) + 2]) = Private!Asked(k, FALSE)
  BY <1>4, <1>5, <1>9
<1> QED BY <1>7, <1>10, <1>11 DEF nx

LEMMA Halves ==
  ASSUME NEW i \in Nat
  PROVE  /\ ((2 * i + 1) + 1) \div 2 = i + 1 /\ (2 * i + 1) % 2 = 1
         /\ ((2 * i + 2) + 1) \div 2 = i + 1 /\ (2 * i + 2) % 2 # 1
OBVIOUS

LEMMA TextWants ==
  ASSUME NInv, NEW text \in Texts, NEW compiles \in BOOLEAN, compiles = TRUE
  PROVE  Wants(inject_text_utf8(text, compiles).events) = Private!Keystrokes(text)
<1> DEFINE n == Len(text)
           stroke(j) == Private!Asked(text[(j + 1) \div 2], j % 2 = 1)
           r == inject_text_utf8(text, compiles)
<1>0. compiles = TRUE
  OBVIOUS
<1>1. TInv
  BY DEF NInv, KInv
<1>2. PICK f \in [0..n -> Staged] : Typed(f, text, compiles) /\ r = f[n]
  BY <1>1, TextSteps
<1>3. n \in Nat /\ \A i \in 1..n : text[i] \in Keysyms
  BY InputAssumption, LenProperties
<1>4. f[0] = [xkb |-> xkb, events |-> <<>>]
  BY <1>2, Zenon DEF Typed
<1>5. \A i \in 1..n : f[i] = StageChar(f[i - 1], text[i], compiles)
  BY <1>2, Zenon DEF Typed
<1>6. Private!Keystrokes(text) = [j \in 1..(2 * n) |-> stroke(j)]
  BY DEF Private!Keystrokes
<1> HIDE DEF n, r
<1> DEFINE Sure(i) == /\ f[i].xkb.keymap = f[i].xkb.pool.slots /\ Len(f[i].events) = 2 * i
                      /\ \A j \in 1..(2 * i) : Wanted(f[i].events[j]) = stroke(j)
           T == {i \in Nat : i <= n => Sure(i)}
<1>7. 0 \in T
  <2>1. f[0].xkb = xkb /\ f[0].events = <<>>
    BY <1>4
  <2>2. Len(<<>>) = 0 /\ 1..(2 * 0) = {}
    BY EmptySeq
  <2> QED BY <2>1, <2>2, NTypes
<1>8. ASSUME NEW i \in Nat, i \in T PROVE i + 1 \in T
  <2>1. SUFFICES ASSUME i + 1 <= n PROVE Sure(i + 1)
    BY <1>8
  <2>2. i \in 0..n /\ i + 1 \in 1..n /\ (i + 1) - 1 = i /\ i <= n
    BY <2>1, <1>3
  <2>3. f[i] \in Staged /\ text[i + 1] \in Keysyms /\ Sure(i)
    BY <2>2, <1>2, <1>3, <1>8
  <2>4. f[i + 1] = StageChar(f[i], text[i + 1], compiles)
    BY <2>2, <1>5
  <2> HIDE DEF T
  <2> DEFINE u == f[i].events
             v == f[i + 1].events
             k == text[i + 1]
  <2>5. /\ f[i + 1].xkb.keymap = f[i + 1].xkb.pool.slots
        /\ Len(v) = Len(u) + 2
        /\ \A j \in 1..Len(u) : v[j] = u[j]
        /\ Wanted(v[Len(u) + 1]) = Private!Asked(k, TRUE)
        /\ Wanted(v[Len(u) + 2]) = Private!Asked(k, FALSE)
    <3> DEFINE st == f[i]
               nx == f[i + 1]
    <3>1. st \in Staged /\ st.xkb.keymap = st.xkb.pool.slots /\ k \in Keysyms /\ nx = StageChar(st, k, compiles)
      BY <2>3, <2>4
    <3> HIDE DEF st, nx, k
    <3>2. /\ nx.xkb.keymap = nx.xkb.pool.slots
          /\ nx.events \in Seq(Events) /\ Len(nx.events) = Len(st.events) + 2
          /\ \A j \in 1..Len(st.events) : nx.events[j] = st.events[j]
          /\ Wanted(nx.events[Len(st.events) + 1]) = Private!Asked(k, TRUE)
          /\ Wanted(nx.events[Len(st.events) + 2]) = Private!Asked(k, FALSE)
      BY <3>1, <1>0, CharacterWants
    <3> QED BY <3>2 DEF st, nx
  <2>6. stroke(2 * i + 1) = Private!Asked(k, TRUE) /\ stroke(2 * i + 2) = Private!Asked(k, FALSE)
    <3>1. ((2 * i + 2) % 2 = 1) = FALSE /\ ((2 * i + 1) % 2 = 1) = TRUE
      BY Halves
    <3> QED BY <3>1, Halves
  <2>7. Len(u) = 2 * i /\ \A j \in 1..(2 * i) : Wanted(u[j]) = stroke(j)
    BY <2>3
  <2> HIDE DEF u, v, k, stroke
  <2>8. \A j \in 1..(2 * (i + 1)) : j \in 1..(2 * i) \/ j = 2 * i + 1 \/ j = 2 * i + 2
    OBVIOUS
  <2>9. \A j \in 1..(2 * (i + 1)) : Wanted(v[j]) = stroke(j)
    BY <2>5, <2>6, <2>7, <2>8
  <2>10. Len(v) = 2 * (i + 1)
    BY <2>5, <2>7
  <2> QED BY <2>5, <2>9, <2>10 DEF v
<1> HIDE DEF T
<1>9. n \in T /\ n \in 0..n
  BY <1>3, <1>7, <1>8, Induct
<1>10. Sure(n) /\ f[n] \in Staged
  BY <1>3, <1>9, <1>2 DEF T
<1>11. r.events \in Seq(Events) /\ Len(r.events) = 2 * n /\ \A j \in 1..(2 * n) : Wanted(r.events[j]) = stroke(j)
  BY <1>2, <1>10 DEF Staged
<1> HIDE DEF stroke
<1>12. DOMAIN r.events = 1..(2 * n)
  BY <1>11, LenProperties
<1>13. Wants(r.events) = [j \in 1..(2 * n) |-> stroke(j)]
  BY <1>11, <1>12 DEF Wants
<1> QED BY <1>6, <1>13 DEF r

(* What goes through the pool first.                                       *)
LEMMA ResolvedSeen ==
  ASSUME OneKeyEach, Faults \subseteq {"shared_mods"}, NInv, NInv', NEW s \in Sessions,
         \/ \E k \in Askable, pressed \in BOOLEAN, compiles \in Compiles :
              TextKeysym(s, k, pressed, compiles) \/ NotifyKeyboardKeysym(s, k, pressed, compiles)
         \/ \E text \in Texts, compiles \in Compiles : TextUtf8(s, text, compiles)
  PROVE  Private!Next
<1>0. /\ kbd \in [Sessions -> Keyboard \cup {None}]
      /\ pending \in [Sessions -> Seq(Events)] /\ holding \in [Sessions -> SUBSET (Vias \X Keysyms)]
      /\ \A t \in Sessions : eis[t] = "none" <=> kbd[t] = None
  BY NTypes DEF NInv, KInv, TInv
<1>1. \A k \in Askable : k \in Keysyms /\ Plain(k)
  BY DEF Askable
<1>2. \A compiles \in Compiles : compiles = TRUE /\ compiles \in BOOLEAN
  BY DEF Compiles
<1>all. TInv /\ "upload" \notin Faults
  BY DEF NInv, KInv
<1>3. \A x : Quiet(x) => SpliceIsQuiet(x)
  BY DEF Quiet
<1>4. ASSUME NEW x \in Xkbs, SpliceIsQuiet(x), SetXkb(x), kbd' = Uploaded(kbd, x),
             NEW more \in Seq(Events), Stage(s, more), eis[s] = "sender"
      PROVE  Private!Wait(s, Wants(more))
  <2>1. keymap' = x.keymap
    BY <1>4 DEF SetXkb
  <2>2. \A t \in Sessions : /\ kbd'[t] = None <=> kbd[t] = None
                            /\ kbd[t] # None => DownBy(keymap', kbd'[t].held) = DownBy(keymap, kbd[t].held)
    BY <2>1, <1>4, UploadSeen
  <2> QED BY <2>2, <1>4, StageSeen
<1>5. ASSUME NEW k \in Askable, NEW pressed \in BOOLEAN, NEW compiles \in Compiles,
             TextKeysym(s, k, pressed, compiles)
      PROVE  Private!Next
  <2> DEFINE r == keysym_to_keycode(xkb, k, compiles)
             e == KeyEvent(r.key, pressed, k)
             more == IF r.key = None THEN <<>> ELSE <<e>>
  <2>1. /\ eis[s] = "sender" /\ Quiet(r.xkb) /\ Stage(s, more)
        /\ SetXkb(r.xkb) /\ kbd' = Uploaded(kbd, r.xkb)
    <3>1. kbd' = Uploaded(kbd, r.xkb)
      BY <1>1, <1>2, <1>all, <1>5, NoUploadMissed
    <3> QED BY <3>1, <1>5 DEF TextKeysym
  <2>2. SpliceIsQuiet(r.xkb) /\ k \in Keysyms /\ Plain(k) /\ compiles \in BOOLEAN /\ compiles = TRUE
    BY <2>1, <1>1, <1>2, <1>3
  <2>3. r.xkb \in Xkbs /\ r.key \in Keys
    BY <2>2, KeysymTyped
  <2> HIDE DEF r
  <2>4. more = <<e>>
    BY <2>3, InputAssumption
  <2>5. <<e>> \in Seq(Events) /\ Wants(<<e>>) = <<Private!Asked(k, pressed)>>
    BY <2>2, <2>3, WantedKey
  <2> HIDE DEF e, more
  <2>6. Private!Wait(s, <<Private!Asked(k, pressed)>>)
    BY <2>1, <2>2, <2>3, <2>4, <2>5, <1>4
  <2> QED BY <2>2, <2>6 DEF Private!Next
<1>6. ASSUME NEW text \in Texts, NEW compiles \in Compiles, TextUtf8(s, text, compiles)
      PROVE  Private!Next
  <2> DEFINE r == inject_text_utf8(text, compiles)
  <2>1. /\ eis[s] = "sender" /\ Quiet(r.xkb) /\ Stage(s, r.events)
        /\ SetXkb(r.xkb) /\ kbd' = Uploaded(kbd, r.xkb)
    <3>1. kbd' = Uploaded(kbd, r.xkb)
      BY <1>2, <1>all, <1>6, NoUploadMissed
    <3> QED BY <3>1, <1>6 DEF TextUtf8
  <2>2. SpliceIsQuiet(r.xkb) /\ compiles \in BOOLEAN /\ compiles = TRUE
    BY <2>1, <1>2, <1>3
  <2>3. r.xkb \in Xkbs /\ r.events \in Seq(Events)
    BY <2>2, TextIsSound DEF Staged
  <2>4. Wants(r.events) = Private!Keystrokes(text)
    BY <2>2, TextWants
  <2> HIDE DEF r
  <2>5. Private!Wait(s, Private!Keystrokes(text))
    BY <2>1, <2>2, <2>3, <2>4, <1>4
  <2> QED BY <2>5 DEF Private!Next
<1>7. ASSUME NEW k \in Askable, NEW pressed \in BOOLEAN, NEW compiles \in Compiles,
             NotifyKeyboardKeysym(s, k, pressed, compiles)
      PROVE  Private!Next
  <2> DEFINE r == keysym_to_keycode(xkb, k, compiles)
             boards == Uploaded(kbd, r.xkb)
             e == KeyEvent(r.key, pressed, k)
             d == inject_event_batch(boards[s], r.xkb.down, <<e>>)
             B == After(boards[s].held, e)
  <2>1. /\ kbd[s] # None /\ Quiet(r.xkb) /\ Asks(s, "dbus", k, pressed)
        /\ keymap' = r.xkb.keymap /\ pending' = pending
        /\ r.key # None => kbd' = [boards EXCEPT ![s] = d.kbd]
    <3>1. r.key # None => kbd' = [boards EXCEPT ![s] = d.kbd]
      BY <1>1, <1>2, <1>all, <1>7, NoUploadMissed
    <3> QED BY <3>1, <1>7 DEF NotifyKeyboardKeysym
  <2>2. SpliceIsQuiet(r.xkb) /\ k \in Keysyms /\ Plain(k) /\ compiles \in BOOLEAN /\ compiles = TRUE
    BY <2>1, <1>1, <1>2, <1>3
  <2>3. /\ r.xkb \in Xkbs /\ r.xkb.keymap = r.xkb.pool.slots /\ r.xkb.down = down
        /\ r.key \in Keys /\ FirstSym(r.xkb.keymap, r.key) = k
    BY <2>2, KeysymTyped
  <2> HIDE DEF r
  <2>4. r.key # None /\ r.xkb.keymap \in Keymaps /\ Sound(r.xkb.keymap) /\ r.xkb.down \in [ModKeys -> Nat]
    BY <2>3, InputAssumption DEF Xkbs, Pools
  <2>5. /\ Asking(holding[s], "dbus", k, pressed, holding'[s])
        /\ \A i \in DOMAIN pending[s] : pending[s][i].kind = "key" => pending[s][i].asked # k
    BY <2>1, <2>2, AsksIsAsking DEF Vias
  <2>6. /\ pending[s] \in Seq(Events) /\ holding[s] \in SUBSET (Vias \X Keysyms)
        /\ boards \in [Sessions -> Keyboard \cup {None}] /\ boards[s] # None /\ boards[s] \in Keyboard
        /\ boards[s].keymap = r.xkb.keymap /\ boards[s].held = kbd[s].held
        /\ Served(r.xkb.keymap, boards[s], pending[s], holding[s]) /\ boards[s].unframed = FALSE
    <3>1. Served(r.xkb.keymap, boards[s], pending[s], holding[s])
      BY <2>1, <2>2, <2>3, SpliceServed
    <3>2. /\ boards \in [Sessions -> Keyboard \cup {None}] /\ boards[s] # None
          /\ boards[s].held = kbd[s].held
      BY <2>1, <2>3, <1>0, UploadTypes
    <3>3. boards[s] \in Keyboard /\ boards[s].keymap = r.xkb.keymap
      BY <2>1, <2>2, <2>3, CurrentXkb DEF NInv
    <3> HIDE DEF boards
    <3> QED BY <3>1, <3>2, <3>3, <1>0 DEF Served
  <2>7. \A t \in Sessions : /\ boards[t] = None <=> kbd[t] = None
                            /\ kbd[t] # None => DownBy(r.xkb.keymap, boards[t].held) = DownBy(keymap, kbd[t].held)
    BY <2>2, <2>3, UploadSeen
  <2> HIDE DEF boards
  <2>8. <<e>> \in Seq(Events)
    BY <2>2, <2>3, WantedKey
  <2>9. Passes(r.xkb.keymap, boards[s], pending[s], holding'[s], e)
    <3> DEFINE km == r.xkb.keymap
               key == r.key
               b == boards[s]
    <3>1. /\ "dbus" \in Vias /\ km \in Keymaps /\ Sound(km) /\ key \in Keys /\ FirstSym(km, key) = k /\ k \in Keysyms
          /\ b \in Keyboard /\ Served(km, b, pending[s], holding[s])
      BY <2>2, <2>3, <2>4, <2>6 DEF Vias
    <3> HIDE DEF km, key, b
    <3>2. Passes(km, b, pending[s], holding'[s], KeyEvent(key, pressed, k))
      BY <3>1, <2>5, <2>6, ServedDirect
    <3> QED BY <3>2 DEF km, key, b
  <2>10. boards[s].held \in SUBSET Keys
    BY <2>6 DEF Keyboard
  <2>11. DownBy(r.xkb.keymap, B) = IF pressed THEN DownBy(keymap, kbd[s].held) \cup {k} ELSE DownBy(keymap, kbd[s].held) \ {k}
    <3> DEFINE A == boards[s].held
               km == r.xkb.keymap
               key == r.key
    <3>1. km \in Keymaps /\ Sound(km) /\ A \in SUBSET Keys /\ key \in Keys /\ k \in Keysyms /\ FirstSym(km, key) = k
      BY <2>2, <2>3, <2>4, <2>10
    <3> HIDE DEF A, km, key
    <3>2. DownBy(km, After(A, KeyEvent(key, pressed, k)))
            = IF pressed THEN DownBy(km, A) \cup {k} ELSE DownBy(km, A) \ {k}
      BY <3>1, KeyLeaves
    <3> QED BY <3>2, <2>1, <2>7 DEF A, km, key
  <2> HIDE DEF e, B
  <2>12. AsAsked(boards[s].keymap, <<e>>) /\ Toggles(<<e>>, boards[s].held, B)
    BY <2>6, <2>9 DEF Passes, B
  <2>13. Delivered(boards, r.xkb.down, s, d, B)
    BY <2>4, <2>6, <2>8, <2>12, DeliverServed
  <2> HIDE DEF d
  <2>14. d.kbd # None /\ d.kbd.held = B
    BY <2>13 DEF Delivered
  <2>15. kbd'[s] = d.kbd /\ \A t \in Sessions \ {s} : kbd'[t] = boards[t]
    BY <2>1, <2>4, <2>6
  <2>16. Typing[s] = DownBy(keymap, kbd[s].held) /\ Typing[s] # None
    BY <2>1, KeyboardSeen
  <2>17. /\ Typing'[s] = (IF pressed THEN Typing[s] \cup {k} ELSE Typing[s] \ {k})
         /\ Waiting'[s] = Waiting[s]
    BY <2>1, <2>11, <2>14, <2>15, <2>16, SeenNow, SeenNext
  <2>18. Seen(s, IF pressed THEN Typing[s] \cup {k} ELSE Typing[s] \ {k}, Waiting[s])
    <3> DEFINE typing == IF pressed THEN Typing[s] \cup {k} ELSE Typing[s] \ {k}
    <3>1. \A t \in Sessions \ {s} :
            /\ kbd'[t] = None <=> kbd[t] = None
            /\ kbd[t] # None => DownBy(keymap', kbd'[t].held) = DownBy(keymap, kbd[t].held)
            /\ pending'[t] = pending[t]
      BY <2>1, <2>7, <2>15
    <3>2. Typing'[s] = typing
      BY <2>17
    <3> HIDE DEF typing
    <3>3. Seen(s, typing, Waiting[s])
      BY <3>1, <3>2, <2>17, SeenStep
    <3> QED BY <3>3 DEF typing
  <2>19. Private!Type(s, k, pressed)
    BY <2>16, <2>18, SeenType
  <2> QED BY <2>2, <2>19 DEF Private!Next
<1> QED BY <1>5, <1>6, <1>7

(* The sessions on one pool, one keymap and one modifier state implement   *)
(* keyboards of their own: each types what its client asked for and when,  *)
(* and nothing one session does is seen on the keyboard of another.        *)
THEOREM KeyboardsArePrivate ==
  ASSUME OneKeyEach, Faults \subseteq {"shared_mods"}
  PROVE  Spec => KeyboardsPrivate
<1>1. ASSUME Init PROVE Private!Init
  <2>1. kbd = [s \in Sessions |-> None] /\ pending = [s \in Sessions |-> <<>>]
    BY <1>1 DEF Init
  <2>2. Typing = [s \in Sessions |-> None]
    BY <2>1 DEF Typing
  <2>3. Waiting = [s \in Sessions |-> <<>>]
    <3>1. \A s \in Sessions : Waiting[s] = Wants(<<>>)
      BY <2>1 DEF Waiting, Wants
    <3>2. Wants(<<>>) = <<>>
      BY PlainEventType, WantsOne
    <3>3. Waiting = [s \in Sessions |-> Waiting[s]]
      BY DEF Waiting
    <3> QED BY <3>1, <3>2, <3>3
  <2> QED BY <2>2, <2>3 DEF Private!Init
<1>2. ASSUME NInv, NInv', [Next]_vars PROVE [Private!Next]_<<Typing, Waiting>>
  <2>1. CASE UNCHANGED vars
    BY <2>1 DEF vars, Typing, Waiting
  <2>2. "touch" \notin Faults
    OBVIOUS
  <2>3. CASE Next
    BY <2>2, <2>3, <1>2, SessionSeen, DeliveredSeen, StagedSeen, ResolvedSeen DEF Next
  <2> QED BY <2>1, <2>3, <1>2
<1>3. NInv /\ [Next]_vars => NInv'
  BY NNext
<1> QED BY <1>1, <1>2, <1>3, NFirst, PTL DEF Spec, KeyboardsPrivate, Private!Spec


-----------------------------------------------------------------------------
(* The two conversions of EisSession.                                      *)

(* The clicks of a movement leave less than a click of it (integer division *)
(* towards zero).                                                          *)
LEMMA Division ==
  ASSUME NEW a \in Int
  PROVE  /\ Quotient(a, Click) \in Int
         /\ a - Quotient(a, Click) * Click \in -(Click - 1) .. Click - 1
<1>0. Click \in Nat \ {0}
  BY WireAssumption
<1>1. ASSUME NEW b \in Nat
      PROVE  /\ b \div Click \in Nat
             /\ b - (b \div Click) * Click \in 0 .. Click - 1
  BY <1>0
<1>2. CASE a >= 0
  <2>1. PICK q \in Nat : q = a \div Click /\ a - q * Click \in 0 .. Click - 1
    BY <1>1, <1>2
  <2>2. Quotient(a, Click) = q
    BY <1>2, <2>1 DEF Quotient
  <2>3. PICK r \in Int : r = a - q * Click
    BY <1>0
  <2> QED BY <1>0, <2>1, <2>2, <2>3
<1>3. CASE a < 0
  <2>1. PICK b \in Nat : b = -a
    BY <1>3
  <2>2. PICK q \in Nat : q = b \div Click /\ b - q * Click \in 0 .. Click - 1
    BY <1>1
  <2>3. Quotient(a, Click) = -q
    BY <1>3, <2>1, <2>2 DEF Quotient
  <2>4. PICK p \in Int : p = q * Click /\ (-q) * Click = -p
    BY <1>0
  <2>5. a = -b /\ b - p \in 0 .. Click - 1
    BY <2>1, <2>2, <2>4
  <2>6. a - (-p) \in -(Click - 1) .. Click - 1
    BY <1>0, <2>5
  <2> QED BY <2>3, <2>4, <2>6
<1> QED BY <1>2, <1>3

\* The state of an axis: what is carried, and the clicks sent.
Axis == [rem : Int, clicks : Int]

(* One request of an axis.                                                 *)
LEMMA OneScroll ==
  ASSUME NEW st \in Axis, NEW delta \in Int
  PROVE  LET new == accumulate_scroll_discrete(st, delta)
         IN  /\ new \in Axis
             /\ new.rem \in -(Click - 1) .. Click - 1
             /\ new.clicks * Click + new.rem = (st.clicks * Click + st.rem) + delta
<1>0. Click \in Nat \ {0}
  BY WireAssumption
<1>1. PICK s \in Int, c \in Int, r \in Int : s = st.rem + delta /\ c = st.clicks /\ r = st.rem
  BY DEF Axis
<1>2. PICK q \in Int : q = Quotient(s, Click)
  BY Division
<1>3. s - q * Click \in -(Click - 1) .. Click - 1
  BY <1>2, Division
<1>4. accumulate_scroll_discrete(st, delta) = [rem |-> s - q * Click, clicks |-> c + q]
  BY <1>1, <1>2 DEF accumulate_scroll_discrete
<1>5. (c + q) * Click + (s - q * Click) = (c * Click + r) + delta
  <2>1. PICK x \in Int, y \in Int : x = c * Click /\ y = q * Click /\ (c + q) * Click = x + y
    BY <1>0
  <2> QED BY <1>1, <2>1
<1>6. s - q * Click \in Int
  BY <1>0
<1> QED BY <1>1, <1>3, <1>4, <1>5, <1>6 DEF Axis

(* The requests of an axis are taken one after the other.                  *)
LEMMA ScrolledSteps ==
  ASSUME NEW deltas \in Seq(Int)
  PROVE  \E f \in [0 .. Len(deltas) -> Axis] :
           /\ f[0] = [rem |-> 0, clicks |-> 0]
           /\ \A k \in 1 .. Len(deltas) : f[k] = accumulate_scroll_discrete(f[k - 1], deltas[k])
           /\ Scrolled(deltas) = f[Len(deltas)]
<1> DEFINE n == Len(deltas)
           base == [rem |-> 0, clicks |-> 0]
           step == [i \in 1 .. n |-> [v \in Axis |-> accumulate_scroll_discrete(v, deltas[i])]]
           K == CHOOSE f : f = [k \in 0 .. n |-> IF k = 0 THEN base
                                  ELSE accumulate_scroll_discrete(f[k - 1], deltas[k])]
<1>0. n \in Nat /\ base \in Axis /\ \A i \in 1 .. n : deltas[i] \in Int
  BY LenProperties DEF Axis
<1>1. step \in [1 .. n -> [Axis -> Axis]]
  BY <1>0, OneScroll
<1>2. PICK f \in Chains(Axis, base, n, step) : TRUE
  <2> HIDE DEF step, K, base, n
  <2>1. Chains(Axis, base, n, step) # {}
    BY <1>0, <1>1, StepByStep
  <2> QED BY <2>1
<1>3. f \in [0 .. n -> Axis] /\ f[0] = base /\ \A i \in 1 .. n : f[i] = step[i][f[i - 1]]
  BY <1>2 DEF Chains
<1>4. ASSUME NEW i \in 1 .. n PROVE f[i] = accumulate_scroll_discrete(f[i - 1], deltas[i])
  <2>1. i - 1 \in 0 .. n
    BY <1>0
  <2> QED BY <2>1, <1>3
<1> HIDE DEF step
<1>5. f = [k \in 0 .. n |-> IF k = 0 THEN base ELSE accumulate_scroll_discrete(f[k - 1], deltas[k])]
  <2>1. \A i \in 0 .. n : i = 0 \/ i \in 1 .. n
    BY <1>0
  <2> HIDE DEF base, K
  <2> QED BY <2>1, <1>3, <1>4
<1>6. K = [k \in 0 .. n |-> IF k = 0 THEN base ELSE accumulate_scroll_discrete(K[k - 1], deltas[k])]
  BY <1>5, Zenon
<1>7. Scrolled(deltas) = K[n]
  BY Zenon DEF Scrolled
<1> HIDE DEF K, base
<1>8. K[0] = f[0] /\ \A i \in 1 .. n : K[i - 1] = f[i - 1] => K[i] = f[i]
  <2>1. K[0] = f[0]
    BY <1>0, <1>3, <1>6
  <2>2. ASSUME NEW i \in 1 .. n, K[i - 1] = f[i - 1] PROVE K[i] = f[i]
    <3>1. i \in 0 .. n /\ i # 0
      BY <1>0
    <3>2. K[i] = accumulate_scroll_discrete(K[i - 1], deltas[i])
      BY <1>6, <3>1
    <3> QED BY <3>2, <2>2, <1>4
  <2> QED BY <2>1, <2>2
<1>9. K[n] = f[n]
  <2> HIDE DEF n
  <2> QED BY <1>0, <1>8, ChainsAgree
<1> QED BY <1>3, <1>4, <1>7, <1>9 DEF base

(* A sum is taken from the first number on.                                *)
LEMMA TotalSteps ==
  ASSUME NEW s \in Seq(Int)
  PROVE  \E f \in [0 .. Len(s) -> Int] :
           /\ f[0] = 0
           /\ \A k \in 1 .. Len(s) : f[k] = f[k - 1] + s[k]
           /\ Total(s) = f[Len(s)]
<1> DEFINE n == Len(s)
           step == [i \in 1 .. n |-> [v \in Int |-> v + s[i]]]
           K == CHOOSE f : f = [k \in 0 .. n |-> IF k = 0 THEN 0 ELSE f[k - 1] + s[k]]
<1>0. n \in Nat /\ 0 \in Int /\ \A i \in 1 .. n : s[i] \in Int
  BY LenProperties
<1>1. step \in [1 .. n -> [Int -> Int]]
  BY <1>0
<1>2. PICK f \in Chains(Int, 0, n, step) : TRUE
  <2> HIDE DEF step, K, n
  <2>1. Chains(Int, 0, n, step) # {}
    BY <1>0, <1>1, StepByStep
  <2> QED BY <2>1
<1>3. f \in [0 .. n -> Int] /\ f[0] = 0 /\ \A i \in 1 .. n : f[i] = step[i][f[i - 1]]
  BY <1>2 DEF Chains
<1>4. ASSUME NEW i \in 1 .. n PROVE f[i] = f[i - 1] + s[i]
  <2>1. i - 1 \in 0 .. n
    BY <1>0
  <2> QED BY <2>1, <1>3
<1> HIDE DEF step
<1>5. f = [k \in 0 .. n |-> IF k = 0 THEN 0 ELSE f[k - 1] + s[k]]
  <2>1. \A i \in 0 .. n : i = 0 \/ i \in 1 .. n
    BY <1>0
  <2> HIDE DEF K
  <2> QED BY <2>1, <1>3, <1>4
<1>6. K = [k \in 0 .. n |-> IF k = 0 THEN 0 ELSE K[k - 1] + s[k]]
  BY <1>5, Zenon
<1>7. Total(s) = K[n]
  BY Zenon DEF Total
<1> HIDE DEF K
<1>8. K[0] = f[0] /\ \A i \in 1 .. n : K[i - 1] = f[i - 1] => K[i] = f[i]
  <2>1. K[0] = f[0]
    BY <1>0, <1>3, <1>6
  <2>2. ASSUME NEW i \in 1 .. n, K[i - 1] = f[i - 1] PROVE K[i] = f[i]
    <3>1. i \in 0 .. n /\ i # 0
      BY <1>0
    <3>2. K[i] = K[i - 1] + s[i]
      BY <1>6, <3>1
    <3> QED BY <3>2, <2>2, <1>4
  <2> QED BY <2>1, <2>2
<1>9. K[n] = f[n]
  <2> HIDE DEF n
  <2> QED BY <1>0, <1>8, ChainsAgree
<1> QED BY <1>3, <1>4, <1>7, <1>9

(* What has been sent and what is carried make up what came, of deltas of  *)
(* any number and size.                                                    *)
LEMMA ScrollIsConserved ==
  ASSUME NEW deltas \in Seq(Int)
  PROVE  Conserved(deltas)
<1>0. Len(deltas) \in Nat /\ (\A k \in 1 .. Len(deltas) : deltas[k] \in Int) /\ Click \in Nat \ {0}
  BY LenProperties, WireAssumption
<1>1. PICK f \in [0 .. Len(deltas) -> Axis] :
           /\ f[0] = [rem |-> 0, clicks |-> 0]
           /\ \A k \in 1 .. Len(deltas) : f[k] = accumulate_scroll_discrete(f[k - 1], deltas[k])
           /\ Scrolled(deltas) = f[Len(deltas)]
  BY ScrolledSteps
<1>2. PICK g \in [0 .. Len(deltas) -> Int] :
           /\ g[0] = 0
           /\ \A k \in 1 .. Len(deltas) : g[k] = g[k - 1] + deltas[k]
           /\ Total(deltas) = g[Len(deltas)]
  BY TotalSteps
<1> DEFINE Made(k) == /\ f[k].clicks * Click + f[k].rem = g[k]
                      /\ f[k].rem \in -(Click - 1) .. Click - 1
           T == {k \in Nat : k =< Len(deltas) => Made(k)}
<1>3. 0 \in T
  BY <1>0, <1>1, <1>2
<1>4. ASSUME NEW k \in Nat, k \in T PROVE k + 1 \in T
  <2>1. SUFFICES ASSUME k + 1 =< Len(deltas) PROVE Made(k + 1)
    OBVIOUS
  <2>2. k + 1 \in 1 .. Len(deltas) /\ (k + 1) - 1 = k /\ k \in 0 .. Len(deltas) /\ k + 1 \in 0 .. Len(deltas)
    BY <1>0, <2>1
  <2>3. f[k + 1] = accumulate_scroll_discrete(f[k], deltas[k + 1]) /\ g[k + 1] = g[k] + deltas[k + 1]
    BY <1>1, <1>2, <2>2
  <2>4. Made(k)
    BY <1>4, <2>2
  <2>5. PICK v \in Axis : v = f[k]
    BY <2>2
  <2>6. PICK d \in Int : d = deltas[k + 1]
    BY <1>0, <2>2
  <2>7. /\ f[k + 1].rem \in -(Click - 1) .. Click - 1
        /\ f[k + 1].clicks * Click + f[k + 1].rem = (v.clicks * Click + v.rem) + d
    BY <2>3, <2>5, <2>6, OneScroll
  <2> QED BY <2>3, <2>4, <2>5, <2>6, <2>7
<1>5. Nat \subseteq T
  <2> HIDE DEF T
  <2> QED BY <1>3, <1>4, Induct
<1>6. Made(Len(deltas))
  BY <1>0, <1>5
<1>7. PICK v \in Axis : v = Scrolled(deltas) /\ v = f[Len(deltas)]
  BY <1>0, <1>1
<1>8. PICK t \in Int : t = Total(deltas) /\ t = g[Len(deltas)]
  BY <1>0, <1>2
<1>9. PICK p \in Int, r \in Int : p = v.clicks * Click /\ r = v.rem
  BY <1>0 DEF Axis
<1>10. p + r = t /\ r \in -(Click - 1) .. Click - 1
  BY <1>6, <1>7, <1>8, <1>9
<1>11. t - p = r
  BY <1>10
<1> QED BY <1>7, <1>8, <1>9, <1>10, <1>11 DEF Conserved

(* The bytes of a text with one more character.                            *)
LEMMA BytesAppend ==
  ASSUME NEW s \in Seq(Nat), NEW e \in Nat
  PROVE  /\ Bytes(s) \in Nat
         /\ Bytes(Append(s, e)) = Bytes(s) + e
<1>0. /\ s \in Seq(Int) /\ Append(s, e) \in Seq(Int)
      /\ Len(s) \in Nat /\ Len(Append(s, e)) = Len(s) + 1
      /\ (\A i \in 1 .. Len(s) : s[i] \in Nat /\ Append(s, e)[i] = s[i]) /\ Append(s, e)[Len(s) + 1] = e
  <2>1. s \in Seq(Int)
    BY LenProperties, AllOf
  <2> QED BY <2>1, AppendProperties, LenProperties
<1>1. PICK f \in [0 .. Len(s) -> Int] :
           /\ f[0] = 0
           /\ \A k \in 1 .. Len(s) : f[k] = f[k - 1] + s[k]
           /\ Total(s) = f[Len(s)]
  BY <1>0, TotalSteps
<1>2. PICK g \in [0 .. Len(Append(s, e)) -> Int] :
           /\ g[0] = 0
           /\ \A k \in 1 .. Len(Append(s, e)) : g[k] = g[k - 1] + Append(s, e)[k]
           /\ Total(Append(s, e)) = g[Len(Append(s, e))]
  BY <1>0, TotalSteps
<1>3. f[0] = g[0] /\ \A i \in 1 .. Len(s) : f[i - 1] = g[i - 1] => f[i] = g[i]
  <2>1. ASSUME NEW i \in 1 .. Len(s), f[i - 1] = g[i - 1] PROVE f[i] = g[i]
    <3>1. i \in 1 .. Len(Append(s, e)) /\ Append(s, e)[i] = s[i]
      BY <1>0
    <3> QED BY <3>1, <2>1, <1>1, <1>2
  <2> QED BY <2>1, <1>1, <1>2
<1>4. f[Len(s)] = g[Len(s)]
  BY <1>0, <1>3, ChainsAgree
<1>5. g[Len(s) + 1] = g[Len(s)] + e
  <2>1. Len(s) + 1 \in 1 .. Len(Append(s, e)) /\ (Len(s) + 1) - 1 = Len(s)
    BY <1>0
  <2> QED BY <2>1, <1>0, <1>2
<1>6. f[Len(s)] \in Nat
  <2> DEFINE T == {k \in Nat : k =< Len(s) => f[k] \in Nat}
  <2>1. 0 \in T
    BY <1>1
  <2>2. ASSUME NEW k \in Nat, k \in T PROVE k + 1 \in T
    <3>1. SUFFICES ASSUME k + 1 =< Len(s) PROVE f[k + 1] \in Nat
      OBVIOUS
    <3>2. k + 1 \in 1 .. Len(s) /\ (k + 1) - 1 = k /\ f[k] \in Nat
      BY <1>0, <2>2, <3>1
    <3>3. f[k + 1] = f[k] + s[k + 1] /\ s[k + 1] \in Nat
      BY <1>0, <1>1, <3>2
    <3> QED BY <3>2, <3>3
  <2>3. Nat \subseteq T
    <3> HIDE DEF T
    <3> QED BY <2>1, <2>2, Induct
  <2> QED BY <1>0, <2>3
<1> QED BY <1>0, <1>1, <1>2, <1>4, <1>5, <1>6 DEF Bytes

(* A cut is between characters, the piece before it fits, or is one        *)
(* character, and would not with the next one.                             *)
LEMMA SplitFits ==
  ASSUME NEW rest \in Seq(Nat), rest # <<>>, NEW cap \in Nat
  PROVE  LET n == Split(rest, cap)
         IN  /\ n \in 1 .. Len(rest)
             /\ n = 1 \/ Bytes(SubSeq(rest, 1, n)) =< cap
             /\ n < Len(rest) => Bytes(SubSeq(rest, 1, n)) + rest[n + 1] > cap
<1> DEFINE L == Len(rest)
           Fits(n) == n = 1 \/ Bytes(SubSeq(rest, 1, n)) =< cap
           S == {n \in 1 .. L : Fits(n)}
           R == {m \in Nat : L - m \in S}
<1>0. L \in Nat /\ L # 0 /\ \A i \in 1 .. L : rest[i] \in Nat
  BY LenProperties, EmptySeq
<1>1. Split(rest, cap) = Max(S)
  BY DEF Split
<1>2. Max(S) \in S /\ \A y \in S : Max(S) >= y
  <2>1. 1 \in S
    BY <1>0
  <2>2. S \subseteq 1 .. L
    OBVIOUS
  <2> HIDE DEF S
  <2>3. R \subseteq Nat /\ L - 1 \in R
    BY <1>0, <2>1
  <2>4. PICK m \in R : \A y \in R : m =< y
    <3> HIDE DEF R
    <3> QED BY <2>3, Least
  <2>5. L - m \in S /\ \A y \in S : L - m >= y
    <3>1. ASSUME NEW y \in S PROVE L - m >= y
      <4>1. L - y \in Nat /\ L - (L - y) = y
        BY <1>0, <2>2
      <4>2. m =< L - y /\ m \in Nat
        BY <4>1, <2>4
      <4> QED BY <1>0, <2>2, <4>1, <4>2
    <3> QED BY <2>4, <3>1
  <2>6. \E x \in S : \A y \in S : x >= y
    BY <2>5
  <2> QED BY <2>6 DEF Max
<1> HIDE DEF L
<1>3. PICK n \in 1 .. L : n = Max(S) /\ Fits(n) /\ \A y \in 1 .. L : Fits(y) => n >= y
  BY <1>2
<1>4. ASSUME n < L PROVE Bytes(SubSeq(rest, 1, n)) + rest[n + 1] > cap
  <2>1. n + 1 \in 1 .. L /\ n + 1 # 1 /\ ~ (n >= n + 1)
    BY <1>0, <1>3, <1>4
  <2>2. ~ (Bytes(SubSeq(rest, 1, n + 1)) =< cap)
    BY <1>3, <2>1
  <2>3. /\ SubSeq(rest, 1, n) \in Seq(Nat) /\ rest[n + 1] \in Nat
        /\ SubSeq(rest, 1, n + 1) = Append(SubSeq(rest, 1, n), rest[n + 1])
    <3>1. /\ SubSeq(rest, 1, n) \in Seq(Nat) /\ Len(SubSeq(rest, 1, n)) = n
          /\ \A i \in 1 .. n : SubSeq(rest, 1, n)[i] = rest[i]
      BY <1>0, <2>1, SubSeqProperties DEF L
    <3>2. /\ SubSeq(rest, 1, n + 1) \in Seq(Nat) /\ Len(SubSeq(rest, 1, n + 1)) = n + 1
          /\ \A i \in 1 .. n + 1 : SubSeq(rest, 1, n + 1)[i] = rest[i]
      BY <1>0, <2>1, SubSeqProperties DEF L
    <3> DEFINE a == SubSeq(rest, 1, n)
               b == SubSeq(rest, 1, n + 1)
    <3> HIDE DEF a, b
    <3>3. /\ Append(a, rest[n + 1]) \in Seq(Nat) /\ Len(Append(a, rest[n + 1])) = n + 1
          /\ \A i \in 1 .. n + 1 : Append(a, rest[n + 1])[i] = rest[i]
      BY <1>0, <2>1, <3>1, AppendProperties DEF a
    <3>4. b = Append(a, rest[n + 1])
      BY <3>2, <3>3, SeqEqual DEF b
    <3> QED BY <1>0, <2>1, <3>1, <3>4 DEF a, b
  <2>4. PICK x \in Nat : x = Bytes(SubSeq(rest, 1, n)) /\ Bytes(SubSeq(rest, 1, n + 1)) = x + rest[n + 1]
    BY <2>3, BytesAppend
  <2> QED BY <2>2, <2>3, <2>4
<1> QED BY <1>1, <1>3, <1>4 DEF L

(* Pieces as they should be: not empty, within the limit or one character, *)
(* and too full for the next one's first character.                        *)
Fitting(chunks, cap) ==
  \A i \in 1 .. Len(chunks) :
    /\ chunks[i] # <<>>
    /\ Bytes(chunks[i]) =< cap \/ Len(chunks[i]) = 1
    /\ i > 1 => Bytes(chunks[i - 1]) + chunks[i][1] > cap

\* The state of the loop: the pieces so far, and what is left.
Pieces == [chunks : Seq(Seq(Nat)), rest : Seq(Nat)]

\* The pieces so far are right, and the last would not have held what is next.
CutRight(st, text, cap) ==
  /\ FlattenSeq(st.chunks) \o st.rest = text
  /\ Fitting(st.chunks, cap)
  /\ st.rest # <<>> /\ st.chunks # <<>> =>
       Bytes(st.chunks[Len(st.chunks)]) + st.rest[1] > cap

(* One turn of the loop takes a character at least and keeps this.         *)
LEMMA OnePiece ==
  ASSUME NEW st \in Pieces, st.rest # <<>>, NEW cap \in Nat
  PROVE  LET new == Piece(st, cap)
         IN  /\ new \in Pieces
             /\ Len(new.rest) < Len(st.rest)
             /\ \A text : CutRight(st, text, cap) => CutRight(new, text, cap)
<1> DEFINE rest == st.rest
           chunks == st.chunks
           n == Split(rest, cap)
           a == SubSeq(rest, 1, n)
           b == SubSeq(rest, n + 1, Len(rest))
           more == Append(chunks, a)
<1>0. rest \in Seq(Nat) /\ chunks \in Seq(Seq(Nat)) /\ rest # <<>>
  BY DEF Pieces
<1>1. /\ n \in 1 .. Len(rest) /\ (n = 1 \/ Bytes(a) =< cap)
      /\ n < Len(rest) => Bytes(a) + rest[n + 1] > cap
  <2> HIDE DEF rest
  <2> QED BY <1>0, SplitFits
<1> HIDE DEF n
<1>2. Piece(st, cap) = [chunks |-> more, rest |-> b]
  BY DEF Piece, n
<1> HIDE DEF rest, chunks
<1>3. Len(rest) \in Nat /\ \A i \in 1 .. Len(rest) : rest[i] \in Nat
  BY <1>0, LenProperties
<1>4. a \in Seq(Nat) /\ b \in Seq(Nat) /\ rest = a \o b
  <2>1. n \in 0 .. Len(rest)
    BY <1>1, <1>3
  <2> QED BY <1>0, <2>1, Cut
<1>5. Len(a) = n /\ a # <<>> /\ a[1] = rest[1]
  <2>1. Len(a) = n /\ \A i \in 1 .. n : a[i] = rest[i]
    BY <1>0, <1>1, <1>3, SubSeqProperties
  <2> HIDE DEF a
  <2>2. 1 \in 1 .. n /\ n # 0
    BY <1>1
  <2> QED BY <2>1, <2>2, EmptySeq
<1>6. Len(b) = Len(rest) - n /\ (b # <<>> => n < Len(rest) /\ b[1] = rest[n + 1])
  <2>1. /\ Len(b) = IF n + 1 =< Len(rest) THEN Len(rest) - (n + 1) + 1 ELSE 0
        /\ \A i \in 1 .. Len(rest) - (n + 1) + 1 : b[i] = rest[(n + 1) + i - 1]
    BY <1>0, <1>1, <1>3, SubSeqProperties
  <2> HIDE DEF b
  <2>2. Len(b) = Len(rest) - n
    BY <1>1, <1>3, <2>1
  <2>3. ASSUME b # <<>> PROVE n < Len(rest) /\ b[1] = rest[n + 1]
    <3>1. Len(b) # 0
      BY <1>4, <2>3, EmptySeq DEF b
    <3>2. n < Len(rest) /\ 1 \in 1 .. Len(rest) - (n + 1) + 1 /\ (n + 1) + 1 - 1 = n + 1
      BY <1>1, <1>3, <2>2, <3>1
    <3> QED BY <2>1, <3>2
  <2> QED BY <2>2, <2>3
<1> HIDE DEF a, b
<1>7. /\ more \in Seq(Seq(Nat)) /\ Len(chunks) \in Nat /\ Len(more) = Len(chunks) + 1
      /\ \A i \in 1 .. Len(chunks) : more[i] = chunks[i]
      /\ more[Len(chunks) + 1] = a /\ more # <<>>
  BY <1>0, <1>4, AppendProperties, LenProperties
<1>8. FlattenSeq(chunks) \in Seq(Nat) /\ FlattenSeq(more) = FlattenSeq(chunks) \o a
  BY <1>0, <1>4, FlatAppend
<1> HIDE DEF more
<1>9. ASSUME NEW text, CutRight(st, text, cap) PROVE CutRight([chunks |-> more, rest |-> b], text, cap)
  <2>1. /\ FlattenSeq(chunks) \o rest = text /\ Fitting(chunks, cap)
        /\ chunks # <<>> => Bytes(chunks[Len(chunks)]) + rest[1] > cap
    BY <1>0, <1>9 DEF CutRight, rest, chunks
  <2>2. FlattenSeq(more) \o b = text
    <3> DEFINE fl == FlattenSeq(chunks)
    <3> HIDE DEF fl
    <3>1. fl \in Seq(Nat) /\ (fl \o a) \o b = fl \o (a \o b)
      BY <1>4, <1>8, ConcatAssociative, SMTT(60) DEF fl
    <3> QED BY <1>4, <1>8, <2>1, <3>1 DEF fl
  <2>3. Fitting(more, cap)
    <3>1. SUFFICES ASSUME NEW i \in 1 .. Len(chunks) + 1
                   PROVE  /\ more[i] # <<>>
                          /\ Bytes(more[i]) =< cap \/ Len(more[i]) = 1
                          /\ i > 1 => Bytes(more[i - 1]) + more[i][1] > cap
      BY <1>7 DEF Fitting
    <3>2. CASE i \in 1 .. Len(chunks)
      <4>1. more[i] = chunks[i] /\ (i > 1 => more[i - 1] = chunks[i - 1])
        <5>1. i > 1 => i - 1 \in 1 .. Len(chunks)
          BY <1>7, <3>2
        <5> QED BY <1>7, <3>2, <5>1
      <4> QED BY <2>1, <3>2, <4>1 DEF Fitting
    <3>3. CASE i = Len(chunks) + 1
      <4>1. more[i] = a /\ (i > 1 => more[i - 1] = chunks[Len(chunks)] /\ chunks # <<>>)
        <5>1. i > 1 => i - 1 = Len(chunks) /\ i - 1 \in 1 .. Len(chunks)
          BY <1>7, <3>3
        <5>2. i > 1 => chunks # <<>>
          BY <1>0, <5>1, EmptySeq
        <5> QED BY <1>7, <3>3, <5>1, <5>2
      <4> QED BY <1>1, <1>5, <2>1, <4>1
    <3> QED BY <1>7, <3>2, <3>3
  <2>4. b # <<>> => Bytes(more[Len(more)]) + b[1] > cap
    BY <1>1, <1>6, <1>7
  <2> QED BY <2>2, <2>3, <2>4 DEF CutRight
<1>10. [chunks |-> more, rest |-> b] \in Pieces
  BY <1>4, <1>7 DEF Pieces
<1>11. Len(b) < Len(rest)
  BY <1>1, <1>3, <1>6
<1> QED BY <1>2, <1>9, <1>10, <1>11 DEF rest

(* The pieces are cut off one after the other, while any text is left.     *)
LEMMA TurnSteps ==
  ASSUME NEW text \in Seq(Nat), NEW cap \in Nat
  PROVE  \E f \in [0 .. Len(text) -> Pieces] :
           /\ f[0] = [chunks |-> <<>>, rest |-> text]
           /\ \A k \in 1 .. Len(text) : f[k] = IF f[k - 1].rest = <<>> THEN f[k - 1] ELSE Piece(f[k - 1], cap)
           /\ chunk_utf8(text, cap) = f[Len(text)].chunks
<1> DEFINE n == Len(text)
           base == [chunks |-> <<>>, rest |-> text]
           next == [v \in Pieces |-> IF v.rest = <<>> THEN v ELSE Piece(v, cap)]
           step == [i \in 1 .. n |-> next]
           K == CHOOSE f : f = [k \in 0 .. n |-> IF k = 0 THEN base
                                  ELSE IF f[k - 1].rest = <<>> THEN f[k - 1] ELSE Piece(f[k - 1], cap)]
<1>0. n \in Nat /\ base \in Pieces
  BY LenProperties, EmptySeq DEF Pieces
<1>1. step \in [1 .. n -> [Pieces -> Pieces]]
  <2>1. \A v \in Pieces : (IF v.rest = <<>> THEN v ELSE Piece(v, cap)) \in Pieces
    BY OnePiece
  <2>2. next \in [Pieces -> Pieces]
    BY <2>1
  <2> HIDE DEF next
  <2> QED BY <2>2
<1>2. PICK f \in Chains(Pieces, base, n, step) : TRUE
  <2> HIDE DEF step, K, base, n
  <2>1. Chains(Pieces, base, n, step) # {}
    BY <1>0, <1>1, StepByStep
  <2> QED BY <2>1
<1>3. f \in [0 .. n -> Pieces] /\ f[0] = base /\ \A i \in 1 .. n : f[i] = step[i][f[i - 1]]
  BY <1>2 DEF Chains
<1>4. ASSUME NEW i \in 1 .. n PROVE f[i] = IF f[i - 1].rest = <<>> THEN f[i - 1] ELSE Piece(f[i - 1], cap)
  <2>1. i - 1 \in 0 .. n
    BY <1>0
  <2>2. f[i - 1] \in Pieces
    <3> HIDE DEF n, step, base
    <3> QED BY <2>1, <1>3
  <2>3. f[i] = next[f[i - 1]]
    <3> HIDE DEF next
    <3> QED BY <1>3
  <2> QED BY <2>2, <2>3
<1> HIDE DEF step, next
<1>5. f = [k \in 0 .. n |-> IF k = 0 THEN base
             ELSE IF f[k - 1].rest = <<>> THEN f[k - 1] ELSE Piece(f[k - 1], cap)]
  <2>1. \A i \in 0 .. n : i = 0 \/ i \in 1 .. n
    BY <1>0
  <2> HIDE DEF base, K
  <2> QED BY <2>1, <1>3, <1>4
<1>6. K = [k \in 0 .. n |-> IF k = 0 THEN base
             ELSE IF K[k - 1].rest = <<>> THEN K[k - 1] ELSE Piece(K[k - 1], cap)]
  BY <1>5, Zenon
<1>7. chunk_utf8(text, cap) = K[n].chunks
  BY Zenon DEF chunk_utf8
<1> HIDE DEF K, base
<1>8. K[0] = f[0] /\ \A i \in 1 .. n : K[i - 1] = f[i - 1] => K[i] = f[i]
  <2>1. K[0] = f[0]
    BY <1>0, <1>3, <1>6
  <2>2. ASSUME NEW i \in 1 .. n, K[i - 1] = f[i - 1] PROVE K[i] = f[i]
    <3>1. i \in 0 .. n /\ i # 0
      BY <1>0
    <3>2. K[i] = IF K[i - 1].rest = <<>> THEN K[i - 1] ELSE Piece(K[i - 1], cap)
      BY <1>6, <3>1
    <3> QED BY <3>2, <2>2, <1>4
  <2> QED BY <2>1, <2>2
<1>9. K[n] = f[n]
  <2> HIDE DEF n
  <2> QED BY <1>0, <1>8, ChainsAgree
<1> QED BY <1>3, <1>4, <1>7, <1>9 DEF base

(* A text of any length, under any limit, is sent whole.                   *)
LEMMA TextIsWhole ==
  ASSUME NEW text \in Seq(Nat), NEW cap \in Nat
  PROVE  Whole(text, cap)
<1>0. Len(text) \in Nat
  BY LenProperties
<1>1. PICK f \in [0 .. Len(text) -> Pieces] :
           /\ f[0] = [chunks |-> <<>>, rest |-> text]
           /\ \A k \in 1 .. Len(text) : f[k] = IF f[k - 1].rest = <<>> THEN f[k - 1] ELSE Piece(f[k - 1], cap)
           /\ chunk_utf8(text, cap) = f[Len(text)].chunks
  BY TurnSteps
<1> DEFINE Made(k) == /\ CutRight(f[k], text, cap)
                      /\ Len(f[k].rest) =< Len(text) - k
           T == {k \in Nat : k =< Len(text) => Made(k)}
<1>2. 0 \in T
  <2>1. FlattenSeq(<<>>) = <<>> /\ <<>> \o text = text /\ Fitting(<<>>, cap)
    BY ConcatEmptySeq DEF FlattenSeq, Fitting
  <2>2. CutRight([chunks |-> <<>>, rest |-> text], text, cap)
    BY <2>1 DEF CutRight
  <2> QED BY <1>0, <1>1, <2>2
<1>3. ASSUME NEW k \in Nat, k \in T PROVE k + 1 \in T
  <2>1. SUFFICES ASSUME k + 1 =< Len(text) PROVE Made(k + 1)
    OBVIOUS
  <2>2. k + 1 \in 1 .. Len(text) /\ (k + 1) - 1 = k /\ k \in 0 .. Len(text) /\ Made(k)
    BY <1>0, <1>3, <2>1
  <2>3. PICK v \in Pieces : v = f[k]
    BY <2>2
  <2>4. f[k + 1] = IF v.rest = <<>> THEN v ELSE Piece(v, cap)
    BY <1>1, <2>2, <2>3
  <2>5. CutRight(v, text, cap) /\ Len(v.rest) =< Len(text) - k /\ v.rest \in Seq(Nat) /\ Len(v.rest) \in Nat
    BY <2>2, <2>3, LenProperties DEF Pieces
  <2>6. CASE v.rest = <<>>
    <3>1. Len(v.rest) = 0
      BY <2>6
    <3> QED BY <1>0, <2>1, <2>4, <2>5, <2>6, <3>1
  <2>7. CASE v.rest # <<>>
    <3>1. PICK w : w = Piece(v, cap) /\ w \in Pieces /\ Len(w.rest) < Len(v.rest) /\ CutRight(w, text, cap)
      BY <2>5, <2>7, OnePiece
    <3>2. Len(w.rest) \in Nat
      BY <3>1, LenProperties DEF Pieces
    <3> QED BY <1>0, <2>1, <2>4, <2>5, <2>7, <3>1, <3>2
  <2> QED BY <2>6, <2>7
<1>4. Nat \subseteq T
  <2> HIDE DEF T
  <2> QED BY <1>2, <1>3, Induct
<1>5. PICK v \in Pieces : v = f[Len(text)] /\ CutRight(v, text, cap) /\ Len(v.rest) =< 0
  BY <1>0, <1>1, <1>4
<1>6. v.rest = <<>>
  <2>1. v.rest \in Seq(Nat) /\ Len(v.rest) \in Nat
    BY LenProperties DEF Pieces
  <2> QED BY <1>5, <2>1, EmptySeq
<1>7. FlattenSeq(v.chunks) = text
  <2>1. FlattenSeq(v.chunks) \in Seq(Nat)
    <3>1. v.chunks \in Seq(Seq(Nat)) /\ <<>> \in Seq(Nat)
      BY EmptySeq DEF Pieces
    <3> QED BY <3>1, FlatAppend
  <2>2. FlattenSeq(v.chunks) \o <<>> = text
    BY <1>5, <1>6 DEF CutRight
  <2> QED BY <2>1, <2>2, ConcatEmptySeq
<1>8. Fitting(v.chunks, cap) /\ chunk_utf8(text, cap) = v.chunks
  BY <1>1, <1>5 DEF CutRight
<1> QED BY <1>7, <1>8 DEF Whole, Fitting

(* Nothing that a client scrolls is lost or done twice, and a text is sent *)
(* whole, in pieces within the limit, whatever the deltas, the characters  *)
(* and the limit (accumulate_scroll_discrete, chunk_utf8). The lemmas are  *)
(* about sequences of any length, the property about short ones.           *)
THEOREM WireExactHolds == Spec => []WireExact
<1>1. ASSUME NEW X, NEW S, S \subseteq X, NEW n \in Nat, NEW s \in BoundedSeq(S, n)
      PROVE  s \in Seq(X)
  <2>1. PICK m \in Nat : s \in [1 .. m -> S]
    BY <1>1 DEF BoundedSeq, SeqOf
  <2>2. s \in [1 .. m -> X]
    BY <1>1, <2>1
  <2> QED BY <2>2
<1>2. ScrollConserved
  BY <1>1, WireAssumption, ScrollIsConserved DEF ScrollConserved
<1>3. ChunksWhole
  <2>1. SUFFICES ASSUME NEW text \in BoundedSeq(Widths, MaxChars), NEW cap \in Caps
                 PROVE  Whole(text, cap)
    BY DEF ChunksWhole
  <2>2. text \in Seq(Nat) /\ cap \in Nat
    <3>1. Widths \subseteq Nat /\ MaxChars \in Nat /\ Caps \subseteq Nat
      BY WireAssumption
    <3> QED BY <1>1, <3>1
  <2> QED BY <2>2, TextIsWhole
<1>4. TRUE => WireExact
  BY <1>2, <1>3 DEF WireExact
<1> QED BY <1>4, PTL
=============================================================================
