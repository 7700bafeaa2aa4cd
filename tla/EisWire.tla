------------------------------ MODULE EisWire -------------------------------
(***************************************************************************)
(* Two conversions of EisSession (eis_backend.rs) at the EIS wire: scroll  *)
(* deltas to whole wheel clicks, and composed text to the pieces that      *)
(* ei_text.utf8 can carry.                                                 *)
(***************************************************************************)
EXTENDS Integers, Sequences, SequencesExt

CONSTANTS
  Click,         \* wire units of one wheel click, 120
  Deltas,        \* the deltas a client sends
  Widths,        \* UTF-8 bytes of one character, 1 .. 4
  Caps,          \* limits of bytes of one request, EI_TEXT_MAX_BYTES
  MaxEvents,     \* bound: scroll requests in a row
  MaxChars       \* bound: characters of a text

ASSUME WireAssumption ==
  /\ Click \in Nat \ {0} /\ Deltas \subseteq Int
  /\ Widths \subseteq 1 .. 4 /\ Caps \subseteq Nat \ {0}
  /\ MaxEvents \in Nat /\ MaxChars \in Nat

---------------------------------------------------------------------------
(* ei_scroll.scroll_discrete *)

\* Division as the code's integers do it, towards zero.
Quotient(a, b) == IF a >= 0 THEN a \div b ELSE -((-a) \div b)

\* scroll_discrete_remainder, and the clicks sent so far, on one axis.
accumulate_dropping(st, delta) ==
  [st EXCEPT !.clicks = @ + Quotient(delta, Click)]

accumulate_scroll_discrete(st, delta) ==
  LET sum == st.rem + delta
      clicks == Quotient(sum, Click)
  IN  [rem |-> sum - clicks * Click, clicks |-> st.clicks + clicks]

Scrolled(deltas) ==
  LET after[k \in 0 .. Len(deltas)] ==
        IF k = 0 THEN [rem |-> 0, clicks |-> 0]
        ELSE accumulate_scroll_discrete(after[k - 1], deltas[k])
  IN  after[Len(deltas)]

\* The sum of a sequence of numbers.
Total(s) ==
  LET sum[k \in 0 .. Len(s)] == IF k = 0 THEN 0 ELSE sum[k - 1] + s[k]
  IN  sum[Len(s)]

\* No part of a wheel's movement is lost or sent twice, whatever the sizes of
\* the deltas and their changes of direction: what was sent differs from what
\* came by what is carried, less than a click, so that nothing is carried after
\* a movement and its reverse (accumulate_scroll_discrete, its doc comment).
Conserved(deltas) ==
  LET carried == Total(deltas) - Scrolled(deltas).clicks * Click
  IN  /\ carried \in -(Click - 1) .. Click - 1
      /\ Scrolled(deltas).rem = carried

ScrollConserved == \A deltas \in BoundedSeq(Deltas, MaxEvents) : Conserved(deltas)

---------------------------------------------------------------------------
(* ei_text.utf8: a text is the sequence of its characters' widths *)

Bytes(text) == Total(text)

\* How many characters at the head of the text fill at most cap bytes, and one
\* if none does.
Split(text, cap) == Max({n \in 1 .. Len(text) : n = 1 \/ Bytes(SubSeq(text, 1, n)) =< cap})

\* One turn of the loop: the next piece, and what is left of the text.
Piece(st, cap) ==
  LET n == Split(st.rest, cap)
  IN  [chunks |-> Append(st.chunks, SubSeq(st.rest, 1, n)),
       rest |-> SubSeq(st.rest, n + 1, Len(st.rest))]

chunk_utf8(text, cap) ==
  LET turn[k \in 0 .. Len(text)] ==
        IF k = 0 THEN [chunks |-> <<>>, rest |-> text]
        ELSE IF turn[k - 1].rest = <<>> THEN turn[k - 1] ELSE Piece(turn[k - 1], cap)
  IN  turn[Len(text)].chunks

\* The pieces of a text are the text, cut between characters; each is within
\* the limit (a single character may be longer than a limit under its own
\* width) and no piece would have held the next one's first character, so that
\* the pieces are as few as the limit lets them be (send_text_utf8).
Whole(text, cap) ==
  LET chunks == chunk_utf8(text, cap)
  IN  /\ FlattenSeq(chunks) = text
      /\ \A i \in 1 .. Len(chunks) :
           /\ chunks[i] # <<>>
           /\ Bytes(chunks[i]) =< cap \/ Len(chunks[i]) = 1
           /\ i > 1 => Bytes(chunks[i - 1]) + chunks[i][1] > cap

ChunksWhole == \A text \in BoundedSeq(Widths, MaxChars), cap \in Caps : Whole(text, cap)
=============================================================================
