----------------------------- MODULE MimeMatch ------------------------------
(***************************************************************************)
(* Choosing the offered MIME type a request is for                         *)
(* (src/crates/lamco-data-control/src/mime.rs). A type is its base, the    *)
(* part before the first ';', and the parameters after it.                 *)
(***************************************************************************)
EXTENDS Integers, Sequences, FiniteSets, SequencesExt

CONSTANTS
  Base, TextBase,   \* base types, and those of them under text/
  Charset,          \* parameters: "" for none, the spellings below, others
  NoMatch

ASSUME MimeAssumption ==
  TextBase \subseteq Base /\ {"", "utf-8", "UTF-8"} \subseteq Charset

Mime == [base : Base, cs : Charset]

Bare(m) == [m EXCEPT !.cs = ""]

(* Variant: no offered type of the same base is taken.                     *)
CandidatesSpelled(requested) ==
  <<{requested}, {Bare(requested), [requested EXCEPT !.cs = "utf-8"], [requested EXCEPT !.cs = "UTF-8"]}>>

(* The types that would do, in the order they are looked for.              *)
Candidates(requested) ==
  LET akin == [base : {requested.base}, cs : Charset]
  IN  IF requested.base \notin TextBase THEN <<{requested}>>
      ELSE IF requested.cs # "" THEN <<{requested}, {Bare(requested)}, akin>>
      ELSE <<{requested}, {[requested EXCEPT !.cs = "utf-8"]}, {[requested EXCEPT !.cs = "UTF-8"]}, akin>>

(* The first offer of the first of them that is offered at all.            *)
find_mime_match(requested, available) ==
  LET hits(i) == {j \in DOMAIN available : available[j] \in Candidates(requested)[i]}
      good == {i \in DOMAIN Candidates(requested) : hits(i) # {}}
  IN  IF good = {} THEN NoMatch ELSE available[Min(hits(Min(good)))]

(* The same looked up in the data cached for a source: the type itself,    *)
(* else its base, whatever the base (state.rs, cached_data).               *)
cached_key(requested, cached) ==
  IF requested \in cached THEN requested
  ELSE IF Bare(requested) \in cached THEN Bare(requested) ELSE NoMatch

(* find_mime_match takes what was asked for when it is offered; else, and  *)
(* only for text, an offer of the same base, the charset stripped or added *)
(* if that is offered; and it finds one whenever one would do (its doc     *)
(* comment).                                                               *)
NearestOf(available) ==
  \A requested \in Mime :
    LET match == find_mime_match(requested, available)
        akin == {m \in ToSet(available) : m.base = requested.base}
        plain == IF requested.cs = "" THEN [requested EXCEPT !.cs = "utf-8"] ELSE Bare(requested)
    IN  IF requested \in akin THEN match = requested
        ELSE IF requested.base \notin TextBase \/ akin = {} THEN match = NoMatch
        ELSE IF plain \in akin THEN match = plain ELSE match \in akin

NearestMatch == \A available \in BoundedSeq(Mime, 3) : NearestOf(available)
=============================================================================
