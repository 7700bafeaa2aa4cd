--------------------------- MODULE LayoutGeometry ---------------------------
(***************************************************************************)
(* The arithmetic of the layout: where absolute motion lands, which        *)
(* regions an EIS client is offered, and where the strip of an             *)
(* InputCapture barrier is put (src/src/services/input/wlr_backend.rs,     *)
(* src/src/services/input/eis_bridge.rs, src/src/wayland/input_capture.rs).*)
(* A rectangle is [x, y, width, height] in compositor-global pixels.       *)
(***************************************************************************)
EXTENDS Integers, Sequences, FiniteSetsExt

Rect(x, y, w, h) == [x |-> x, y |-> y, width |-> w, height |-> h]
Right(r) == r.x + r.width
Bottom(r) == r.y + r.height

-----------------------------------------------------------------------------
(* Absolute motion. "mappings" is the set of rectangles of the streams.    *)

(* Variant: the layout is taken to begin at the origin. *)
layout_bounds_unshifted(mappings) ==
  IF mappings = {} THEN Rect(0, 0, 1920, 1080)
  ELSE Rect(0, 0, Max({Right(r) : r \in mappings} \cup {1}),
                  Max({Bottom(r) : r \in mappings} \cup {1}))

layout_bounds(mappings) ==
  IF mappings = {} THEN Rect(0, 0, 1920, 1080)
  ELSE LET x == Min({r.x : r \in mappings})
           y == Min({r.y : r \in mappings})
       IN  Rect(x, y, Max({Right(r) : r \in mappings} \cup {x + 1}) - x,
                      Max({Bottom(r) : r \in mappings} \cup {y + 1}) - y)

(* The region of a stream's output, its offset within the layout.          *)
pointer_region(r, mappings) ==
  LET b == layout_bounds(mappings)
  IN  Rect(Max({r.x - b.x, 0}), Max({r.y - b.y, 0}), r.width, r.height)

(* The device is advertised with one region per output, or with the        *)
(* default extent where there is none.                                     *)
pointer_regions(mappings) ==
  IF mappings = {} THEN {layout_bounds({})}
  ELSE {pointer_region(r, mappings) : r \in mappings}

WlrExtent == 10000

(* One axis of a request, "at" of "of" pixels, clamped.                    *)
Clamp(at, of) == Max({0, Min({at, of})})
Project(at, of) == (Clamp(at, of) * WlrExtent) \div of

(* NotifyPointerMotionAbsolute names a stream: pixel p of its rectangle r. *)
MotionOnStream(p, r, mappings) ==
  LET b == layout_bounds(mappings)
  IN  <<Project(r.x + Clamp(p[1], r.width) - b.x, b.width),
        Project(r.y + Clamp(p[2], r.height) - b.y, b.height)>>

(* A motion of an EIS client names no stream, only a point of the layout.  *)
MotionInLayout(p, mappings) ==
  LET b == layout_bounds(mappings)
  IN  <<Project(p[1], b.width), Project(p[2], b.height)>>

(* The compositor spreads the extent over the box of all its outputs.      *)
Lands(abs, outputs) ==
  LET x == Min({r.x : r \in outputs})
      y == Min({r.y : r \in outputs})
      b == Rect(x, y, Max({Right(r) : r \in outputs}) - x, Max({Bottom(r) : r \in outputs}) - y)
  IN  <<b.x + (abs[1] * b.width) \div WlrExtent, b.y + (abs[2] * b.height) \div WlrExtent>>

(* Truncation may lose a pixel.                                            *)
Within1(p, q) == \A i \in 1..2 : p[i] - q[i] \in -1..1

-----------------------------------------------------------------------------
(* Barriers: [x1, y1, x2, y2]. "zones" is a sequence of [n, rect].         *)
BARRIER_STRIP_THICKNESS_PX == 2

Horizontal(b) == b.y1 = b.y2

LiesOn(b, r) ==
  IF Horizontal(b)
  THEN b.y1 \in {r.y, Bottom(r)} /\ {b.x1, b.x2} \subseteq r.x..Right(r)
  ELSE b.x1 \in {r.x, Right(r)} /\ {b.y1, b.y2} \subseteq r.y..Bottom(r)

(* The barrier lies on r, so it needs no clipping. The surface is as long  *)
(* as the barrier and gets no margin, wherever along the edge that starts. *)
Strip(b, n, r) ==
  LET near == IF Horizontal(b) THEN b.y1 = r.y ELSE b.x1 = r.x
      span == IF Horizontal(b) THEN b.x2 - b.x1 ELSE b.y2 - b.y1
      length == IF span > 0 THEN span ELSE 0
  IN  IF Horizontal(b)
      THEN [output |-> n, anchor |-> {IF near THEN "top" ELSE "bottom", "left"},
            width |-> length, height |-> BARRIER_STRIP_THICKNESS_PX,
            origin |-> <<b.x1, IF near THEN r.y ELSE Bottom(r) - BARRIER_STRIP_THICKNESS_PX>>]
      ELSE [output |-> n, anchor |-> {IF near THEN "left" ELSE "right", "top"},
            width |-> BARRIER_STRIP_THICKNESS_PX, height |-> length,
            origin |-> <<IF near THEN r.x ELSE Right(r) - BARRIER_STRIP_THICKNESS_PX, b.y1>>]

(* Empty, or the strip on the first zone the barrier lies on.              *)
barrier_to_layer_geometry(b, zones) ==
  LET matching == {i \in DOMAIN zones : LiesOn(b, zones[i].rect)}
  IN  IF matching = {} THEN {}
      ELSE LET z == zones[Min(matching)] IN {Strip(b, z.n, z.rect)}

(* The compositor anchors a surface without margins to its output r.       *)
Placed(g, r) ==
  Rect(IF "right" \in g.anchor THEN Right(r) - g.width ELSE r.x,
       IF "bottom" \in g.anchor THEN Bottom(r) - g.height ELSE r.y,
       g.width, g.height)
=============================================================================
