------------------------------ MODULE MCOutputs ------------------------------
(* WaylandOutputs on outputs of one size beside and above each other.      *)
EXTENDS WaylandOutputs

MCPlaces == {Rect(0, 0, 8, 6), Rect(-8, 0, 8, 6), Rect(0, -6, 8, 6)}
MCInitial == {<<Rect(0, 0, 8, 6)>>}
MCInput == {"virtual_pointer", "virtual_keyboard"}
MCAdvertised ==
  {MCInput \cup {"ext_copy_capture", "ext_capture_source", "wlr_screencopy", "xdg_output"},
   {"virtual_pointer"},
   {"wlr_screencopy", "xdg_output"}}
MCPreferences == [preferred : {"ext", "wlr", "auto"}, allow_fallback : {TRUE}, broken : SUBSET {"ext"}]
=============================================================================
