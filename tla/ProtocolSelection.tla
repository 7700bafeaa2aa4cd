-------------------------- MODULE ProtocolSelection -------------------------
(***************************************************************************)
(* What the portal makes of the globals a compositor advertises            *)
(* (detect_and_bind_globals in src/src/wayland/mod.rs, and the detectors   *)
(* in src/src/services/capture and src/src/services/input). A selection is *)
(* a set: empty when the code returns an error.                            *)
(***************************************************************************)
EXTENDS Naturals

Global == {"ext_copy_capture", "ext_capture_source", "wlr_screencopy",
           "virtual_pointer", "virtual_keyboard", "xdg_output"}

Fallback(protocol) ==
  CASE protocol = "ext" -> "wlr" [] protocol = "wlr" -> "ext"
    [] protocol = "eis" -> "virtual_input" [] protocol = "virtual_input" -> "eis"

(* AvailableProtocols::ext_image_copy_capture is set by the capture        *)
(* manager alone, bound or only listed; the source manager is not counted. *)
CaptureDetected(adv) ==
  {p \in {"ext", "wlr"} : (IF p = "ext" THEN "ext_copy_capture" ELSE "wlr_screencopy") \in adv}

CapturePreference ==
  [preferred : {"ext", "wlr", "auto"}, allow_fallback : BOOLEAN, broken : SUBSET {"ext", "wlr"}]

Preferred(prefs, usable) ==
  IF prefs.preferred \in usable \/ ~prefs.allow_fallback
  THEN {prefs.preferred} \cap usable
  ELSE {Fallback(prefs.preferred)} \cap usable

select_capture(prefs, adv) ==
  LET usable == CaptureDetected(adv) \ prefs.broken
  IN  IF prefs.preferred # "auto" THEN Preferred(prefs, usable)
      ELSE IF "ext" \in usable THEN {"ext"} ELSE usable

(* Without a protocol the backend is one that has no sources to offer.     *)
create_capture_backend(prefs, adv) == select_capture(prefs, adv) # {}

(* EIS is bridged to the virtual devices: both are there or neither is.    *)
InputDetected(adv) ==
  IF adv \cap {"virtual_pointer", "virtual_keyboard"} = {} THEN {} ELSE {"eis", "virtual_input"}

select_input(prefs, adv) == Preferred(prefs, InputDetected(adv))
=============================================================================
