---------------------------- MODULE MCClipboard -----------------------------
(* ClipboardPortal with text selections, asked for with and without their charset. *)
EXTENDS ClipboardPortal, TLC
text == [base |-> "text", cs |-> ""]
utf8 == [base |-> "text", cs |-> "utf-8"]
MCOffers == {<<text>>}
MCWanted == {text, utf8}
=============================================================================
