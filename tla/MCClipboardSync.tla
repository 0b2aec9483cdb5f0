---------------------------- MODULE MCClipboardSync ----------------------------
(* One short text and one long one. *)
EXTENDS ClipboardSync

CONSTANTS a, l
=============================================================================
