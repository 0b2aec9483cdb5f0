--------------------------- MODULE MCTerminalStream ---------------------------
(***************************************************************************)
(* TerminalStream with two calls of a shell: three chunks of the first one *)
(* and, unless it announces its pipe mode, one of the second.              *)
(***************************************************************************)
EXTENDS TerminalStream

MCMaxWritten == <<3, 1>>
=============================================================================
