-------------------------- MODULE TerminalTranscript --------------------------
(***************************************************************************)
(* What a remote terminal promises about the text it shows: the chunks of  *)
(* the shell called last, each at most once and in the order it wrote      *)
(* them; a mark that clears the screen wherever chunks are missing and     *)
(* between two shells; and the end of a shell after the last of its text.  *)
(* A chunk refused for its size is the one that may be missing unmarked.   *)
(***************************************************************************)
EXTENDS Naturals, Sequences, SequencesExt

VARIABLES
    shown,      \* what was shown: marks, chunks and ends, oldest first
    called,     \* the shell called last, 0 before the first
    torn        \* the chunks refused for their size

transcriptVars == <<shown, called, torn>>

Chunk(r, k) == [of |-> r, n |-> k]
Mark == Chunk(0, 0)
End(r) == Chunk(r, 0)

Init ==
    /\ shown = <<>>
    /\ called = 0
    /\ torn = {}

InOrder(s, i) == \A j \in 1..i - 1 : s[j].of = s[i].of => s[j].n < s[i].n

\* No chunk is missing before s[i], or the last one missing was refused.
Continues(s, i) ==
    /\ i = 1 \/ s[i - 1].of = s[i].of
    /\ \/ s[i].n = 1 + (IF i = 1 THEN 0 ELSE s[i - 1].n)
       \/ Chunk(s[i].of, s[i].n - 1) \in torn

Allowed(s, i) ==
    \/ s[i] = Mark
    \/ /\ s[i].of = called
       /\ \A j \in 1..i - 1 : s[j] # End(called)
       /\ \/ s[i] = End(called)
          \/ InOrder(s, i) /\ (Continues(s, i) \/ (i > 1 /\ s[i - 1] = Mark))

Show ==
    /\ IsPrefix(shown, shown')
    /\ \A i \in Len(shown) + 1 .. Len(shown') : Allowed(shown', i)
    /\ UNCHANGED <<called, torn>>

Call ==
    /\ called' = called + 1
    /\ UNCHANGED <<shown, torn>>

Refuse ==
    /\ torn \subseteq torn'
    /\ \A c \in torn' \ torn : c.of = called
    /\ UNCHANGED <<shown, called>>

Next == Show \/ Call \/ Refuse

TranscriptSpec == Init /\ [][Next]_transcriptVars
=============================================================================
