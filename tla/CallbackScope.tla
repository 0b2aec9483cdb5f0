----------------------------- MODULE CallbackScope -----------------------------
(***************************************************************************)
(* What CallbackLifetime promises a session: calls enter while the scope   *)
(* is open, and closing it ends at a moment when the only calls inside are *)
(* those of the thread that closes, and stays so.                          *)
(***************************************************************************)
CONSTANTS Calls, Owner, threadOf

VARIABLES
    open,       \* calls may enter
    quiet,      \* closing has ended
    inside,     \* calls in the object
    gone        \* calls that were refused or have left

vars == <<open, quiet, inside, gone>>

Init == open = TRUE /\ quiet = FALSE /\ inside = {} /\ gone = {}

Enter(c) ==
    /\ open
    /\ c \notin inside \cup gone
    /\ inside' = inside \cup {c}
    /\ UNCHANGED <<open, quiet, gone>>

Refuse(c) ==
    /\ ~open
    /\ c \notin inside \cup gone
    /\ gone' = gone \cup {c}
    /\ UNCHANGED <<open, quiet, inside>>

Exit(c) ==
    /\ c \in inside
    /\ inside' = inside \ {c}
    /\ gone' = gone \cup {c}
    /\ UNCHANGED <<open, quiet>>

Refusing == open' = FALSE /\ UNCHANGED <<quiet, inside, gone>>

Quieten ==
    /\ \A c \in inside : threadOf[c] = Owner
    /\ open' = FALSE
    /\ quiet' = TRUE
    /\ UNCHANGED <<inside, gone>>

Next == (\E c \in Calls : Enter(c) \/ Refuse(c) \/ Exit(c)) \/ Refusing \/ Quieten

Spec == Init /\ [][Next]_vars
=============================================================================
