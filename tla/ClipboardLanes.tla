---------------------------- MODULE ClipboardLanes ----------------------------
(***************************************************************************)
(* What the clipboard channel promises of the texts handed to it: each way *)
(* it is two queues, one for short texts and one for long ones.  A text    *)
(* comes out whole, at most once, and after the texts put before it into   *)
(* the same queue; and texts are lost only while the channel is not open   *)
(* or by a fault.  Nothing orders the two queues.  Texts are numbered as   *)
(* they are put in, so that a queue is the set of what is in it.           *)
(***************************************************************************)
EXTENDS Naturals, Sequences

CONSTANTS Sides, Lanes, Texts

VARIABLES
    lane,       \* the texts each side has put into each queue
    out,        \* what the threads of the clipboards have still to do
    issued,     \* the number of the last text
    sound,      \* the channel is open and nobody has given it up
    faults      \* what has gone wrong

lanesVars == <<lane, out, issued, sound, faults>>

Init ==
    /\ lane = [s \in Sides |-> [k \in Lanes |-> {}]]
    /\ out = [s \in Sides |-> <<>>]
    /\ issued = 0
    /\ sound = FALSE

NewItem(t) == [id |-> issued + 1, text |-> t]

\* What a clipboard's thread has to do besides writing texts.
Chore == [id |-> 0]

\* A text is lost only now.
MayLose == ~sound \/ ~sound' \/ faults' # faults

Put ==
    /\ issued' = issued + 1
    /\ \/ \E s \in Sides, k \in Lanes, t \in Texts :
              lane' = [lane EXCEPT ![s][k] = @ \cup {NewItem(t)}]
       \/ MayLose /\ UNCHANGED lane
    /\ UNCHANGED out

\* The text that was put in first comes out at the other side.
Deliver ==
    /\ \E s, o \in Sides, k \in Lanes : \E i \in lane[s][k] :
           /\ s # o
           /\ \A j \in lane[s][k] : i.id <= j.id
           /\ lane' = [lane EXCEPT ![s][k] = @ \ {i}]
           /\ out' = [out EXCEPT ![o] = Append(@, i)]
    /\ UNCHANGED issued

Take ==
    /\ \E s \in Sides : out[s] # <<>> /\ out' = [out EXCEPT ![s] = Tail(@)]
    /\ UNCHANGED <<lane, issued>>

Lose ==
    /\ MayLose
    /\ lane' = [s \in Sides |-> [k \in Lanes |-> lane'[s][k]]]
    /\ \A s \in Sides, k \in Lanes : lane'[s][k] \subseteq lane[s][k]
    /\ UNCHANGED <<out, issued>>

Turn ==
    /\ \/ UNCHANGED out
       \/ \E s \in Sides : out' = [out EXCEPT ![s] = Append(@, Chore)]
    /\ UNCHANGED <<lane, issued>>

Next == Turn \/ Put \/ Deliver \/ Take \/ Lose

LanesSpec == Init /\ [][Next]_lanesVars
=============================================================================
