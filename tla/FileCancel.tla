------------------------------ MODULE FileCancel ------------------------------
(***************************************************************************)
(* FileIngress with a history variable: barred is the files whose          *)
(* cancellation was handled before their copy began and has been           *)
(* remembered since.  The table m_cancelledTransfers forgets what is ten   *)
(* minutes old and, when it is full, the oldest.                           *)
(***************************************************************************)
EXTENDS FileIngress

VARIABLE barred

Copying(p) == packet # NoPacket /\ packet.packet = p /\ packet.step = "copying"

BarredBy(t) == {p \in Packets : transferOf[p] = t /\ written[p] = <<>> /\ ~Copying(p)}

Bars(files) == barred' = {p \in barred \cup files : transferOf[p] \in Unexpired'}

CancelInit == Init /\ barred = {}

CancelNext ==
    \/ \E t \in Transfers : HandleCancel(t) /\ Bars(BarredBy(t))
    \/ Next /\ UNCHANGED cancelOnWire /\ Bars({})
    \/ (\E t \in Transfers : CancelTransfer(t)) /\ Bars({})

CancelSpec == CancelInit /\ [][CancelNext]_<<vars, barred>>

\* A file whose cancellation was handled before its copy began is not written
\* while m_cancelledTransfers remembers it, wherever its fragments were at the
\* time: in the channel, the queue, the batch, or reassembled and not yet
\* looked at.
CancelledIsNotWritten == \A p \in barred : written[p] = <<>>
=============================================================================
