------------------------ MODULE ControlledAdmission ------------------------
(***************************************************************************)
(* What admission promises, without the pool, the queues and the workers:  *)
(* the set of active sessions grows by one request at a time, only while   *)
(* remote access is allowed, only for a request that supplied the password *)
(* that is current at that moment, within both limits, and never twice for *)
(* the same session of the same peer. It may shrink at any time.           *)
(***************************************************************************)
EXTENDS Integers, FiniteSets

CONSTANTS Requests, Passwords, PeerOf, SidOf, MaxSessions, MaxPerPeer

VARIABLES allow, password, offered, active

vars == <<allow, password, offered, active>>

Init ==
  /\ allow \in BOOLEAN
  /\ password \in Passwords
  /\ offered \in [Requests -> Passwords]
  /\ active = {}

ChangePolicy ==
  /\ allow' \in BOOLEAN
  /\ password' \in Passwords
  /\ UNCHANGED <<offered, active>>

Offer(r) ==
  /\ r \notin active
  /\ \E p \in Passwords : offered' = [offered EXCEPT ![r] = p]
  /\ UNCHANGED <<allow, password, active>>

Admit(r) ==
  /\ r \notin active
  /\ allow
  /\ offered[r] = password
  /\ \A q \in active : ~(PeerOf[q] = PeerOf[r] /\ SidOf[q] = SidOf[r])
  /\ Cardinality(active) < MaxSessions
  /\ Cardinality({q \in active : PeerOf[q] = PeerOf[r]}) < MaxPerPeer
  /\ active' = active \cup {r}
  /\ UNCHANGED <<allow, password, offered>>

Release ==
  /\ active' \in SUBSET active
  /\ UNCHANGED <<allow, password, offered>>

Next ==
  \/ ChangePolicy
  \/ Release
  \/ \E r \in Requests : Offer(r) \/ Admit(r)

Spec == Init /\ [][Next]_vars
=============================================================================
