-------------------------- MODULE DongleLinkProofs --------------------------
(* A registered dongle is watched, for any number of connections and faults. *)
EXTENDS DongleLink, TLAPS

IInv == TypeOK /\ OnlineIsWatched

LEMMA InitIInv == Init => IInv
  BY ConnAssumption, FaultAssumption DEF Init, IInv, TypeOK, OnlineIsWatched

LEMMA StepType == TypeOK /\ [Next]_vars => TypeOK'
<1> SUFFICES ASSUME TypeOK, [Next]_vars PROVE TypeOK'
  OBVIOUS
<1> USE ConnAssumption, FaultAssumption DEF TypeOK, HubAt, HubGoes, Fault, Leave
<1>1. CASE Announce
  BY <1>1 DEF Announce
<1>7. CASE Registered \/ SessionLost \/ Stopped
  BY <1>7 DEF Registered, SessionLost, Stopped
<1>2. CASE AgentFails \/ Restart
  BY <1>2 DEF AgentFails, Restart
<1>3. ASSUME NEW c \in Conns, Connect(c) \/ Cut(c) PROVE TypeOK'
  BY <1>3 DEF Connect, Cut
<1>4. ASSUME NEW c \in Conns, FirstLine(c) \/ Register(c) \/ Reply(c) PROVE TypeOK'
  BY <1>4 DEF FirstLine, Register, Reply
<1>5. ASSUME NEW c \in Conns, ReplyError(c) \/ HoldEnds(c) \/ Offline(c) PROVE TypeOK'
  BY <1>5 DEF ReplyError, HoldEnds, Offline
<1>6. CASE UNCHANGED vars
  BY <1>6 DEF vars
<1> QED
  BY <1>1, <1>2, <1>3, <1>4, <1>5, <1>6, <1>7 DEF Next

\* A handler that watches the dongle keeps watching unless it is the one that
\* moves, and the one that moves only stops to mark the dongle offline.
LEMMA StepWatched == TypeOK /\ OnlineIsWatched /\ [Next]_vars => OnlineIsWatched'
<1> SUFFICES ASSUME TypeOK, OnlineIsWatched, [Next]_vars PROVE OnlineIsWatched'
  OBVIOUS
<1> USE DEF TypeOK, OnlineIsWatched, HubAt, HubGoes
<1>1. CASE Announce \/ Registered \/ SessionLost \/ Stopped \/ AgentFails
  BY <1>1 DEF Announce, Registered, SessionLost, Stopped, AgentFails
<1>2. CASE Restart
  BY <1>2 DEF Restart
<1>3. ASSUME NEW c \in Conns, Connect(c) \/ Cut(c) \/ FirstLine(c) PROVE OnlineIsWatched'
  BY <1>3 DEF Connect, Cut, FirstLine
<1>4. ASSUME NEW c \in Conns, Register(c) \/ Reply(c) PROVE OnlineIsWatched'
  BY <1>4 DEF Register, Reply
<1>5. ASSUME NEW c \in Conns, ReplyError(c) PROVE OnlineIsWatched'
  BY <1>5 DEF ReplyError
<1>6. ASSUME NEW c \in Conns, HoldEnds(c) \/ Offline(c) PROVE OnlineIsWatched'
  BY <1>6 DEF HoldEnds, Offline
<1>7. CASE UNCHANGED vars
  BY <1>7 DEF vars
<1> QED
  BY <1>1, <1>2, <1>3, <1>4, <1>5, <1>6, <1>7 DEF Next

\* A dongle marked online always has a handler that will mark it offline unless a
\* reply failed, for any set of connections and any number of faults.
THEOREM Watched == Spec => []OnlineIsWatched
<1>1. IInv /\ [Next]_vars => IInv'
  BY StepType, StepWatched DEF IInv
<1>2. IInv => OnlineIsWatched
  BY DEF IInv
<1> QED
  BY InitIInv, <1>1, <1>2, PTL DEF Spec
=============================================================================
