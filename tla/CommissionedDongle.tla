-------------------------- MODULE CommissionedDongle --------------------------
(***************************************************************************)
(* What the storage and the assignment of a dongle promise, whatever       *)
(* crashes or fails: it enrolls once, under an identity it keeps for ever, *)
(* its records are replaced as a whole, and it serves one hub, under its   *)
(* recorded identity, until it goes down.  The identity that Assignment    *)
(* records is the one of the OutputId.                                     *)
(***************************************************************************)
CONSTANTS Uuids, Hubs, None

VARIABLES identity, \* the recorded identity
          hub,      \* the recorded hub
          serving   \* the identity and the hub of the session

Down == [id |-> None, hub |-> None]

Init == identity = None /\ hub = None /\ serving = Down

Enroll ==
  /\ identity = None
  /\ identity' \in Uuids
  /\ UNCHANGED <<hub, serving>>

Appoint ==
  /\ serving = Down
  /\ hub' \in Hubs
  /\ UNCHANGED <<identity, serving>>

Serve ==
  /\ serving = Down /\ identity # None
  /\ \E h \in Hubs : serving' = [id |-> identity, hub |-> h]
  /\ UNCHANGED <<identity, hub>>

GoDown ==
  /\ serving # Down /\ serving' = Down
  /\ UNCHANGED <<identity, hub>>

Next == Enroll \/ Appoint \/ Serve \/ GoDown

Spec == Init /\ [][Next]_<<identity, hub, serving>>
===============================================================================
