-------------------------- MODULE SupervisorProofs --------------------------
(***************************************************************************)
(* Theorems about Supervisor, for any number of supervisors and processes. *)
(***************************************************************************)
EXTENDS Supervisor, TLAPS

(***************************************************************************)
(* Where a handle can be: in the slot only while the monitor is about to   *)
(* take it, with the monitor only while it waits or is about to store.  So *)
(* a monitor that has finished holds none, and none is left in the slot.   *)
(* A handle is of a child of this supervisor, or of one that has exited.   *)
(***************************************************************************)

HandlePlace ==
  \A s \in Sups :
    /\ slot[s] # None => mon[s] = "take"
    /\ held[s] # None => mon[s] \in {"wait", "store"}
    /\ mon[s] \in {"wait", "check", "sleep", "spawn", "store", "done"} => slot[s] = None
    /\ slot[s] # None => parent[slot[s]] \in {s, None}
    /\ held[s] # None => parent[held[s]] \in {s, None}
    /\ own[s] = "gone" => mon[s] = "done"
    /\ own[s] \in {"none", "failed"} => mon[s] = "off"
    /\ own[s] = "none" => Launched(s) = {}
    /\ own[s] = "failed" => \A p, q \in Launched(s) : p = q

IInv == TypeOK /\ ChildIsHeld /\ HandlePlace

LEMMA InitInv == ASSUME Init PROVE IInv
BY NoneAssumption DEF Init, IInv, TypeOK, ChildIsHeld, HandlePlace, Launched

\* The steps of the owner.
LEMMA OwnerStep ==
  ASSUME IInv, NEW s \in Sups,
         Launch(s) \/ LaunchFails(s) \/ DropStop(s) \/ Drop(s)
  PROVE  IInv'
<1> USE NoneAssumption DEF IInv, TypeOK, ChildIsHeld, HandlePlace, Launched, Free
<1>1. CASE Launch(s) BY <1>1 DEF Launch
<1>2. CASE LaunchFails(s) BY <1>2 DEF LaunchFails
<1>3. CASE DropStop(s) BY <1>3 DEF DropStop
<1>4. CASE DropKill(s) BY <1>4 DEF DropKill
<1>5. CASE DropJoin(s) BY <1>5 DEF DropJoin
<1> QED BY <1>1, <1>2, <1>3, <1>4, <1>5 DEF Drop

\* The steps of the monitor.
LEMMA MonitorStep ==
  ASSUME IInv, NEW s \in Sups, Monitor(s) \/ MonGivesUp(s)
  PROVE  IInv'
<1> USE NoneAssumption DEF IInv, TypeOK, ChildIsHeld, HandlePlace, Launched, Free
<1>1. CASE MonTake(s) BY <1>1 DEF MonTake
<1>2. CASE MonWait(s) BY <1>2 DEF MonWait
<1>3. CASE MonCheck(s) BY <1>3 DEF MonCheck
<1>4. CASE MonSpawn(s) BY <1>4 DEF MonSpawn
<1>5. CASE MonStore(s) BY <1>5 DEF MonStore
<1>6. CASE MonGivesUp(s) BY <1>6 DEF MonGivesUp
<1> QED BY <1>1, <1>2, <1>3, <1>4, <1>5, <1>6 DEF Monitor

LEMMA Step == ASSUME IInv, [Next]_vars PROVE IInv'
<1>1. ASSUME NEW p \in Procs, ChildExits(p) PROVE IInv'
  BY <1>1, NoneAssumption
     DEF ChildExits, IInv, TypeOK, ChildIsHeld, HandlePlace, Launched
<1>2. CASE UNCHANGED vars
  BY <1>2 DEF vars, IInv, TypeOK, ChildIsHeld, HandlePlace, Launched
<1> QED BY <1>1, <1>2, OwnerStep, MonitorStep DEF Next

\* A running child's handle is always in the slot or with the monitor.
THEOREM Held == Spec => []ChildIsHeld
<1>1. IInv => ChildIsHeld BY DEF IInv
<1> QED BY <1>1, InitInv, Step, PTL DEF Spec

\* When Drop has returned, no process it launched is left, wherever the relaunch
\* loop was when the stop flag was set.
THEOREM NoneLeft == Spec => []NoOrphan
<1>1. IInv => NoOrphan
  BY NoneAssumption DEF IInv, TypeOK, ChildIsHeld, HandlePlace, NoOrphan, Launched
<1> QED BY <1>1, InitInv, Step, PTL DEF Spec

\* A supervisor never runs two children.
THEOREM AtMostOne == Spec => []OneChild
<1>1. IInv => OneChild
  BY NoneAssumption DEF IInv, TypeOK, ChildIsHeld, HandlePlace, OneChild, Launched
<1> QED BY <1>1, InitInv, Step, PTL DEF Spec
-----------------------------------------------------------------------------
(* Supervisor implements ManagedProcess.                                   *)

\* A process that is free for a launch is one the abstract owner may start.
LEMMA FreeIsUnused == ASSUME NEW p \in Free PROVE p \in Managed!Unused
BY NoneAssumption DEF Free, Managed!Unused, Launched, AllLaunched

\* A launch gives s, which has none, one process, and changes no other.
LEMMA LaunchMaps ==
  ASSUME TypeOK, NEW s \in Sups, NEW p \in Free, Launched(s) = {},
         parent' = [parent EXCEPT ![p] = s]
  PROVE  AllLaunched' = [AllLaunched EXCEPT ![s] = {p}]
<1>1. Launched(s)' = {p}
  <2>1. \A q \in Procs : parent'[q] = s <=> q = p BY DEF TypeOK, Launched, Free
  <2> QED BY <2>1 DEF Launched, Free
<1>2. ASSUME NEW r \in Sups \ {s} PROVE Launched(r)' = Launched(r)
  <2>1. \A q \in Procs : parent'[q] = r <=> parent[q] = r
    BY NoneAssumption DEF TypeOK, Free
  <2> QED BY <2>1 DEF Launched
<1> QED BY <1>1, <1>2 DEF AllLaunched

\* So does the end of a process of s, which s had.
LEMMA EndMaps ==
  ASSUME TypeOK, NEW s \in Sups, NEW p \in Procs, parent[p] = s,
         parent' = [parent EXCEPT ![p] = None]
  PROVE  AllLaunched' = [AllLaunched EXCEPT ![s] = @ \ {p}]
<1>1. Launched(s)' = Launched(s) \ {p}
  <2>1. \A q \in Procs : parent'[q] = s <=> parent[q] = s /\ q # p
    BY NoneAssumption DEF TypeOK
  <2> QED BY <2>1 DEF Launched
<1>2. ASSUME NEW r \in Sups \ {s} PROVE Launched(r)' = Launched(r)
  <2>1. \A q \in Procs : parent'[q] = r <=> parent[q] = r
    BY NoneAssumption DEF TypeOK
  <2> QED BY <2>1 DEF Launched
<1> QED BY <1>1, <1>2 DEF AllLaunched

LEMMA SameParents == ASSUME UNCHANGED parent PROVE UNCHANGED AllLaunched
BY DEF AllLaunched, Launched

\* A step of the owner that takes s to another place changes the phase of s only.
LEMMA PhaseMaps ==
  ASSUME TypeOK, NEW s \in Sups, NEW o, own' = [own EXCEPT ![s] = o]
  PROVE  AllPhases' = [AllPhases EXCEPT ![s] = Phase(s)'] /\ own'[s] = o
<1>1. \A r \in Sups \ {s} : Phase(r)' = Phase(r) BY DEF TypeOK, Phase
<1> QED BY <1>1 DEF AllPhases, TypeOK

LEMMA SamePhases == ASSUME UNCHANGED own PROVE UNCHANGED AllPhases
BY DEF AllPhases, Phase

\* The owner's steps: a launch starts, Drop lets go, kills and, with the monitor
\* done and so no child left, ends.
LEMMA OwnerMaps ==
  ASSUME IInv, NEW s \in Sups,
         Launch(s) \/ LaunchFails(s) \/ DropStop(s) \/ Drop(s)
  PROVE  [Managed!Next]_<<AllPhases, AllLaunched>>
<1>t. TypeOK BY DEF IInv
<1>n. own[s] = "none" => Launched(s) = {} BY DEF IInv, HandlePlace
<1>p. AllPhases[s] = Phase(s) /\ AllLaunched[s] = Launched(s) BY DEF AllPhases, AllLaunched
<1>1. CASE Launch(s)
  <2>1. PICK p \in Free : parent' = [parent EXCEPT ![p] = s] BY <1>1 DEF Launch
  <2>2. AllLaunched' = [AllLaunched EXCEPT ![s] = {p}]
    BY <1>1, <1>t, <1>n, <2>1, LaunchMaps DEF Launch
  <2>3. AllPhases' = [AllPhases EXCEPT ![s] = "up"]
    <3>1. own' = [own EXCEPT ![s] = "up"] BY <1>1 DEF Launch
    <3>2. Phase(s)' = "up" BY <1>t, <3>1 DEF TypeOK, Phase
    <3> QED BY <1>t, <3>1, <3>2, PhaseMaps
  <2>4. Managed!Start(s)
    BY <1>p, <1>1, <2>2, <2>3, FreeIsUnused DEF Managed!Start, Launch, Phase
  <2> QED BY <2>4 DEF Managed!Next
<1>2. CASE LaunchFails(s)
  <2>1. AllPhases' = [AllPhases EXCEPT ![s] = "failed"]
    <3>1. own' = [own EXCEPT ![s] = "failed"] BY <1>2 DEF LaunchFails
    <3>2. Phase(s)' = "failed" BY <1>t, <3>1 DEF TypeOK, Phase
    <3> QED BY <1>t, <3>1, <3>2, PhaseMaps
  <2>2. CASE UNCHANGED parent
    BY <1>p, <1>2, <2>1, <2>2, SameParents DEF Managed!StartFails, Managed!Next, LaunchFails, Phase
  <2>3. ASSUME NEW p \in Free, parent' = [parent EXCEPT ![p] = s]
        PROVE  Managed!Next
    <3>1. AllLaunched' = [AllLaunched EXCEPT ![s] = {p}]
      BY <1>2, <1>t, <1>n, <2>3, LaunchMaps DEF LaunchFails
    <3>2. Managed!StartFails(s)
      BY <1>p, <1>2, <2>1, <3>1, FreeIsUnused DEF Managed!StartFails, LaunchFails, Phase
    <3> QED BY <3>2 DEF Managed!Next
  <2> QED BY <1>2, <2>2, <2>3 DEF LaunchFails
<1>3. CASE DropStop(s)
  <2>1. AllPhases' = [AllPhases EXCEPT ![s] = "ending"]
    <3>1. own' = [own EXCEPT ![s] = "kill"] BY <1>3 DEF DropStop
    <3>2. Phase(s)' = "ending" BY <1>t, <3>1 DEF TypeOK, Phase
    <3> QED BY <1>t, <3>1, <3>2, PhaseMaps
  <2>2. UNCHANGED AllLaunched BY <1>3, SameParents DEF DropStop
  <2>3. Managed!LetGo(s) BY <1>p, <1>3, <2>1, <2>2 DEF Managed!LetGo, DropStop, Phase
  <2> QED BY <2>3 DEF Managed!Next
<1>4. CASE DropKill(s)
  <2>1. UNCHANGED AllPhases
    <3>1. own' = [own EXCEPT ![s] = "join"] BY <1>4 DEF DropKill
    <3>2. Phase(s)' = Phase(s) BY <1>4, <1>t, <3>1 DEF TypeOK, Phase, DropKill
    <3> QED BY <1>t, <1>p, <3>1, <3>2, PhaseMaps DEF AllPhases
  <2>2. CASE \A p \in Procs : parent[p] # None => p # slot[s]
    <3>1. parent' = parent BY <1>4, <1>t, <2>2 DEF DropKill, TypeOK
    <3> QED BY <2>1, <3>1, SameParents
  <2>3. ASSUME NEW p \in Procs, parent[p] # None, p = slot[s]
        PROVE  Managed!Next
    <3>1. parent[p] = s BY <2>3, NoneAssumption DEF IInv, HandlePlace
    <3>2. parent' = [parent EXCEPT ![p] = None] BY <1>4, <1>t, <2>3 DEF DropKill, TypeOK
    <3>3. AllLaunched' = [AllLaunched EXCEPT ![s] = @ \ {p}] BY <1>t, <3>1, <3>2, EndMaps
    <3>4. p \in Launched(s) BY <3>1 DEF Launched
    <3>5. Managed!Exit(s, p) BY <1>p, <2>1, <3>3, <3>4 DEF Managed!Exit
    <3> QED BY <3>5 DEF Managed!Next
  <2> QED BY <2>2, <2>3
<1>5. CASE DropJoin(s)
  <2>1. AllPhases' = [AllPhases EXCEPT ![s] = "gone"]
    <3>1. own' = [own EXCEPT ![s] = "gone"] BY <1>5 DEF DropJoin
    <3>2. Phase(s)' = "gone" BY <1>t, <3>1 DEF TypeOK, Phase
    <3> QED BY <1>t, <3>1, <3>2, PhaseMaps
  <2>2. Launched(s) = {} BY <1>5, NoneAssumption DEF DropJoin, IInv, TypeOK, ChildIsHeld, HandlePlace, Launched
  <2>3. UNCHANGED AllLaunched BY <1>5, SameParents DEF DropJoin
  <2>4. Managed!Ended(s) BY <1>p, <1>5, <2>1, <2>2, <2>3 DEF Managed!Ended, DropJoin, Phase
  <2> QED BY <2>4 DEF Managed!Next
<1> QED BY <1>1, <1>2, <1>3, <1>4, <1>5 DEF Drop

\* Of the monitor's steps only the relaunch shows, and it finds no child left.
LEMMA MonitorMaps ==
  ASSUME IInv, NEW s \in Sups, Monitor(s) \/ MonGivesUp(s)
  PROVE  [Managed!Next]_<<AllPhases, AllLaunched>>
<1>t. TypeOK BY DEF IInv
<1>1. UNCHANGED AllPhases
  BY SamePhases DEF Monitor, MonGivesUp, MonTake, MonWait, MonCheck, MonSpawn, MonStore
<1>2. CASE MonSpawn(s)
  <2>1. PICK p \in Free : parent' = [parent EXCEPT ![p] = s] BY <1>2 DEF MonSpawn
  <2>2. own[s] \in {"up", "kill", "join"} BY <1>2, <1>t DEF MonSpawn, IInv, HandlePlace, TypeOK
  <2>3. Launched(s) = {}
    BY <1>2, <2>2, NoneAssumption DEF MonSpawn, IInv, TypeOK, ChildIsHeld, HandlePlace, Launched
  <2>4. AllLaunched' = [AllLaunched EXCEPT ![s] = {p}] BY <1>t, <2>1, <2>3, LaunchMaps
  <2>5. Phase(s) \in {"up", "ending"} BY <2>2 DEF Phase
  <2>6. Managed!Replace(s)
    BY <1>1, <2>3, <2>4, <2>5, FreeIsUnused DEF Managed!Replace, AllPhases, AllLaunched
  <2> QED BY <2>6 DEF Managed!Next
<1>3. CASE ~MonSpawn(s)
  <2>1. UNCHANGED parent
    BY <1>3 DEF Monitor, MonGivesUp, MonTake, MonWait, MonCheck, MonStore
  <2> QED BY <1>1, <2>1, SameParents
<1> QED BY <1>2, <1>3

LEMMA ExitMaps ==
  ASSUME IInv, NEW p \in Procs, ChildExits(p)
  PROVE  [Managed!Next]_<<AllPhases, AllLaunched>>
<1>t. TypeOK BY DEF IInv
<1>1. PICK s \in Sups : parent[p] = s BY <1>t DEF ChildExits, TypeOK
<1>2. AllLaunched' = [AllLaunched EXCEPT ![s] = @ \ {p}]
  BY <1>t, <1>1, EndMaps DEF ChildExits
<1>3. UNCHANGED AllPhases BY SamePhases DEF ChildExits
<1>4. p \in Launched(s) BY <1>1 DEF Launched
<1>5. Managed!Exit(s, p) BY <1>2, <1>3, <1>4 DEF Managed!Exit, AllPhases, AllLaunched
<1> QED BY <1>5 DEF Managed!Next

\* The supervisor implements the managed process its owner relies on: its first
\* state is a first state there, and each of its steps is a step or a stutter.
THEOREM Implements == Spec => IsManaged
<1>1. Init => Managed!Init
  <2> SUFFICES ASSUME Init PROVE Managed!Init OBVIOUS
  <2>1. \A s \in Sups : Launched(s) = {} BY NoneAssumption DEF Init, Launched
  <2>2. \A s \in Sups : Phase(s) = "idle" BY DEF Init, Phase
  <2> QED BY <2>1, <2>2 DEF Managed!Init, AllPhases, AllLaunched
<1>2. IInv /\ [Next]_vars => [Managed!Next]_<<AllPhases, AllLaunched>>
  <2> SUFFICES ASSUME IInv, [Next]_vars
               PROVE  [Managed!Next]_<<AllPhases, AllLaunched>>
    OBVIOUS
  <2>1. CASE UNCHANGED vars BY <2>1, SameParents, SamePhases DEF vars
  <2> QED BY <2>1, OwnerMaps, MonitorMaps, ExitMaps DEF Next
<1> QED BY <1>1, <1>2, InitInv, Step, PTL DEF Spec, IsManaged, Managed!Spec
=============================================================================
