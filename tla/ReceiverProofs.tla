--------------------------- MODULE ReceiverProofs ---------------------------
(***************************************************************************)
(* Theorems about Receiver, for any number of names it is given and of     *)
(* processes, whatever senders, readers and monitors do meanwhile.         *)
(***************************************************************************)
EXTENDS Receiver, TLAPS

\* What is proved of a supervisor alone.
P == INSTANCE SupervisorProofs

(***************************************************************************)
(* A receiver's supervisors: only the one in the mutex and, during a       *)
(* rename, the one it replaces can be up; a call that has passed the Drop  *)
(* of the supervisor left it gone for good.                                *)
(***************************************************************************)
SupervisorInv ==
  /\ current \in Sups \cup {None} /\ old \in Sups \cup {None}
  /\ own \in [Sups -> {"none", "up", "kill", "join", "gone", "failed"}]
  /\ \A s \in Sups : own[s] \in {"none", "failed", "gone"} \/ s \in {current, old}
  /\ call # "rename" => old = None
  /\ call = "new" => current = None
  /\ call \in {"nudge_audio", "nudge_meta", "join_audio", "join_meta", "gone"} =>
       current = None \/ own[current] = "gone"

\* A session is one of a pump that reads; a reader that was joined has returned.
Left(f) == reader[f] \in {"off", "exit"}
ReaderInv ==
  /\ DOMAIN reader = Fifos
  /\ session => reader["audio"] \in {"read", "blocked"}
  /\ call \in {"new", "launched"} => reader["audio"] = "off"
  /\ call \in {"new", "launched", "pump"} => reader["meta"] = "off"
  /\ call \in {"join_meta", "undo_drop"} => Left("audio")
  /\ call \in {"undo_nudge", "undo_join", "undo_drop"} => Left("meta")
  /\ call = "gone" => current = None \/ (Left("audio") /\ Left("meta"))

IInv == P!IInv /\ SupervisorInv /\ ReaderInv
-----------------------------------------------------------------------------
(* The supervisors of a receiver are supervisors.                          *)

LEMMA SameOperators ==
  ASSUME NEW s \in Sups
  PROVE  /\ S!Launch(s) <=> P!Launch(s)
         /\ S!LaunchFails(s) <=> P!LaunchFails(s)
         /\ S!DropStop(s) <=> P!DropStop(s)
         /\ S!Drop(s) <=> P!Drop(s)
         /\ S!Monitor(s) <=> P!Monitor(s)
         /\ S!MonGivesUp(s) <=> P!MonGivesUp(s)
         /\ S!Launched(s) = P!Launched(s)
<1>1. S!Free = P!Free BY DEF S!Free, P!Free
<1>2. S!Launched(s) = P!Launched(s) BY DEF S!Launched, P!Launched
<1>3. S!Launch(s) <=> P!Launch(s) BY <1>1 DEF S!Launch, P!Launch
<1>4. S!LaunchFails(s) <=> P!LaunchFails(s) BY <1>1 DEF S!LaunchFails, P!LaunchFails
<1>5. S!DropStop(s) <=> P!DropStop(s) BY DEF S!DropStop, P!DropStop
<1>6. S!Drop(s) <=> P!Drop(s)
  BY DEF S!Drop, P!Drop, S!DropKill, P!DropKill, S!DropJoin, P!DropJoin
<1>7. S!Monitor(s) <=> P!Monitor(s)
  BY <1>1, <1>2
     DEF S!Monitor, P!Monitor, S!MonTake, P!MonTake, S!MonWait, P!MonWait, S!MonCheck,
         P!MonCheck, S!MonSpawn, P!MonSpawn, S!MonStore, P!MonStore
<1>8. S!MonGivesUp(s) <=> P!MonGivesUp(s) BY DEF S!MonGivesUp, P!MonGivesUp
<1> QED BY <1>2, <1>3, <1>4, <1>5, <1>6, <1>7, <1>8

\* Each step of a receiver is a step of one of its supervisors, or of none.
LEMMA SupervisorsStep == ASSUME [Next]_vars PROVE [P!Next]_supervisors
<1>1. CASE \E s \in Sups : \/ Create(s) \/ CreateFails(s) \/ Rename(s) \/ RenameFails(s)
                           \/ DropSupervisor(s) \/ Supervise(s)
  <2>1. PICK s \in Sups : \/ Create(s) \/ CreateFails(s) \/ Rename(s) \/ RenameFails(s)
                          \/ DropSupervisor(s) \/ Supervise(s)
    BY <1>1
  <2>2. \/ S!Launch(s) \/ S!LaunchFails(s) \/ S!DropStop(s) \/ S!Drop(s)
        \/ S!Monitor(s) \/ S!MonGivesUp(s)
    BY <2>1 DEF Create, CreateFails, Rename, RenameFails, DropSupervisor, Supervise
  <2> QED BY <2>2, SameOperators DEF P!Next
<1>2. CASE \E p \in Procs : ProcessExits(p)
  BY <1>2 DEF ProcessExits, S!ChildExits, P!ChildExits, P!Next
<1>3. CASE SpawnPump \/ SpawnMeta \/ TearDown \/ Manager
  BY <1>3 DEF SpawnPump, SpawnMeta, TearDown, Manager, RenameDone, SupervisorGone, Join, Nudge
<1>4. CASE \E f \in Fifos : Read(f) \/ Data(f) \/ Fails(f)
  BY <1>4 DEF Read, Loop, Opened, Begins, Check, Eof, Data, Fails
<1>5. CASE \E p \in Procs, f \in Fifos : WriterOpens(p, f) \/ WriterCloses(p, f)
  BY <1>5 DEF WriterOpens, WriterCloses
<1>6. CASE UNCHANGED vars BY <1>6 DEF vars
<1> QED BY <1>1, <1>2, <1>3, <1>4, <1>5, <1>6 DEF Next

LEMMA NoneIsNone == None \notin Sups /\ None \notin Procs
BY NoneAssumption

LEMMA SupervisorsInv == ASSUME P!IInv, [Next]_vars PROVE P!IInv'
<1>1. [P!Next]_(P!vars) BY SupervisorsStep DEF supervisors, P!vars
<1> QED BY <1>1, P!Step, NoneAssumption

\* A supervisor that is gone, or was never used, has no process.
LEMMA NothingLeft ==
  ASSUME P!IInv, NEW s \in Sups, own[s] \in {"none", "gone"} PROVE S!Launched(s) = {}
<1>1. CASE own[s] = "none" BY <1>1, SameOperators DEF P!IInv, P!HandlePlace
<1>2. CASE own[s] = "gone"
  <2>1. P!Launched(s) \subseteq {slot[s], held[s]} BY <1>2 DEF P!IInv, P!ChildIsHeld
  <2>2. slot[s] = None /\ held[s] = None BY <1>2 DEF P!IInv, P!HandlePlace
  <2>3. P!Launched(s) \subseteq Procs BY DEF P!Launched
  <2> QED BY <2>1, <2>2, <2>3, NoneIsNone, SameOperators
<1> QED BY <1>1, <1>2

LEMMA InitInv == Init => IInv
<1> SUFFICES ASSUME Init PROVE IInv OBVIOUS
<1>1. P!Init BY DEF Init, S!Init, P!Init
<1>2. P!IInv BY <1>1, P!InitInv, NoneAssumption
<1>3. SupervisorInv BY DEF Init, S!Init, SupervisorInv
<1>4. ReaderInv BY DEF Init, ReaderInv, Fifos
<1> QED BY <1>2, <1>3, <1>4 DEF IInv
-----------------------------------------------------------------------------
(* The manager's thread                                                    *)

LEMMA CreateStep ==
  ASSUME IInv, NEW s \in Sups, Create(s) \/ CreateFails(s)
  PROVE  SupervisorInv' /\ ReaderInv'
<1> USE NoneIsNone DEF IInv, SupervisorInv, ReaderInv
<1>1. call = "new" /\ old' = None BY DEF Create, CreateFails
<1>2. \/ own' = [own EXCEPT ![s] = "up"] /\ current' = s /\ call' = "launched"
      \/ own' = [own EXCEPT ![s] = "failed"] /\ current' = current /\ call' = "gone"
  BY DEF Create, CreateFails, S!Launch, S!LaunchFails
<1>3. SupervisorInv' BY <1>1, <1>2
<1>4. ReaderInv' BY <1>1, <1>2 DEF Create, CreateFails, threads, Left
<1> QED BY <1>3, <1>4

LEMMA SpawnStep ==
  ASSUME IInv, SpawnPump \/ SpawnMeta PROVE SupervisorInv' /\ ReaderInv'
<1> USE NoneIsNone DEF IInv, SupervisorInv, ReaderInv
<1>1. UNCHANGED <<current, old, own, session>> BY DEF SpawnPump, SpawnMeta, supervisors
<1>2. SupervisorInv' BY <1>1 DEF SpawnPump, SpawnMeta
<1>3. CASE SpawnPump BY <1>1, <1>2, <1>3 DEF SpawnPump, Becomes, Left, Fifos
<1>4. CASE SpawnMeta BY <1>1, <1>2, <1>4 DEF SpawnMeta, Becomes, Left, Fifos
<1> QED BY <1>3, <1>4

LEMMA RenameStep ==
  ASSUME IInv, \/ \E s \in Sups : Rename(s) \/ RenameFails(s)
               \/ RenameDone \/ TearDown
  PROVE  SupervisorInv' /\ ReaderInv'
<1> USE NoneIsNone DEF IInv, SupervisorInv, ReaderInv
<1>1. ASSUME NEW s \in Sups, Rename(s) PROVE SupervisorInv'
  <2>1. own' = [own EXCEPT ![s] = "up"] BY <1>1 DEF Rename, S!Launch
  <2> QED BY <1>1, <2>1 DEF Rename
<1>2. ASSUME NEW s \in Sups, RenameFails(s) PROVE SupervisorInv'
  <2>1. own' = [own EXCEPT ![s] = "failed"] BY <1>2 DEF RenameFails, S!LaunchFails
  <2> QED BY <1>2, <2>1 DEF RenameFails
<1>3. ASSUME RenameDone PROVE SupervisorInv' BY <1>3 DEF RenameDone, supervisors
<1>4. ASSUME TearDown PROVE SupervisorInv' BY <1>4 DEF TearDown, supervisors
<1>5. ReaderInv' BY DEF Rename, RenameFails, RenameDone, TearDown, threads, Left
<1> QED BY <1>1, <1>2, <1>3, <1>4, <1>5

LEMMA DropStep ==
  ASSUME IInv, NEW s \in Sups, DropSupervisor(s) \/ Supervise(s)
  PROVE  SupervisorInv' /\ ReaderInv'
<1> USE NoneIsNone DEF IInv, SupervisorInv, ReaderInv
<1>1. ReaderInv' BY DEF DropSupervisor, Supervise, threads, Left
<1>2. UNCHANGED <<current, old, call>> BY DEF DropSupervisor, Supervise
<1>3. CASE Supervise(s)
  <2>1. UNCHANGED own
    BY <1>3 DEF Supervise, S!Monitor, S!MonTake, S!MonWait, S!MonCheck, S!MonSpawn,
                S!MonStore, S!MonGivesUp
  <2> QED BY <1>1, <1>2, <2>1
<1>4. CASE DropSupervisor(s)
  <2>1. own' = [own EXCEPT ![s] = own'[s]] /\ own'[s] \in {"kill", "join", "gone"}
    BY <1>4 DEF DropSupervisor, S!DropStop, S!Drop, S!DropKill, S!DropJoin
  <2>2. s \in {current, old} /\ call \in {"drop", "undo_drop", "rename"}
    BY <1>4 DEF DropSupervisor, Dropping
  <2> QED BY <1>1, <1>2, <2>1, <2>2
<1> QED BY <1>3, <1>4

LEMMA TeardownStep ==
  ASSUME IInv, SupervisorGone \/ Join \/ \E f \in Fifos : Nudge(f)
  PROVE  SupervisorInv' /\ ReaderInv'
<1> USE NoneIsNone DEF IInv, SupervisorInv, ReaderInv
<1>1. UNCHANGED <<current, old, own>> BY DEF SupervisorGone, Join, Nudge, supervisors
<1>2. CASE SupervisorGone
  BY <1>1, <1>2 DEF SupervisorGone, threads, Left
<1>3. CASE Join
  BY <1>1, <1>3 DEF Join, threads, Left
<1>4. ASSUME NEW f \in Fifos, Nudge(f) PROVE SupervisorInv' /\ ReaderInv'
  <2>1. /\ call \in {"nudge_audio", "undo_nudge", "nudge_meta"}
        /\ call' = CASE call = "nudge_audio" -> "nudge_meta"
                     [] call = "nudge_meta"  -> "join_audio"
                     [] call = "undo_nudge"  -> "undo_join"
    BY <1>4 DEF Nudge, Nudging
  <2>2. SupervisorInv' BY <1>1, <2>1
  <2>3. reader' = reader \/ (reader[f] = "parked" /\ reader' = [reader EXCEPT ![f] = "opened"])
    BY <1>4 DEF Nudge, Becomes
  <2>4. ReaderInv' BY <1>4, <2>1, <2>3 DEF Nudge, Left, Fifos
  <2> QED BY <2>2, <2>4
<1> QED BY <1>2, <1>3, <1>4
-----------------------------------------------------------------------------
(* The readers and the processes                                           *)

LEMMA ReaderStep ==
  ASSUME IInv, NEW f \in Fifos, Read(f) \/ Data(f) \/ Fails(f)
  PROVE  SupervisorInv' /\ ReaderInv'
<1>1. UNCHANGED <<current, old, own, call>>
  BY DEF Read, Loop, Opened, Begins, Check, Eof, Data, Fails, supervisors
<1>2. SupervisorInv' BY <1>1 DEF IInv, SupervisorInv
<1>3. PICK pc : /\ reader' = [reader EXCEPT ![f] = pc]
                /\ reader[f] \notin {"off", "exit"}
                /\ session' => \/ f = "meta" /\ session
                               \/ f = "audio" /\ pc \in {"read", "blocked"}
  BY DEF Read, Loop, Opened, Begins, Check, Eof, Data, Fails, Becomes, Leaves, IInv, ReaderInv, Fifos
<1>4. ReaderInv' BY <1>1, <1>3 DEF IInv, ReaderInv, Fifos, Left
<1> QED BY <1>2, <1>4

LEMMA ProcessStep ==
  ASSUME IInv,
         \/ \E p \in Procs : ProcessExits(p)
         \/ \E p \in Procs, f \in Fifos : WriterOpens(p, f) \/ WriterCloses(p, f)
         \/ UNCHANGED vars
  PROVE  SupervisorInv' /\ ReaderInv'
<1>1. UNCHANGED <<current, old, own, call, session>>
  BY DEF ProcessExits, S!ChildExits, WriterOpens, WriterCloses, vars, supervisors, threads
<1>2. SupervisorInv' BY <1>1 DEF IInv, SupervisorInv
<1>3. \/ reader' = reader
      \/ \E f \in Fifos : reader[f] = "parked" /\ reader' = [reader EXCEPT ![f] = "opened"]
  BY DEF ProcessExits, WriterOpens, WriterCloses, vars, threads, Becomes
<1>4. ReaderInv' BY <1>1, <1>3 DEF IInv, ReaderInv, Fifos, Left
<1> QED BY <1>2, <1>4
-----------------------------------------------------------------------------
(* The theorems                                                            *)

LEMMA NextStep == ASSUME IInv, [Next]_vars PROVE IInv'
<1>1. P!IInv' BY SupervisorsInv DEF IInv
<1>2. SupervisorInv' /\ ReaderInv'
  BY CreateStep, SpawnStep, RenameStep, DropStep, TeardownStep, ReaderStep, ProcessStep DEF Next, Manager
<1> QED BY <1>1, <1>2 DEF IInv

LEMMA AlwaysInv == Spec => []IInv
<1> QED BY InitInv, NextStep, PTL DEF Spec

\* A receiver that was torn down has left no reader, no session and no process,
\* however its readers, its monitors and a rename were interleaved.
THEOREM NothingStays == Spec => []TornDown
<1>1. IInv => TornDown
  <2> SUFFICES ASSUME IInv, call = "gone", current # None
      PROVE  /\ Left("audio") /\ Left("meta") /\ ~session
             /\ \A s \in Sups : own[s] # "failed" => S!Launched(s) = {}
    BY DEF TornDown, Left
  <2>1. Left("audio") /\ Left("meta") /\ ~session BY DEF IInv, ReaderInv, Left
  <2>2. \A s \in Sups : own[s] \in {"none", "failed", "gone"}
    BY NoneIsNone DEF IInv, SupervisorInv
  <2> QED BY <2>1, <2>2, NothingLeft DEF IInv
<1> QED BY <1>1, AlwaysInv, PTL

\* Between the manager's calls only the process of the current name may run.
THEOREM OneNameOnly == Spec => []OneName
<1>1. IInv => OneName
  <2> SUFFICES ASSUME IInv, call = "idle", NEW s \in Sups \ {current}, own[s] # "failed"
      PROVE  S!Launched(s) = {}
    BY DEF OneName
  <2>1. own[s] \in {"none", "gone"} BY NoneIsNone DEF IInv, SupervisorInv
  <2> QED BY <2>1, NothingLeft DEF IInv
<1> QED BY <1>1, AlwaysInv, PTL
-----------------------------------------------------------------------------
(* No session after the stop                                               *)

\* The pump has been told to stop and will look at its flag before it could
\* begin a session.
WillLook ==
  halt /\ reader["audio"] \in {"loop", "parked", "opened", "exit"} /\ ~session

LEMMA WillLookStep == ASSUME IInv, WillLook, [Next]_vars PROVE WillLook'
<1> USE DEF WillLook
<1>1. DOMAIN reader = Fifos /\ "audio" \in Fifos /\ call \notin {"new", "launched"}
  BY DEF IInv, ReaderInv, Fifos
<1>2. ASSUME UNCHANGED <<reader["audio"], session>>, halt' = TRUE \/ UNCHANGED halt PROVE WillLook'
  BY <1>2
<1>3. CASE \E s \in Sups : \/ Create(s) \/ CreateFails(s) \/ Rename(s) \/ RenameFails(s)
                           \/ DropSupervisor(s) \/ Supervise(s)
  BY <1>1, <1>2, <1>3
     DEF Create, CreateFails, Rename, RenameFails, DropSupervisor, Supervise, threads
<1>4. CASE SpawnPump \/ SpawnMeta \/ TearDown \/ RenameDone \/ SupervisorGone \/ Join
  <2>1. UNCHANGED <<reader["audio"], session>>
    BY <1>1, <1>4
       DEF SpawnPump, SpawnMeta, TearDown, RenameDone, SupervisorGone, Join, Becomes, threads
  <2>2. halt' = TRUE \/ UNCHANGED halt
    BY <1>4 DEF SpawnPump, SpawnMeta, TearDown, RenameDone, SupervisorGone, Join
  <2> QED BY <1>2, <2>1, <2>2
<1>5. ASSUME NEW f \in Fifos, Becomes(f, "opened"), reader[f] = "parked",
             UNCHANGED <<halt, session>>
      PROVE  WillLook'
  <2>1. reader'["audio"] \in {reader["audio"], "opened"} BY <1>1, <1>5 DEF Becomes
  <2> QED BY <1>5, <2>1
<1>6. CASE \E f \in Fifos : Nudge(f) BY <1>2, <1>5, <1>6 DEF Nudge
<1>7. ASSUME NEW p \in Procs, NEW f \in Fifos, WriterOpens(p, f) \/ WriterCloses(p, f)
      PROVE  WillLook'
  BY <1>2, <1>5, <1>7 DEF WriterOpens, WriterCloses
<1>8. ASSUME NEW f \in Fifos, Read(f) \/ Data(f) \/ Fails(f) PROVE WillLook'
  <2>1. UNCHANGED halt /\ (session' = FALSE \/ UNCHANGED session)
    BY <1>8 DEF Read, Loop, Opened, Begins, Check, Eof, Data, Fails, Leaves
  <2>2. CASE f = "audio"
    <3>1. Loop(f) \/ Opened(f) \/ Fails(f)
      BY <1>8, <2>2 DEF Read, Begins, Check, Eof, Data
    <3>2. reader'["audio"] = "exit" \/ UNCHANGED reader
      BY <1>1, <2>2, <3>1 DEF Loop, Opened, Fails, Becomes, Leaves
    <3> QED BY <2>1, <3>2
  <2>3. CASE f = "meta"
    <3>1. reader'["audio"] = reader["audio"]
      BY <1>1, <1>8, <2>3 DEF Read, Loop, Opened, Begins, Check, Eof, Data, Fails, Becomes, Leaves
    <3> QED BY <2>1, <3>1
  <2> QED BY <2>2, <2>3 DEF Fifos
<1>9. CASE \E p \in Procs : ProcessExits(p) BY <1>2, <1>9 DEF ProcessExits
<1>10. CASE UNCHANGED vars BY <1>2, <1>10 DEF vars, threads
<1> QED BY <1>3, <1>4, <1>6, <1>7, <1>8, <1>9, <1>10 DEF Next, Manager

\* A receiver told to stop while its pump is between sessions has no other one:
\* neither the teardown's nudge nor a sender that connects later begins it.
THEOREM NoneBegins == Spec => NoLateSession
<1>1. ASSUME IInv, halt, reader["audio"] \in {"loop", "parked", "opened"} PROVE WillLook
  BY <1>1 DEF IInv, ReaderInv, WillLook
<1>2. IInv /\ WillLook /\ [Next]_vars => WillLook' BY WillLookStep
<1>3. WillLook => ~session BY DEF WillLook
<1>4. IInv => (halt /\ reader["audio"] \in {"loop", "parked", "opened"} => WillLook) BY <1>1
<1> QED BY <1>2, <1>3, <1>4, AlwaysInv, PTL DEF Spec, NoLateSession
=============================================================================
