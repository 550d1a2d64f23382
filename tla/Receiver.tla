------------------------------ MODULE Receiver ------------------------------
(***************************************************************************)
(* One AirPlay receiver (src/src/audio/airplay_factory.rs): a supervised   *)
(* shairport-sync that writes two FIFOs, the pump thread that reads the    *)
(* audio FIFO (airplay.rs run_receiver) and the thread that reads the      *)
(* metadata FIFO (airplay_meta.rs run_metadata_reader).  The thread that   *)
(* holds the manager's receivers mutex creates, renames and drops it.      *)
(* Engine takes the teardown as one step that ends; this module says when. *)
(***************************************************************************)
EXTENDS Naturals

CONSTANTS Sups,   \* the supervisor of each name the receiver is given
          Procs,  \* shairport-sync processes
          None

ASSUME NoneAssumption == None \notin Sups \cup Procs

VARIABLES stop, slot, held, mon, own, parent,  \* the supervisors
          current,  \* the supervisor in the receiver's mutex
          old,      \* the one a rename has just replaced
          halt,     \* the receiver's own stop flag
          call,     \* what the manager's thread is doing with the receiver
          reader,   \* where each reader thread is
          writers,  \* the processes that hold the write end of each FIFO
          session   \* session_began was called, session_ended not yet

S == INSTANCE Supervisor

supervisors == <<stop, slot, held, mon, own, parent>>
threads     == <<reader, writers, session>>
vars == <<supervisors, current, old, halt, call, threads>>

Fifos == {"audio", "meta"}

\* The type invariant: the supervisors', and the points of the three threads.
TypeOK ==
  /\ S!TypeOK
  /\ current \in Sups \cup {None} /\ old \in Sups \cup {None}
  /\ halt \in BOOLEAN /\ session \in BOOLEAN
  /\ call \in {"new", "launched", "pump", "idle", "rename", "drop", "nudge_audio", "nudge_meta",
               "join_audio", "join_meta", "undo_nudge", "undo_join", "undo_drop", "gone"}
  /\ reader \in [Fifos -> {"off", "loop", "parked", "opened", "begin", "read", "blocked", "exit"}]
  /\ writers \in [Fifos -> SUBSET Procs]

Init ==
  /\ S!Init
  /\ current = None /\ old = None /\ halt = FALSE /\ call = "new"
  /\ reader = [f \in Fifos |-> "off"] /\ writers = [f \in Fifos |-> {}]
  /\ session = FALSE

Becomes(f, pc) == reader' = [reader EXCEPT ![f] = pc]
\* A process that is gone holds no FIFO.
CloseDead == writers' = [f \in Fifos |-> {p \in writers[f] : parent'[p] # None}]
-----------------------------------------------------------------------------
(* The manager's thread: create and rename                                 *)

Create(s) ==
  /\ call = "new" /\ S!Launch(s)
  /\ current' = s /\ call' = "launched"
  /\ UNCHANGED <<old, halt, threads>>

CreateFails(s) ==
  /\ call = "new" /\ S!LaunchFails(s)
  /\ call' = "gone"
  /\ UNCHANGED <<current, old, halt, threads>>

\* Without the metadata FIFO or the pump, the supervisor goes out of scope.
SpawnPump ==
  /\ call = "launched"
  /\ \/ call' = "pump" /\ Becomes("audio", "loop")
     \/ call' = "undo_drop" /\ UNCHANGED reader
  /\ UNCHANGED <<supervisors, current, old, halt, writers, session>>

\* Without the metadata thread, the pump, which has been running since, is stopped,
\* nudged and joined before that.
SpawnMeta ==
  /\ call = "pump"
  /\ \/ call' = "idle" /\ Becomes("meta", "loop") /\ UNCHANGED halt
     \/ call' = "undo_nudge" /\ halt' = TRUE /\ UNCHANGED reader
  /\ UNCHANGED <<supervisors, current, old, writers, session>>

\* rename: launch under the new name, put the supervisor in the mutex ...
Rename(s) ==
  /\ call = "idle" /\ S!Launch(s)
  /\ old' = current /\ current' = s /\ call' = "rename"
  /\ UNCHANGED <<halt, threads>>

RenameFails(s) ==
  /\ call = "idle" /\ S!LaunchFails(s)
  /\ UNCHANGED <<current, old, halt, call, threads>>

\* Mutant of RenameDone: the Drop of the old supervisor is not waited for.
RenameHasty ==
  /\ call = "rename"
  /\ old' = None /\ call' = "idle"
  /\ UNCHANGED <<supervisors, current, halt, threads>>

\* ... which drops the one it replaces.
RenameDone ==
  /\ call = "rename" /\ own[old] = "gone"
  /\ old' = None /\ call' = "idle"
  /\ UNCHANGED <<supervisors, current, halt, threads>>
-----------------------------------------------------------------------------
(* The manager's thread: teardown                                          *)

TearDown ==
  /\ call = "idle"
  /\ halt' = TRUE /\ call' = "drop"
  /\ UNCHANGED <<supervisors, current, old, threads>>

\* The supervisor whose Drop is running.
Dropping == IF call \in {"drop", "undo_drop"} THEN {current}
            ELSE IF call = "rename" THEN {old} ELSE {}

DropSupervisor(s) ==
  /\ s \in Dropping
  /\ S!DropStop(s) \/ S!Drop(s)
  /\ CloseDead
  /\ UNCHANGED <<current, old, halt, call, reader, session>>

\* Mutant of SupervisorGone: the supervisor's Drop is not waited for.
SupervisorLeft ==
  /\ call = "drop"
  /\ call' = "nudge_audio"
  /\ UNCHANGED <<supervisors, current, old, halt, threads>>

SupervisorGone ==
  /\ call \in {"drop", "undo_drop"} /\ own[current] = "gone"
  /\ call' = IF call = "drop" THEN "nudge_audio" ELSE "gone"
  /\ UNCHANGED <<supervisors, current, old, halt, threads>>

Nudging(f) == \/ f = "audio" /\ call \in {"nudge_audio", "undo_nudge"}
              \/ f = "meta" /\ call = "nudge_meta"

\* Mutant of Nudge: the opens are skipped, and the parked readers stay parked.
NudgeSkipped(f) ==
  /\ Nudging(f)
  /\ call' = CASE call = "nudge_audio" -> "nudge_meta"
               [] call = "nudge_meta"  -> "join_audio"
               [] call = "undo_nudge"  -> "undo_join"
  /\ UNCHANGED <<supervisors, current, old, halt, threads>>

\* Open the write end, write nothing, close it.  The open blocks until somebody
\* has the read end, or waits for it.
Nudge(f) ==
  /\ Nudging(f)
  /\ reader[f] \in {"parked", "opened", "begin", "read", "blocked"}
  /\ IF reader[f] = "parked" THEN Becomes(f, "opened") ELSE UNCHANGED reader
  /\ call' = CASE call = "nudge_audio" -> "nudge_meta"
               [] call = "nudge_meta"  -> "join_audio"
               [] call = "undo_nudge"  -> "undo_join"
  /\ UNCHANGED <<supervisors, current, old, halt, writers, session>>

Join ==
  /\ \/ call = "join_audio" /\ reader["audio"] = "exit" /\ call' = "join_meta"
     \/ call = "join_meta"  /\ reader["meta"] = "exit"  /\ call' = "gone"
     \/ call = "undo_join"  /\ reader["audio"] = "exit" /\ call' = "undo_drop"
  /\ UNCHANGED <<supervisors, current, old, halt, threads>>
-----------------------------------------------------------------------------
(* The reader threads                                                      *)

\* The top of the loop: see the flag, or open the FIFO, which parks the thread
\* until a writer opens it.
Loop(f) ==
  /\ reader[f] = "loop"
  /\ Becomes(f, IF halt THEN "exit" ELSE IF writers[f] = {} THEN "parked" ELSE "opened")
  /\ UNCHANGED <<supervisors, current, old, halt, call, writers, session>>

\* Mutant of Opened: the flag is not read again once the open has returned.
OpenedUnchecked(f) ==
  /\ reader[f] = "opened"
  /\ Becomes(f, IF f = "audio" THEN "begin" ELSE "read")
  /\ UNCHANGED <<supervisors, current, old, halt, call, writers, session>>

\* The open has returned: see the flag, or begin reading (audio: a session).
Opened(f) ==
  /\ reader[f] = "opened"
  /\ Becomes(f, IF halt THEN "exit" ELSE IF f = "audio" THEN "begin" ELSE "read")
  /\ UNCHANGED <<supervisors, current, old, halt, call, writers, session>>

\* The pump calls session_began; the flag may have been set since it was read.
Begins ==
  /\ reader["audio"] = "begin"
  /\ Becomes("audio", "read") /\ session' = TRUE
  /\ UNCHANGED <<supervisors, current, old, halt, call, writers>>

\* A reading thread leaves its file; on the audio FIFO the session is over.
Leaves(f, pc) == Becomes(f, pc) /\ session' = IF f = "audio" THEN FALSE ELSE session

\* Read: the flag, then the (blocking) read.  A metadata reader that sees the
\* flag returns at once, the pump through the top of its loop.
Check(f) ==
  /\ reader[f] = "read"
  /\ IF halt THEN Leaves(f, IF f = "audio" THEN "loop" ELSE "exit")
             ELSE Becomes(f, "blocked") /\ UNCHANGED session
  /\ UNCHANGED <<supervisors, current, old, halt, call, writers>>

Data(f) ==
  /\ reader[f] = "blocked" /\ writers[f] # {}
  /\ Becomes(f, "read")
  /\ UNCHANGED <<supervisors, current, old, halt, call, writers, session>>

\* Mutant of Eof: the end of the stream ends the thread, not only the session.
EofExits(f) ==
  /\ reader[f] = "blocked" /\ writers[f] = {}
  /\ Becomes(f, "exit")
  /\ UNCHANGED <<supervisors, current, old, halt, call, writers, session>>

\* The last writer has closed.
Eof(f) ==
  /\ reader[f] = "blocked" /\ writers[f] = {}
  /\ Leaves(f, "loop")
  /\ UNCHANGED <<supervisors, current, old, halt, call, writers>>

\* The open or the read fails: the thread returns the error.
Fails(f) ==
  /\ reader[f] \in {"loop", "blocked"}
  /\ ~(reader[f] = "loop" /\ halt)
  /\ Leaves(f, "exit")
  /\ UNCHANGED <<supervisors, current, old, halt, call, writers>>
-----------------------------------------------------------------------------
(* shairport-sync (external) and the monitors                              *)

\* A sender connects: the process opens the FIFO, and wakes a parked reader.
WriterOpens(p, f) ==
  /\ parent[p] # None /\ p \notin writers[f]
  /\ reader[f] \in {"parked", "opened", "begin", "read", "blocked"}
  /\ writers' = [writers EXCEPT ![f] = @ \cup {p}]
  /\ IF reader[f] = "parked" THEN Becomes(f, "opened") ELSE UNCHANGED reader
  /\ UNCHANGED <<supervisors, current, old, halt, call, session>>

WriterCloses(p, f) ==
  /\ p \in writers[f]
  /\ writers' = [writers EXCEPT ![f] = @ \ {p}]
  /\ UNCHANGED <<supervisors, current, old, halt, call, reader, session>>

ProcessExits(p) ==
  /\ S!ChildExits(p) /\ CloseDead
  /\ UNCHANGED <<current, old, halt, call, reader, session>>

Supervise(s) ==
  /\ S!Monitor(s) \/ S!MonGivesUp(s)
  /\ UNCHANGED <<current, old, halt, call, threads>>
-----------------------------------------------------------------------------
Manager == RenameDone \/ SupervisorGone \/ Join \/ \E f \in Fifos : Nudge(f)
Read(f) == Loop(f) \/ Opened(f) \/ (f = "audio" /\ Begins) \/ Check(f) \/ Eof(f)

Next ==
  \/ \E s \in Sups : \/ Create(s) \/ CreateFails(s) \/ Rename(s) \/ RenameFails(s)
                     \/ DropSupervisor(s) \/ Supervise(s)
  \/ SpawnPump \/ SpawnMeta \/ TearDown \/ Manager
  \/ \E f \in Fifos : Read(f) \/ Data(f) \/ Fails(f)
  \/ \E p \in Procs : ProcessExits(p)
  \/ \E p \in Procs, f \in Fifos : WriterOpens(p, f) \/ WriterCloses(p, f)

Spec == Init /\ [][Next]_vars

\* Every thread is scheduled.
FairSpec ==
  /\ Spec
  /\ WF_vars(Manager)
  /\ \A s \in Sups : WF_vars(DropSupervisor(s)) /\ WF_vars(Supervise(s))
  /\ \A f \in Fifos : WF_vars(Read(f))

\* ... and every shairport-sync exits at some time.
MortalSpec == FairSpec /\ \A p \in Procs : WF_vars(ProcessExits(p))
-----------------------------------------------------------------------------
(* Properties                                                              *)

\* A receiver that was torn down leaves nothing behind: both readers have
\* returned, its session was closed, and the process of no name it had is left
\* (ShairportReceiver's Drop, and the undoing of a creation that failed).
TornDown ==
  call = "gone" /\ current # None =>
    /\ reader["audio"] \in {"off", "exit"} /\ reader["meta"] \in {"off", "exit"}
    /\ ~session
    /\ \A s \in Sups : own[s] # "failed" => S!Launched(s) = {}

\* Between the manager's calls only the receiver of the current name can be
\* running: a rename has taken the previous one down before it returns.
OneName ==
  call = "idle" =>
    \A s \in Sups \ {current} : own[s] # "failed" => S!Launched(s) = {}

\* A receiver told to stop while its pump is between sessions never has another
\* one, whoever opens the FIFO after that, the teardown's own nudge included
\* (run_receiver; a pump already past its look at the flag has one more).
NoLateSession ==
  [](halt /\ reader["audio"] \in {"loop", "parked", "opened"} => []~session)

\* A session that was begun is ended, if the sender goes away and stays away.
SessionEnds == session /\ writers["audio"] = {} ~> ~session \/ writers["audio"] # {}

\* The teardown of a receiver whose readers are parked and whose processes are
\* gone returns: the nudges wake them.
IdleTeardownReturns ==
  /\ call = "nudge_audio" /\ \A p \in Procs : parent[p] = None
  /\ \A f \in Fifos : reader[f] = "parked"
  ~> call = "gone"

\* Every teardown returns.
TeardownReturns == call = "drop" ~> call = "gone"
=============================================================================
