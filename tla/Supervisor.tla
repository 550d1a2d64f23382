----------------------------- MODULE Supervisor -----------------------------
(***************************************************************************)
(* The three process supervisors, which are one program three times over:  *)
(* SnapserverSupervisor (src/src/audio/snapcast.rs), ShairportSupervisor   *)
(* (src/src/audio/airplay.rs) and SnapclientSupervisor                     *)
(* (src/crates/dongle_agent/src/supervisor.rs).  The owner's thread        *)
(* launches a child and a monitor thread; the monitor waits for the child  *)
(* and relaunches it; Drop stops both.  The two share the stop flag and a  *)
(* mutex-guarded slot that holds the child's handle.                       *)
(***************************************************************************)
EXTENDS Naturals

CONSTANTS Sups,   \* supervisors, each spawned and dropped at most once
          Procs,  \* process identities; one that has exited is used again
          None

ASSUME NoneAssumption == None \notin Sups \cup Procs

VARIABLES stop,    \* the stop flag
          slot,    \* child: Arc<Mutex<Option<Child>>>
          held,    \* the monitor's local: the child it waits for or just spawned
          mon,     \* where the monitor thread is
          own,     \* where the owner is: its spawn, and its Drop
          parent   \* the supervisor that launched a running process

vars == <<stop, slot, held, mon, own, parent>>

Launched(s) == {p \in Procs : parent[p] = s}
\* Identities for a new process: not running, no handle left.
Free == {p \in Procs : parent[p] = None /\ \A s \in Sups : slot[s] # p /\ held[s] # p}

\* The type invariant: the fields of a supervisor and the points its two threads
\* can be at.
TypeOK ==
  /\ stop \in [Sups -> BOOLEAN]
  /\ slot \in [Sups -> Procs \cup {None}] /\ held \in [Sups -> Procs \cup {None}]
  /\ mon \in [Sups -> {"off", "take", "wait", "check", "sleep", "spawn", "store", "done"}]
  /\ own \in [Sups -> {"none", "up", "kill", "join", "gone", "failed"}]
  /\ parent \in [Procs -> Sups \cup {None}]

Init ==
  /\ stop = [s \in Sups |-> FALSE]
  /\ slot = [s \in Sups |-> None] /\ held = [s \in Sups |-> None]
  /\ mon = [s \in Sups |-> "off"] /\ own = [s \in Sups |-> "none"]
  /\ parent = [p \in Procs |-> None]
-----------------------------------------------------------------------------
(* The owner                                                               *)

\* spawn_with: the first child, then the monitor thread.
Launch(s) ==
  /\ own[s] = "none"
  /\ \E p \in Free :
       /\ parent' = [parent EXCEPT ![p] = s]
       /\ slot' = [slot EXCEPT ![s] = p]
  /\ own' = [own EXCEPT ![s] = "up"] /\ mon' = [mon EXCEPT ![s] = "take"]
  /\ UNCHANGED <<stop, held>>

\* spawn_with fails: no child, or a child whose monitor thread could not be
\* created and whose handle is dropped (which does not kill it).
LaunchFails(s) ==
  /\ own[s] = "none"
  /\ own' = [own EXCEPT ![s] = "failed"]
  /\ \/ UNCHANGED parent
     \/ \E p \in Free : parent' = [parent EXCEPT ![p] = s]
  /\ UNCHANGED <<stop, slot, held, mon>>

DropStop(s) ==
  /\ own[s] = "up"
  /\ stop' = [stop EXCEPT ![s] = TRUE]
  /\ own' = [own EXCEPT ![s] = "kill"]
  /\ UNCHANGED <<slot, held, mon, parent>>

\* Mutant of DropKill: the slot is looked at but nothing is killed.
DropNoKill(s) ==
  /\ own[s] = "kill"
  /\ slot' = [slot EXCEPT ![s] = None]
  /\ own' = [own EXCEPT ![s] = "join"]
  /\ UNCHANGED <<stop, held, mon, parent>>

\* Take the child out of the slot, if it is there, kill it and reap it.
DropKill(s) ==
  /\ own[s] = "kill"
  /\ parent' = [p \in Procs |-> IF p = slot[s] THEN None ELSE parent[p]]
  /\ slot' = [slot EXCEPT ![s] = None]
  /\ own' = [own EXCEPT ![s] = "join"]
  /\ UNCHANGED <<stop, held, mon>>

\* Mutant of DropJoin: Drop returns without joining the monitor.
DropNoJoin(s) ==
  /\ own[s] = "join"
  /\ own' = [own EXCEPT ![s] = "gone"]
  /\ UNCHANGED <<stop, slot, held, mon, parent>>

DropJoin(s) ==
  /\ own[s] = "join" /\ mon[s] = "done"
  /\ own' = [own EXCEPT ![s] = "gone"]
  /\ UNCHANGED <<stop, slot, held, mon, parent>>
-----------------------------------------------------------------------------
(* The monitor thread                                                      *)

\* The child's handle leaves the slot: wait needs it by value.
MonTake(s) ==
  /\ mon[s] = "take"
  /\ held' = [held EXCEPT ![s] = slot[s]]
  /\ slot' = [slot EXCEPT ![s] = None]
  /\ mon' = [mon EXCEPT ![s] = "wait"]
  /\ UNCHANGED <<stop, own, parent>>

\* Mutant of MonWait: a running child is not waited for.
MonNoWait(s) ==
  /\ mon[s] = "wait"
  /\ held' = [held EXCEPT ![s] = None]
  /\ mon' = [mon EXCEPT ![s] = "check"]
  /\ UNCHANGED <<stop, slot, own, parent>>

MonWait(s) ==
  /\ mon[s] = "wait"
  /\ held[s] \notin Launched(s)
  /\ held' = [held EXCEPT ![s] = None]
  /\ mon' = [mon EXCEPT ![s] = "check"]
  /\ UNCHANGED <<stop, slot, own, parent>>

\* Mutants of MonCheck: the flag is not read again; the loop skips the relaunch.
MonNoCheck(s) ==
  /\ mon[s] \in {"check", "sleep"}
  /\ mon' = [mon EXCEPT ![s] = IF mon[s] = "check" THEN "sleep" ELSE "spawn"]
  /\ UNCHANGED <<stop, slot, held, own, parent>>

MonSkips(s) ==
  /\ mon[s] \in {"check", "sleep"}
  /\ mon' = [mon EXCEPT ![s] = IF stop[s] THEN "done"
                               ELSE IF mon[s] = "check" THEN "sleep" ELSE "take"]
  /\ UNCHANGED <<stop, slot, held, own, parent>>

\* Read the stop flag before and after the restart delay.
MonCheck(s) ==
  /\ mon[s] \in {"check", "sleep"}
  /\ mon' = [mon EXCEPT ![s] = IF stop[s] THEN "done"
                               ELSE IF mon[s] = "check" THEN "sleep" ELSE "spawn"]
  /\ UNCHANGED <<stop, slot, held, own, parent>>

MonSpawn(s) ==
  /\ mon[s] = "spawn"
  /\ \E p \in Free :
       /\ parent' = [parent EXCEPT ![p] = s]
       /\ held' = [held EXCEPT ![s] = p]
  /\ mon' = [mon EXCEPT ![s] = "store"]
  /\ UNCHANGED <<stop, slot, own>>

\* A relaunch that fails ends the monitor.
MonGivesUp(s) ==
  /\ mon[s] = "spawn"
  /\ mon' = [mon EXCEPT ![s] = "done"]
  /\ UNCHANGED <<stop, slot, held, own, parent>>

MonStore(s) ==
  /\ mon[s] = "store"
  /\ slot' = [slot EXCEPT ![s] = held[s]]
  /\ held' = [held EXCEPT ![s] = None]
  /\ mon' = [mon EXCEPT ![s] = "take"]
  /\ UNCHANGED <<stop, own, parent>>

\* A child exits on its own: it crashes, or its peer goes away.
ChildExits(p) ==
  /\ parent[p] # None
  /\ parent' = [parent EXCEPT ![p] = None]
  /\ UNCHANGED <<stop, slot, held, mon, own>>
-----------------------------------------------------------------------------
Drop(s)    == DropKill(s) \/ DropJoin(s)
Monitor(s) == MonTake(s) \/ MonWait(s) \/ MonCheck(s) \/ MonSpawn(s) \/ MonStore(s)

Next ==
  \/ \E s \in Sups : \/ Launch(s) \/ LaunchFails(s) \/ DropStop(s) \/ Drop(s)
                     \/ Monitor(s) \/ MonGivesUp(s)
  \/ \E p \in Procs : ChildExits(p)

Spec == Init /\ [][Next]_vars

\* Both threads are scheduled.  A relaunch succeeds or fails, as it likes, and a
\* child may run for ever.
FairSpec ==
  /\ Spec
  /\ \A s \in Sups : WF_vars(Drop(s)) /\ WF_vars(Monitor(s) \/ MonGivesUp(s))
-----------------------------------------------------------------------------
(* Properties                                                              *)

\* Once Drop has returned nothing it launched is running: no interleaving of
\* Drop with a relaunch leaves a process behind.
NoOrphan == \A s \in Sups : own[s] = "gone" => Launched(s) = {}

\* A supervisor never runs two children: the monitor reaps one before it
\* launches the next, and Drop never does.
OneChild == \A s \in Sups : \A p, q \in Launched(s) : p = q

\* A running child can be reached: its handle is in the slot, where Drop looks
\* for it, or with the monitor, which waits for it.
ChildIsHeld ==
  \A s \in Sups : own[s] # "failed" => Launched(s) \subseteq {slot[s], held[s]}

\* A child that exited is replaced, as long as relaunches do not fail.
Relaunched ==
  \A s \in Sups :
    own[s] = "up" /\ Launched(s) = {} ~> Launched(s) # {} \/ own[s] # "up" \/ mon[s] = "done"

\* A supervisor that is up keeps a child running.
StaysSupervised ==
  \A s \in Sups : own[s] = "up" /\ Launched(s) = {} ~> Launched(s) # {} \/ own[s] # "up"

\* Drop returns, unless the monitor waits for ever for a child that lives on: Drop
\* kills only a child it finds in the slot, and joins the monitor.
WaitsForChild(s) == mon[s] = "wait" /\ held[s] \in Launched(s)
DropReturns ==
  \A s \in Sups : []<>~WaitsForChild(s) => (own[s] = "kill" ~> own[s] = "gone")

\* Drop kills the child and returns.  It need not.
DropAlwaysReturns == \A s \in Sups : own[s] = "kill" ~> own[s] = "gone"

\* What an owner sees of its supervisor: Drop is one phase, and whose processes run.
Phase(s) == CASE own[s] = "none" -> "idle"
              [] own[s] \in {"kill", "join"} -> "ending"
              [] OTHER -> own[s]

AllPhases   == [s \in Sups |-> Phase(s)]
AllLaunched == [s \in Sups |-> Launched(s)]

Managed == INSTANCE ManagedProcess WITH phase <- AllPhases, running <- AllLaunched

\* The supervisor with its monitor, slot and stop flag is a managed process: no
\* step starts a second child or one for an owner whose Drop has returned, and
\* Drop returns only when no child is left.
IsManaged == Managed!Spec
=============================================================================
