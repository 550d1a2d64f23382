--------------------------- MODULE ManagedProcess ---------------------------
(***************************************************************************)
(* What the owner of a supervised process relies on, with the monitor      *)
(* thread, its slot and its stop flag left out: an owner has at most one   *)
(* process of its own at a time, a process replaces one that has exited,   *)
(* and an owner that has let go has none and never starts one again.       *)
(***************************************************************************)
CONSTANTS Sups, Procs

VARIABLES phase,    \* of each owner: idle, up, ending, gone, or failed to start
          running   \* the processes each owner has running

Unused == {p \in Procs : \A s \in Sups : p \notin running[s]}

Init ==
  /\ phase = [s \in Sups |-> "idle"]
  /\ running = [s \in Sups |-> {}]

Start(s) ==
  /\ phase[s] = "idle"
  /\ phase' = [phase EXCEPT ![s] = "up"]
  /\ \E p \in Unused : running' = [running EXCEPT ![s] = {p}]

\* A start may fail before or after the process exists.
StartFails(s) ==
  /\ phase[s] = "idle"
  /\ phase' = [phase EXCEPT ![s] = "failed"]
  /\ \/ UNCHANGED running
     \/ \E p \in Unused : running' = [running EXCEPT ![s] = {p}]

\* A process that exited is replaced, also while the owner is letting go.
Replace(s) ==
  /\ phase[s] \in {"up", "ending"}
  /\ running[s] = {}
  /\ \E p \in Unused : running' = [running EXCEPT ![s] = {p}]
  /\ UNCHANGED phase

\* A process ends, on its own or killed by its owner.
Exit(s, p) ==
  /\ p \in running[s]
  /\ running' = [running EXCEPT ![s] = @ \ {p}]
  /\ UNCHANGED phase

LetGo(s) ==
  /\ phase[s] = "up"
  /\ phase' = [phase EXCEPT ![s] = "ending"]
  /\ UNCHANGED running

Ended(s) ==
  /\ phase[s] = "ending"
  /\ running[s] = {}
  /\ phase' = [phase EXCEPT ![s] = "gone"]
  /\ UNCHANGED running

Next == \E s \in Sups : \/ Start(s) \/ StartFails(s) \/ Replace(s) \/ LetGo(s) \/ Ended(s)
                        \/ \E p \in Procs : Exit(s, p)

Spec == Init /\ [][Next]_<<phase, running>>
=============================================================================
