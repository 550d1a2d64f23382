----------------------------- MODULE DongleLink -----------------------------
(***************************************************************************)
(* One dongle and its registration connections: the agent's run_session    *)
(* and reconnect loop (src/crates/dongle_agent/src/registration.rs,        *)
(* main.rs) against the hub's handler of each connection                   *)
(* (src/src/server/dongle_server.rs), which keeps the dongle's             *)
(* reachability in the output registry.                                    *)
(*                                                                         *)
(* A connection is a TCP connection: each end may close it, and the        *)
(* network may cut it, after which neither data nor a FIN gets through.    *)
(* Heartbeats are not counted: an end that waits for one times out only    *)
(* when its peer has gone or the connection is cut (Heartbeats says why    *)
(* that is the case).  A connection both ends have left is used again.     *)
(***************************************************************************)
EXTENDS Naturals

CONSTANTS Conns,       \* connections that may exist at one time
          None,
          MaxFaults    \* bound: cuts, crashes and stalls in a behaviour

ASSUME ConnAssumption  == None \notin Conns
ASSUME FaultAssumption == MaxFaults \in Nat

VARIABLES
  agent,    \* where the agent is in run_session
  conn,     \* the connection it holds
  handler,  \* where the hub's task for each connection is
  cut,      \* connections the network has cut
  inbox,    \* what the hub has sent and the agent not read, per connection
  named,    \* a Register is on its way, per connection
  reg,      \* OutputRegistry: the dongle's reachability
  unsaid,   \* history: replies that failed since the dongle was last marked
  faults    \* how many faults there have been

vars == <<agent, conn, handler, cut, inbox, named, reg, unsaid, faults>>

\* The type invariant: the agent holds a connection in a session and only then.
TypeOK ==
  /\ agent \in {"down", "announce", "await", "hold", "stopping"}
  /\ conn \in Conns \cup {None} /\ (conn = None) = (agent \in {"down", "stopping"})
  /\ handler \in [Conns -> {"none", "first", "register", "reply", "hold", "offline"}]
  /\ cut \subseteq Conns
  /\ inbox \subseteq Conns /\ named \subseteq Conns
  /\ reg \in {"unknown", "online", "offline"} /\ unsaid \subseteq Conns
  /\ faults \in 0 .. MaxFaults

Init ==
  /\ agent = "down" /\ conn = None
  /\ handler = [c \in Conns |-> "none"]
  /\ cut = {} /\ inbox = {} /\ named = {}
  /\ reg = "unknown" /\ unsaid = {} /\ faults = 0

HubAt(c, pc)   == handler[c] = pc
HubGoes(c, pc) == handler' = [handler EXCEPT ![c] = pc]
Fault          == faults < MaxFaults /\ faults' = faults + 1

\* The agent has closed its end, and the hub can know.
Eof(c) == c # conn /\ c \notin cut
\* Nothing will come from the agent any more.
Silent(c) == c # conn \/ c \in cut
-----------------------------------------------------------------------------
(* The agent: main's loop around run_session                               *)

Connect(c) ==
  /\ agent = "down" /\ HubAt(c, "none")
  /\ agent' = "announce" /\ conn' = c
  /\ HubGoes(c, "first")
  /\ cut' = cut \ {c} /\ inbox' = inbox \ {c} /\ named' = named \ {c}
  /\ UNCHANGED <<reg, unsaid, faults>>

Announce ==
  /\ agent = "announce"
  /\ agent' = "await"
  /\ named' = IF conn \in cut THEN named ELSE named \cup {conn}
  /\ UNCHANGED <<conn, handler, cut, inbox, reg, unsaid, faults>>

\* run_session returns: both halves are dropped, and main sleeps and retries.  A
\* registered session drops its SnapclientSupervisor first, and waits for that.
Leave == agent' = (IF agent = "hold" THEN "stopping" ELSE "down") /\ conn' = None

\* Drop has joined snapclient's monitor.
Stopped ==
  /\ agent = "stopping" /\ agent' = "down"
  /\ UNCHANGED <<conn, handler, cut, inbox, named, reg, unsaid, faults>>

Registered ==
  /\ agent = "await" /\ conn \in inbox
  /\ agent' = "hold" /\ inbox' = inbox \ {conn}
  /\ UNCHANGED <<conn, handler, cut, named, reg, unsaid, faults>>

\* Mutant of SessionLost: the agent's reads have no deadline.
EndOfStreamOnly ==
  /\ agent \in {"await", "hold"} /\ conn \notin inbox
  /\ HubAt(conn, "none") /\ conn \notin cut
  /\ Leave
  /\ UNCHANGED <<handler, cut, inbox, named, reg, unsaid, faults>>

\* The hub has closed the connection, or nothing came within the timeout.
SessionLost ==
  /\ agent \in {"await", "hold"} /\ conn \notin inbox
  /\ HubAt(conn, "none") \/ conn \in cut
  /\ Leave
  /\ UNCHANGED <<handler, cut, inbox, named, reg, unsaid, faults>>

\* Writing Register fails, the hub takes more than the timeout to register the
\* dongle, snapclient cannot be launched, or the agent is killed.
AgentFails ==
  /\ agent # "down" /\ Fault
  /\ agent' = "down" /\ conn' = None
  /\ UNCHANGED <<handler, cut, inbox, named, reg, unsaid>>

\* The network loses the connection, and what it carried or not.
Cut(c) ==
  /\ c \notin cut /\ (c = conn \/ ~HubAt(c, "none")) /\ Fault
  /\ cut' = cut \cup {c}
  /\ inbox' \in {inbox, inbox \ {c}} /\ named' \in {named, named \ {c}}
  /\ UNCHANGED <<agent, conn, handler, reg, unsaid>>
-----------------------------------------------------------------------------
(* The hub: DongleServer::handle, one task per connection                  *)

\* The first line is awaited without a deadline: a Register, or the end.
FirstLine(c) ==
  /\ HubAt(c, "first")
  /\ \/ c \in named /\ HubGoes(c, "register") /\ named' = named \ {c}
     \/ c \notin named /\ Eof(c) /\ HubGoes(c, "none") /\ UNCHANGED named
  /\ UNCHANGED <<agent, conn, cut, inbox, reg, unsaid, faults>>

Register(c) ==
  /\ HubAt(c, "register")
  /\ reg' = "online" /\ unsaid' = {} /\ HubGoes(c, "reply")
  /\ UNCHANGED <<agent, conn, cut, inbox, named, faults>>

Reply(c) ==
  /\ HubAt(c, "reply")
  /\ HubGoes(c, "hold")
  /\ inbox' = IF Silent(c) THEN inbox ELSE inbox \cup {c}
  /\ UNCHANGED <<agent, conn, cut, named, reg, unsaid, faults>>

\* The error is returned with `?`, past the call of dongle_offline.
ReplyError(c) ==
  /\ HubAt(c, "reply") /\ Silent(c)
  /\ HubGoes(c, "none") /\ unsaid' = unsaid \cup {c}
  /\ UNCHANGED <<agent, conn, cut, inbox, named, reg, faults>>

\* Mutant of HoldEnds: reads have no deadline, only the end of the stream ends them.
HoldNoTimeout(c) ==
  /\ HubAt(c, "hold") /\ Eof(c)
  /\ HubGoes(c, "offline")
  /\ UNCHANGED <<agent, conn, cut, inbox, named, reg, unsaid, faults>>

\* Mutant of HoldEnds: the loop's errors leave the handler past the mark offline.
HoldReturns(c) ==
  /\ HubAt(c, "hold") /\ Silent(c)
  /\ HubGoes(c, IF Eof(c) THEN "offline" ELSE "none")
  /\ UNCHANGED <<agent, conn, cut, inbox, named, reg, unsaid, faults>>

\* End of stream, an error, or no heartbeat in time.
HoldEnds(c) ==
  /\ HubAt(c, "hold") /\ Silent(c)
  /\ HubGoes(c, "offline")
  /\ UNCHANGED <<agent, conn, cut, inbox, named, reg, unsaid, faults>>

Offline(c) ==
  /\ HubAt(c, "offline")
  /\ reg' = "offline" /\ unsaid' = {} /\ HubGoes(c, "none")
  /\ UNCHANGED <<agent, conn, cut, inbox, named, faults>>

\* The hub stops and starts again: its registry is in memory only.
Restart ==
  /\ Fault
  /\ handler' = [c \in Conns |-> "none"] /\ reg' = "unknown" /\ unsaid' = {}
  /\ UNCHANGED <<agent, conn, cut, inbox, named>>
-----------------------------------------------------------------------------
Agent  == Announce \/ Registered \/ SessionLost \/ \E c \in Conns : Connect(c)
Hub(c) == FirstLine(c) \/ Register(c) \/ Reply(c) \/ ReplyError(c) \/ HoldEnds(c) \/ Offline(c)

Next ==
  \/ Announce \/ Registered \/ SessionLost \/ Stopped \/ AgentFails \/ Restart
  \/ \E c \in Conns :
       \/ Connect(c) \/ Cut(c)
       \/ FirstLine(c) \/ Register(c) \/ Reply(c) \/ ReplyError(c)
       \/ HoldEnds(c) \/ Offline(c)

Spec == Init /\ [][Next]_vars

\* The agent retries for ever, and the runtime schedules every handler.  That a
\* Drop of snapclient's supervisor returns is not assumed: see Supervisor.
FairSpec == Spec /\ WF_vars(Agent) /\ \A c \in Conns : WF_vars(Hub(c))
-----------------------------------------------------------------------------
(* Properties                                                              *)

\* A dongle that is marked online has a handler that will mark it offline when
\* the connection goes (handle: register, then hold, then dongle_offline), but
\* for one: a reply that fails ends its handler past dongle_offline.
OnlineIsWatched ==
  reg = "online" /\ unsaid = {} => \E c \in Conns : handler[c] \in {"reply", "hold", "offline"}

\* The same without the exception (handle's comment).
AlwaysWatched ==
  reg = "online" => \E c \in Conns : handler[c] \in {"reply", "hold", "offline"}

\* The agent does not hang in the Drop of snapclient's supervisor for ever.
LetsGo == []<>(agent # "stopping")
InSession == agent = "hold" /\ conn \notin cut /\ handler[conn] = "hold"

\* Whatever the faults, once they stop the dongle ends up in a session that both
\* ends hold, unless it hangs in that Drop: neither end is left waiting for a peer
\* that has gone.
Recovers == LetsGo => <>[]InSession

\* run_session returns once the hub is lost, and main dials again.  A snapclient
\* that goes on running can keep it from that.
AlwaysRecovers == <>[]InSession

\* A dongle that vanishes without a FIN does not leave a handler behind that
\* holds the connection it had registered on.
Reaped == \A c \in Conns : handler[c] = "hold" /\ Silent(c) ~> handler[c] = "none"

\* Every connection that is lost is given up by the hub.
AllReaped == \A c \in Conns : Silent(c) ~> handler[c] = "none"

\* Once a dongle and the hub hold a session for good the hub lists it online: a
\* reconnecting dongle's output is brought back (Engine::register_dongle).
OnlineAgain == LetsGo => <>[](reg = "online")
=============================================================================
