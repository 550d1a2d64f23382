---------------------------- MODULE AppConnection ----------------------------
(***************************************************************************)
(* The connections of the apps (src/src/server/connection.rs) and the      *)
(* change ticks of the engine they listen to (src/src/audio/engine.rs).    *)
(* An app is shown three views of the hub: outputs, zones and sources.     *)
(* Ticks carry nothing: a connection that receives one takes a snapshot of *)
(* the views behind it and writes it.  An engine call changes the views in *)
(* several critical sections and ticks when it does, from a thread of its  *)
(* own or from the task of the connection that was asked for it.           *)
(*                                                                         *)
(* A view is abstracted to how often it has changed.                       *)
(***************************************************************************)
EXTENDS Integers, Sequences

CONSTANTS Conns,      \* connections that have finished the handshake
          Threads,    \* AirPlay pumps, metadata readers, dongle tasks
          AppOps,     \* engine calls apps ask for
          ThreadOps,  \* engine calls of the threads
          Capacity,   \* of a broadcast channel
          MaxCalls    \* bound: engine calls in a behaviour

Views == {"outputs", "zones", "sources"}
Channels == {"OUTPUTS_CHANGED", "SOURCES_CHANGED"}
Behind(ch) == IF ch = "OUTPUTS_CHANGED" THEN {"outputs", "zones"} ELSE {"sources"}
ChannelOf(v) == IF v = "sources" THEN "SOURCES_CHANGED" ELSE "OUTPUTS_CHANGED"

\* What each engine call does to the views and the channels, in its order: a view
\* is a critical section that may change it, a channel is a tick.  Adjacent
\* sections that change one view are one.
RegisterDongle == <<"outputs", "zones", "OUTPUTS_CHANGED">>
DongleOffline == <<"outputs", "OUTPUTS_CHANGED">>
CreateZone == <<"zones", "OUTPUTS_CHANGED">>
DeleteZone == <<"zones", "sources", "OUTPUTS_CHANGED", "sources">>
RenameZone == <<"zones", "OUTPUTS_CHANGED", "sources">>
SetZoneOutputs == <<"zones", "OUTPUTS_CHANGED">>
Play == <<"zones", "sources", "zones">>
Stop == <<"zones", "sources">>
SessionBegan == <<"sources", "zones", "sources", "SOURCES_CHANGED", "OUTPUTS_CHANGED">>
Reroute == <<"sources", "zones", "sources", "zones", "SOURCES_CHANGED", "OUTPUTS_CHANGED">>
SessionEnded == <<"sources", "zones", "SOURCES_CHANGED", "OUTPUTS_CHANGED">>
TrackUpdate == <<"sources", "SOURCES_CHANGED">>
ArtUpdate == <<"sources", "SOURCES_CHANGED">>

Script ==
  [register_dongle |-> RegisterDongle, dongle_offline |-> DongleOffline,
   create_zone |-> CreateZone, delete_zone |-> DeleteZone,
   rename_zone |-> RenameZone, set_zone_outputs |-> SetZoneOutputs,
   play |-> Play, stop |-> Stop,
   session_began |-> SessionBegan, reroute |-> Reroute,
   session_ended |-> SessionEnded, track_update |-> TrackUpdate,
   art_update |-> ArtUpdate]

Ops == DOMAIN Script
NoCall == [op |-> "none", at |-> 0]
Lists == [outputs |-> "list_outputs", zones |-> "list_zones", sources |-> "list_sources"]

ASSUME OpsAssumption == AppOps \subseteq Ops /\ ThreadOps \subseteq Ops
ASSUME BoundsAssumption == Capacity \in Nat \ {0} /\ MaxCalls \in Nat
ASSUME ActorsAssumption == Conns \cap Threads = {}

VARIABLES content,    \* how often each view has changed
          live,       \* AirPlay sessions that the sources view shows
          announced,  \* history: what it was at the last tick of its channel
          call,       \* the engine call a thread or a connection's task is in
          calls,      \* how many were begun
          pc,         \* where listen is
          rx,         \* ticks each receiver has to come; -1: not subscribed
          msg,        \* the snapshot being written; -1: none
          seen        \* what the app was last sent; -1: nothing

vars == <<content, live, announced, call, calls, pc, rx, msg, seen>>
conn == <<pc, rx, msg, seen>>

\* The view a place in listen sends, and the place after it.
Sends == [outputs0 |-> "outputs", zones0 |-> "zones", sources0 |-> "sources",
          outputs |-> "outputs", zones |-> "zones", sources |-> "sources",
          list_outputs |-> "outputs", list_zones |-> "zones", list_sources |-> "sources"]
After == [outputs0 |-> "zones0", zones0 |-> "subscribe", sources0 |-> "select",
          outputs |-> "zones", zones |-> "select", sources |-> "select",
          list_outputs |-> "select", list_zones |-> "select", list_sources |-> "select"]

\* The type invariant.
TypeOK ==
  /\ content \in [Views -> Nat] /\ announced \in [Views -> Nat]
  /\ call \in [Conns \cup Threads -> [op : Ops \cup {"none"}, at : Nat]]
  /\ \A p \in Conns \cup Threads : call[p] # NoCall => call[p].op \in Ops /\ call[p].at \in 1..Len(Script[call[p].op])
  /\ calls \in Nat /\ live \in Nat
  /\ pc \in [Conns -> {"start", "subscribe", "select", "call", "closed"} \cup DOMAIN Sends]
  /\ rx \in [Conns -> [Channels -> -1..(Capacity + 1)]]
  /\ msg \in [Conns -> Nat \cup {-1}]
  /\ seen \in [Conns -> [Views -> Nat \cup {-1}]]

Init ==
  /\ content = [v \in Views |-> 0] /\ announced = [v \in Views |-> 0]
  /\ call = [p \in Conns \cup Threads |-> NoCall] /\ calls = 0 /\ live = 0
  /\ pc = [c \in Conns |-> "start"]
  /\ rx = [c \in Conns |-> [ch \in Channels |-> -1]]
  /\ msg = [c \in Conns |-> -1]
  /\ seen = [c \in Conns |-> [v \in Views |-> -1]]
-----------------------------------------------------------------------------
(* The engine                                                              *)

Begin(p, op) ==
  /\ call[p] = NoCall
  /\ calls < MaxCalls
  /\ calls' = calls + 1
  /\ call' = [call EXCEPT ![p] = [op |-> op, at |-> 1]]

Step(p) == Script[call[p].op][call[p].at]

Advance(p) ==
  LET c == call[p]
  IN  call' = [call EXCEPT ![p] = IF c.at = Len(Script[c.op]) THEN NoCall
                                  ELSE [op |-> c.op, at |-> c.at + 1]]

\* A call that names an unknown zone or source, or that cannot be routed, returns
\* before it changes anything.
Refuse(p) ==
  /\ call[p].at = 1
  /\ call[p].op \notin {"register_dongle", "dongle_offline", "create_zone", "stop"}
  /\ call' = [call EXCEPT ![p] = NoCall]
  /\ UNCHANGED <<content, live, announced, live, calls, conn>>

\* A session begins or ends: the sources view always changes.
Session(p) ==
  /\ call[p].at = 1
  /\ \/ call[p].op = "session_began" /\ live' = live + 1
     \/ call[p].op = "session_ended" /\ live > 0 /\ live' = live - 1
  /\ content' = [content EXCEPT !["sources"] = @ + 1]
  /\ Advance(p)
  /\ UNCHANGED <<announced, calls, conn>>

\* Another critical section of a call: it changes its view, or it finds nothing to
\* change.  The sources view shows live sessions only; the zone that delete_zone
\* removed takes its source with it.
Change(p) ==
  /\ call[p] # NoCall /\ Step(p) \in Views
  /\ call[p].op \in {"session_began", "session_ended"} => call[p].at > 1
  /\ \E n \in {0, 1} :
       /\ Step(p) = "sources" /\ live = 0 => n = 0
       /\ content' = [content EXCEPT ![Step(p)] = @ + n]
       /\ live' = IF call[p] = [op |-> "delete_zone", at |-> 4] THEN live - n ELSE live
  /\ Advance(p)
  /\ UNCHANGED <<announced, calls, conn>>

\* Every receiver has one more tick to come, up to the capacity of the channel.
\* One that lags has its oldest ticks replaced by one Lagged error.
Ticked(ch) ==
  [c \in Conns |-> [rx[c] EXCEPT ![ch] = IF @ \in 0..Capacity THEN @ + 1 ELSE @]]

Tick(p) ==
  /\ call[p] # NoCall /\ Step(p) \in Channels
  /\ announced' = [v \in Views |-> IF v \in Behind(Step(p)) THEN content[v] ELSE announced[v]]
  /\ rx' = Ticked(Step(p))
  /\ Advance(p)
  /\ UNCHANGED <<content, live, calls, pc, msg, seen>>
-----------------------------------------------------------------------------
(* A connection                                                            *)

Goto(c, l) == pc' = [pc EXCEPT ![c] = l]

\* Mutant of Subscribe: the sources receiver is created after the sources were sent.
SubscribeLate(c) ==
  /\ \/ pc[c] = "start" /\ Goto(c, "outputs0")
        /\ rx' = [rx EXCEPT ![c]["OUTPUTS_CHANGED"] = 0]
     \/ pc[c] = "subscribe" /\ Goto(c, "sources0") /\ UNCHANGED rx
     \/ pc[c] = "select" /\ rx[c]["SOURCES_CHANGED"] = -1 /\ UNCHANGED pc
        /\ rx' = [rx EXCEPT ![c]["SOURCES_CHANGED"] = 0]
  /\ UNCHANGED <<content, live, announced, call, calls, msg, seen>>

Subscribe(c) ==
  /\ \/ pc[c] = "start" /\ Goto(c, "outputs0")
        /\ rx' = [rx EXCEPT ![c]["OUTPUTS_CHANGED"] = 0]
     \/ pc[c] = "subscribe" /\ Goto(c, "sources0")
        /\ rx' = [rx EXCEPT ![c]["SOURCES_CHANGED"] = 0]
  /\ UNCHANGED <<content, live, announced, call, calls, msg, seen>>

\* send_outputs, send_zones and send_sources read the engine, then write.
Snapshot(c) ==
  /\ pc[c] \in DOMAIN Sends /\ msg[c] = -1
  /\ msg' = [msg EXCEPT ![c] = content[Sends[pc[c]]]]
  /\ UNCHANGED <<content, live, announced, call, calls, pc, rx, seen>>

Write(c) ==
  /\ pc[c] \in DOMAIN Sends /\ msg[c] # -1
  /\ seen' = [seen EXCEPT ![c][Sends[pc[c]]] = msg[c]]
  /\ msg' = [msg EXCEPT ![c] = -1]
  /\ Goto(c, After[pc[c]])
  /\ UNCHANGED <<content, live, announced, call, calls, rx>>

\* Mutant of Recv: a receiver that lagged is replaced by a new one.
RecvAnew(c, ch) ==
  /\ pc[c] = "select" /\ rx[c][ch] > 0
  /\ rx' = [rx EXCEPT ![c][ch] = IF @ > Capacity THEN 0 ELSE @ - 1]
  /\ \/ rx[c][ch] > Capacity /\ UNCHANGED pc
     \/ rx[c][ch] <= Capacity
        /\ Goto(c, IF ch = "OUTPUTS_CHANGED" THEN "outputs" ELSE "sources")
  /\ UNCHANGED <<content, live, announced, call, calls, msg, seen>>

\* A tick, or the error of a receiver that lags, sends the views behind the channel.
Recv(c, ch) ==
  /\ pc[c] = "select" /\ rx[c][ch] > 0
  /\ rx' = [rx EXCEPT ![c][ch] = @ - 1]
  /\ Goto(c, IF ch = "OUTPUTS_CHANGED" THEN "outputs" ELSE "sources")
  /\ UNCHANGED <<content, live, announced, call, calls, msg, seen>>

\* The app asks for a list, or for a call, which its connection's task runs.
ReadList(c) ==
  /\ pc[c] = "select"
  /\ \E v \in Views : Goto(c, Lists[v])
  /\ UNCHANGED <<content, live, announced, call, calls, rx, msg, seen>>

ReadCommand(c) ==
  /\ pc[c] = "select"
  /\ \E op \in AppOps : Begin(c, op)
  /\ Goto(c, "call")
  /\ UNCHANGED <<content, live, announced, rx, msg, seen>>

Reply(c) ==
  /\ pc[c] = "call" /\ call[c] = NoCall
  /\ Goto(c, "select")
  /\ UNCHANGED <<content, live, announced, call, calls, rx, msg, seen>>

\* A write that fails, an end of file, a read error, a message that does not
\* decrypt, parse or authenticate, or 60 s without one: the task returns and its
\* receivers are dropped.
Close(c) ==
  /\ pc[c] = "select" \/ msg[c] # -1 \/ (pc[c] = "call" /\ call[c] = NoCall)
  /\ Goto(c, "closed")
  /\ rx' = [rx EXCEPT ![c] = [ch \in Channels |-> -1]]
  /\ msg' = [msg EXCEPT ![c] = -1]
  /\ UNCHANGED <<content, live, announced, call, calls, seen>>
-----------------------------------------------------------------------------
BeginThread(p) ==
  /\ \E op \in ThreadOps : Begin(p, op)
  /\ UNCHANGED <<content, live, announced, conn>>

Engine(p) == Refuse(p) \/ Session(p) \/ Change(p) \/ Tick(p)
Listen(c) == Subscribe(c) \/ Snapshot(c) \/ Write(c) \/ Reply(c)

Next ==
  \/ \E p \in Threads : BeginThread(p)
  \/ \E p \in Conns \cup Threads : Engine(p)
  \/ \E c \in Conns : \/ Listen(c) \/ ReadList(c) \/ ReadCommand(c) \/ Close(c)
                      \/ \E ch \in Channels : Recv(c, ch)

Spec == Init /\ [][Next]_vars

\* Calls end, the connection tasks are scheduled, a write succeeds or fails, and
\* select!, which picks at random among what is ready, does not pass over a tick
\* for ever.
FairSpec ==
  /\ Spec
  /\ \A p \in Conns \cup Threads : WF_vars(Engine(p))
  /\ \A c \in Conns : /\ WF_vars(Listen(c))
                      /\ \A ch \in Channels : SF_vars(Recv(c, ch))
-----------------------------------------------------------------------------
(* Properties                                                              *)

Waiting(c, v) == pc[c] = "select" /\ rx[c][ChannelOf(v)] = 0

\* An app whose connection is waiting with no tick to come was sent each view as
\* it was when it was last announced, or later: no tick falls between subscribing
\* and the first snapshots, or between a snapshot and its write.
UpToDate ==
  \A c \in Conns : \A v \in Views : Waiting(c, v) => seen[c][v] >= announced[v]

\* Once the engine is quiet, every app that stays has been sent what was announced,
\* also one whose receiver lagged.
CatchesUp ==
  \A c \in Conns : \A v \in Views :
    <>[](pc[c] = "closed" \/ seen[c][v] >= announced[v])

\* While no call is in progress, an app whose connection has no tick to come shows
\* the hub's sources.
SourcesShown ==
  (\A p \in Conns \cup Threads : call[p] = NoCall) =>
    \A c \in Conns : Waiting(c, "sources") => seen[c]["sources"] = content["sources"]
=============================================================================
