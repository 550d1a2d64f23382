------------------------------- MODULE Engine -------------------------------
(***************************************************************************)
(* The multi-room playback engine (src/src/audio/engine.rs) with the parts *)
(* it calls synchronously: the output registry (registry.rs), the stream   *)
(* pool of the Snapcast router (snapcast_router.rs) and the AirPlay        *)
(* receiver manager (airplay_manager.rs).                                  *)
(*                                                                         *)
(* The code takes a mutex, copies what it needs, releases it, and calls    *)
(* on.  One step of this module is one such critical section, so calls of  *)
(* several clients and of the AirPlay pump threads interleave between any  *)
(* two of them.  A thread is a client (a connection task, one call at a    *)
(* time) or the pump thread of a zone's receiver, named by the zone.       *)
(* Labels, metadata and the broadcast ticks are left out.                  *)
(***************************************************************************)
EXTENDS StreamPool, FiniteSets

CONSTANTS Clients,      \* threads that call the engine for an app or a dongle
          Dongles,      \* dongle ids; a dongle's own zone has the same id
          DefaultZone,  \* the hub's own zone
          Local,        \* LOCAL_OUTPUT_ID: the hub's cpal device and its sink
          Pipelines,    \* identities of decode threads
          Ops,          \* the engine calls clients make
          AirPlay,      \* enable_airplay has been called
          MaxInFlight   \* how many engine calls may overlap

ASSUME ThreadAssumption == Clients \cap Zones = {}
ASSUME NullAssumption   == None \notin Clients \cup Pipelines
ASSUME ZoneAssumption   == DefaultZone \in Zones /\ Dongles \subseteq Zones \ {DefaultZone}
ASSUME LocalAssumption  == Local \notin Dongles \cup Slots /\ Local # None
ASSUME ModeAssumption   == AirPlay \in BOOLEAN /\ MaxInFlight \in Nat
ASSUME FiniteAssumption == IsFiniteSet(Clients) /\ IsFiniteSet(Zones)

VARIABLES
  zones,     \* ids present in Engine.zones
  used,      \* ids create_zone has handed out (a uuid is never reused)
  outputs,   \* ZonePlayback.outputs
  driver,    \* ZonePlayback.current
  sources,   \* ids present in Engine.sources
  src,       \* their SourceState
  reg,       \* OutputRegistry: each dongle's reachability
  opened,    \* lazily acquired backends: the cpal device, snapserver
  pool,      \* SnapcastRouter.pool
  pipe,      \* decode threads
  recv,      \* ShairportManager.receivers
  mgr,       \* the client that holds the receivers mutex, or None
  frame      \* per thread, the call it is in and that call's locals

topology == <<zones, used, outputs>>
airplay  == <<sources, src>>
manager  == <<recv, mgr>>
sinks    == <<reg, opened, pool>>
vars == <<topology, driver, airplay, sinks, pipe, manager, frame>>
-----------------------------------------------------------------------------
Threads == Clients \cup Zones
Sinks   == Slots \cup {Local}

\* Option<ZoneDriver>
NoDriver   == [kind |-> "none", id |-> None]
Url(p)     == [kind |-> "url", id |-> p]
Airplay(s) == [kind |-> "airplay", id |-> s]
Drivers    == {NoDriver} \cup {Url(p) : p \in Pipelines} \cup {Airplay(s) : s \in Zones}

\* Pipeline: the stop flag and the thread, with the zone and sink it was given.
NoPipe  == [state |-> "none", stop |-> FALSE, zone |-> None, sink |-> None]
Pipe    == [state : {"none", "run", "done"}, stop : BOOLEAN,
            zone : Zones \cup {None}, sink : Sinks \cup {None}]

\* Mutant of IdleSource: a source at rest has no destination.
HomelessSource(s) == [dest |-> None, active |-> FALSE, routed |-> FALSE, sink |-> None]

\* SourceState, without its labels.
IdleSource(s) == [dest |-> s, active |-> FALSE, routed |-> FALSE, sink |-> None]
Source == [dest : Zones, active : BOOLEAN, routed : BOOLEAN, sink : Sinks \cup {None}]

Labels ==
  {"idle", "off", "parked", "session",
   "play_sink", "play_take", "play_detach", "play_install",
   "stop_detach", "stop_release", "delete_detach", "delete_release",
   "register_zone", "topo", "topo_sources", "topo_manager", "topo_join",
   "began", "began_zone", "began_detach", "chunk_sink", "chunk_cache",
   "ended", "ended_zone", "ended_release",
   "reroute_zone", "reroute_sink", "reroute_point", "reroute_leave",
   "reroute_release", "reroute_take", "reroute_detach", "reroute_install",
   "reroute_reply"}
Resting == {"idle", "off", "parked", "session"}

Frame == [pc : Labels, zone : Zones \cup {None}, source : Zones \cup {None},
          from : Zones \cup {None}, outs : SUBSET (Dongles \cup {Local}),
          prev : Drivers, sink : Sinks \cup {None}, snap : SUBSET Zones]
AtRest(l) == [pc |-> l, zone |-> None, source |-> None, from |-> None, outs |-> {},
              prev |-> NoDriver, sink |-> None, snap |-> {}]

At(t, l)   == frame[t].pc = l
Go(t, f)   == frame' = [frame EXCEPT ![t] = f]
Goto(t, l) == frame' = [frame EXCEPT ![t].pc = l]
Finish(t)  == Go(t, AtRest("idle"))

\* A call may start while fewer than MaxInFlight others are in progress; the
\* pump of a receiver that is being torn down is never held back.
InFlight  == {t \in Threads : frame[t].pc \notin Resting}
Admits(t) == \/ Cardinality(InFlight \ {t}) < MaxInFlight
             \/ t \in Zones /\ recv[t] = "stopping"
Calls(c, op) == op \in Ops /\ At(c, "idle") /\ Admits(c)

\* The type invariant: every variable has the shape of the field it stands for,
\* and each thread is at a program point of the call it is in.
TypeOK ==
  /\ zones \subseteq Zones /\ used \subseteq Zones
  /\ outputs \in [Zones -> SUBSET (Dongles \cup {Local})]
  /\ driver \in [Zones -> Drivers]
  /\ sources \subseteq Zones /\ src \in [Zones -> Source]
  /\ reg \in [Dongles -> {"unknown", "online", "offline"}]
  /\ opened \subseteq {"local", "snapserver"}
  /\ pool \in Pools
  /\ pipe \in [Pipelines -> Pipe]
  /\ recv \in [Zones -> {"none", "run", "stopping"}]
  /\ mgr \in Clients \cup {None}
  /\ frame \in [Threads -> Frame]

\* Engine::new, and main's enable_airplay before any server task runs.
Init ==
  /\ zones = {DefaultZone} /\ used = {DefaultZone}
  /\ outputs = [z \in Zones |-> IF z = DefaultZone THEN {Local} ELSE {}]
  /\ driver = [z \in Zones |-> NoDriver]
  /\ sources = (IF AirPlay THEN {DefaultZone} ELSE {})
  /\ src = [s \in Zones |-> IdleSource(s)]
  /\ reg = [d \in Dongles |-> "unknown"]
  /\ opened = {} /\ pool = EmptyPool
  /\ pipe = [p \in Pipelines |-> NoPipe]
  /\ recv = [z \in Zones |-> IF AirPlay /\ z = DefaultZone THEN "run" ELSE "none"]
  /\ mgr = None
  /\ frame = [t \in Threads |->
                IF t \in Clients THEN AtRest("idle")
                ELSE IF AirPlay /\ t = DefaultZone THEN AtRest("parked")
                ELSE AtRest("off")]
-----------------------------------------------------------------------------
(* zone_sink: resolve a zone's outputs to the sink to decode into.         *)

Online(outs) == \E d \in outs \ {Local} : reg[d] = "online"

ZoneSink(z, outs, k) ==
  \/ /\ Local \in outs /\ k = Local
     /\ opened' = opened \cup {"local"}
     /\ UNCHANGED pool
  \/ /\ Local \notin outs /\ Online(outs)
     /\ k \in Slots /\ Allocates(pool, z, k)
     /\ pool' = Allocate(pool, z, k)
     /\ opened' = opened \cup {"snapserver"}

ZoneSinkFails(z, outs) ==
  /\ \/ Local \in outs /\ "local" \notin opened             \* device-open error
     \/ Local \notin outs /\ ~Online(outs)                  \* zone_has_no_outputs
     \/ Local \notin outs /\ "snapserver" \notin opened     \* ensure_started failed
     \/ Local \notin outs /\ Exhausted(pool, z)             \* no_free_stream
  /\ UNCHANGED <<opened, pool>>
-----------------------------------------------------------------------------
(* detach_driver, reached from five calls with the driver they took.       *)

Detaching == {"play_detach", "stop_detach", "delete_detach", "began_detach",
              "reroute_detach"}

AfterDetach(f) ==
  IF f.pc = "began_detach" THEN AtRest("session")
  ELSE [f EXCEPT !.prev = NoDriver,
                 !.pc = CASE f.pc = "play_detach"    -> "play_install"
                          [] f.pc = "stop_detach"    -> "stop_release"
                          [] f.pc = "delete_detach"  -> "delete_release"
                          [] f.pc = "reroute_detach" -> "reroute_install"]

DetachNothing(t) ==
  /\ frame[t].pc \in Detaching /\ frame[t].prev = NoDriver
  /\ Go(t, AfterDetach(frame[t]))
  /\ UNCHANGED <<topology, driver, airplay, sinks, pipe, manager>>

\* Mutants of SignalUrl: the flag is raised but the thread is not joined; the
\* thread is joined but the flag is not raised.
SignalOnly(t) ==
  LET p == frame[t].prev.id IN
  /\ frame[t].pc \in Detaching /\ frame[t].prev.kind = "url"
  /\ pipe' = [pipe EXCEPT ![p].stop = TRUE]
  /\ Go(t, AfterDetach(frame[t]))
  /\ UNCHANGED <<topology, driver, airplay, sinks, manager>>


\* Pipeline::shutdown raises the stop flag ...
SignalUrl(t) ==
  LET p == frame[t].prev.id IN
  /\ frame[t].pc \in Detaching /\ frame[t].prev.kind = "url"
  /\ ~pipe[p].stop
  /\ pipe' = [pipe EXCEPT ![p].stop = TRUE]
  /\ UNCHANGED <<topology, driver, airplay, sinks, manager, frame>>

\* ... and joins the decode thread.
JoinUrl(t) ==
  LET p == frame[t].prev.id IN
  /\ frame[t].pc \in Detaching /\ frame[t].prev.kind = "url"
  /\ pipe[p].stop /\ pipe[p].state # "run"
  /\ pipe' = [pipe EXCEPT ![p] = NoPipe]
  /\ Go(t, AfterDetach(frame[t]))
  /\ UNCHANGED <<topology, driver, airplay, sinks, manager>>

\* Mutant of DetachAirplay: the displaced source keeps its routing.
DetachNoUnroute(t) ==
  /\ frame[t].pc \in Detaching /\ frame[t].prev.kind = "airplay"
  /\ Go(t, AfterDetach(frame[t]))
  /\ UNCHANGED <<topology, driver, airplay, sinks, pipe, manager>>

DetachAirplay(t) ==
  LET s == frame[t].prev.id IN
  /\ frame[t].pc \in Detaching /\ frame[t].prev.kind = "airplay"
  /\ src' = IF s \in sources
            THEN [src EXCEPT ![s].routed = FALSE, ![s].sink = None] ELSE src
  /\ Go(t, AfterDetach(frame[t]))
  /\ UNCHANGED <<topology, driver, sources, sinks, pipe, manager>>

\* A decode thread sees its stop flag, or runs out of stream.
DecodeStops(p) ==
  /\ pipe[p].state = "run" /\ pipe[p].stop
  /\ pipe' = [pipe EXCEPT ![p].state = "done"]
  /\ UNCHANGED <<topology, driver, airplay, sinks, manager, frame>>

DecodeEnds(p) ==
  /\ pipe[p].state = "run" /\ ~pipe[p].stop
  /\ pipe' = [pipe EXCEPT ![p].state = "done"]
  /\ UNCHANGED <<topology, driver, airplay, sinks, manager, frame>>
-----------------------------------------------------------------------------
(* play and stop                                                           *)

PlaySnapshot(c, z) ==
  /\ Calls(c, "play") /\ z \in zones
  /\ Go(c, [AtRest("play_sink") EXCEPT !.zone = z, !.outs = outputs[z]])
  /\ UNCHANGED <<topology, driver, airplay, sinks, pipe, manager>>

PlayResolve(c) ==
  /\ At(c, "play_sink")
  /\ \/ \E k \in Sinks :
          /\ ZoneSink(frame[c].zone, frame[c].outs, k)
          /\ Go(c, [frame[c] EXCEPT !.pc = "play_take", !.outs = {}, !.sink = k])
     \/ ZoneSinkFails(frame[c].zone, frame[c].outs) /\ Finish(c)
  /\ UNCHANGED <<topology, driver, airplay, reg, pipe, manager>>

PlayTake(c) ==
  LET z == frame[c].zone IN
  /\ At(c, "play_take")
  /\ \/ /\ z \in zones
        /\ driver' = [driver EXCEPT ![z] = NoDriver]
        /\ Go(c, [frame[c] EXCEPT !.pc = "play_detach", !.prev = driver[z]])
     \/ z \notin zones /\ Finish(c) /\ UNCHANGED driver
  /\ UNCHANGED <<topology, airplay, sinks, pipe, manager>>

\* A decode thread no zone and no call holds a handle of, and that has exited.
Fresh(p) == /\ pipe[p].state # "run"
            /\ \A z \in Zones : driver[z] # Url(p)
            /\ \A t \in Threads : frame[t].prev # Url(p)

\* Spawn the decode thread and install it over whatever drives the zone now: an
\* overwritten Pipeline is dropped, which detaches its thread without a stop.
PlayInstall(c) ==
  LET z == frame[c].zone IN
  /\ At(c, "play_install")
  /\ \/ /\ z \in zones
        /\ \E p \in Pipelines :
             /\ Fresh(p)
             /\ pipe' = [pipe EXCEPT ![p] = [state |-> "run", stop |-> FALSE,
                                             zone |-> z, sink |-> frame[c].sink]]
             /\ driver' = [driver EXCEPT ![z] = Url(p)]
     \/ UNCHANGED <<driver, pipe>>      \* unknown_zone, or the spawn failed
  /\ Finish(c)
  /\ UNCHANGED <<topology, airplay, sinks, manager>>

\* Mutant of StopTake: the driver is taken, and dropped.
StopDrops(c, z) ==
  /\ Calls(c, "stop")
  /\ driver' = [driver EXCEPT ![z] = NoDriver]
  /\ Go(c, [AtRest("stop_detach") EXCEPT !.zone = z])
  /\ UNCHANGED <<topology, airplay, sinks, pipe, manager>>

StopTake(c, z) ==
  /\ Calls(c, "stop")
  /\ driver' = [driver EXCEPT ![z] = NoDriver]
  /\ Go(c, [AtRest("stop_detach") EXCEPT !.zone = z, !.prev = driver[z]])
  /\ UNCHANGED <<topology, airplay, sinks, pipe, manager>>

StopRelease(c) ==
  /\ At(c, "stop_release")
  /\ pool' = Release(pool, frame[c].zone)
  /\ Finish(c)
  /\ UNCHANGED <<topology, driver, airplay, reg, opened, pipe, manager>>
-----------------------------------------------------------------------------
(* Zone and output topology                                                *)

\* register_dongle: the registry entry, then the auto-zone, under two mutexes.
RegisterDongle(c, d) ==
  /\ Calls(c, "register")
  /\ reg' = [reg EXCEPT ![d] = "online"]
  /\ Go(c, [AtRest("register_zone") EXCEPT !.zone = d])
  /\ UNCHANGED <<topology, driver, airplay, opened, pool, pipe, manager>>

RegisterZone(c, d) ==
  /\ At(c, "register_zone") /\ frame[c].zone = d
  /\ zones' = zones \cup {d}
  /\ outputs' = IF d \in zones THEN outputs ELSE [outputs EXCEPT ![d] = {d}]
  /\ Go(c, AtRest("topo"))
  /\ UNCHANGED <<used, driver, airplay, sinks, pipe, manager>>

DongleOffline(d) ==
  /\ "offline" \in Ops /\ reg[d] = "online"
  /\ reg' = [reg EXCEPT ![d] = "offline"]
  /\ UNCHANGED <<topology, driver, airplay, opened, pool, pipe, manager, frame>>

CreateZone(c, z) ==
  /\ Calls(c, "create") /\ z \in Zones \ (used \cup Dongles)
  /\ zones' = zones \cup {z} /\ used' = used \cup {z}
  /\ Go(c, AtRest("topo"))
  /\ UNCHANGED <<outputs, driver, airplay, sinks, pipe, manager>>

\* rename_zone changes a label, which is left out, and then reconciles.
RenameZone(c, z) ==
  /\ Calls(c, "rename") /\ z \in zones
  /\ Go(c, AtRest("topo"))
  /\ UNCHANGED <<topology, driver, airplay, sinks, pipe, manager>>

SetZoneOutputs(c, z, outs) ==
  /\ Calls(c, "outputs") /\ z \in zones
  /\ Local \in outs => outs = {Local}                    \* mixed_zone_unsupported
  /\ \A d \in outs \ {Local} : reg[d] # "unknown"        \* unknown_output
  /\ outputs' = [outputs EXCEPT ![z] = outs]
  /\ UNCHANGED <<zones, used, driver, airplay, sinks, pipe, manager, frame>>

DeleteRemove(c, z) ==
  /\ Calls(c, "delete") /\ z \in zones
  /\ zones' = zones \ {z}
  /\ outputs' = [outputs EXCEPT ![z] = {}]
  /\ driver' = [driver EXCEPT ![z] = NoDriver]
  /\ Go(c, [AtRest("delete_detach") EXCEPT !.zone = z, !.prev = driver[z]])
  /\ UNCHANGED <<used, airplay, sinks, pipe, manager>>

DeleteRelease(c) ==
  /\ At(c, "delete_release")
  /\ pool' = Release(pool, frame[c].zone)
  /\ Go(c, AtRest("topo"))
  /\ UNCHANGED <<topology, driver, airplay, reg, opened, pipe, manager>>

\* reconcile_airplay: snapshot the zone set ...
SnapshotZones(c) ==
  /\ At(c, "topo")
  /\ Go(c, [frame[c] EXCEPT !.pc = "topo_sources", !.snap = zones])
  /\ UNCHANGED <<topology, driver, airplay, sinks, pipe, manager>>

\* ... bring the logical sources in step with the snapshot ...
ReconcileSources(c) ==
  LET snap == frame[c].snap IN
  /\ At(c, "topo_sources")
  /\ sources' = snap
  /\ src' = [s \in Zones |-> IF s \in sources \cap snap THEN src[s] ELSE IdleSource(s)]
  /\ IF AirPlay THEN Goto(c, "topo_manager") ELSE Finish(c)
  /\ UNCHANGED <<topology, driver, sinks, pipe, manager>>

\* ... and the receivers, under the manager's mutex, which is held to the end ...
ManagerLock(c) ==
  /\ At(c, "topo_manager") /\ mgr = None
  /\ mgr' = c
  /\ Goto(c, "topo_join")
  /\ UNCHANGED <<topology, driver, airplay, sinks, pipe, recv>>

\* The receiver that is being dropped has joined its pump.
PumpsJoined == \A z \in Zones : recv[z] = "stopping" => At(z, "off")

\* Those that are not being dropped.
Kept == [z \in Zones |-> IF recv[z] = "stopping" THEN "none" ELSE recv[z]]

\* ... drop those whose zone is gone, one after another: a dropped receiver tells
\* its pump to stop, and joins it before the next is dropped ...
ManagerKill(c) ==
  /\ At(c, "topo_join") /\ PumpsJoined
  /\ \E z \in Zones \ frame[c].snap :
       recv[z] = "run" /\ recv' = [Kept EXCEPT ![z] = "stopping"]
  /\ UNCHANGED <<topology, driver, airplay, sinks, pipe, mgr, frame>>

\* ... then create the missing ones; a creation that fails is only logged.
Spawn(c) ==
  \E made \in SUBSET {z \in frame[c].snap : recv[z] = "none"} :
    /\ recv' = [z \in Zones |-> IF z \in made THEN "run" ELSE Kept[z]]
    /\ frame' = [t \in Threads |-> IF t = c THEN AtRest("idle")
                                   ELSE IF t \in made THEN AtRest("parked")
                                   ELSE frame[t]]

\* Mutant of ManagerSpawn: the receivers of deleted zones stay.
ManagerKeeps(c) ==
  /\ At(c, "topo_join") /\ PumpsJoined
  /\ Spawn(c)
  /\ mgr' = None
  /\ UNCHANGED <<topology, driver, airplay, sinks, pipe>>

ManagerSpawn(c) ==
  /\ At(c, "topo_join") /\ PumpsJoined
  /\ \A z \in Zones : recv[z] = "run" => z \in frame[c].snap
  /\ Spawn(c)
  /\ mgr' = None
  /\ UNCHANGED <<topology, driver, airplay, sinks, pipe>>
-----------------------------------------------------------------------------
(* AirPlay sessions: the pump thread of source s (airplay.rs run_receiver) *)
(* and the engine calls it makes.                                          *)

\* shairport-sync opens the FIFO: the parked open returns, `stop` is not set.
PumpOpen(s) ==
  /\ At(s, "parked") /\ recv[s] = "run" /\ Admits(s)
  /\ Goto(s, "began")
  /\ UNCHANGED <<topology, driver, airplay, sinks, pipe, manager>>

\* The teardown nudges the parked open; the pump sees `stop` and exits.
PumpQuit(s) ==
  /\ At(s, "parked") /\ recv[s] = "stopping"
  /\ Goto(s, "off")
  /\ UNCHANGED <<topology, driver, airplay, sinks, pipe, manager>>

\* session_began: the source becomes active and routed ...
BeganSource(s) ==
  /\ At(s, "began")
  /\ \/ /\ s \in sources
        /\ src' = [src EXCEPT ![s].active = TRUE, ![s].routed = TRUE, ![s].sink = None]
        /\ Go(s, [AtRest("began_zone") EXCEPT !.zone = src[s].dest])
     \/ s \notin sources /\ Goto(s, "session") /\ UNCHANGED src
  /\ UNCHANGED <<topology, driver, sources, sinks, pipe, manager>>

\* ... and takes over its destination zone in one critical section.
BeganZone(s) ==
  LET z == frame[s].zone IN
  /\ At(s, "began_zone")
  /\ \/ /\ z \in zones
        /\ driver' = [driver EXCEPT ![z] = Airplay(s)]
        /\ Go(s, [frame[s] EXCEPT !.pc = "began_detach", !.prev = driver[z]])
     \/ z \notin zones /\ Go(s, AtRest("session")) /\ UNCHANGED driver
  /\ UNCHANGED <<topology, airplay, sinks, pipe, manager>>

\* sink_for_source for one chunk, when no sink is cached yet.  The other paths
\* (discard, cached sink) change nothing.
ChunkSnapshot(s) ==
  /\ At(s, "session") /\ recv[s] = "run" /\ Admits(s)
  /\ s \in sources /\ src[s].active /\ src[s].routed /\ src[s].sink = None
  /\ src[s].dest \in zones
  /\ Go(s, [AtRest("chunk_sink") EXCEPT !.zone = src[s].dest,
                                        !.outs = outputs[src[s].dest]])
  /\ UNCHANGED <<topology, driver, airplay, sinks, pipe, manager>>

ChunkResolve(s) ==
  /\ At(s, "chunk_sink")
  /\ \/ \E k \in Sinks :
          /\ ZoneSink(frame[s].zone, frame[s].outs, k)
          /\ Go(s, [AtRest("chunk_cache") EXCEPT !.sink = k])
     \/ ZoneSinkFails(frame[s].zone, frame[s].outs) /\ Go(s, AtRest("session"))
  /\ UNCHANGED <<topology, driver, airplay, reg, pipe, manager>>

\* Re-check that the source is still active and routed, then cache the sink.
ChunkCache(s) ==
  /\ At(s, "chunk_cache")
  /\ src' = IF s \in sources /\ src[s].active /\ src[s].routed
            THEN [src EXCEPT ![s].sink = frame[s].sink] ELSE src
  /\ Go(s, AtRest("session"))
  /\ UNCHANGED <<topology, driver, sources, sinks, pipe, manager>>

PumpEof(s) ==
  /\ At(s, "session") /\ Admits(s)
  /\ Goto(s, "ended")
  /\ UNCHANGED <<topology, driver, airplay, sinks, pipe, manager>>

\* Back to the loop of run_receiver, which ends on `stop` or after an error.
PumpLoops(s) ==
  \/ recv[s] = "run" /\ Go(s, AtRest("parked"))
  \/ Go(s, AtRest("off"))

\* Mutant of EndedSource: the source stays where it was rerouted to.
EndedAway(s) ==
  /\ At(s, "ended")
  /\ \/ /\ s \in sources
        /\ src' = [src EXCEPT ![s].active = FALSE, ![s].routed = FALSE, ![s].sink = None]
        /\ Go(s, [AtRest("ended_zone") EXCEPT !.zone = src[s].dest])
     \/ s \notin sources /\ PumpLoops(s) /\ UNCHANGED src
  /\ UNCHANGED <<topology, driver, sources, sinks, pipe, manager>>

\* session_ended: reset the source and send it home ...
EndedSource(s) ==
  /\ At(s, "ended")
  /\ \/ /\ s \in sources
        /\ src' = [src EXCEPT ![s] = IdleSource(s)]
        /\ Go(s, [AtRest("ended_zone") EXCEPT !.zone = src[s].dest])
     \/ s \notin sources /\ PumpLoops(s) /\ UNCHANGED src
  /\ UNCHANGED <<topology, driver, sources, sinks, pipe, manager>>

\* ... clear the zone's driver if it is still this source ...
EndedZone(s) ==
  LET z == frame[s].zone IN
  /\ At(s, "ended_zone")
  /\ driver' = IF driver[z] = Airplay(s) THEN [driver EXCEPT ![z] = NoDriver] ELSE driver
  /\ Goto(s, "ended_release")
  /\ UNCHANGED <<topology, airplay, sinks, pipe, manager>>

\* ... and free the zone's stream in any case.
EndedRelease(s) ==
  /\ At(s, "ended_release")
  /\ pool' = Release(pool, frame[s].zone)
  /\ PumpLoops(s)
  /\ UNCHANGED <<topology, driver, airplay, reg, opened, pipe, manager>>
-----------------------------------------------------------------------------
(* reroute                                                                 *)

\* Steps 1 and 2: an active source; already there is an immediate Ok.
RerouteValidate(c, s, z) ==
  /\ Calls(c, "reroute")
  /\ s \in sources /\ src[s].active
  /\ Go(c, [AtRest(IF z = src[s].dest THEN "reroute_reply" ELSE "reroute_zone")
              EXCEPT !.zone = z, !.source = s, !.from = src[s].dest])
  /\ UNCHANGED <<topology, driver, airplay, sinks, pipe, manager>>

RerouteZone(c) ==
  LET z == frame[c].zone IN
  /\ At(c, "reroute_zone")
  /\ \/ z \in zones /\ Go(c, [frame[c] EXCEPT !.pc = "reroute_sink", !.outs = outputs[z]])
     \/ z \notin zones /\ Finish(c)
  /\ UNCHANGED <<topology, driver, airplay, sinks, pipe, manager>>

RerouteResolve(c) ==
  /\ At(c, "reroute_sink")
  /\ \/ \E k \in Sinks :
          /\ ZoneSink(frame[c].zone, frame[c].outs, k)
          /\ Go(c, [frame[c] EXCEPT !.pc = "reroute_point", !.outs = {}, !.sink = k])
     \/ ZoneSinkFails(frame[c].zone, frame[c].outs) /\ Finish(c)
  /\ UNCHANGED <<topology, driver, airplay, reg, pipe, manager>>

\* Step 5: point the source at the new zone, caching the resolved sink.
ReroutePoint(c) ==
  LET s == frame[c].source IN
  /\ At(c, "reroute_point")
  /\ src' = IF s \in sources
            THEN [src EXCEPT ![s].dest = frame[c].zone, ![s].routed = TRUE,
                             ![s].sink = frame[c].sink]
            ELSE src
  /\ Go(c, [frame[c] EXCEPT !.pc = "reroute_leave", !.sink = None])
  /\ UNCHANGED <<topology, driver, sources, sinks, pipe, manager>>

\* Step 5a: leave the old zone, and free its stream, only if it still drives it.
RerouteLeave(c) ==
  LET z == frame[c].from IN
  /\ At(c, "reroute_leave")
  /\ \/ /\ driver[z] = Airplay(frame[c].source)
        /\ driver' = [driver EXCEPT ![z] = NoDriver]
        /\ Goto(c, "reroute_release")
     \/ /\ driver[z] # Airplay(frame[c].source)
        /\ Goto(c, "reroute_take") /\ UNCHANGED driver
  /\ UNCHANGED <<topology, airplay, sinks, pipe, manager>>

RerouteRelease(c) ==
  /\ At(c, "reroute_release")
  /\ pool' = Release(pool, frame[c].from)
  /\ Goto(c, "reroute_take")
  /\ UNCHANGED <<topology, driver, airplay, reg, opened, pipe, manager>>

\* Steps 5b and 5c: detach the new zone's driver, then install the source.
RerouteTake(c) ==
  LET z == frame[c].zone IN
  /\ At(c, "reroute_take")
  /\ driver' = [driver EXCEPT ![z] = NoDriver]
  /\ Go(c, [frame[c] EXCEPT !.pc = "reroute_detach", !.prev = driver[z]])
  /\ UNCHANGED <<topology, airplay, sinks, pipe, manager>>

RerouteInstall(c) ==
  LET z == frame[c].zone IN
  /\ At(c, "reroute_install")
  /\ driver' = IF z \in zones THEN [driver EXCEPT ![z] = Airplay(frame[c].source)]
                              ELSE driver
  /\ Goto(c, "reroute_reply")
  /\ UNCHANGED <<topology, airplay, sinks, pipe, manager>>

\* Ok(()) reaches the caller.
RerouteReply(c) ==
  /\ At(c, "reroute_reply") /\ Finish(c)
  /\ UNCHANGED <<topology, driver, airplay, sinks, pipe, manager>>
-----------------------------------------------------------------------------
\* A client starts a call.
Start(c) ==
  \/ \E z \in Zones : PlaySnapshot(c, z) \/ StopTake(c, z) \/ CreateZone(c, z)
                      \/ RenameZone(c, z) \/ DeleteRemove(c, z)
  \/ \E d \in Dongles : RegisterDongle(c, d)
  \/ \E z \in Zones, outs \in SUBSET (Dongles \cup {Local}) : SetZoneOutputs(c, z, outs)
  \/ \E s, z \in Zones : RerouteValidate(c, s, z)

\* A client is inside a call.
Continue(c) ==
  \/ PlayResolve(c) \/ PlayTake(c) \/ PlayInstall(c) \/ StopRelease(c)
  \/ \E d \in Dongles : RegisterZone(c, d)
  \/ DeleteRelease(c) \/ SnapshotZones(c) \/ ReconcileSources(c)
  \/ ManagerKill(c) \/ ManagerSpawn(c)
  \/ RerouteZone(c) \/ RerouteResolve(c) \/ ReroutePoint(c) \/ RerouteLeave(c)
  \/ RerouteRelease(c) \/ RerouteTake(c) \/ RerouteInstall(c) \/ RerouteReply(c)

\* A pump is inside an engine call it made.
Session(s) ==
  \/ BeganSource(s) \/ BeganZone(s) \/ ChunkResolve(s) \/ ChunkCache(s)
  \/ EndedSource(s) \/ EndedZone(s) \/ EndedRelease(s)

Detach(t) == DetachNothing(t) \/ SignalUrl(t) \/ JoinUrl(t) \/ DetachAirplay(t)

Next ==
  \/ \E c \in Clients : Start(c) \/ Continue(c) \/ ManagerLock(c)
  \/ \E s \in Zones : PumpOpen(s) \/ PumpQuit(s) \/ ChunkSnapshot(s) \/ PumpEof(s)
                      \/ Session(s)
  \/ \E t \in Threads : Detach(t)
  \/ \E p \in Pipelines : DecodeStops(p) \/ DecodeEnds(p)
  \/ \E d \in Dongles : DongleOffline(d)

Spec == Init /\ [][Next]_vars

\* A thread that is not blocked is scheduled, and the receivers mutex is granted
\* eventually to a client that keeps asking.  Calls and sessions need not start,
\* and nothing is assumed of blocking I/O: a decode thread may never come back to
\* its stop flag from the network or its sink, nor a pump from its FIFO.
Fairness ==
  /\ \A c \in Clients : WF_vars(Continue(c)) /\ SF_vars(ManagerLock(c))
  /\ \A s \in Zones : WF_vars(Session(s))
  /\ \A t \in Threads : WF_vars(Detach(t))

FairSpec == Spec /\ Fairness
-----------------------------------------------------------------------------
(* Properties: those on handles, streams and termination are for calls that *)
(* overlap, those "between calls" for one client call at a time, with the   *)
(* sessions of the pumps in between.                                        *)

\* No engine call is in progress.
Quiet == InFlight = {}

\* A zone never holds two streams of the pool, whatever calls overlap: a second
\* allocation for the zone returns the slot it has (StreamPool::allocate).
OneStreamPerZone == OneStreamEach(pool)

\* A decode thread that was told to stop is no zone's driver, and the call that
\* told it is still there to join it: no call returns while a thread it shut
\* down may still write (Pipeline::shutdown, reached only through a driver that
\* was taken out of its zone first).
ShutdownIsJoined ==
  \A p \in Pipelines : pipe[p].stop =>
    /\ \A z \in Zones : driver[z] # Url(p)
    /\ \E t \in Threads : frame[t].pc \in Detaching /\ frame[t].prev = Url(p)

\* Between calls, every running decode thread is the driver of the zone it
\* decodes for: none is orphaned by play, stop, delete_zone or a takeover.
EveryDecoderIsADriver ==
  Quiet => \A p \in Pipelines :
             pipe[p].state = "run" => driver[pipe[p].zone] = Url(p)

\* Two decode threads that were not told to stop never feed one zone, which a
\* comment of play says of concurrent plays ("at most one active decoder per
\* zone").  The code: two plays both pass the take, and the later install drops
\* the handle of the earlier one.
OneDecoderPerZone ==
  \A p, q \in Pipelines :
    /\ pipe[p].state = "run" /\ ~pipe[p].stop
    /\ pipe[q].state = "run" /\ ~pipe[q].stop
    /\ pipe[p].zone = pipe[q].zone
    => p = q

\* Between calls, a routed source is active and is its destination's driver: a
\* takeover by a URL or another source always unroutes the one it displaced.
RoutedIsDriver ==
  Quiet => \A s \in sources :
             src[s].routed => src[s].active /\ driver[src[s].dest] = Airplay(s)

\* Between calls, a zone driven by AirPlay has a live session behind it.
DriverIsLive ==
  Quiet => \A z \in zones, s \in Zones :
             driver[z] = Airplay(s) => /\ s \in sources /\ src[s].active
                                       /\ src[s].routed /\ src[s].dest = z

\* Between calls, a source without a session is at home: a reroute does not leak
\* into the receiver's next session (session_ended).
HomeWhenIdle ==
  Quiet => \A s \in sources : ~src[s].active => src[s].dest = s

\* Between calls, a URL pipeline that decodes into a stream of the pool still
\* owns that stream: nobody else can be handed its FIFO.
DecoderKeepsItsStream ==
  Quiet => \A z \in zones, p \in Pipelines :
             driver[z] = Url(p) /\ pipe[p].state = "run" /\ pipe[p].sink \in Slots
             => pool[pipe[p].sink] = z

\* Between calls, only zones that exist hold streams: deleting a zone in whatever
\* state its playback is does not leak a slot of the fixed pool (delete_zone).
NoLeakedStream ==
  Quiet => \A k \in Slots : pool[k] # None => pool[k] \in zones

\* Between calls, the logical sources and the receivers are those of the current
\* zone set (reconcile_airplay).
SourcesFollowZones ==
  Quiet /\ AirPlay => /\ sources = zones
                      /\ \A z \in Zones : recv[z] # "none" => z \in zones

\* A reroute that returned Ok has the source routed to the zone asked for.
RerouteOkMeansRouted ==
  \A c \in Clients : At(c, "reroute_reply") =>
    src[frame[c].source].routed /\ src[frame[c].source].dest = frame[c].zone

\* What can hold up an engine call: the join of a decode thread that was told to
\* stop; under the receivers mutex, the join of a pump that was told to stop and
\* is in its FIFO's I/O, or itself joins such a decode thread; and that mutex,
\* held by another call that joins such a pump.
JoinsDecoder(t) ==
  /\ frame[t].pc \in Detaching /\ frame[t].prev.kind = "url"
  /\ LET p == frame[t].prev.id IN pipe[p].state = "run" /\ pipe[p].stop
JoinsPump(c) ==
  At(c, "topo_join") /\ \E s \in Zones :
    recv[s] = "stopping" /\ (frame[s].pc \in {"parked", "session"} \/ JoinsDecoder(s))
Blocked(c) ==
  JoinsDecoder(c) \/ JoinsPump(c) \/ (At(c, "topo_manager") /\ mgr # None /\ JoinsPump(mgr))

=============================================================================
