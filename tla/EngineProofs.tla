---------------------------- MODULE EngineProofs ----------------------------
(***************************************************************************)
(* Theorems about Engine, for every value of its constants.                *)
(***************************************************************************)
EXTENDS Engine, FiniteSetTheorems, TLAPS

(***************************************************************************)
(* The frames a thread can be in: the locals of a call have their types,   *)
(* a call that is not detaching holds no driver, and a reroute that is     *)
(* under way has a source and a destination.  This is what TypeOK lacks to *)
(* be inductive: the driver a call takes comes from the zone it names.     *)
(***************************************************************************)

Rerouting == {"reroute_zone", "reroute_sink", "reroute_point", "reroute_leave",
              "reroute_release", "reroute_take", "reroute_detach", "reroute_install"}

GoodFrame ==
  {f \in Frame : /\ f.pc \notin Detaching => f.prev = NoDriver
                 /\ f.pc \in Rerouting => f.zone \in Zones /\ f.source \in Zones}

IType == TypeOK /\ frame \in [Threads -> GoodFrame]

LEMMA ThreadsType == Clients \subseteq Threads /\ Zones \subseteq Threads
BY DEF Threads

LEMMA DriverTypes ==
  /\ NoDriver \in Drivers
  /\ \A p \in Pipelines : Url(p) \in Drivers
  /\ \A s \in Zones : Airplay(s) \in Drivers
BY DEF Drivers

LEMMA AtRestFrame == ASSUME NEW l \in Labels PROVE AtRest(l) \in Frame
BY DEF AtRest, Frame, Drivers

LEMMA AtRestGood ==
  ASSUME NEW l \in Labels \ Rerouting PROVE AtRest(l) \in GoodFrame
BY AtRestFrame DEF GoodFrame, AtRest

LEMMA GotoGood ==
  ASSUME NEW f \in GoodFrame, NEW l \in Labels,
         l \notin Detaching => f.pc \notin Detaching,
         l \in Rerouting => f.pc \in Rerouting
  PROVE  [f EXCEPT !.pc = l] \in GoodFrame
BY DEF GoodFrame, Frame

\* A call takes the driver of a zone and records it to shut it down.
LEMMA TakeGood ==
  ASSUME NEW f \in GoodFrame, NEW l \in Labels \cap Detaching, NEW d \in Drivers,
         l \in Rerouting => f.pc \in Rerouting
  PROVE  [f EXCEPT !.pc = l, !.prev = d] \in GoodFrame
BY DEF GoodFrame, Frame

LEMMA SettleGood ==
  ASSUME NEW f \in GoodFrame, NEW l \in Labels \ Detaching,
         l \in Rerouting => f.pc \in Rerouting
  PROVE  /\ [f EXCEPT !.prev = NoDriver, !.pc = l] \in GoodFrame
         /\ [f EXCEPT !.prev = NoDriver, !.pc = l].prev = NoDriver
BY DriverTypes DEF GoodFrame, Frame

LEMMA AfterDetachGood ==
  ASSUME NEW f \in GoodFrame, f.pc \in Detaching
  PROVE  AfterDetach(f) \in GoodFrame /\ AfterDetach(f).prev = NoDriver
<1>1. CASE f.pc = "began_detach"
  BY <1>1, AtRestGood DEF AfterDetach, AtRest, Labels, Rerouting
<1>2. CASE f.pc = "play_detach"
  <2>1. AfterDetach(f) = [f EXCEPT !.prev = NoDriver, !.pc = "play_install"]
    BY <1>2 DEF AfterDetach
  <2>2. "play_install" \in Labels \ Detaching /\ "play_install" \notin Rerouting
    BY DEF Labels, Detaching, Rerouting
  <2> QED BY <2>1, <2>2, SettleGood
<1>3. CASE f.pc = "stop_detach"
  <2>1. AfterDetach(f) = [f EXCEPT !.prev = NoDriver, !.pc = "stop_release"]
    BY <1>3 DEF AfterDetach
  <2>2. "stop_release" \in Labels \ Detaching /\ "stop_release" \notin Rerouting
    BY DEF Labels, Detaching, Rerouting
  <2> QED BY <2>1, <2>2, SettleGood
<1>4. CASE f.pc = "delete_detach"
  <2>1. AfterDetach(f) = [f EXCEPT !.prev = NoDriver, !.pc = "delete_release"]
    BY <1>4 DEF AfterDetach
  <2>2. "delete_release" \in Labels \ Detaching /\ "delete_release" \notin Rerouting
    BY DEF Labels, Detaching, Rerouting
  <2> QED BY <2>1, <2>2, SettleGood
<1>5. CASE f.pc = "reroute_detach"
  <2>1. AfterDetach(f) = [f EXCEPT !.prev = NoDriver, !.pc = "reroute_install"]
    BY <1>5 DEF AfterDetach
  <2>2. "reroute_install" \in Labels \ Detaching
    BY DEF Labels, Detaching, Rerouting
  <2>3. f.pc \in Rerouting BY <1>5 DEF Rerouting
  <2> QED BY <2>1, <2>2, <2>3, SettleGood
<1> QED BY <1>1, <1>2, <1>3, <1>4, <1>5 DEF Detaching

LEMMA GoType ==
  ASSUME IType, NEW t \in Threads, NEW f \in GoodFrame, Go(t, f)
  PROVE  frame' \in [Threads -> GoodFrame] /\ frame' \in [Threads -> Frame]
BY DEF IType, Go, GoodFrame

LEMMA RestType ==
  ASSUME IType, NEW t \in Threads, NEW l \in Labels \ Rerouting, Go(t, AtRest(l))
  PROVE  frame' \in [Threads -> GoodFrame] /\ frame' \in [Threads -> Frame]
BY AtRestGood, GoType

LEMMA FinishType ==
  ASSUME IType, NEW t \in Threads, Finish(t)
  PROVE  frame' \in [Threads -> GoodFrame] /\ frame' \in [Threads -> Frame]
BY RestType DEF Finish, Labels, Rerouting

LEMMA GotoType ==
  ASSUME IType, NEW t \in Threads, NEW l \in Labels, Goto(t, l),
         l \notin Detaching => frame[t].pc \notin Detaching,
         l \in Rerouting => frame[t].pc \in Rerouting
  PROVE  frame' \in [Threads -> GoodFrame] /\ frame' \in [Threads -> Frame]
<1>1. [frame[t] EXCEPT !.pc = l] \in GoodFrame
  BY GotoGood DEF IType
<1>2. Go(t, [frame[t] EXCEPT !.pc = l])
  BY DEF Goto, Go
<1> QED BY <1>1, <1>2, GoType

LEMMA SourceTypes ==
  ASSUME NEW r \in Source
  PROVE  /\ [r EXCEPT !.routed = FALSE, !.sink = None] \in Source
         /\ [r EXCEPT !.active = TRUE, !.routed = TRUE, !.sink = None] \in Source
         /\ \A z \in Zones, k \in Sinks \cup {None} :
              [r EXCEPT !.dest = z, !.routed = TRUE, !.sink = k] \in Source
BY DEF Source

LEMMA StopType == ASSUME NEW r \in Pipe PROVE [r EXCEPT !.stop = TRUE] \in Pipe
BY DEF Pipe

(***************************************************************************)
(* The stream pool and zone_sink.                                          *)
(***************************************************************************)

\* Allocating and releasing keep the pool a pool.
LEMMA PoolTypes ==
  ASSUME NEW q \in Pools, NEW z \in Zones \cup {None}, NEW k \in Slots
  PROVE  Allocate(q, z, k) \in Pools /\ Release(q, z) \in Pools
BY DEF Pools, Allocate, Release

\* StreamPool::allocate never gives a zone a second slot: the slot it picks is
\* the zone's own, or the zone had none.
LEMMA AllocateKeepsOne ==
  ASSUME NEW q \in Pools, NEW z \in Zones \cup {None}, NEW k \in Slots,
         OneStreamEach(q), Allocates(q, z, k)
  PROVE  OneStreamEach(Allocate(q, z, k))
<1>1. z # None => \A j \in Slots : q[j] = z => j = k
  BY DEF Allocates, FirstSlot, OneStreamEach
<1>2. \A j \in Slots : Allocate(q, z, k)[j] = (IF j = k THEN z ELSE q[j])
  BY DEF Allocate, Pools
<1> QED BY <1>1, <1>2 DEF OneStreamEach

LEMMA ReleaseKeepsOne ==
  ASSUME NEW q \in Pools, NEW z, OneStreamEach(q)
  PROVE  OneStreamEach(Release(q, z))
BY DEF OneStreamEach, Release

LEMMA ZoneSinkTypes ==
  ASSUME TypeOK, NEW z \in Zones \cup {None}, NEW outs, NEW k, ZoneSink(z, outs, k)
  PROVE  pool' \in Pools /\ opened' \subseteq {"local", "snapserver"}
<1>1. CASE UNCHANGED pool /\ opened' = opened \cup {"local"}
  BY <1>1 DEF TypeOK
<1>2. CASE /\ k \in Slots /\ pool' = Allocate(pool, z, k)
           /\ opened' = opened \cup {"snapserver"}
  BY <1>2, PoolTypes DEF TypeOK
<1> QED BY <1>1, <1>2 DEF ZoneSink

LEMMA ZoneSinkKeepsOne ==
  ASSUME TypeOK, OneStreamPerZone, NEW z \in Zones \cup {None}, NEW outs, NEW k,
         ZoneSink(z, outs, k)
  PROVE  OneStreamPerZone'
<1>1. CASE UNCHANGED pool BY <1>1 DEF OneStreamPerZone
<1>2. CASE k \in Slots /\ Allocates(pool, z, k) /\ pool' = Allocate(pool, z, k)
  BY <1>2, AllocateKeepsOne DEF TypeOK, OneStreamPerZone
<1> QED BY <1>1, <1>2 DEF ZoneSink

(***************************************************************************)
(* Every action keeps the types: play and stop.                            *)
(***************************************************************************)

LEMMA PlaySnapshotType ==
  ASSUME IType, NEW c \in Clients, NEW z \in Zones, PlaySnapshot(c, z)
  PROVE  IType'
<1>1. outputs[z] \in SUBSET (Dongles \cup {Local}) BY DEF IType, TypeOK
<1>2. [AtRest("play_sink") EXCEPT !.zone = z, !.outs = outputs[z]] \in GoodFrame
  BY <1>1, DriverTypes DEF AtRest, GoodFrame, Frame, Labels, Detaching, Rerouting
<1>3. frame' \in [Threads -> GoodFrame] /\ frame' \in [Threads -> Frame]
  BY <1>2, GoType, ThreadsType DEF PlaySnapshot
<1> QED BY <1>3 DEF IType, TypeOK, PlaySnapshot, topology, airplay, sinks, manager

\* What the two callers of zone_sink with a frame of their own record.
LEMMA SinkGood ==
  ASSUME NEW f \in GoodFrame, NEW l \in Labels \ Detaching, NEW k \in Sinks,
         f.pc \notin Detaching, l \in Rerouting => f.pc \in Rerouting
  PROVE  [f EXCEPT !.pc = l, !.outs = {}, !.sink = k] \in GoodFrame
BY DEF GoodFrame, Frame

LEMMA PlayResolveType ==
  ASSUME IType, NEW c \in Clients, PlayResolve(c)
  PROVE  IType'
<1>1. frame[c] \in GoodFrame /\ frame[c].zone \in Zones \cup {None}
  BY ThreadsType DEF IType, GoodFrame, Frame
<1>2. ASSUME NEW k \in Sinks, ZoneSink(frame[c].zone, frame[c].outs, k),
             Go(c, [frame[c] EXCEPT !.pc = "play_take", !.outs = {}, !.sink = k])
      PROVE  IType'
  <2>1. [frame[c] EXCEPT !.pc = "play_take", !.outs = {}, !.sink = k] \in GoodFrame
    BY <1>1, SinkGood DEF Labels, Detaching, Rerouting, PlayResolve, At
  <2>2. frame' \in [Threads -> GoodFrame] /\ frame' \in [Threads -> Frame]
    BY <1>2, <2>1, GoType, ThreadsType
  <2> QED BY <1>1, <1>2, <2>2, ZoneSinkTypes
          DEF IType, TypeOK, PlayResolve, topology, airplay, manager
<1>3. CASE ZoneSinkFails(frame[c].zone, frame[c].outs) /\ Finish(c)
  BY <1>3, FinishType, ThreadsType
     DEF IType, TypeOK, PlayResolve, ZoneSinkFails, topology, airplay, manager
<1> QED BY <1>2, <1>3 DEF PlayResolve

LEMMA PlayTakeType ==
  ASSUME IType, NEW c \in Clients, PlayTake(c)
  PROVE  IType'
<1>1. frame[c] \in GoodFrame BY ThreadsType DEF IType
<1>2. ASSUME frame[c].zone \in zones,
             driver' = [driver EXCEPT ![frame[c].zone] = NoDriver],
             Go(c, [frame[c] EXCEPT !.pc = "play_detach",
                                    !.prev = driver[frame[c].zone]])
      PROVE  IType'
  <2>1. driver[frame[c].zone] \in Drivers BY <1>2 DEF IType, TypeOK
  <2>2. "play_detach" \in Labels \cap Detaching /\ "play_detach" \notin Rerouting
    BY DEF Labels, Detaching, Rerouting
  <2>3. [frame[c] EXCEPT !.pc = "play_detach", !.prev = driver[frame[c].zone]] \in GoodFrame
    BY <1>1, <2>1, <2>2, TakeGood
  <2>4. frame' \in [Threads -> GoodFrame] /\ frame' \in [Threads -> Frame]
    BY <1>2, <2>3, GoType, ThreadsType
  <2>5. driver' \in [Zones -> Drivers] BY <1>2, DriverTypes DEF IType, TypeOK
  <2> QED BY <2>4, <2>5 DEF IType, TypeOK, PlayTake, topology, airplay, sinks, manager
<1>3. CASE Finish(c) /\ UNCHANGED driver
  BY <1>3, FinishType, ThreadsType
     DEF IType, TypeOK, PlayTake, topology, airplay, sinks, manager
<1> QED BY <1>2, <1>3 DEF PlayTake

LEMMA PlayInstallType ==
  ASSUME IType, NEW c \in Clients, PlayInstall(c)
  PROVE  IType'
<1>1. frame' \in [Threads -> GoodFrame] /\ frame' \in [Threads -> Frame]
  BY FinishType, ThreadsType DEF PlayInstall
<1>2. frame[c].sink \in Sinks \cup {None} BY ThreadsType DEF IType, TypeOK, Frame
<1>3. ASSUME NEW p \in Pipelines, frame[c].zone \in zones,
             pipe' = [pipe EXCEPT ![p] = [state |-> "run", stop |-> FALSE,
                                          zone |-> frame[c].zone, sink |-> frame[c].sink]],
             driver' = [driver EXCEPT ![frame[c].zone] = Url(p)]
      PROVE  pipe' \in [Pipelines -> Pipe] /\ driver' \in [Zones -> Drivers]
  <2>1. [state |-> "run", stop |-> FALSE,
         zone |-> frame[c].zone, sink |-> frame[c].sink] \in Pipe
    BY <1>2, <1>3 DEF IType, TypeOK, Pipe
  <2> QED BY <1>3, <2>1, DriverTypes DEF IType, TypeOK
<1>4. pipe' \in [Pipelines -> Pipe] /\ driver' \in [Zones -> Drivers]
  BY <1>3 DEF PlayInstall, IType, TypeOK
<1> QED BY <1>1, <1>4 DEF IType, TypeOK, PlayInstall, topology, airplay, sinks, manager

LEMMA StopTakeType ==
  ASSUME IType, NEW c \in Clients, NEW z \in Zones, StopTake(c, z)
  PROVE  IType'
<1>1. driver[z] \in Drivers BY DEF IType, TypeOK
<1>2. [AtRest("stop_detach") EXCEPT !.zone = z, !.prev = driver[z]] \in GoodFrame
  BY <1>1 DEF AtRest, GoodFrame, Frame, Labels, Detaching, Rerouting
<1>3. frame' \in [Threads -> GoodFrame] /\ frame' \in [Threads -> Frame]
  BY <1>2, GoType, ThreadsType DEF StopTake
<1>4. driver' \in [Zones -> Drivers] BY DriverTypes DEF StopTake, IType, TypeOK
<1> QED BY <1>3, <1>4 DEF IType, TypeOK, StopTake, topology, airplay, sinks, manager

LEMMA StopReleaseType ==
  ASSUME IType, NEW c \in Clients, StopRelease(c)
  PROVE  IType'
<1>1. frame' \in [Threads -> GoodFrame] /\ frame' \in [Threads -> Frame]
  BY FinishType, ThreadsType DEF StopRelease
<1>2. pool' \in Pools BY DEF StopRelease, IType, TypeOK, Pools, Release
<1> QED BY <1>1, <1>2 DEF IType, TypeOK, StopRelease, topology, airplay, sinks, manager

(***************************************************************************)
(* Topology.                                                               *)
(***************************************************************************)

LEMMA RegisterDongleType ==
  ASSUME IType, NEW c \in Clients, NEW d \in Dongles, RegisterDongle(c, d)
  PROVE  IType'
<1>1. [AtRest("register_zone") EXCEPT !.zone = d] \in GoodFrame
  BY ZoneAssumption, DriverTypes DEF AtRest, GoodFrame, Frame, Labels, Detaching, Rerouting
<1>2. frame' \in [Threads -> GoodFrame] /\ frame' \in [Threads -> Frame]
  BY <1>1, GoType, ThreadsType DEF RegisterDongle
<1> QED BY <1>2 DEF IType, TypeOK, RegisterDongle, topology, airplay, sinks, manager

LEMMA RegisterZoneType ==
  ASSUME IType, NEW c \in Clients, NEW d \in Dongles, RegisterZone(c, d)
  PROVE  IType'
<1>1. d \in Zones BY ZoneAssumption
<1>2. AtRest("topo") \in GoodFrame BY AtRestGood DEF Labels, Rerouting
<1>3. frame' \in [Threads -> GoodFrame] /\ frame' \in [Threads -> Frame]
  BY <1>2, GoType, ThreadsType DEF RegisterZone
<1> QED BY <1>1, <1>3 DEF IType, TypeOK, RegisterZone, topology, airplay, sinks, manager

LEMMA DongleOfflineType ==
  ASSUME IType, NEW d \in Dongles, DongleOffline(d)
  PROVE  IType'
BY DEF IType, TypeOK, DongleOffline, topology, airplay, sinks, manager

LEMMA CreateZoneType ==
  ASSUME IType, NEW c \in Clients, NEW z \in Zones, CreateZone(c, z)
  PROVE  IType'
<1>1. AtRest("topo") \in GoodFrame BY AtRestGood DEF Labels, Rerouting
<1>2. frame' \in [Threads -> GoodFrame] /\ frame' \in [Threads -> Frame]
  BY <1>1, GoType, ThreadsType DEF CreateZone
<1> QED BY <1>2 DEF IType, TypeOK, CreateZone, topology, airplay, sinks, manager

LEMMA RenameZoneType ==
  ASSUME IType, NEW c \in Clients, NEW z \in Zones, RenameZone(c, z)
  PROVE  IType'
<1>1. AtRest("topo") \in GoodFrame BY AtRestGood DEF Labels, Rerouting
<1>2. frame' \in [Threads -> GoodFrame] /\ frame' \in [Threads -> Frame]
  BY <1>1, GoType, ThreadsType DEF RenameZone
<1> QED BY <1>2 DEF IType, TypeOK, RenameZone, topology, airplay, sinks, manager

LEMMA SetZoneOutputsType ==
  ASSUME IType, NEW c \in Clients, NEW z \in Zones,
         NEW outs \in SUBSET (Dongles \cup {Local}), SetZoneOutputs(c, z, outs)
  PROVE  IType'
BY DEF IType, TypeOK, SetZoneOutputs, topology, airplay, sinks, manager

LEMMA DeleteRemoveType ==
  ASSUME IType, NEW c \in Clients, NEW z \in Zones, DeleteRemove(c, z)
  PROVE  IType'
<1>1. driver[z] \in Drivers BY DEF IType, TypeOK
<1>2. [AtRest("delete_detach") EXCEPT !.zone = z, !.prev = driver[z]] \in GoodFrame
  BY <1>1 DEF AtRest, GoodFrame, Frame, Labels, Detaching, Rerouting
<1>3. frame' \in [Threads -> GoodFrame] /\ frame' \in [Threads -> Frame]
  BY <1>2, GoType, ThreadsType DEF DeleteRemove
<1>4. driver' \in [Zones -> Drivers] BY DriverTypes DEF DeleteRemove, IType, TypeOK
<1> QED BY <1>3, <1>4 DEF IType, TypeOK, DeleteRemove, topology, airplay, sinks, manager

LEMMA DeleteReleaseType ==
  ASSUME IType, NEW c \in Clients, DeleteRelease(c)
  PROVE  IType'
<1>1. AtRest("topo") \in GoodFrame BY AtRestGood DEF Labels, Rerouting
<1>2. frame' \in [Threads -> GoodFrame] /\ frame' \in [Threads -> Frame]
  BY <1>1, GoType, ThreadsType DEF DeleteRelease
<1>3. pool' \in Pools BY DEF DeleteRelease, IType, TypeOK, Pools, Release
<1> QED BY <1>2, <1>3 DEF IType, TypeOK, DeleteRelease, topology, airplay, sinks, manager

LEMMA SnapshotZonesType ==
  ASSUME IType, NEW c \in Clients, SnapshotZones(c)
  PROVE  IType'
<1>1. frame[c] \in GoodFrame BY ThreadsType DEF IType
<1>2. [frame[c] EXCEPT !.pc = "topo_sources", !.snap = zones] \in GoodFrame
  BY <1>1 DEF SnapshotZones, At, IType, TypeOK, GoodFrame, Frame, Labels, Detaching, Rerouting
<1>3. frame' \in [Threads -> GoodFrame] /\ frame' \in [Threads -> Frame]
  BY <1>2, GoType, ThreadsType DEF SnapshotZones
<1> QED BY <1>3 DEF IType, TypeOK, SnapshotZones, topology, airplay, sinks, manager

LEMMA ReconcileSourcesType ==
  ASSUME IType, NEW c \in Clients, ReconcileSources(c)
  PROVE  IType'
<1>1. frame' \in [Threads -> GoodFrame] /\ frame' \in [Threads -> Frame]
  <2>1. "topo_manager" \in Labels /\ "topo_manager" \notin Rerouting
        /\ "topo_manager" \notin Detaching /\ frame[c].pc \notin Detaching
    BY DEF Labels, Rerouting, Detaching, ReconcileSources, At
  <2> QED BY <2>1, GotoType, FinishType, ThreadsType DEF ReconcileSources
<1>2. frame[c].snap \subseteq Zones BY ThreadsType DEF IType, TypeOK, Frame
<1>3. \A s \in Zones : IdleSource(s) \in Source BY DEF IdleSource, Source
<1>4. src' \in [Zones -> Source] BY <1>3 DEF ReconcileSources, IType, TypeOK
<1> QED BY <1>1, <1>2, <1>4 DEF IType, TypeOK, ReconcileSources, topology, airplay, sinks, manager

LEMMA ManagerLockType ==
  ASSUME IType, NEW c \in Clients, ManagerLock(c)
  PROVE  IType'
<1>1. frame' \in [Threads -> GoodFrame] /\ frame' \in [Threads -> Frame]
  <2>1. "topo_join" \in Labels /\ "topo_join" \notin Rerouting
        /\ "topo_join" \notin Detaching /\ frame[c].pc \notin Detaching
    BY DEF Labels, Rerouting, Detaching, ManagerLock, At
  <2> QED BY <2>1, GotoType, ThreadsType DEF ManagerLock
<1> QED BY <1>1 DEF IType, TypeOK, ManagerLock, topology, airplay, sinks

LEMMA ManagerKillType ==
  ASSUME IType, NEW c \in Clients, ManagerKill(c)
  PROVE  IType'
<1>1. Kept \in [Zones -> {"none", "run", "stopping"}] BY DEF Kept, IType, TypeOK
<1>2. recv' \in [Zones -> {"none", "run", "stopping"}] BY <1>1 DEF ManagerKill
<1> QED BY <1>2 DEF IType, TypeOK, ManagerKill, topology, airplay, sinks

\* The receivers that a pass of the manager creates.
LEMMA SpawnMakes ==
  ASSUME NEW c \in Clients, ManagerSpawn(c)
  PROVE  \E made \in SUBSET {z \in frame[c].snap : recv[z] = "none"} :
           /\ recv' = [z \in Zones |-> IF z \in made THEN "run"
                                       ELSE IF recv[z] = "stopping" THEN "none"
                                       ELSE recv[z]]
           /\ frame' = [t \in Threads |-> IF t = c THEN AtRest("idle")
                                          ELSE IF t \in made THEN AtRest("parked")
                                          ELSE frame[t]]
BY DEF ManagerSpawn, Spawn, Kept

LEMMA ManagerSpawnType ==
  ASSUME IType, NEW c \in Clients, ManagerSpawn(c)
  PROVE  IType'
<1>1. AtRest("idle") \in GoodFrame /\ AtRest("parked") \in GoodFrame
  BY AtRestGood DEF Labels, Rerouting
<1>2. PICK made \in SUBSET {z \in frame[c].snap : recv[z] = "none"} :
        /\ recv' = [z \in Zones |-> IF z \in made THEN "run"
                                    ELSE IF recv[z] = "stopping" THEN "none"
                                    ELSE recv[z]]
        /\ frame' = [t \in Threads |-> IF t = c THEN AtRest("idle")
                                       ELSE IF t \in made THEN AtRest("parked")
                                       ELSE frame[t]]
  BY SpawnMakes
<1>3. frame' \in [Threads -> GoodFrame] BY <1>1, <1>2 DEF IType
<1>4. frame' \in [Threads -> Frame] BY <1>3 DEF GoodFrame
<1>5. recv' \in [Zones -> {"none", "run", "stopping"}] BY <1>2 DEF IType, TypeOK
<1> QED BY <1>3, <1>4, <1>5 DEF IType, TypeOK, ManagerSpawn, topology, airplay, sinks, manager

(***************************************************************************)
(* Detaching a driver, and the decode threads.                             *)
(***************************************************************************)

LEMMA DetachNothingType ==
  ASSUME IType, NEW t \in Threads, DetachNothing(t)
  PROVE  IType'
<1>1. frame' \in [Threads -> GoodFrame] /\ frame' \in [Threads -> Frame]
  BY AfterDetachGood, GoType DEF DetachNothing, IType
<1> QED BY <1>1 DEF IType, TypeOK, DetachNothing, topology, airplay, sinks, manager

LEMMA SignalUrlType ==
  ASSUME IType, NEW t \in Threads, SignalUrl(t)
  PROVE  IType'
<1> DEFINE p == frame[t].prev.id
<1>1. p \in Pipelines => [pipe[p] EXCEPT !.stop = TRUE] \in Pipe
  BY StopType DEF IType, TypeOK
<1>2. pipe' = [pipe EXCEPT ![p] = [pipe[p] EXCEPT !.stop = TRUE]] BY DEF SignalUrl
<1>3. pipe' \in [Pipelines -> Pipe] BY <1>1, <1>2 DEF IType, TypeOK
<1> QED BY <1>3 DEF IType, TypeOK, SignalUrl, topology, airplay, sinks, manager

LEMMA JoinUrlType ==
  ASSUME IType, NEW t \in Threads, JoinUrl(t)
  PROVE  IType'
<1>1. frame' \in [Threads -> GoodFrame] /\ frame' \in [Threads -> Frame]
  BY AfterDetachGood, GoType DEF JoinUrl, IType
<1>2. NoPipe \in Pipe BY DEF NoPipe, Pipe
<1>3. pipe' \in [Pipelines -> Pipe] BY <1>2 DEF JoinUrl, IType, TypeOK
<1> QED BY <1>1, <1>3 DEF IType, TypeOK, JoinUrl, topology, airplay, sinks, manager

LEMMA DetachAirplayType ==
  ASSUME IType, NEW t \in Threads, DetachAirplay(t)
  PROVE  IType'
<1>1. frame' \in [Threads -> GoodFrame] /\ frame' \in [Threads -> Frame]
  BY AfterDetachGood, GoType DEF DetachAirplay, IType
<1> DEFINE s == frame[t].prev.id
<1>2. s \in sources => [src[s] EXCEPT !.routed = FALSE, !.sink = None] \in Source
  BY SourceTypes DEF IType, TypeOK
<1>3. \/ UNCHANGED src
      \/ /\ s \in sources
         /\ src' = [src EXCEPT ![s] = [src[s] EXCEPT !.routed = FALSE, !.sink = None]]
  BY DEF DetachAirplay
<1>4. src' \in [Zones -> Source] BY <1>2, <1>3 DEF IType, TypeOK
<1> QED BY <1>1, <1>4 DEF IType, TypeOK, DetachAirplay, topology, airplay, sinks, manager

LEMMA DecodeStopsType ==
  ASSUME IType, NEW p \in Pipelines, DecodeStops(p)
  PROVE  IType'
<1>1. pipe' \in [Pipelines -> Pipe] BY DEF DecodeStops, IType, TypeOK, Pipe
<1> QED BY <1>1 DEF IType, TypeOK, DecodeStops, topology, airplay, sinks, manager

LEMMA DecodeEndsType ==
  ASSUME IType, NEW p \in Pipelines, DecodeEnds(p)
  PROVE  IType'
<1>1. pipe' \in [Pipelines -> Pipe] BY DEF DecodeEnds, IType, TypeOK, Pipe
<1> QED BY <1>1 DEF IType, TypeOK, DecodeEnds, topology, airplay, sinks, manager

(***************************************************************************)
(* AirPlay sessions.                                                       *)
(***************************************************************************)

LEMMA PumpOpenType ==
  ASSUME IType, NEW s \in Zones, PumpOpen(s)
  PROVE  IType'
<1>1. "began" \in Labels /\ "began" \notin Rerouting
      /\ "began" \notin Detaching /\ frame[s].pc \notin Detaching
  BY DEF Labels, Rerouting, Detaching, PumpOpen, At
<1>2. frame' \in [Threads -> GoodFrame] /\ frame' \in [Threads -> Frame]
  BY <1>1, GotoType, ThreadsType DEF PumpOpen
<1> QED BY <1>2 DEF IType, TypeOK, PumpOpen, topology, airplay, sinks, manager

LEMMA PumpQuitType ==
  ASSUME IType, NEW s \in Zones, PumpQuit(s)
  PROVE  IType'
<1>1. "off" \in Labels /\ "off" \notin Rerouting
      /\ "off" \notin Detaching /\ frame[s].pc \notin Detaching
  BY DEF Labels, Rerouting, Detaching, PumpQuit, At
<1>2. frame' \in [Threads -> GoodFrame] /\ frame' \in [Threads -> Frame]
  BY <1>1, GotoType, ThreadsType DEF PumpQuit
<1> QED BY <1>2 DEF IType, TypeOK, PumpQuit, topology, airplay, sinks, manager

LEMMA PumpEofType ==
  ASSUME IType, NEW s \in Zones, PumpEof(s)
  PROVE  IType'
<1>1. "ended" \in Labels /\ "ended" \notin Rerouting
      /\ "ended" \notin Detaching /\ frame[s].pc \notin Detaching
  BY DEF Labels, Rerouting, Detaching, PumpEof, At
<1>2. frame' \in [Threads -> GoodFrame] /\ frame' \in [Threads -> Frame]
  BY <1>1, GotoType, ThreadsType DEF PumpEof
<1> QED BY <1>2 DEF IType, TypeOK, PumpEof, topology, airplay, sinks, manager

LEMMA BeganSourceType ==
  ASSUME IType, NEW s \in Zones, BeganSource(s)
  PROVE  IType'
<1>1. src[s].dest \in Zones BY DEF IType, TypeOK, Source
<1>2. [AtRest("began_zone") EXCEPT !.zone = src[s].dest] \in GoodFrame
  BY <1>1, DriverTypes DEF AtRest, GoodFrame, Frame, Labels, Detaching, Rerouting
<1>3. "session" \in Labels /\ "session" \notin Rerouting
      /\ "session" \notin Detaching /\ frame[s].pc \notin Detaching
  BY DEF Labels, Rerouting, Detaching, BeganSource, At
<1>4. frame' \in [Threads -> GoodFrame] /\ frame' \in [Threads -> Frame]
  BY <1>2, <1>3, GoType, GotoType, ThreadsType DEF BeganSource
<1>5. [src[s] EXCEPT !.active = TRUE, !.routed = TRUE, !.sink = None] \in Source
  BY SourceTypes DEF IType, TypeOK
<1>6. \/ UNCHANGED src
      \/ src' = [src EXCEPT ![s] = [src[s] EXCEPT !.active = TRUE, !.routed = TRUE,
                                                 !.sink = None]]
  BY DEF BeganSource
<1>7. src' \in [Zones -> Source] BY <1>5, <1>6 DEF IType, TypeOK
<1> QED BY <1>4, <1>7 DEF IType, TypeOK, BeganSource, topology, airplay, sinks, manager

LEMMA BeganZoneType ==
  ASSUME IType, NEW s \in Zones, BeganZone(s)
  PROVE  IType'
<1>1. frame[s] \in GoodFrame BY ThreadsType DEF IType
<1>2. ASSUME frame[s].zone \in zones,
             driver' = [driver EXCEPT ![frame[s].zone] = Airplay(s)],
             Go(s, [frame[s] EXCEPT !.pc = "began_detach",
                                    !.prev = driver[frame[s].zone]])
      PROVE  IType'
  <2>1. driver[frame[s].zone] \in Drivers BY <1>2 DEF IType, TypeOK
  <2>2. "began_detach" \in Labels \cap Detaching /\ "began_detach" \notin Rerouting
    BY DEF Labels, Detaching, Rerouting
  <2>3. [frame[s] EXCEPT !.pc = "began_detach", !.prev = driver[frame[s].zone]] \in GoodFrame
    BY <1>1, <2>1, <2>2, TakeGood
  <2>4. frame' \in [Threads -> GoodFrame] /\ frame' \in [Threads -> Frame]
    BY <1>2, <2>3, GoType, ThreadsType
  <2>5. driver' \in [Zones -> Drivers] BY <1>2, DriverTypes DEF IType, TypeOK
  <2> QED BY <2>4, <2>5 DEF IType, TypeOK, BeganZone, topology, airplay, sinks, manager
<1>3. ASSUME Go(s, AtRest("session")), UNCHANGED driver PROVE IType'
  <2>1. frame' \in [Threads -> GoodFrame] /\ frame' \in [Threads -> Frame]
    BY <1>3, RestType, ThreadsType DEF Labels, Rerouting
  <2> QED BY <1>3, <2>1 DEF IType, TypeOK, BeganZone, topology, airplay, sinks, manager
<1> QED BY <1>2, <1>3 DEF BeganZone

LEMMA ChunkSnapshotType ==
  ASSUME IType, NEW s \in Zones, ChunkSnapshot(s)
  PROVE  IType'
<1>1. src[s].dest \in Zones BY DEF IType, TypeOK, Source
<1>2. outputs[src[s].dest] \in SUBSET (Dongles \cup {Local}) BY <1>1 DEF IType, TypeOK
<1>3. [AtRest("chunk_sink") EXCEPT !.zone = src[s].dest,
                                   !.outs = outputs[src[s].dest]] \in GoodFrame
  BY <1>1, <1>2, DriverTypes DEF AtRest, GoodFrame, Frame, Labels, Detaching, Rerouting
<1>4. frame' \in [Threads -> GoodFrame] /\ frame' \in [Threads -> Frame]
  BY <1>3, GoType, ThreadsType DEF ChunkSnapshot
<1> QED BY <1>4 DEF IType, TypeOK, ChunkSnapshot, topology, airplay, sinks, manager

LEMMA ChunkResolveType ==
  ASSUME IType, NEW s \in Zones, ChunkResolve(s)
  PROVE  IType'
<1>1. frame[s].zone \in Zones \cup {None} BY ThreadsType DEF IType, TypeOK, Frame
<1>2. ASSUME NEW k \in Sinks, ZoneSink(frame[s].zone, frame[s].outs, k),
             Go(s, [AtRest("chunk_cache") EXCEPT !.sink = k])
      PROVE  IType'
  <2>1. [AtRest("chunk_cache") EXCEPT !.sink = k] \in GoodFrame
    BY DriverTypes DEF AtRest, GoodFrame, Frame, Labels, Detaching, Rerouting
  <2>2. frame' \in [Threads -> GoodFrame] /\ frame' \in [Threads -> Frame]
    BY <1>2, <2>1, GoType, ThreadsType
  <2> QED BY <1>1, <1>2, <2>2, ZoneSinkTypes
          DEF IType, TypeOK, ChunkResolve, topology, airplay, manager
<1>3. ASSUME ZoneSinkFails(frame[s].zone, frame[s].outs), Go(s, AtRest("session"))
      PROVE  IType'
  <2>1. frame' \in [Threads -> GoodFrame] /\ frame' \in [Threads -> Frame]
    BY <1>3, RestType, ThreadsType DEF Labels, Rerouting
  <2> QED BY <1>3, <2>1
          DEF IType, TypeOK, ChunkResolve, ZoneSinkFails, topology, airplay, manager
<1> QED BY <1>2, <1>3 DEF ChunkResolve

LEMMA ChunkCacheType ==
  ASSUME IType, NEW s \in Zones, ChunkCache(s)
  PROVE  IType'
<1>1. frame' \in [Threads -> GoodFrame] /\ frame' \in [Threads -> Frame]
  BY RestType, ThreadsType DEF ChunkCache, Labels, Rerouting
<1>2. frame[s].sink \in Sinks \cup {None} BY ThreadsType DEF IType, TypeOK, Frame
<1>3. src' \in [Zones -> Source] BY <1>2 DEF ChunkCache, IType, TypeOK, Source
<1> QED BY <1>1, <1>3 DEF IType, TypeOK, ChunkCache, topology, airplay, sinks, manager

LEMMA PumpLoopsType ==
  ASSUME IType, NEW s \in Zones, PumpLoops(s)
  PROVE  frame' \in [Threads -> GoodFrame] /\ frame' \in [Threads -> Frame]
BY RestType, ThreadsType DEF PumpLoops, Labels, Rerouting

LEMMA EndedSourceType ==
  ASSUME IType, NEW s \in Zones, EndedSource(s)
  PROVE  IType'
<1>1. src[s].dest \in Zones /\ IdleSource(s) \in Source
  BY DEF IType, TypeOK, Source, IdleSource
<1>2. [AtRest("ended_zone") EXCEPT !.zone = src[s].dest] \in GoodFrame
  BY <1>1, DriverTypes DEF AtRest, GoodFrame, Frame, Labels, Detaching, Rerouting
<1>3. frame' \in [Threads -> GoodFrame] /\ frame' \in [Threads -> Frame]
  BY <1>2, GoType, PumpLoopsType, ThreadsType DEF EndedSource
<1>4. src' \in [Zones -> Source] BY <1>1 DEF EndedSource, IType, TypeOK
<1> QED BY <1>3, <1>4 DEF IType, TypeOK, EndedSource, topology, airplay, sinks, manager

LEMMA EndedZoneType ==
  ASSUME IType, NEW s \in Zones, EndedZone(s)
  PROVE  IType'
<1>1. "ended_release" \in Labels /\ "ended_release" \notin Rerouting
      /\ "ended_release" \notin Detaching /\ frame[s].pc \notin Detaching
  BY DEF Labels, Rerouting, Detaching, EndedZone, At
<1>2. frame' \in [Threads -> GoodFrame] /\ frame' \in [Threads -> Frame]
  BY <1>1, GotoType, ThreadsType DEF EndedZone
<1>3. driver' \in [Zones -> Drivers] BY DriverTypes DEF EndedZone, IType, TypeOK
<1> QED BY <1>2, <1>3 DEF IType, TypeOK, EndedZone, topology, airplay, sinks, manager

LEMMA EndedReleaseType ==
  ASSUME IType, NEW s \in Zones, EndedRelease(s)
  PROVE  IType'
<1>1. frame' \in [Threads -> GoodFrame] /\ frame' \in [Threads -> Frame]
  BY PumpLoopsType DEF EndedRelease
<1>2. pool' \in Pools BY DEF EndedRelease, IType, TypeOK, Pools, Release
<1> QED BY <1>1, <1>2 DEF IType, TypeOK, EndedRelease, topology, airplay, sinks, manager

(***************************************************************************)
(* Reroute.                                                                *)
(***************************************************************************)

LEMMA RerouteValidateType ==
  ASSUME IType, NEW c \in Clients, NEW s \in Zones, NEW z \in Zones, RerouteValidate(c, s, z)
  PROVE  IType'
<1>1. src[s].dest \in Zones BY DEF IType, TypeOK, Source
<1> DEFINE l == IF z = src[s].dest THEN "reroute_reply" ELSE "reroute_zone"
<1>2. [AtRest(l) EXCEPT !.zone = z, !.source = s, !.from = src[s].dest] \in GoodFrame
  BY <1>1, DriverTypes DEF AtRest, GoodFrame, Frame, Labels, Detaching, Rerouting
<1>3. frame' \in [Threads -> GoodFrame] /\ frame' \in [Threads -> Frame]
  BY <1>2, GoType, ThreadsType DEF RerouteValidate
<1> QED BY <1>3 DEF IType, TypeOK, RerouteValidate, topology, airplay, sinks, manager

LEMMA RerouteZoneType ==
  ASSUME IType, NEW c \in Clients, RerouteZone(c)
  PROVE  IType'
<1>1. frame[c] \in GoodFrame BY ThreadsType DEF IType
<1>2. ASSUME frame[c].zone \in zones,
             Go(c, [frame[c] EXCEPT !.pc = "reroute_sink", !.outs = outputs[frame[c].zone]])
      PROVE  frame' \in [Threads -> GoodFrame] /\ frame' \in [Threads -> Frame]
  <2>1. outputs[frame[c].zone] \in SUBSET (Dongles \cup {Local})
    BY <1>2 DEF IType, TypeOK
  <2>2. [frame[c] EXCEPT !.pc = "reroute_sink", !.outs = outputs[frame[c].zone]]
          \in GoodFrame
    BY <1>1, <2>1 DEF RerouteZone, At, GoodFrame, Frame, Labels, Detaching, Rerouting
  <2> QED BY <1>2, <2>2, GoType, ThreadsType
<1>3. frame' \in [Threads -> GoodFrame] /\ frame' \in [Threads -> Frame]
  BY <1>2, FinishType, ThreadsType DEF RerouteZone
<1> QED BY <1>3 DEF IType, TypeOK, RerouteZone, topology, airplay, sinks, manager

LEMMA RerouteResolveType ==
  ASSUME IType, NEW c \in Clients, RerouteResolve(c)
  PROVE  IType'
<1>1. frame[c] \in GoodFrame /\ frame[c].zone \in Zones \cup {None}
  BY ThreadsType DEF IType, GoodFrame, Frame
<1>2. ASSUME NEW k \in Sinks, ZoneSink(frame[c].zone, frame[c].outs, k),
             Go(c, [frame[c] EXCEPT !.pc = "reroute_point", !.outs = {}, !.sink = k])
      PROVE  IType'
  <2>1. "reroute_point" \in Labels \ Detaching /\ frame[c].pc \notin Detaching
        /\ frame[c].pc \in Rerouting
    BY DEF Labels, Detaching, Rerouting, RerouteResolve, At
  <2>2. [frame[c] EXCEPT !.pc = "reroute_point", !.outs = {}, !.sink = k] \in GoodFrame
    BY <1>1, <2>1, SinkGood
  <2>3. frame' \in [Threads -> GoodFrame] /\ frame' \in [Threads -> Frame]
    BY <1>2, <2>2, GoType, ThreadsType
  <2> QED BY <1>1, <1>2, <2>3, ZoneSinkTypes
          DEF IType, TypeOK, RerouteResolve, topology, airplay, manager
<1>3. CASE ZoneSinkFails(frame[c].zone, frame[c].outs) /\ Finish(c)
  BY <1>3, FinishType, ThreadsType
     DEF IType, TypeOK, RerouteResolve, ZoneSinkFails, topology, airplay, manager
<1> QED BY <1>2, <1>3 DEF RerouteResolve

LEMMA ReroutePointType ==
  ASSUME IType, NEW c \in Clients, ReroutePoint(c)
  PROVE  IType'
<1> DEFINE s == frame[c].source
<1>1. frame[c] \in GoodFrame BY ThreadsType DEF IType
<1>2. frame[c].zone \in Zones /\ s \in Zones /\ frame[c].sink \in Sinks \cup {None}
  BY <1>1 DEF ReroutePoint, At, GoodFrame, Frame, Rerouting
<1>3. [frame[c] EXCEPT !.pc = "reroute_leave", !.sink = None] \in GoodFrame
  BY <1>1 DEF ReroutePoint, At, GoodFrame, Frame, Labels, Detaching, Rerouting
<1>4. frame' \in [Threads -> GoodFrame] /\ frame' \in [Threads -> Frame]
  BY <1>3, GoType, ThreadsType DEF ReroutePoint
<1>5. [src[s] EXCEPT !.dest = frame[c].zone, !.routed = TRUE, !.sink = frame[c].sink]
        \in Source
  BY <1>2, SourceTypes DEF IType, TypeOK
<1>6. \/ UNCHANGED src
      \/ src' = [src EXCEPT ![s] = [src[s] EXCEPT !.dest = frame[c].zone,
                                      !.routed = TRUE, !.sink = frame[c].sink]]
  BY DEF ReroutePoint
<1>7. src' \in [Zones -> Source] BY <1>5, <1>6 DEF IType, TypeOK
<1> QED BY <1>4, <1>7 DEF IType, TypeOK, ReroutePoint, topology, airplay, sinks, manager

LEMMA RerouteLeaveType ==
  ASSUME IType, NEW c \in Clients, RerouteLeave(c)
  PROVE  IType'
<1>1. /\ "reroute_release" \in Labels \ Detaching /\ "reroute_take" \in Labels \ Detaching
      /\ frame[c].pc \notin Detaching /\ frame[c].pc \in Rerouting
  BY DEF Labels, Detaching, Rerouting, RerouteLeave, At
<1>2. frame' \in [Threads -> GoodFrame] /\ frame' \in [Threads -> Frame]
  BY <1>1, GotoType, ThreadsType DEF RerouteLeave
<1>3. driver' \in [Zones -> Drivers] BY DriverTypes DEF RerouteLeave, IType, TypeOK
<1> QED BY <1>2, <1>3 DEF IType, TypeOK, RerouteLeave, topology, airplay, sinks, manager

LEMMA RerouteReleaseType ==
  ASSUME IType, NEW c \in Clients, RerouteRelease(c)
  PROVE  IType'
<1>1. /\ "reroute_take" \in Labels \ Detaching
      /\ frame[c].pc \notin Detaching /\ frame[c].pc \in Rerouting
  BY DEF Labels, Detaching, Rerouting, RerouteRelease, At
<1>2. frame' \in [Threads -> GoodFrame] /\ frame' \in [Threads -> Frame]
  BY <1>1, GotoType, ThreadsType DEF RerouteRelease
<1>3. pool' \in Pools BY DEF RerouteRelease, IType, TypeOK, Pools, Release
<1> QED BY <1>2, <1>3 DEF IType, TypeOK, RerouteRelease, topology, airplay, sinks, manager

LEMMA RerouteTakeType ==
  ASSUME IType, NEW c \in Clients, RerouteTake(c)
  PROVE  IType'
<1>1. frame[c] \in GoodFrame BY ThreadsType DEF IType
<1>2. frame[c].pc \in Rerouting BY DEF RerouteTake, At, Rerouting
<1>3. driver[frame[c].zone] \in Drivers
  BY <1>1, <1>2 DEF GoodFrame, IType, TypeOK
<1>4. "reroute_detach" \in Labels \cap Detaching BY DEF Labels, Detaching
<1>5. [frame[c] EXCEPT !.pc = "reroute_detach", !.prev = driver[frame[c].zone]] \in GoodFrame
  BY <1>1, <1>2, <1>3, <1>4, TakeGood
<1>6. frame' \in [Threads -> GoodFrame] /\ frame' \in [Threads -> Frame]
  BY <1>5, GoType, ThreadsType DEF RerouteTake
<1>7. driver' \in [Zones -> Drivers] BY DriverTypes DEF RerouteTake, IType, TypeOK
<1> QED BY <1>6, <1>7 DEF IType, TypeOK, RerouteTake, topology, airplay, sinks, manager

LEMMA RerouteInstallType ==
  ASSUME IType, NEW c \in Clients, RerouteInstall(c)
  PROVE  IType'
<1>1. /\ "reroute_reply" \in Labels \ Detaching /\ "reroute_reply" \notin Rerouting
      /\ frame[c].pc \notin Detaching /\ frame[c].pc \in Rerouting
  BY DEF Labels, Detaching, Rerouting, RerouteInstall, At
<1>2. frame' \in [Threads -> GoodFrame] /\ frame' \in [Threads -> Frame]
  BY <1>1, GotoType, ThreadsType DEF RerouteInstall
<1>3. frame[c].source \in Zones
  BY <1>1, ThreadsType DEF IType, GoodFrame
<1>4. driver' \in [Zones -> Drivers] BY <1>3, DriverTypes DEF RerouteInstall, IType, TypeOK
<1> QED BY <1>2, <1>4 DEF IType, TypeOK, RerouteInstall, topology, airplay, sinks, manager

LEMMA RerouteReplyType ==
  ASSUME IType, NEW c \in Clients, RerouteReply(c)
  PROVE  IType'
<1>1. frame' \in [Threads -> GoodFrame] /\ frame' \in [Threads -> Frame]
  BY FinishType, ThreadsType DEF RerouteReply
<1> QED BY <1>1 DEF IType, TypeOK, RerouteReply, topology, airplay, sinks, manager

(***************************************************************************)
(* Type correctness.                                                       *)
(***************************************************************************)

LEMMA InitType == ASSUME Init PROVE IType
<1>1. /\ AtRest("idle") \in GoodFrame /\ AtRest("off") \in GoodFrame
      /\ AtRest("parked") \in GoodFrame
  BY AtRestGood DEF Labels, Rerouting
<1>2. frame \in [Threads -> GoodFrame] BY <1>1 DEF Init
<1>3. frame \in [Threads -> Frame] BY <1>2 DEF GoodFrame
<1>4. \A s \in Zones : IdleSource(s) \in Source BY DEF IdleSource, Source
<1>5. /\ src \in [Zones -> Source] /\ driver \in [Zones -> Drivers]
      /\ recv \in [Zones -> {"none", "run", "stopping"}]
  BY <1>4, DriverTypes DEF Init
<1>6. pool \in Pools BY DEF Init, EmptyPool, Pools
<1>7. pipe \in [Pipelines -> Pipe] BY DEF Init, NoPipe, Pipe
<1>8. outputs \in [Zones -> SUBSET (Dongles \cup {Local})] BY DEF Init
<1>9. zones \subseteq Zones /\ used \subseteq Zones /\ sources \subseteq Zones
  BY ZoneAssumption DEF Init
<1> QED BY <1>2, <1>3, <1>5, <1>6, <1>7, <1>8, <1>9 DEF Init, IType, TypeOK

LEMMA StepType == ASSUME IType, [Next]_vars PROVE IType'
<1>1. ASSUME NEW c \in Clients, Start(c) PROVE IType'
  BY <1>1, PlaySnapshotType, StopTakeType, CreateZoneType, RenameZoneType,
     DeleteRemoveType, RegisterDongleType, SetZoneOutputsType, RerouteValidateType
     DEF Start
<1>2. ASSUME NEW c \in Clients, Continue(c) PROVE IType'
  BY <1>2, PlayResolveType, PlayTakeType, PlayInstallType, StopReleaseType,
     RegisterZoneType, DeleteReleaseType, SnapshotZonesType, ReconcileSourcesType,
     ManagerKillType, ManagerSpawnType,
     RerouteZoneType, RerouteResolveType, ReroutePointType, RerouteLeaveType,
     RerouteReleaseType, RerouteTakeType, RerouteInstallType, RerouteReplyType
     DEF Continue
<1>3. ASSUME NEW s \in Zones, Session(s) PROVE IType'
  BY <1>3, BeganSourceType, BeganZoneType, ChunkResolveType, ChunkCacheType,
     EndedSourceType, EndedZoneType, EndedReleaseType DEF Session
<1>4. ASSUME NEW t \in Threads, Detach(t) PROVE IType'
  BY <1>4, DetachNothingType, SignalUrlType, JoinUrlType, DetachAirplayType DEF Detach
<1>5. CASE UNCHANGED vars
  BY <1>5 DEF IType, TypeOK, vars, topology, airplay, sinks, manager
<1> QED BY <1>1, <1>2, <1>3, <1>4, <1>5, ManagerLockType, PumpOpenType, PumpQuitType,
           ChunkSnapshotType, PumpEofType, DecodeStopsType, DecodeEndsType,
           DongleOfflineType DEF Next

\* Every variable of the engine keeps its type, whatever calls overlap: in
\* particular a call that shuts a driver down always holds one that some zone had.
THEOREM TypeCorrect == Spec => []TypeOK
<1>1. IType => TypeOK BY DEF IType
<1> QED BY <1>1, InitType, StepType, PTL DEF Spec

(***************************************************************************)
(* One stream per zone.                                                    *)
(***************************************************************************)

LEMMA StepOneStream ==
  ASSUME IType, OneStreamPerZone, [Next]_vars PROVE OneStreamPerZone'
<1>1. ASSUME NEW z, pool' = Release(pool, z) PROVE OneStreamPerZone'
  BY <1>1, ReleaseKeepsOne DEF OneStreamPerZone, IType, TypeOK
<1>2. ASSUME NEW t \in Threads, NEW k, ZoneSink(frame[t].zone, frame[t].outs, k)
      PROVE  OneStreamPerZone'
  <2>1. frame[t].zone \in Zones \cup {None} BY DEF IType, TypeOK, Frame
  <2> QED BY <1>2, <2>1, ZoneSinkKeepsOne DEF IType
<1>3. CASE UNCHANGED pool BY <1>3 DEF OneStreamPerZone
<1>4. ASSUME NEW c \in Clients, Start(c) PROVE OneStreamPerZone'
  BY <1>3, <1>4 DEF Start, PlaySnapshot, StopTake, CreateZone, RenameZone, DeleteRemove,
     RegisterDongle, SetZoneOutputs, RerouteValidate, sinks
<1>5. ASSUME NEW c \in Clients, Continue(c) PROVE OneStreamPerZone'
  <2>1. CASE PlayResolve(c) \/ RerouteResolve(c)
    BY <1>2, <1>3, <2>1, ThreadsType DEF PlayResolve, RerouteResolve, ZoneSinkFails
  <2>2. CASE StopRelease(c) \/ DeleteRelease(c) \/ RerouteRelease(c)
    BY <1>1, <2>2 DEF StopRelease, DeleteRelease, RerouteRelease
  <2> QED BY <1>3, <1>5, <2>1, <2>2 DEF Continue, PlayTake, PlayInstall, SnapshotZones,
          RegisterZone, ReconcileSources, ManagerKill, ManagerSpawn, RerouteZone,
          ReroutePoint, RerouteLeave, RerouteTake, RerouteInstall, RerouteReply, sinks
<1>6. ASSUME NEW s \in Zones, Session(s) PROVE OneStreamPerZone'
  <2>1. CASE ChunkResolve(s)
    BY <1>2, <1>3, <2>1, ThreadsType DEF ChunkResolve, ZoneSinkFails
  <2> QED BY <1>1, <1>3, <1>6, <2>1 DEF Session, BeganSource, BeganZone, ChunkCache,
          EndedSource, EndedZone, EndedRelease, sinks
<1>7. ASSUME NEW t \in Threads, Detach(t) PROVE OneStreamPerZone'
  BY <1>3, <1>7 DEF Detach, DetachNothing, SignalUrl, JoinUrl, DetachAirplay, sinks
<1>8. CASE UNCHANGED vars BY <1>3, <1>8 DEF vars, sinks
<1> QED BY <1>3, <1>4, <1>5, <1>6, <1>7, <1>8 DEF Next, ManagerLock, PumpOpen, PumpQuit,
        ChunkSnapshot, PumpEof, DecodeStops, DecodeEnds, DongleOffline, sinks

\* However many plays, stops, deletions, reroutes and sessions overlap, no zone
\* ever holds two of the pool's streams.
THEOREM OneStream == Spec => []OneStreamPerZone
<1>1. Init => OneStreamPerZone
  BY DEF Init, OneStreamPerZone, OneStreamEach, EmptyPool
<1> QED BY <1>1, InitType, StepType, StepOneStream, PTL DEF Spec

(***************************************************************************)
(* Who holds the handle of a decode thread.  The invariant adds to the     *)
(* types that a zone without a receiver has no pump, so that a new pump    *)
(* never overwrites a handle (ManagerSpawn).                               *)
(***************************************************************************)

OffWhenNone == \A z \in Zones : recv[z] = "none" => frame[z].pc = "off"

\* One zone drives a handle, or one call holds it (Option::take).
HandleHasOneOwner ==
  \A p \in Pipelines :
    /\ \A y, z \in Zones : driver[y] = Url(p) /\ driver[z] = Url(p) => y = z
    /\ \A t, u \in Threads :
         frame[t].prev = Url(p) /\ frame[u].prev = Url(p) => t = u
    /\ \A z \in Zones, t \in Threads :
         ~(driver[z] = Url(p) /\ frame[t].prev = Url(p))

OInv == IType /\ HandleHasOneOwner /\ ShutdownIsJoined /\ OffWhenNone

\* A step that gives no handle away and takes none.
KeepsPrevs ==
  \A t \in Threads : \/ frame'[t].prev = frame[t].prev
                     \/ frame[t].prev.kind # "url" /\ frame'[t].prev = NoDriver
KeepsDrivers ==
  \A z \in Zones : driver'[z] = driver[z] \/ driver'[z].kind # "url"
KeepsStops == \A p \in Pipelines : pipe'[p].stop => pipe[p].stop

LEMMA NoHandOver ==
  ASSUME OInv, IType', KeepsPrevs, KeepsDrivers, KeepsStops
  PROVE  HandleHasOneOwner' /\ ShutdownIsJoined'
<1>1. \A p : Url(p).kind = "url" /\ Url(p) # NoDriver BY DEF Url, NoDriver
<1>2. \A z \in Zones : \A p : driver'[z] = Url(p) => driver[z] = Url(p)
  BY <1>1 DEF KeepsDrivers
<1>3. \A t \in Threads : \A p : frame'[t].prev = Url(p) <=> frame[t].prev = Url(p)
  BY <1>1 DEF KeepsPrevs
<1>4. HandleHasOneOwner' BY <1>2, <1>3 DEF OInv, HandleHasOneOwner
<1>5. ASSUME NEW p \in Pipelines, pipe'[p].stop
      PROVE  /\ \A z \in Zones : driver'[z] # Url(p)
             /\ \E t \in Threads : frame'[t].pc \in Detaching /\ frame'[t].prev = Url(p)
  <2>1. pipe[p].stop BY <1>5 DEF KeepsStops
  <2>2. PICK t \in Threads : frame[t].prev = Url(p)
    BY <2>1 DEF OInv, ShutdownIsJoined
  <2>3. frame'[t].prev = Url(p) BY <1>3, <2>2
  <2>4. frame'[t].pc \in Detaching BY <1>1, <2>3 DEF IType, GoodFrame
  <2> QED BY <1>2, <2>1, <2>3, <2>4 DEF OInv, ShutdownIsJoined
<1> QED BY <1>4, <1>5 DEF ShutdownIsJoined

\* A step that moves the handle of zone z, if it has one, to thread t.
LEMMA HandOver ==
  ASSUME OInv, IType', NEW t \in Threads, NEW z \in Zones, NEW d, NEW f,
         d.kind # "url", driver' = [driver EXCEPT ![z] = d], UNCHANGED pipe,
         frame[t].pc \notin Detaching, f.prev = driver[z], Go(t, f)
  PROVE  HandleHasOneOwner' /\ ShutdownIsJoined'
<1>1. \A p : Url(p).kind = "url" /\ Url(p) # NoDriver BY DEF Url, NoDriver
<1>2. frame[t].prev = NoDriver BY DEF OInv, IType, GoodFrame
<1>3. \A y \in Zones : \A p : driver'[y] = Url(p) => y # z /\ driver[y] = Url(p)
  BY <1>1 DEF OInv, IType, TypeOK
<1>4. \A u \in Threads : frame'[u] = IF u = t THEN f ELSE frame[u]
  BY DEF Go, OInv, IType, TypeOK
<1>5. HandleHasOneOwner'
  BY <1>1, <1>2, <1>3, <1>4 DEF OInv, HandleHasOneOwner
<1>6. ASSUME NEW p \in Pipelines, pipe'[p].stop
      PROVE  /\ \A y \in Zones : driver'[y] # Url(p)
             /\ \E u \in Threads : frame'[u].pc \in Detaching /\ frame'[u].prev = Url(p)
  <2>1. pipe[p].stop BY <1>6
  <2>2. PICK u \in Threads : frame[u].pc \in Detaching /\ frame[u].prev = Url(p)
    BY <2>1 DEF OInv, ShutdownIsJoined
  <2>3. frame'[u] = frame[u] BY <1>1, <1>2, <1>4, <2>2
  <2> QED BY <1>3, <2>1, <2>2, <2>3 DEF OInv, ShutdownIsJoined
<1> QED BY <1>5, <1>6 DEF ShutdownIsJoined

LEMMA GoKeepsPrevs ==
  ASSUME IType, NEW t \in Threads, NEW f, Go(t, f), f.prev = NoDriver,
         frame[t].prev.kind # "url"
  PROVE  KeepsPrevs
BY DEF Go, KeepsPrevs, IType

LEMMA GotoKeepsPrevs ==
  ASSUME IType, NEW t \in Threads, NEW l, Goto(t, l)
  PROVE  KeepsPrevs
<1>1. frame[t] \in Frame BY DEF IType, TypeOK
<1>2. [frame[t] EXCEPT !.pc = l].prev = frame[t].prev BY <1>1 DEF Frame
<1>3. frame' = [frame EXCEPT ![t] = [frame[t] EXCEPT !.pc = l]] BY DEF Goto
<1> QED BY <1>2, <1>3 DEF KeepsPrevs, IType

LEMMA HoldsNothing ==
  ASSUME IType, NEW t \in Threads, frame[t].pc \notin Detaching
  PROVE  frame[t].prev = NoDriver /\ frame[t].prev.kind # "url"
BY DEF IType, GoodFrame, NoDriver

LEMMA GoKeepsOff ==
  ASSUME IType, OffWhenNone, NEW t \in Threads, NEW f, Go(t, f), UNCHANGED recv,
         t \in Clients \/ frame[t].pc # "off"
  PROVE  OffWhenNone'
BY ThreadAssumption, ThreadsType DEF Go, OffWhenNone, IType

LEMMA GotoKeepsOff ==
  ASSUME IType, OffWhenNone, NEW t \in Threads, NEW l, Goto(t, l), UNCHANGED recv,
         t \in Clients \/ frame[t].pc # "off"
  PROVE  OffWhenNone'
<1>1. Go(t, [frame[t] EXCEPT !.pc = l]) BY DEF Goto, Go
<1> QED BY <1>1, GoKeepsOff

\* The steps that move no handle, by who takes them.
LEMMA StartKeeps ==
  ASSUME OInv, IType', NEW c \in Clients, Start(c),
         ~ \E z \in Zones : StopTake(c, z) \/ DeleteRemove(c, z)
  PROVE  OInv'
<1>1. frame[c].pc \notin Detaching \/ UNCHANGED frame
  BY DEF Start, PlaySnapshot, CreateZone, RenameZone, RegisterDongle, SetZoneOutputs,
     RerouteValidate, Calls, At, Detaching
<1>2. \/ UNCHANGED frame
      \/ \E f : Go(c, f) /\ f.prev = NoDriver
  <2>1. AtRest("topo").prev = NoDriver BY DEF AtRest
  <2>2. ASSUME NEW z \in Zones, PlaySnapshot(c, z) PROVE \E f : Go(c, f) /\ f.prev = NoDriver
    <3>1. [AtRest("play_sink") EXCEPT !.zone = z, !.outs = outputs[z]].prev = NoDriver
      BY DEF AtRest
    <3> QED BY <2>2, <3>1 DEF PlaySnapshot
  <2>3. ASSUME NEW s \in Zones, NEW z \in Zones, RerouteValidate(c, s, z)
        PROVE  \E f : Go(c, f) /\ f.prev = NoDriver
    <3> DEFINE f == [AtRest(IF z = src[s].dest THEN "reroute_reply" ELSE "reroute_zone")
                       EXCEPT !.zone = z, !.source = s, !.from = src[s].dest]
    <3>1. f.prev = NoDriver BY DEF AtRest
    <3>2. Go(c, f) BY <2>3 DEF RerouteValidate
    <3> QED BY <3>1, <3>2
  <2>4. (\E z \in Zones : CreateZone(c, z) \/ RenameZone(c, z)) => Go(c, AtRest("topo"))
    BY DEF CreateZone, RenameZone
  <2>6. ASSUME NEW d \in Dongles, RegisterDongle(c, d)
        PROVE  \E f : Go(c, f) /\ f.prev = NoDriver
    <3>1. [AtRest("register_zone") EXCEPT !.zone = d].prev = NoDriver BY DEF AtRest
    <3> QED BY <2>6, <3>1 DEF RegisterDongle
  <2>5. (\E z \in Zones, outs \in SUBSET (Dongles \cup {Local}) : SetZoneOutputs(c, z, outs))
        => UNCHANGED frame
    BY DEF SetZoneOutputs
  <2> QED BY <2>1, <2>2, <2>3, <2>4, <2>5, <2>6 DEF Start
<1>3. KeepsPrevs
  BY <1>1, <1>2, GoKeepsPrevs, HoldsNothing, ThreadsType DEF KeepsPrevs, OInv
<1>4. UNCHANGED <<driver, pipe, recv>>
  BY DEF Start, PlaySnapshot, CreateZone, RenameZone, RegisterDongle, SetZoneOutputs,
     RerouteValidate, manager
<1>5. OffWhenNone'
  BY <1>2, <1>4, GoKeepsOff, ThreadsType DEF OffWhenNone, OInv
<1> QED BY <1>3, <1>4, <1>5, NoHandOver DEF OInv, KeepsDrivers, KeepsStops

LEMMA CallKeeps ==
  ASSUME OInv, IType', NEW t \in Threads, t \in Clients \/ frame[t].pc # "off",
         frame[t].pc \notin Detaching,
         \/ \E l : Goto(t, l)
         \/ \E f : Go(t, f) /\ f.prev = NoDriver,
         KeepsDrivers, UNCHANGED <<pipe, recv>>
  PROVE  OInv'
<1>1. KeepsPrevs BY GoKeepsPrevs, GotoKeepsPrevs, HoldsNothing DEF OInv
<1>2. OffWhenNone' BY GoKeepsOff, GotoKeepsOff DEF OInv
<1> QED BY <1>1, <1>2, NoHandOver DEF OInv, KeepsStops

LEMMA ManagerSpawnKeeps ==
  ASSUME OInv, IType', NEW c \in Clients, ManagerSpawn(c)
  PROVE  OInv'
<1>1. PICK made \in SUBSET {z \in frame[c].snap : recv[z] = "none"} :
        /\ recv' = [z \in Zones |-> IF z \in made THEN "run"
                                    ELSE IF recv[z] = "stopping" THEN "none"
                                    ELSE recv[z]]
        /\ frame' = [t \in Threads |-> IF t = c THEN AtRest("idle")
                                       ELSE IF t \in made THEN AtRest("parked")
                                       ELSE frame[t]]
  BY SpawnMakes
<1>2. \A l : AtRest(l).prev = NoDriver BY DEF AtRest
<1>3. made \subseteq Zones BY ThreadsType DEF OInv, IType, TypeOK, Frame
<1>4. \A t \in Threads : t = c \/ t \in made => frame[t].prev = NoDriver
  <2>1. frame[c].prev = NoDriver
    BY HoldsNothing, ThreadsType DEF OInv, ManagerSpawn, At, Detaching
  <2>2. ASSUME NEW t \in made PROVE frame[t].prev = NoDriver
    <3>1. frame[t].pc = "off" BY <1>3, <2>2 DEF OInv, OffWhenNone
    <3> QED BY <1>3, <2>2, <3>1, HoldsNothing, ThreadsType DEF OInv, Detaching
  <2> QED BY <2>1, <2>2
<1>5. KeepsPrevs BY <1>1, <1>2, <1>4 DEF KeepsPrevs
<1>6. OffWhenNone'
  BY <1>1, <1>3, ThreadAssumption, ThreadsType DEF OInv, OffWhenNone, ManagerSpawn, PumpsJoined, At
<1> QED BY <1>5, <1>6, NoHandOver DEF OInv, ManagerSpawn, KeepsDrivers, KeepsStops

LEMMA NotUrl == NoDriver.kind # "url" /\ \A s : Airplay(s).kind # "url"
BY DEF NoDriver, Airplay

LEMMA RerouteKeeps ==
  ASSUME OInv, IType', NEW c \in Clients,
         \/ RerouteZone(c) \/ RerouteResolve(c) \/ ReroutePoint(c) \/ RerouteLeave(c)
         \/ RerouteRelease(c) \/ RerouteInstall(c) \/ RerouteReply(c)
  PROVE  OInv'
<1>1. c \in Threads /\ frame[c] \in Frame BY ThreadsType DEF OInv, IType, TypeOK
<1>2. frame[c].pc \notin Detaching /\ frame[c].prev = NoDriver
  BY <1>1, HoldsNothing DEF OInv, RerouteZone, RerouteResolve, ReroutePoint, RerouteLeave,
     RerouteRelease, RerouteInstall, RerouteReply, At, Detaching
<1>4. AtRest("idle").prev = NoDriver BY DEF AtRest
<1>5. (\E l : Goto(c, l)) \/ (\E f : Go(c, f) /\ f.prev = NoDriver)
  <2>1. CASE RerouteZone(c)
    <3>1. [frame[c] EXCEPT !.pc = "reroute_sink", !.outs = outputs[frame[c].zone]].prev
            = NoDriver
      BY <1>1, <1>2 DEF Frame
    <3> QED BY <1>4, <2>1, <3>1 DEF RerouteZone, Finish
  <2>2. CASE RerouteResolve(c)
    <3>1. ASSUME NEW k \in Sinks, Go(c, [frame[c] EXCEPT !.pc = "reroute_point", !.outs = {}, !.sink = k])
          PROVE  \E f : Go(c, f) /\ f.prev = NoDriver
      <4>1. [frame[c] EXCEPT !.pc = "reroute_point", !.outs = {}, !.sink = k].prev = NoDriver
        BY <1>1, <1>2 DEF Frame
      <4> QED BY <3>1, <4>1
    <3> QED BY <1>4, <2>2, <3>1 DEF RerouteResolve, Finish
  <2>3. CASE ReroutePoint(c)
    <3>1. [frame[c] EXCEPT !.pc = "reroute_leave", !.sink = None].prev = NoDriver
      BY <1>1, <1>2 DEF Frame
    <3> QED BY <2>3, <3>1 DEF ReroutePoint
  <2> QED BY <1>4, <2>1, <2>2, <2>3
          DEF RerouteLeave, RerouteRelease, RerouteInstall, RerouteReply, Finish
<1>6. UNCHANGED <<pipe, recv>>
  BY DEF RerouteZone, RerouteResolve, ReroutePoint, RerouteLeave, RerouteRelease,
     RerouteInstall, RerouteReply, manager
<1>7. \/ UNCHANGED driver
      \/ \E z : driver' = [driver EXCEPT ![z] = NoDriver]
      \/ \E z : driver' = [driver EXCEPT ![z] = Airplay(frame[c].source)]
  BY DEF RerouteZone, RerouteResolve, ReroutePoint, RerouteLeave, RerouteRelease,
     RerouteInstall, RerouteReply
<1>8. KeepsDrivers BY <1>7, NotUrl DEF KeepsDrivers, OInv, IType, TypeOK
<1> QED BY <1>1, <1>2, <1>5, <1>6, <1>8, CallKeeps

LEMMA ContinueKeeps ==
  ASSUME OInv, IType', NEW c \in Clients,
         \/ PlayResolve(c) \/ StopRelease(c) \/ DeleteRelease(c) \/ SnapshotZones(c)
         \/ ReconcileSources(c) \/ ManagerLock(c) \/ \E d \in Dongles : RegisterZone(c, d)
  PROVE  OInv'
<1>1. c \in Threads /\ frame[c] \in Frame BY ThreadsType DEF OInv, IType, TypeOK
<1>2. frame[c].pc \notin Detaching /\ frame[c].prev = NoDriver
  BY <1>1, HoldsNothing DEF OInv, PlayResolve, StopRelease, DeleteRelease, SnapshotZones,
     ReconcileSources, ManagerLock, RegisterZone, At, Detaching
<1>4. \A l : AtRest(l).prev = NoDriver BY DEF AtRest
<1>5. (\E l : Goto(c, l)) \/ (\E f : Go(c, f) /\ f.prev = NoDriver)
  <2>1. CASE PlayResolve(c)
    <3>1. ASSUME NEW k \in Sinks, Go(c, [frame[c] EXCEPT !.pc = "play_take", !.outs = {}, !.sink = k])
          PROVE  \E f : Go(c, f) /\ f.prev = NoDriver
      <4>1. [frame[c] EXCEPT !.pc = "play_take", !.outs = {}, !.sink = k].prev = NoDriver
        BY <1>1, <1>2 DEF Frame
      <4> QED BY <3>1, <4>1
    <3> QED BY <1>4, <2>1, <3>1 DEF PlayResolve, Finish
  <2>2. CASE SnapshotZones(c)
    <3>1. [frame[c] EXCEPT !.pc = "topo_sources", !.snap = zones].prev = NoDriver
      BY <1>1, <1>2 DEF Frame
    <3> QED BY <2>2, <3>1 DEF SnapshotZones
  <2> QED BY <1>4, <2>1, <2>2 DEF StopRelease, DeleteRelease, ReconcileSources,
          ManagerLock, RegisterZone, Finish
<1>6. UNCHANGED <<pipe, recv, driver>>
  BY DEF PlayResolve, StopRelease, DeleteRelease, SnapshotZones, ReconcileSources, ManagerLock,
     RegisterZone, manager
<1> QED BY <1>1, <1>2, <1>5, <1>6, CallKeeps DEF KeepsDrivers

LEMMA ManagerKillKeeps ==
  ASSUME OInv, IType', NEW c \in Clients, ManagerKill(c)
  PROVE  OInv'
<1>1. KeepsPrevs BY DEF ManagerKill, KeepsPrevs
<1>2. \A z \in Zones : recv'[z] = "none" => recv[z] = "none" \/ recv[z] = "stopping"
  BY DEF ManagerKill, Kept
<1>3. OffWhenNone' BY <1>2 DEF ManagerKill, PumpsJoined, At, OInv, OffWhenNone
<1> QED BY <1>1, <1>3, NoHandOver DEF OInv, ManagerKill, KeepsDrivers, KeepsStops

LEMMA PumpKeeps ==
  ASSUME OInv, IType', NEW s \in Zones,
         \/ PumpOpen(s) \/ PumpQuit(s) \/ ChunkSnapshot(s) \/ PumpEof(s)
         \/ BeganSource(s) \/ ChunkResolve(s) \/ ChunkCache(s)
         \/ EndedSource(s) \/ EndedZone(s) \/ EndedRelease(s)
  PROVE  OInv'
<1> USE DEF PumpOpen, PumpQuit, ChunkSnapshot, PumpEof, BeganSource, ChunkResolve,
            ChunkCache, EndedSource, EndedZone, EndedRelease
<1>1. s \in Threads BY ThreadsType
<1>2. frame[s].pc \notin Detaching \cup {"off"} BY DEF At, Detaching
<1>3. \A l : AtRest(l).prev = NoDriver BY DEF AtRest
<1>4. (\E l : Goto(s, l)) \/ (\E f : Go(s, f) /\ f.prev = NoDriver)
  <2>1. CASE ChunkSnapshot(s)
    <3>1. [AtRest("chunk_sink") EXCEPT !.zone = src[s].dest,
                                       !.outs = outputs[src[s].dest]].prev = NoDriver
      BY DEF AtRest
    <3> QED BY <2>1, <3>1
  <2>2. CASE BeganSource(s)
    <3>1. [AtRest("began_zone") EXCEPT !.zone = src[s].dest].prev = NoDriver BY DEF AtRest
    <3> QED BY <2>2, <3>1
  <2>3. CASE ChunkResolve(s)
    <3>1. ASSUME NEW k \in Sinks, Go(s, [AtRest("chunk_cache") EXCEPT !.sink = k])
          PROVE  \E f : Go(s, f) /\ f.prev = NoDriver
      <4>1. [AtRest("chunk_cache") EXCEPT !.sink = k].prev = NoDriver BY DEF AtRest
      <4> QED BY <3>1, <4>1
    <3> QED BY <1>3, <2>3, <3>1
  <2>4. CASE EndedSource(s)
    <3>1. [AtRest("ended_zone") EXCEPT !.zone = src[s].dest].prev = NoDriver BY DEF AtRest
    <3> QED BY <1>3, <2>4, <3>1 DEF PumpLoops
  <2>5. CASE PumpOpen(s) \/ PumpQuit(s) \/ PumpEof(s) \/ EndedZone(s) BY <2>5
  <2>6. CASE ChunkCache(s) \/ EndedRelease(s) BY <1>3, <2>6 DEF PumpLoops
  <2> QED BY <2>1, <2>2, <2>3, <2>4, <2>5, <2>6
<1>5. UNCHANGED <<pipe, recv>> BY DEF manager
<1>6. UNCHANGED driver \/ \E z : driver' = [driver EXCEPT ![z] = NoDriver]
  OBVIOUS
<1>7. KeepsDrivers BY <1>6, NotUrl DEF KeepsDrivers, OInv, IType, TypeOK
<1> QED BY <1>1, <1>2, <1>4, <1>5, <1>7, CallKeeps

\* The steps that move a handle from a zone to the call that will shut it down.
LEMMA TakeKeeps ==
  ASSUME OInv, IType', NEW t \in Threads, NEW z \in Zones, NEW d, NEW f,
         d.kind # "url", driver' = [driver EXCEPT ![z] = d], UNCHANGED <<pipe, recv>>,
         frame[t].pc \notin Detaching, t \in Clients \/ frame[t].pc # "off",
         f.prev = driver[z], Go(t, f)
  PROVE  OInv'
<1>1. HandleHasOneOwner' /\ ShutdownIsJoined' BY HandOver
<1>2. OffWhenNone' BY GoKeepsOff DEF OInv
<1> QED BY <1>1, <1>2 DEF OInv

LEMMA StopTakeKeeps ==
  ASSUME OInv, IType', NEW c \in Clients, NEW z \in Zones,
         StopTake(c, z) \/ DeleteRemove(c, z)
  PROVE  OInv'
<1>1. /\ [AtRest("stop_detach") EXCEPT !.zone = z, !.prev = driver[z]].prev = driver[z]
      /\ [AtRest("delete_detach") EXCEPT !.zone = z, !.prev = driver[z]].prev = driver[z]
  BY DEF AtRest
<1>2. \E f : Go(c, f) /\ f.prev = driver[z] BY <1>1 DEF StopTake, DeleteRemove
<1>3. /\ driver' = [driver EXCEPT ![z] = NoDriver] /\ UNCHANGED <<pipe, recv>>
      /\ frame[c].pc \notin Detaching
  BY DEF StopTake, DeleteRemove, Calls, At, Detaching, manager
<1> QED BY <1>2, <1>3, NotUrl, TakeKeeps, ThreadsType

LEMMA PlayTakeKeeps ==
  ASSUME OInv, IType', NEW c \in Clients, PlayTake(c)
  PROVE  OInv'
<1> DEFINE z == frame[c].zone
<1>1. c \in Threads /\ frame[c] \in Frame /\ frame[c].pc \notin Detaching
  BY ThreadsType DEF OInv, IType, TypeOK, PlayTake, At, Detaching
<1>2. UNCHANGED <<pipe, recv>> BY DEF PlayTake, manager
<1>3. CASE /\ z \in zones /\ driver' = [driver EXCEPT ![z] = NoDriver]
           /\ Go(c, [frame[c] EXCEPT !.pc = "play_detach", !.prev = driver[z]])
  <2>1. z \in Zones BY <1>3 DEF OInv, IType, TypeOK
  <2>2. [frame[c] EXCEPT !.pc = "play_detach", !.prev = driver[z]].prev = driver[z]
    BY <1>1 DEF Frame
  <2> QED BY <1>1, <1>2, <1>3, <2>1, <2>2, NotUrl, TakeKeeps
<1>4. CASE Finish(c) /\ UNCHANGED driver
  <2>1. AtRest("idle").prev = NoDriver BY DEF AtRest
  <2> QED BY <1>1, <1>2, <1>4, <2>1, CallKeeps DEF Finish, KeepsDrivers
<1> QED BY <1>3, <1>4 DEF PlayTake

LEMMA RerouteTakeKeeps ==
  ASSUME OInv, IType', NEW c \in Clients, RerouteTake(c)
  PROVE  OInv'
<1> DEFINE z == frame[c].zone
<1>1. c \in Threads /\ frame[c] \in Frame /\ frame[c].pc \notin Detaching
  BY ThreadsType DEF OInv, IType, TypeOK, RerouteTake, At, Detaching
<1>2. z \in Zones
  BY <1>1 DEF OInv, IType, GoodFrame, RerouteTake, At, Rerouting
<1>3. [frame[c] EXCEPT !.pc = "reroute_detach", !.prev = driver[z]].prev = driver[z]
  BY <1>1 DEF Frame
<1> QED BY <1>1, <1>2, <1>3, NotUrl, TakeKeeps DEF RerouteTake, manager

LEMMA BeganZoneKeeps ==
  ASSUME OInv, IType', NEW s \in Zones, BeganZone(s)
  PROVE  OInv'
<1> DEFINE z == frame[s].zone
<1>1. /\ s \in Threads /\ frame[s] \in Frame
      /\ frame[s].pc \notin Detaching /\ frame[s].pc # "off"
  BY ThreadsType DEF OInv, IType, TypeOK, BeganZone, At, Detaching
<1>2. UNCHANGED <<pipe, recv>> BY DEF BeganZone, manager
<1>3. CASE /\ z \in zones /\ driver' = [driver EXCEPT ![z] = Airplay(s)]
           /\ Go(s, [frame[s] EXCEPT !.pc = "began_detach", !.prev = driver[z]])
  <2>1. z \in Zones BY <1>3 DEF OInv, IType, TypeOK
  <2>2. [frame[s] EXCEPT !.pc = "began_detach", !.prev = driver[z]].prev = driver[z]
    BY <1>1 DEF Frame
  <2> QED BY <1>1, <1>2, <1>3, <2>1, <2>2, NotUrl, TakeKeeps
<1>4. CASE Go(s, AtRest("session")) /\ UNCHANGED driver
  <2>1. AtRest("session").prev = NoDriver BY DEF AtRest
  <2> QED BY <1>1, <1>2, <1>4, <2>1, CallKeeps DEF KeepsDrivers
<1> QED BY <1>3, <1>4 DEF BeganZone

\* play installs a new pipeline: its handle is nobody's yet.
LEMMA PlayInstallKeeps ==
  ASSUME OInv, IType', NEW c \in Clients, PlayInstall(c)
  PROVE  OInv'
<1> DEFINE z == frame[c].zone
<1>1. c \in Threads /\ frame[c].pc \notin Detaching
  BY ThreadsType DEF PlayInstall, At, Detaching
<1>2. Go(c, AtRest("idle")) /\ AtRest("idle").prev = NoDriver
  BY DEF PlayInstall, Finish, AtRest
<1>3. KeepsPrevs BY <1>1, <1>2, GoKeepsPrevs, HoldsNothing DEF OInv
<1>4. OffWhenNone' BY <1>1, <1>2, GoKeepsOff DEF OInv, PlayInstall, manager
<1>5. CASE UNCHANGED <<driver, pipe>>
  BY <1>3, <1>4, <1>5, NoHandOver DEF OInv, KeepsDrivers, KeepsStops
<1>6. ASSUME NEW p \in Pipelines, z \in zones, Fresh(p),
             pipe' = [pipe EXCEPT ![p] = [state |-> "run", stop |-> FALSE,
                                          zone |-> z, sink |-> frame[c].sink]],
             driver' = [driver EXCEPT ![z] = Url(p)]
      PROVE  HandleHasOneOwner' /\ ShutdownIsJoined'
  <2>1. /\ \A q : Url(q).kind = "url" /\ Url(q) # NoDriver
        /\ \A q, r : Url(q) = Url(r) => q = r
    BY DEF Url, NoDriver
  <2>2. \A y \in Zones : \A q : driver'[y] = Url(q) =>
          IF y = z THEN q = p ELSE driver[y] = Url(q)
    BY <1>6, <2>1 DEF OInv, IType, TypeOK
  <2>3. \A t \in Threads : \A q : frame'[t].prev = Url(q) <=> frame[t].prev = Url(q)
    BY <1>3, <2>1 DEF KeepsPrevs
  <2>4. HandleHasOneOwner'
    BY <1>6, <2>2, <2>3 DEF OInv, HandleHasOneOwner, Fresh
  <2>5. ASSUME NEW q \in Pipelines, pipe'[q].stop
        PROVE  /\ \A y \in Zones : driver'[y] # Url(q)
               /\ \E t \in Threads : frame'[t].pc \in Detaching /\ frame'[t].prev = Url(q)
    <3>1. q # p /\ pipe[q].stop BY <1>6, <2>5 DEF OInv, IType, TypeOK
    <3>2. PICK t \in Threads : frame[t].prev = Url(q)
      BY <3>1 DEF OInv, ShutdownIsJoined
    <3>3. frame'[t].prev = Url(q) BY <2>3, <3>2
    <3>4. frame'[t].pc \in Detaching BY <2>1, <3>3 DEF IType, GoodFrame
    <3> QED BY <2>2, <3>1, <3>3, <3>4 DEF OInv, ShutdownIsJoined
  <2> QED BY <2>4, <2>5 DEF ShutdownIsJoined
<1>7. CASE ~UNCHANGED <<driver, pipe>>
  BY <1>4, <1>6, <1>7 DEF PlayInstall, OInv
<1> QED BY <1>5, <1>7

LEMMA SignalUrlKeeps ==
  ASSUME OInv, IType', NEW t \in Threads, SignalUrl(t)
  PROVE  OInv'
<1> DEFINE p == frame[t].prev.id
<1>1. \A q : Url(q).id = q BY DEF Url
<1>2. frame[t].prev = Url(p)
  BY NotUrl DEF SignalUrl, OInv, IType, TypeOK, Frame, Drivers, Url, NoDriver, Airplay
<1>3. ASSUME NEW q \in Pipelines, pipe'[q].stop
      PROVE  /\ \A z \in Zones : driver[z] # Url(q)
             /\ \E u \in Threads : frame[u].pc \in Detaching /\ frame[u].prev = Url(q)
  <2>1. CASE q = p
    BY <1>2, <2>1 DEF SignalUrl, OInv, HandleHasOneOwner
  <2>2. CASE q # p
    <3>1. pipe[q].stop BY <1>3, <2>2 DEF SignalUrl, OInv, IType, TypeOK
    <3> QED BY <3>1 DEF OInv, ShutdownIsJoined
  <2> QED BY <2>1, <2>2
<1>4. UNCHANGED <<frame, driver, recv>> BY DEF SignalUrl, manager
<1> QED BY <1>3, <1>4 DEF OInv, HandleHasOneOwner, ShutdownIsJoined, OffWhenNone

LEMMA JoinUrlKeeps ==
  ASSUME OInv, IType', NEW t \in Threads, JoinUrl(t)
  PROVE  OInv'
<1> DEFINE p == frame[t].prev.id
<1>1. \A q : Url(q).kind = "url" /\ Url(q) # NoDriver BY DEF Url, NoDriver
<1>2. frame[t].prev = Url(p)
  BY NotUrl DEF JoinUrl, OInv, IType, TypeOK, Frame, Drivers, Url, NoDriver, Airplay
<1>3. frame[t] \in GoodFrame /\ frame[t].pc \in Detaching BY DEF JoinUrl, OInv, IType
<1>4. AfterDetach(frame[t]).prev = NoDriver BY <1>3, AfterDetachGood
<1>5. \A u \in Threads : frame'[u] = IF u = t THEN AfterDetach(frame[t]) ELSE frame[u]
  BY DEF JoinUrl, Go, OInv, IType
<1>6. \A u \in Threads : \A q : frame'[u].prev = Url(q) => u # t /\ frame[u].prev = Url(q)
  BY <1>1, <1>4, <1>5
<1>7. UNCHANGED <<driver, recv>> BY DEF JoinUrl, manager
<1>8. HandleHasOneOwner' BY <1>6, <1>7 DEF OInv, HandleHasOneOwner
<1>9. ASSUME NEW q \in Pipelines, pipe'[q].stop
      PROVE  /\ \A z \in Zones : driver'[z] # Url(q)
             /\ \E u \in Threads : frame'[u].pc \in Detaching /\ frame'[u].prev = Url(q)
  <2>1. q # p /\ pipe[q].stop
    BY <1>9 DEF JoinUrl, NoPipe, OInv, IType, TypeOK
  <2>2. PICK u \in Threads : frame[u].pc \in Detaching /\ frame[u].prev = Url(q)
    BY <2>1 DEF OInv, ShutdownIsJoined
  <2>3. u # t BY <1>2, <2>1, <2>2 DEF Url
  <2>4. frame'[u] = frame[u] BY <1>5, <2>3
  <2> QED BY <1>7, <2>1, <2>2, <2>4 DEF OInv, ShutdownIsJoined
<1>10. frame[t].pc # "off" BY <1>3 DEF Detaching
<1>11. OffWhenNone' BY <1>7, <1>10, GoKeepsOff DEF JoinUrl, OInv
<1> QED BY <1>8, <1>9, <1>11 DEF OInv, ShutdownIsJoined

LEMMA DetachOtherKeeps ==
  ASSUME OInv, IType', NEW t \in Threads, DetachNothing(t) \/ DetachAirplay(t)
  PROVE  OInv'
<1>1. frame[t] \in GoodFrame /\ frame[t].pc \in Detaching
  BY DEF DetachNothing, DetachAirplay, OInv, IType
<1>2. AfterDetach(frame[t]).prev = NoDriver BY <1>1, AfterDetachGood
<1>3. frame[t].prev.kind # "url" BY NotUrl DEF DetachNothing, DetachAirplay
<1>4. Go(t, AfterDetach(frame[t])) BY DEF DetachNothing, DetachAirplay
<1>5. UNCHANGED <<driver, pipe, recv>> BY DEF DetachNothing, DetachAirplay, manager
<1>6. KeepsPrevs BY <1>2, <1>3, <1>4, GoKeepsPrevs DEF OInv
<1>7. frame[t].pc # "off" BY <1>1 DEF Detaching
<1>8. OffWhenNone' BY <1>4, <1>5, <1>7, GoKeepsOff DEF OInv
<1> QED BY <1>5, <1>6, <1>8, NoHandOver DEF OInv, KeepsDrivers, KeepsStops

LEMMA DecodeKeeps ==
  ASSUME OInv, IType', NEW p \in Pipelines, DecodeStops(p) \/ DecodeEnds(p)
  PROVE  OInv'
<1>1. \A q \in Pipelines : pipe'[q].stop = pipe[q].stop
  BY DEF DecodeStops, DecodeEnds, OInv, IType, TypeOK, Pipe
<1>2. UNCHANGED <<driver, frame, recv>> BY DEF DecodeStops, DecodeEnds, manager
<1> QED BY <1>1, <1>2 DEF OInv, HandleHasOneOwner, ShutdownIsJoined, OffWhenNone

LEMMA InitOwned == ASSUME Init PROVE OInv
<1>1. \A p : NoDriver # Url(p) BY DEF NoDriver, Url
<1>2. \A t \in Threads : frame[t].prev = NoDriver BY DEF Init, AtRest
<1>3. \A p \in Pipelines : ~pipe[p].stop BY DEF Init, NoPipe
<1>4. OffWhenNone BY ThreadAssumption, ThreadsType DEF Init, OffWhenNone, AtRest
<1>5. HandleHasOneOwner BY <1>1, <1>2 DEF HandleHasOneOwner, Init
<1> QED BY <1>3, <1>4, <1>5, InitType DEF OInv, ShutdownIsJoined

LEMMA StepOwned == ASSUME OInv, [Next]_vars PROVE OInv'
<1>1. IType' BY StepType DEF OInv
<1>2. ASSUME NEW c \in Clients, Start(c) PROVE OInv'
  BY <1>1, <1>2, StartKeeps, StopTakeKeeps
<1>3. ASSUME NEW c \in Clients, Continue(c) PROVE OInv'
  BY <1>1, <1>3, ContinueKeeps, PlayTakeKeeps, PlayInstallKeeps, ManagerKillKeeps,
     ManagerSpawnKeeps, RerouteKeeps, RerouteTakeKeeps DEF Continue
<1>4. ASSUME NEW s \in Zones, Session(s) PROVE OInv'
  BY <1>1, <1>4, PumpKeeps, BeganZoneKeeps DEF Session
<1>5. ASSUME NEW t \in Threads, Detach(t) PROVE OInv'
  BY <1>1, <1>5, SignalUrlKeeps, JoinUrlKeeps, DetachOtherKeeps DEF Detach
<1>6. ASSUME UNCHANGED <<driver, pipe, frame, recv>> PROVE OInv'
  BY <1>1, <1>6 DEF OInv, HandleHasOneOwner, ShutdownIsJoined, OffWhenNone
<1>7. ASSUME NEW d \in Dongles, DongleOffline(d) PROVE OInv'
  BY <1>6, <1>7 DEF DongleOffline, manager
<1>8. CASE UNCHANGED vars BY <1>6, <1>8 DEF vars, manager
<1> QED BY <1>1, <1>2, <1>3, <1>4, <1>5, <1>7, <1>8, ContinueKeeps, PumpKeeps,
        DecodeKeeps DEF Next

\* A thread that was told to stop drives no zone, and the call that told it is
\* still waiting for it: a shutdown is never abandoned half way.
THEOREM Joined == Spec => []ShutdownIsJoined
<1>1. OInv => ShutdownIsJoined BY DEF OInv
<1> QED BY <1>1, InitOwned, StepOwned, PTL DEF Spec
-----------------------------------------------------------------------------
(***************************************************************************)
(* One call at a time.  The properties "between calls" hold when calls do  *)
(* not overlap, with the sessions of the pumps in between: one thread at a *)
(* time has the engine to itself, and what it found consistent it leaves   *)
(* consistent, or its own program point says what it still has to repair.  *)
(***************************************************************************)

Serial == MaxInFlight = 1

Busy(t)     == frame[t].pc \notin Resting
Stopping(t) == t \in Zones /\ recv[t] = "stopping"

\* Two threads are inside the engine only if one of them is a pump that is
\* being torn down ...
Alone ==
  \A t, u \in Threads :
    Busy(t) /\ Busy(u) /\ ~Stopping(t) /\ ~Stopping(u) => t = u

\* ... and such a pump has lost its source, so that all it can do is leave,
\* while the call that tears it down waits to join it.
Drained ==
  \A s \in Zones : recv[s] = "stopping" =>
    /\ frame[s].pc \in Resting \cup {"ended"}
    /\ s \notin sources
    /\ \E c \in Clients : At(c, "topo_join")

Emptied == {"play_detach", "play_install", "stop_detach", "delete_detach",
            "reroute_detach", "reroute_install"}
Pointed == {"reroute_leave", "reroute_release", "reroute_take", "reroute_detach",
            "reroute_install"}
OnAZone == {"play_sink", "play_take", "play_detach", "play_install", "chunk_sink",
            "began_zone", "reroute_sink", "reroute_point"} \cup Pointed
Asleep   == {"off", "parked", "began", "ended_zone", "ended_release"}
Deleting == {"delete_detach", "delete_release"}
Growing  == Deleting \cup {"topo", "topo_sources"}
Joining  == {"topo_manager", "topo_join"}

\* What a call still knows of the state from its earlier critical sections.
Locals(t) ==
  /\ frame[t].pc \in Emptied => driver[frame[t].zone] = NoDriver
  /\ frame[t].pc \in OnAZone => frame[t].zone \in zones
  /\ frame[t].pc \in Rerouting => frame[t].source \in sources /\ src[frame[t].source].active
  /\ frame[t].pc \in Pointed => src[frame[t].source].dest = frame[t].zone
  /\ frame[t].pc = "began_zone" => src[t].active /\ src[t].dest = frame[t].zone
  /\ frame[t].pc \in {"topo_sources"} \cup Joining => frame[t].snap = zones
  /\ frame[t].pc \in Joining => AirPlay

\* Between its sessions a pump's source is inactive, and an inactive source is
\* at home.
Sleeps == \A s \in Zones : frame[s].pc \in Asleep /\ s \in sources => ~src[s].active
AtHome == \A s \in sources : src[s].active \/ src[s].dest = s

\* Thread t is about to make s the driver of its destination, or to unroute it.
Settles(t, s) ==
  \/ frame[t].pc \in Detaching /\ frame[t].prev = Airplay(s)
  \/ t = s /\ frame[t].pc = "began_zone"
  \/ frame[t].pc \in Pointed /\ frame[t].source = s

\* Thread t has the handle of decode thread p, to shut it down.
Holds(t, p) == frame[t].pc \in Detaching /\ frame[t].prev = Url(p)

\* Thread t is on its way to bring the sources, the receivers, the pool in step.
Grows(t)      == t \in Clients /\ frame[t].pc \in Growing
Reconciles(t) == t \in Clients /\ frame[t].pc \in Growing \cup Joining
Frees(t, z)   == t \in Clients /\ frame[t].pc \in Deleting /\ frame[t].zone = z

Drives(s) == driver[src[s].dest] = Airplay(s)
Decodes(p) == driver[pipe[p].zone] = Url(p)

RoutedInv ==
  \A s \in sources : src[s].routed =>
    src[s].active /\ (Drives(s) \/ \E t \in Threads : Settles(t, s))
DecoderInv ==
  \A p \in Pipelines : pipe[p].state = "run" =>
    pipe[p].zone \in Zones /\ (Decodes(p) \/ \E t \in Threads : Holds(t, p))
SourcesInv == AirPlay => sources = zones \/ \E t \in Threads : Grows(t)
ReceiversInv ==
  \A z \in Zones : recv[z] # "none" =>
    AirPlay /\ (z \in zones \/ \E t \in Threads : Reconciles(t))
PoolInv ==
  \A k \in Slots : pool[k] # None =>
    pool[k] \in zones \/ \E t \in Threads : Frees(t, pool[k])

SInv ==
  /\ OInv /\ Alone /\ Drained
  /\ \A t \in Threads : Locals(t)
  /\ Sleeps /\ AtHome /\ RoutedInv /\ DecoderInv
  /\ SourcesInv /\ ReceiversInv /\ PoolInv

(***************************************************************************)
(* The same for the one thread t that has the engine to itself: every      *)
(* other thread is at rest, so what is left to do is left to t.            *)
(***************************************************************************)

Turn(t) ==
  /\ \A u \in Threads \ {t} : frame[u].pc \in Resting
  /\ \A s \in Zones : recv[s] # "stopping"

Playback(t) ==
  /\ Sleeps /\ AtHome
  /\ \A s \in sources : src[s].routed => src[s].active /\ (Drives(s) \/ Settles(t, s))
  /\ \A p \in Pipelines :
       pipe[p].state = "run" => pipe[p].zone \in Zones /\ (Decodes(p) \/ Holds(t, p))

Topo(t) ==
  /\ AirPlay => sources = zones \/ Grows(t)
  /\ \A z \in Zones : recv[z] # "none" => AirPlay /\ (z \in zones \/ Reconciles(t))
  /\ \A k \in Slots : pool[k] # None => pool[k] \in zones \/ Frees(t, pool[k])

Mine(t) == Locals(t) /\ Playback(t) /\ Topo(t)

\* The other threads, at rest, have nothing left to do.
LEMMA RestOwesNothing ==
  ASSUME NEW u \in Threads, frame[u].pc \in Resting
  PROVE  /\ Locals(u) /\ ~Grows(u) /\ ~Reconciles(u)
         /\ \A z : ~Frees(u, z)
         /\ \A s : ~Settles(u, s)
         /\ \A p : ~Holds(u, p)
BY DEF Resting, Locals, Grows, Reconciles, Frees, Settles, Holds, Emptied, OnAZone,
       Pointed, Rerouting, Joining, Growing, Deleting, Detaching

LEMMA RestOwesNothingNext ==
  ASSUME NEW u \in Threads, frame'[u].pc \in Resting
  PROVE  Locals(u)'
BY DEF Resting, Locals, Emptied, OnAZone, Pointed, Rerouting, Joining

LEMMA TurnIsMine ==
  ASSUME SInv, NEW t \in Threads, \A u \in Threads \ {t} : frame[u].pc \in Resting
  PROVE  Mine(t)
<1>1. \A u \in Threads : u = t \/ frame[u].pc \in Resting OBVIOUS
<1>2. Playback(t)
  <2>1. \A s : (\E u \in Threads : Settles(u, s)) => Settles(t, s)
    BY <1>1, RestOwesNothing
  <2>2. \A p : (\E u \in Threads : Holds(u, p)) => Holds(t, p)
    BY <1>1, RestOwesNothing
  <2> QED BY <2>1, <2>2 DEF SInv, Playback, RoutedInv, DecoderInv
<1>3. Topo(t)
  <2>1. (\E u \in Threads : Grows(u)) => Grows(t) BY <1>1, RestOwesNothing
  <2>2. (\E u \in Threads : Reconciles(u)) => Reconciles(t) BY <1>1, RestOwesNothing
  <2>3. \A z : (\E u \in Threads : Frees(u, z)) => Frees(t, z) BY <1>1, RestOwesNothing
  <2> QED BY <2>1, <2>2, <2>3 DEF SInv, Topo, SourcesInv, ReceiversInv, PoolInv
<1> QED BY <1>2, <1>3 DEF Mine, SInv

LEMMA MineIsInv ==
  ASSUME NEW t \in Threads, OInv', Turn(t)', Mine(t)'
  PROVE  SInv'
<1>1. \A u \in Threads : u = t \/ frame'[u].pc \in Resting BY DEF Turn
<1>2. Alone' BY <1>1 DEF Alone, Busy
<1>3. Drained' BY DEF Turn, Drained
<1>4. \A u \in Threads : Locals(u)' BY <1>1, RestOwesNothingNext DEF Mine
<1>5. Sleeps' /\ AtHome' /\ RoutedInv' /\ DecoderInv'
  BY DEF Mine, Playback, RoutedInv, DecoderInv
<1>6. SourcesInv' /\ ReceiversInv' /\ PoolInv'
  BY DEF Mine, Topo, SourcesInv, ReceiversInv, PoolInv
<1> QED BY <1>2, <1>3, <1>4, <1>5, <1>6 DEF SInv

\* While a receiver is being torn down the client that does it waits in
\* topo_join; so a thread that is inside a call elsewhere has the engine.
LEMMA BusyHasTurn ==
  ASSUME SInv, NEW t \in Threads, Busy(t), ~Stopping(t), frame[t].pc # "topo_join"
  PROVE  Turn(t)
<1>1. \A s \in Zones : recv[s] # "stopping"
  <2> SUFFICES ASSUME NEW s \in Zones, recv[s] = "stopping" PROVE FALSE OBVIOUS
  <2>1. PICK c \in Clients : frame[c].pc = "topo_join" BY DEF SInv, Drained, At
  <2>2. Busy(c) /\ ~Stopping(c)
    BY <2>1, ThreadAssumption DEF Busy, Stopping, Resting
  <2>3. c = t BY <2>2, ThreadsType DEF SInv, Alone
  <2> QED BY <2>1, <2>3
<1>2. ASSUME NEW u \in Threads \ {t} PROVE frame[u].pc \in Resting
  BY <1>1 DEF SInv, Alone, Busy, Stopping
<1> QED BY <1>1, <1>2 DEF Turn

\* A call is admitted only when no other is in progress.
LEMMA StartHasTurn ==
  ASSUME SInv, Serial, NEW t \in Threads, Admits(t), ~Stopping(t),
         frame[t].pc # "topo_join"
  PROVE  Turn(t)
<1> DEFINE S == InFlight \ {t}
<1>1. IsFiniteSet(S)
  <2>1. IsFiniteSet(Threads) BY FiniteAssumption, FS_Union DEF Threads
  <2> QED BY <2>1, FS_Subset DEF InFlight
<1>2. Cardinality(S) < 1 BY DEF Admits, Stopping, Serial
<1>3. S = {}
  <2>1. Cardinality(S) \in Nat BY <1>1, FS_CardinalityType
  <2>2. Cardinality(S) = 0 BY <1>2, <2>1
  <2> QED BY <1>1, <2>2, FS_EmptySet
<1>4. \A u \in Threads \ {t} : frame[u].pc \in Resting BY <1>3 DEF InFlight
<1>5. \A s \in Zones : recv[s] # "stopping"
  <2> SUFFICES ASSUME NEW s \in Zones, recv[s] = "stopping" PROVE FALSE OBVIOUS
  <2>1. PICK c \in Clients : frame[c].pc = "topo_join" BY DEF SInv, Drained, At
  <2>2. c = t BY <1>4, <2>1, ThreadsType DEF Resting
  <2> QED BY <2>1, <2>2
<1> QED BY <1>4, <1>5 DEF Turn

(***************************************************************************)
(* What a step changes of the thread that takes it.                        *)
(***************************************************************************)

Only(t) == \A u \in Threads \ {t} : frame'[u] = frame[u]

LEMMA GoOnly ==
  ASSUME IType, NEW t \in Threads, NEW f, Go(t, f)
  PROVE  frame'[t] = f /\ Only(t)
BY DEF IType, Go, Only

LEMMA GotoOnly ==
  ASSUME IType, NEW t \in Threads, NEW l, Goto(t, l)
  PROVE  /\ Only(t)
         /\ frame'[t].pc = l /\ frame'[t].zone = frame[t].zone
         /\ frame'[t].source = frame[t].source /\ frame'[t].snap = frame[t].snap
         /\ frame'[t].prev = frame[t].prev /\ frame'[t].from = frame[t].from
BY DEF IType, TypeOK, Frame, Goto, Only

LEMMA AtRestFields ==
  ASSUME NEW l
  PROVE  AtRest(l).pc = l /\ AtRest(l).prev = NoDriver
BY DEF AtRest

LEMMA FinishOnly ==
  ASSUME IType, NEW t \in Threads, Finish(t)
  PROVE  frame'[t].pc = "idle" /\ Only(t)
BY GoOnly, AtRestFields DEF Finish

LEMMA SinkOnly ==
  ASSUME IType, NEW t \in Threads, NEW l, NEW n,
         Go(t, [frame[t] EXCEPT !.pc = l, !.outs = {}, !.sink = n])
  PROVE  /\ Only(t)
         /\ frame'[t].pc = l /\ frame'[t].zone = frame[t].zone
         /\ frame'[t].source = frame[t].source
<1>1. frame'[t] = [frame[t] EXCEPT !.pc = l, !.outs = {}, !.sink = n] /\ Only(t) BY GoOnly
<1>2. frame[t] \in Frame BY DEF IType, TypeOK
<1> QED BY <1>1, <1>2 DEF Frame

LEMMA DriverIds ==
  /\ \A p, q : Url(p) = Url(q) => p = q
  /\ \A r, s : Airplay(r) = Airplay(s) => r = s
  /\ \A p, s : Url(p) # Airplay(s)
  /\ \A p : Url(p) # NoDriver
  /\ \A s : Airplay(s) # NoDriver
BY DEF Url, Airplay, NoDriver

\* A step that keeps zones, sources and receivers, and gives streams to zones
\* only, by a thread that is not changing the topology.
LEMMA TopoKeeps ==
  ASSUME NEW t \in Threads, Topo(t), UNCHANGED <<zones, sources, recv>>,
         \A k \in Slots : pool'[k] \in {pool[k], None} \cup zones,
         frame[t].pc \notin Growing \cup Joining
  PROVE  Topo(t)'
<1>1. ~Grows(t) /\ ~Reconciles(t) /\ \A z : ~Frees(t, z)
  BY DEF Grows, Reconciles, Frees, Growing
<1> QED BY <1>1 DEF Topo

\* A step that keeps sources and drivers, by a thread that owes them nothing.
LEMMA PlaybackKeeps ==
  ASSUME NEW t \in Threads, Playback(t), Only(t), UNCHANGED <<sources, src, driver, pipe>>,
         frame[t].pc \notin Detaching \cup Pointed \cup {"began_zone"},
         t \in sources /\ frame'[t].pc \in Asleep => ~src[t].active
  PROVE  Playback(t)'
<1>1. (\A s : ~Settles(t, s)) /\ (\A p : ~Holds(t, p)) BY DEF Settles, Holds
<1>2. Sleeps'
  BY ThreadsType DEF Playback, Sleeps, Only
<1> QED BY <1>1, <1>2 DEF Playback, AtHome, Drives, Decodes

\* A step that leaves the thread at rest, or where it knows nothing of the state.
LEMMA LocalsFree ==
  ASSUME NEW t \in Threads,
         frame'[t].pc \notin Emptied \cup OnAZone \cup Rerouting \cup {"topo_sources"}
                             \cup Joining
  PROVE  Locals(t)'
BY DEF Locals, Pointed, OnAZone, Joining

(***************************************************************************)
(* Play and stop.                                                          *)
(***************************************************************************)

\* zone_sink gives a stream to the zone it is asked for.
LEMMA SinkPool ==
  ASSUME IType, NEW z \in zones, NEW outs, NEW n, ZoneSink(z, outs, n)
  PROVE  \A k \in Slots : pool'[k] \in {pool[k], None} \cup zones
BY DEF IType, TypeOK, Pools, ZoneSink, Allocate

\* Shutting down starts by taking the driver out of its zone.
LEMMA TakePlayback ==
  ASSUME IType, NEW t \in Threads, NEW z \in Zones, Playback(t), Only(t),
         UNCHANGED <<sources, src, pipe>>, driver' = [driver EXCEPT ![z] = NoDriver],
         frame[t].pc \notin Detaching, frame'[t].pc \in Detaching,
         frame'[t].prev = driver[z],
         \A s : Settles(t, s) => Settles(t, s)'
  PROVE  Playback(t)'
<1>1. Sleeps' /\ AtHome'
  <2>1. frame'[t].pc \notin Asleep BY DEF Asleep, Detaching
  <2> QED BY <2>1, ThreadsType DEF Playback, Sleeps, AtHome, Only
<1>2. \A y \in Zones : driver'[y] = driver[y] \/ y = z BY DEF IType, TypeOK
<1>3. ASSUME NEW s \in sources, src[s].routed
      PROVE  src[s].active /\ (Drives(s)' \/ Settles(t, s)')
  <2>1. src[s].dest \in Zones BY DEF IType, TypeOK, Source
  <2> QED BY <1>2, <1>3, <2>1 DEF Playback, Drives, Settles
<1>4. ASSUME NEW p \in Pipelines, pipe[p].state = "run"
      PROVE  pipe[p].zone \in Zones /\ (Decodes(p)' \/ Holds(t, p)')
  <2>1. pipe[p].zone \in Zones /\ Decodes(p) BY <1>4 DEF Playback, Holds
  <2> QED BY <1>2, <2>1 DEF Decodes, Holds
<1> QED BY <1>1, <1>3, <1>4 DEF Playback

LEMMA PlaySnapshotMine ==
  ASSUME IType, NEW c \in Clients, NEW z \in Zones, Mine(c), PlaySnapshot(c, z)
  PROVE  Mine(c)' /\ Only(c)
<1>1. c \in Threads /\ c \notin Zones BY ThreadsType, ThreadAssumption
<1>2. frame'[c] = [AtRest("play_sink") EXCEPT !.zone = z, !.outs = outputs[z]] /\ Only(c)
  BY <1>1, GoOnly DEF PlaySnapshot
<1>3. frame'[c].pc = "play_sink" /\ frame'[c].zone = z BY <1>2 DEF AtRest
<1>4. frame[c].pc = "idle" /\ z \in zones BY DEF PlaySnapshot, Calls, At
<1>5. Locals(c)'
  BY <1>3, <1>4 DEF Locals, PlaySnapshot, topology, Emptied, Rerouting, Pointed, Joining
<1>6. Playback(c)'
  BY <1>1, <1>2, <1>3, <1>4, PlaybackKeeps
     DEF Mine, PlaySnapshot, airplay, Detaching, Pointed, Asleep
<1>7. Topo(c)'
  BY <1>1, <1>4, TopoKeeps
     DEF Mine, PlaySnapshot, topology, airplay, sinks, manager, Growing, Deleting, Joining
<1> QED BY <1>2, <1>3, <1>5, <1>6, <1>7 DEF Mine

LEMMA PlayResolveMine ==
  ASSUME IType, NEW c \in Clients, Mine(c), PlayResolve(c)
  PROVE  Mine(c)' /\ Only(c)
<1>1. c \in Threads /\ c \notin Zones BY ThreadsType, ThreadAssumption
<1>2. frame[c] \in Frame /\ frame[c].pc = "play_sink" /\ frame[c].zone \in zones
  BY <1>1 DEF IType, TypeOK, PlayResolve, At, Mine, Locals, OnAZone
<1>3. /\ Only(c)
      /\ \/ frame'[c].pc = "idle"
         \/ frame'[c].pc = "play_take" /\ frame'[c].zone = frame[c].zone
      /\ \A k \in Slots : pool'[k] \in {pool[k], None} \cup zones
  <2>1. ASSUME NEW n \in Sinks, ZoneSink(frame[c].zone, frame[c].outs, n),
               Go(c, [frame[c] EXCEPT !.pc = "play_take", !.outs = {}, !.sink = n])
        PROVE  <1>3!:
    BY <1>1, <1>2, <2>1, SinkOnly, SinkPool
  <2>2. CASE ZoneSinkFails(frame[c].zone, frame[c].outs) /\ Finish(c)
    BY <1>1, <2>2, FinishOnly DEF ZoneSinkFails
  <2> QED BY <2>1, <2>2 DEF PlayResolve
<1>4. Locals(c)'
  BY <1>2, <1>3 DEF Locals, PlayResolve, topology, Emptied, Rerouting, Pointed, OnAZone, Joining
<1>5. Playback(c)'
  BY <1>1, <1>2, <1>3, PlaybackKeeps
     DEF Mine, PlayResolve, airplay, Detaching, Pointed, Asleep
<1>6. Topo(c)'
  BY <1>1, <1>2, <1>3, TopoKeeps
     DEF Mine, PlayResolve, topology, airplay, manager, Growing, Deleting, Joining
<1> QED BY <1>3, <1>4, <1>5, <1>6 DEF Mine

LEMMA PlayTakeMine ==
  ASSUME IType, NEW c \in Clients, Mine(c), PlayTake(c)
  PROVE  Mine(c)' /\ Only(c)
<1> DEFINE z == frame[c].zone
<1>1. c \in Threads /\ c \notin Zones BY ThreadsType, ThreadAssumption
<1>2. /\ frame[c] \in Frame /\ frame[c].pc = "play_take"
      /\ z \in zones /\ zones \subseteq Zones
  BY <1>1 DEF IType, TypeOK, PlayTake, At, Mine, Locals, OnAZone
<1>3. /\ Only(c) /\ driver' = [driver EXCEPT ![z] = NoDriver]
      /\ frame'[c].pc = "play_detach" /\ frame'[c].zone = z /\ frame'[c].prev = driver[z]
  <2>1. /\ driver' = [driver EXCEPT ![z] = NoDriver]
        /\ Go(c, [frame[c] EXCEPT !.pc = "play_detach", !.prev = driver[z]])
    BY <1>2 DEF PlayTake
  <2>2. /\ Only(c)
        /\ frame'[c] = [frame[c] EXCEPT !.pc = "play_detach", !.prev = driver[z]]
    BY <1>1, <2>1, GoOnly
  <2> QED BY <1>2, <2>1, <2>2 DEF Frame
<1>4. Locals(c)'
  BY <1>2, <1>3 DEF Locals, PlayTake, topology, Rerouting, Pointed, Joining, IType, TypeOK
<1>5. Playback(c)'
  <2>1. \A s : ~Settles(c, s) BY <1>1, <1>2 DEF Settles, Detaching, Pointed
  <2> QED BY <1>1, <1>2, <1>3, <2>1, TakePlayback DEF Mine, PlayTake, airplay, Detaching
<1>6. Topo(c)'
  BY <1>1, <1>2, TopoKeeps
     DEF Mine, PlayTake, topology, airplay, sinks, manager, Growing, Deleting, Joining
<1> QED BY <1>3, <1>4, <1>5, <1>6 DEF Mine

LEMMA PlayInstallMine ==
  ASSUME IType, NEW c \in Clients, Mine(c), PlayInstall(c)
  PROVE  Mine(c)' /\ Only(c)
<1> DEFINE z == frame[c].zone
<1>1. c \in Threads /\ c \notin Zones BY ThreadsType, ThreadAssumption
<1>2. /\ frame[c].pc = "play_install" /\ z \in zones /\ zones \subseteq Zones
      /\ driver[z] = NoDriver
  BY <1>1 DEF IType, TypeOK, PlayInstall, At, Mine, Locals, OnAZone, Emptied
<1>3. frame'[c].pc = "idle" /\ Only(c) BY <1>1, FinishOnly DEF PlayInstall
<1>4. Locals(c)'
  BY <1>1, <1>3, LocalsFree DEF Emptied, OnAZone, Pointed, Rerouting, Joining
<1>5. (\A s : ~Settles(c, s)) /\ (\A p : ~Holds(c, p))
  BY <1>1, <1>2 DEF Settles, Holds, Detaching, Pointed
<1>6. ASSUME UNCHANGED <<driver, pipe>> PROVE Playback(c)'
  BY <1>1, <1>2, <1>3, <1>6, PlaybackKeeps
     DEF Mine, PlayInstall, airplay, Detaching, Pointed, Asleep
<1>7. ASSUME NEW p \in Pipelines,
             pipe' = [pipe EXCEPT ![p] = [state |-> "run", stop |-> FALSE,
                                          zone |-> z, sink |-> frame[c].sink]],
             driver' = [driver EXCEPT ![z] = Url(p)]
      PROVE  Playback(c)'
  <2>1. Sleeps' /\ AtHome'
    BY <1>1, <1>3, ThreadsType
       DEF Mine, Playback, Sleeps, AtHome, Only, PlayInstall, airplay
  <2>2. \A y \in Zones : driver'[y] = IF y = z THEN Url(p) ELSE driver[y]
    BY <1>7 DEF IType, TypeOK
  <2>3. ASSUME NEW s \in sources, src[s].routed
        PROVE  src[s].active /\ Drives(s)'
    <3>1. src[s].active /\ Drives(s) /\ src[s].dest \in Zones
      BY <1>5, <2>3 DEF Mine, Playback, IType, TypeOK, Source
    <3>2. src[s].dest # z BY <1>2, <3>1, DriverIds DEF Drives
    <3> QED BY <2>2, <3>1, <3>2 DEF Drives, PlayInstall, airplay
  <2>4. ASSUME NEW q \in Pipelines, pipe'[q].state = "run"
        PROVE  pipe'[q].zone \in Zones /\ Decodes(q)'
    <3>1. CASE q = p
      <4>1. pipe'[q].zone = z BY <1>7, <3>1 DEF IType, TypeOK
      <4> QED BY <1>2, <2>2, <3>1, <4>1 DEF Decodes
    <3>2. CASE q # p
      <4>1. pipe'[q] = pipe[q] BY <1>7, <3>2 DEF IType, TypeOK
      <4>2. pipe[q].zone \in Zones /\ Decodes(q)
        BY <1>5, <2>4, <4>1 DEF Mine, Playback
      <4>3. pipe[q].zone # z BY <1>2, <4>2, DriverIds DEF Decodes
      <4> QED BY <2>2, <4>1, <4>2, <4>3 DEF Decodes
    <3> QED BY <3>1, <3>2
  <2> QED BY <2>1, <2>3, <2>4 DEF Playback, PlayInstall, airplay
<1>8. Playback(c)' BY <1>6, <1>7 DEF PlayInstall
<1>9. Topo(c)'
  BY <1>1, <1>2, TopoKeeps
     DEF Mine, PlayInstall, topology, airplay, sinks, manager, Growing, Deleting, Joining
<1> QED BY <1>3, <1>4, <1>8, <1>9 DEF Mine

LEMMA StopTakeMine ==
  ASSUME IType, NEW c \in Clients, NEW z \in Zones, Mine(c), StopTake(c, z)
  PROVE  Mine(c)' /\ Only(c)
<1>1. c \in Threads /\ c \notin Zones BY ThreadsType, ThreadAssumption
<1>2. /\ frame'[c] = [AtRest("stop_detach") EXCEPT !.zone = z, !.prev = driver[z]]
      /\ Only(c) /\ frame[c].pc = "idle" /\ driver' = [driver EXCEPT ![z] = NoDriver]
  BY <1>1, GoOnly DEF StopTake, Calls, At
<1>3. /\ frame'[c].pc = "stop_detach" /\ frame'[c].zone = z /\ frame'[c].prev = driver[z]
  BY <1>2 DEF AtRest
<1>4. Locals(c)'
  BY <1>2, <1>3 DEF Locals, Rerouting, Pointed, OnAZone, Joining, IType, TypeOK
<1>5. Playback(c)'
  <2>1. \A s : ~Settles(c, s) BY <1>1, <1>2 DEF Settles, Detaching, Pointed
  <2> QED BY <1>1, <1>2, <1>3, <2>1, TakePlayback DEF Mine, StopTake, airplay, Detaching
<1>6. Topo(c)'
  BY <1>1, <1>2, TopoKeeps
     DEF Mine, StopTake, topology, airplay, sinks, manager, Growing, Deleting, Joining
<1> QED BY <1>2, <1>3, <1>4, <1>5, <1>6 DEF Mine

LEMMA StopReleaseMine ==
  ASSUME IType, NEW c \in Clients, Mine(c), StopRelease(c)
  PROVE  Mine(c)' /\ Only(c)
<1>1. c \in Threads /\ c \notin Zones BY ThreadsType, ThreadAssumption
<1>2. frame[c].pc = "stop_release" /\ frame'[c].pc = "idle" /\ Only(c)
  BY <1>1, FinishOnly DEF StopRelease, At
<1>3. Locals(c)'
  BY <1>1, <1>2, LocalsFree DEF Emptied, OnAZone, Pointed, Rerouting, Joining
<1>4. Playback(c)'
  BY <1>1, <1>2, PlaybackKeeps DEF Mine, StopRelease, airplay, Detaching, Pointed, Asleep
<1>5. Topo(c)'
  <2>1. \A k \in Slots : pool'[k] \in {pool[k], None} BY DEF StopRelease, Release
  <2> QED BY <1>1, <1>2, <2>1, TopoKeeps
          DEF Mine, StopRelease, topology, airplay, manager, Growing, Deleting, Joining
<1> QED BY <1>2, <1>3, <1>4, <1>5 DEF Mine

(***************************************************************************)
(* Zones and outputs.                                                      *)
(***************************************************************************)

LEMMA RegisterDongleMine ==
  ASSUME IType, NEW c \in Clients, NEW d \in Dongles, Mine(c), RegisterDongle(c, d)
  PROVE  Mine(c)' /\ Only(c)
<1>1. c \in Threads /\ c \notin Zones BY ThreadsType, ThreadAssumption
<1>2. frame[c].pc = "idle" /\ frame'[c].pc = "register_zone" /\ Only(c)
  <2>1. [AtRest("register_zone") EXCEPT !.zone = d].pc = "register_zone" BY DEF AtRest
  <2> QED BY <1>1, <2>1, GoOnly DEF RegisterDongle, Calls, At
<1>3. Locals(c)'
  BY <1>1, <1>2, LocalsFree DEF Emptied, OnAZone, Pointed, Rerouting, Joining
<1>4. Playback(c)'
  BY <1>1, <1>2, PlaybackKeeps DEF Mine, RegisterDongle, airplay, Detaching, Pointed, Asleep
<1>5. Topo(c)'
  BY <1>1, <1>2, TopoKeeps
     DEF Mine, RegisterDongle, topology, airplay, manager, Growing, Deleting, Joining
<1> QED BY <1>2, <1>3, <1>4, <1>5 DEF Mine

LEMMA GrowMine ==
  ASSUME IType, NEW c \in Clients, Mine(c), frame[c].pc \in {"idle", "register_zone"},
         \/ \E z \in Zones : CreateZone(c, z) \/ RenameZone(c, z)
         \/ \E d \in Dongles : RegisterZone(c, d)
  PROVE  Mine(c)' /\ Only(c)
<1>1. c \in Threads /\ c \notin Zones BY ThreadsType, ThreadAssumption
<1>2. frame'[c].pc = "topo" /\ Only(c)
  BY <1>1, GoOnly, AtRestFields DEF CreateZone, RenameZone, RegisterZone
<1>3. Locals(c)'
  BY <1>1, <1>2, LocalsFree DEF Emptied, OnAZone, Pointed, Rerouting, Joining
<1>4. Playback(c)'
  <2>1. UNCHANGED <<sources, src, driver, pipe>>
    BY DEF CreateZone, RenameZone, RegisterZone, airplay
  <2> QED BY <1>1, <1>2, <2>1, PlaybackKeeps DEF Mine, Detaching, Pointed, Asleep
<1>5. Topo(c)'
  <2>1. UNCHANGED <<pool, recv>> /\ zones \subseteq zones'
    BY DEF CreateZone, RenameZone, RegisterZone, sinks, manager, topology
  <2>2. Grows(c)' /\ Reconciles(c)' BY <1>2 DEF Grows, Reconciles, Growing
  <2>3. \A z : ~Frees(c, z) BY DEF Frees, Deleting
  <2> QED BY <2>1, <2>2, <2>3 DEF Mine, Topo
<1> QED BY <1>2, <1>3, <1>4, <1>5 DEF Mine

LEMMA DeleteRemoveMine ==
  ASSUME IType, NEW c \in Clients, NEW z \in Zones, Mine(c), DeleteRemove(c, z)
  PROVE  Mine(c)' /\ Only(c)
<1>1. c \in Threads /\ c \notin Zones BY ThreadsType, ThreadAssumption
<1>2. /\ frame'[c] = [AtRest("delete_detach") EXCEPT !.zone = z, !.prev = driver[z]]
      /\ Only(c) /\ frame[c].pc = "idle" /\ driver' = [driver EXCEPT ![z] = NoDriver]
  BY <1>1, GoOnly DEF DeleteRemove, Calls, At
<1>3. /\ frame'[c].pc = "delete_detach" /\ frame'[c].zone = z /\ frame'[c].prev = driver[z]
  BY <1>2 DEF AtRest
<1>4. Locals(c)'
  BY <1>2, <1>3 DEF Locals, Rerouting, Pointed, OnAZone, Joining, IType, TypeOK
<1>5. Playback(c)'
  <2>1. \A s : ~Settles(c, s) BY <1>1, <1>2 DEF Settles, Detaching, Pointed
  <2> QED BY <1>1, <1>2, <1>3, <2>1, TakePlayback DEF Mine, DeleteRemove, airplay, Detaching
<1>6. Topo(c)'
  <2>1. UNCHANGED <<pool, recv>> /\ zones' = zones \ {z}
    BY DEF DeleteRemove, sinks, manager
  <2>2. Grows(c)' /\ Reconciles(c)' /\ Frees(c, z)'
    BY <1>3 DEF Grows, Reconciles, Frees, Growing, Deleting
  <2>3. \A y : ~Frees(c, y) BY <1>2 DEF Frees, Deleting
  <2> QED BY <2>1, <2>2, <2>3 DEF Mine, Topo
<1> QED BY <1>2, <1>3, <1>4, <1>5, <1>6 DEF Mine

LEMMA DeleteReleaseMine ==
  ASSUME IType, NEW c \in Clients, Mine(c), DeleteRelease(c)
  PROVE  Mine(c)' /\ Only(c)
<1>1. c \in Threads /\ c \notin Zones BY ThreadsType, ThreadAssumption
<1>2. frame[c].pc = "delete_release" /\ frame'[c].pc = "topo" /\ Only(c)
  BY <1>1, GoOnly, AtRestFields DEF DeleteRelease, At
<1>3. Locals(c)'
  BY <1>1, <1>2, LocalsFree DEF Emptied, OnAZone, Pointed, Rerouting, Joining
<1>4. Playback(c)'
  BY <1>1, <1>2, PlaybackKeeps DEF Mine, DeleteRelease, airplay, Detaching, Pointed, Asleep
<1>5. Topo(c)'
  <2>1. UNCHANGED <<zones, recv>> /\ pool' = Release(pool, frame[c].zone)
    BY DEF DeleteRelease, topology, manager
  <2>2. \A k \in Slots : pool'[k] # None => pool'[k] = pool[k] /\ pool[k] # frame[c].zone
    BY <2>1 DEF Release
  <2>3. Grows(c)' /\ Reconciles(c)' BY <1>2 DEF Grows, Reconciles, Growing
  <2> QED BY <2>1, <2>2, <2>3 DEF Mine, Topo, Frees
<1> QED BY <1>2, <1>3, <1>4, <1>5 DEF Mine

LEMMA SnapshotZonesMine ==
  ASSUME IType, NEW c \in Clients, Mine(c), SnapshotZones(c)
  PROVE  Mine(c)' /\ Only(c)
<1>1. c \in Threads /\ c \notin Zones BY ThreadsType, ThreadAssumption
<1>2. /\ frame'[c] = [frame[c] EXCEPT !.pc = "topo_sources", !.snap = zones]
      /\ Only(c) /\ frame[c].pc = "topo"
  BY <1>1, GoOnly DEF SnapshotZones, At
<1>3. frame'[c].pc = "topo_sources" /\ frame'[c].snap = zones
  BY <1>1, <1>2 DEF IType, TypeOK, Frame
<1>4. Locals(c)'
  BY <1>3 DEF Locals, SnapshotZones, topology, Emptied, OnAZone, Rerouting, Pointed, Joining
<1>5. Playback(c)'
  BY <1>1, <1>2, <1>3, PlaybackKeeps
     DEF Mine, SnapshotZones, airplay, Detaching, Pointed, Asleep
<1>6. Topo(c)'
  <2>1. UNCHANGED <<zones, pool, recv>> BY DEF SnapshotZones, topology, sinks, manager
  <2>2. Grows(c)' /\ Reconciles(c)' BY <1>3 DEF Grows, Reconciles, Growing
  <2>3. \A y : ~Frees(c, y) BY <1>2 DEF Frees, Deleting
  <2> QED BY <2>1, <2>2, <2>3 DEF Mine, Topo
<1> QED BY <1>2, <1>3, <1>4, <1>5, <1>6 DEF Mine

LEMMA ReconcileSourcesMine ==
  ASSUME IType, NEW c \in Clients, Mine(c), ReconcileSources(c)
  PROVE  Mine(c)' /\ Only(c)
<1>1. c \in Threads /\ c \notin Zones BY ThreadsType, ThreadAssumption
<1>2. /\ frame[c].pc = "topo_sources" /\ frame[c].snap = zones /\ zones \subseteq Zones
      /\ sources' = zones
      /\ src' = [s \in Zones |-> IF s \in sources \cap zones THEN src[s] ELSE IdleSource(s)]
      /\ UNCHANGED <<zones, driver, pipe, pool, recv>>
  BY <1>1 DEF ReconcileSources, At, Mine, Locals, IType, TypeOK, topology, sinks, manager
<1>3. /\ Only(c)
      /\ IF AirPlay THEN frame'[c].pc = "topo_manager" /\ frame'[c].snap = zones
                    ELSE frame'[c].pc = "idle"
  BY <1>1, <1>2, FinishOnly, GotoOnly DEF ReconcileSources
<1>4. Locals(c)'
  BY <1>2, <1>3 DEF Locals, Emptied, OnAZone, Rerouting, Pointed, Joining
<1>5. \A s \in zones : \/ s \in sources /\ src'[s] = src[s]
                       \/ src'[s].dest = s /\ ~src'[s].active /\ ~src'[s].routed
  BY <1>2 DEF IdleSource
<1>6. Playback(c)'
  <2>1. (\A s : ~Settles(c, s)) /\ (\A p : ~Holds(c, p))
    BY <1>1, <1>2 DEF Settles, Holds, Detaching, Pointed
  <2>2. Sleeps' /\ AtHome'
    BY <1>1, <1>2, <1>3, <1>5 DEF Mine, Playback, Sleeps, AtHome, Only, Threads
  <2>3. \A s \in sources' : src'[s].routed => src'[s].active /\ Drives(s)'
    BY <1>2, <1>5, <2>1 DEF Mine, Playback, Drives
  <2>4. \A p \in Pipelines : pipe'[p].state = "run" => pipe'[p].zone \in Zones /\ Decodes(p)'
    BY <1>2, <2>1 DEF Mine, Playback, Decodes
  <2> QED BY <2>2, <2>3, <2>4 DEF Playback
<1>7. Topo(c)'
  <2>1. AirPlay => Reconciles(c)' BY <1>3 DEF Reconciles, Joining
  <2>2. \A y : ~Frees(c, y) BY <1>2 DEF Frees, Deleting
  <2> QED BY <1>2, <2>1, <2>2 DEF Mine, Topo
<1> QED BY <1>3, <1>4, <1>6, <1>7 DEF Mine

(***************************************************************************)
(* Shutting a driver down.                                                 *)
(***************************************************************************)

LEMMA AfterDetachFields ==
  ASSUME NEW f \in Frame, f.pc \in Detaching
  PROVE  \/ f.pc = "began_detach" /\ AfterDetach(f).pc = "session"
         \/ /\ AfterDetach(f).zone = f.zone /\ AfterDetach(f).source = f.source
            /\ \/ f.pc = "play_detach" /\ AfterDetach(f).pc = "play_install"
               \/ f.pc = "stop_detach" /\ AfterDetach(f).pc = "stop_release"
               \/ f.pc = "delete_detach" /\ AfterDetach(f).pc = "delete_release"
               \/ f.pc = "reroute_detach" /\ AfterDetach(f).pc = "reroute_install"
<1>1. CASE f.pc = "began_detach" BY <1>1, AtRestFields DEF AfterDetach
<1>2. CASE f.pc = "play_detach"
  <2>1. AfterDetach(f) = [f EXCEPT !.prev = NoDriver, !.pc = "play_install"]
    BY <1>2 DEF AfterDetach
  <2> QED BY <1>2, <2>1 DEF Frame
<1>3. CASE f.pc = "stop_detach"
  <2>1. AfterDetach(f) = [f EXCEPT !.prev = NoDriver, !.pc = "stop_release"]
    BY <1>3 DEF AfterDetach
  <2> QED BY <1>3, <2>1 DEF Frame
<1>4. CASE f.pc = "delete_detach"
  <2>1. AfterDetach(f) = [f EXCEPT !.prev = NoDriver, !.pc = "delete_release"]
    BY <1>4 DEF AfterDetach
  <2> QED BY <1>4, <2>1 DEF Frame
<1>5. CASE f.pc = "reroute_detach"
  <2>1. AfterDetach(f) = [f EXCEPT !.prev = NoDriver, !.pc = "reroute_install"]
    BY <1>5 DEF AfterDetach
  <2> QED BY <1>5, <2>1 DEF Frame
<1> QED BY <1>1, <1>2, <1>3, <1>4, <1>5 DEF Detaching

\* Whatever it shut down, the call goes on with the zone and the source it had.
LEMMA DetachedMine ==
  ASSUME IType, NEW t \in Threads, Mine(t), frame[t].pc \in Detaching,
         Go(t, AfterDetach(frame[t])),
         UNCHANGED <<zones, sources, driver, pool, recv>>,
         \A s \in Zones : /\ src'[s].active <=> src[s].active
                          /\ src'[s].dest = src[s].dest,
         \A s \in sources : src'[s].routed => src[s].routed /\ frame[t].prev # Airplay(s),
         \A p \in Pipelines : pipe'[p].state = "run" =>
           pipe[p].state = "run" /\ pipe'[p].zone = pipe[p].zone /\ frame[t].prev # Url(p)
  PROVE  Mine(t)' /\ Only(t)
<1> DEFINE f == frame[t]  g == frame'[t]
<1>1. frame[t] \in Frame /\ frame[t] \in GoodFrame BY DEF IType, TypeOK
<1>2. g = AfterDetach(f) /\ Only(t) BY GoOnly
<1>3. \/ f.pc = "began_detach" /\ g.pc = "session"
      \/ /\ g.zone = f.zone /\ g.source = f.source
         /\ \/ f.pc = "play_detach" /\ g.pc = "play_install"
            \/ f.pc = "stop_detach" /\ g.pc = "stop_release"
            \/ f.pc = "delete_detach" /\ g.pc = "delete_release"
            \/ f.pc = "reroute_detach" /\ g.pc = "reroute_install"
  BY <1>1, <1>2, AfterDetachFields
<1> HIDE DEF f, g
<1>4. Locals(t)'
  <2>1. CASE g.pc \in {"session", "stop_release", "delete_release"}
    BY <2>1, LocalsFree DEF g, Emptied, OnAZone, Pointed, Rerouting, Joining
  <2>2. CASE f.pc = "play_detach" /\ g.pc = "play_install" /\ g.zone = f.zone
    BY <2>2 DEF f, g, Mine, Locals, Emptied, OnAZone, Rerouting, Pointed, Joining
  <2>3. CASE /\ f.pc = "reroute_detach" /\ g.pc = "reroute_install"
             /\ g.zone = f.zone /\ g.source = f.source
    <3>1. f.source \in Zones BY <1>1, <2>3 DEF f, GoodFrame, Rerouting
    <3>2. /\ driver[f.zone] = NoDriver /\ f.zone \in zones
          /\ f.source \in sources /\ src[f.source].active /\ src[f.source].dest = f.zone
      BY <2>3 DEF f, Mine, Locals, Emptied, OnAZone, Rerouting, Pointed
    <3> QED BY <2>3, <3>1, <3>2 DEF g, Locals, Emptied, OnAZone, Joining
  <2> QED BY <1>3, <2>1, <2>2, <2>3
<1>5. Playback(t)'
  <2>1. \A s : Settles(t, s) => f.prev = Airplay(s) \/ Settles(t, s)'
    BY <1>3 DEF f, g, Settles, Detaching, Pointed
  <2>2. g.pc \notin Asleep BY <1>3 DEF Asleep
  <2>3. Sleeps'
    BY <1>2, <2>2, ThreadsType DEF g, Mine, Playback, Sleeps, Only, IType, TypeOK
  <2>4. AtHome' BY DEF Mine, Playback, AtHome, IType, TypeOK
  <2>5. ASSUME NEW s \in sources, src'[s].routed
        PROVE  src'[s].active /\ (Drives(s)' \/ Settles(t, s)')
    BY <2>1, <2>5 DEF f, Mine, Playback, Drives, IType, TypeOK
  <2>6. ASSUME NEW p \in Pipelines, pipe'[p].state = "run"
        PROVE  pipe'[p].zone \in Zones /\ Decodes(p)'
    BY <2>6 DEF Mine, Playback, Holds, Decodes
  <2> QED BY <2>3, <2>4, <2>5, <2>6 DEF Playback
<1>6. Topo(t)'
  <2>1. CASE f.pc \notin Growing \cup Joining
    BY <2>1, TopoKeeps DEF f, Mine
  <2>2. CASE f.pc = "delete_detach" /\ g.pc = "delete_release" /\ g.zone = f.zone
    <3>1. /\ Grows(t) => Grows(t)'
          /\ Reconciles(t) => Reconciles(t)'
          /\ \A z : Frees(t, z) => Frees(t, z)'
      BY <2>2 DEF f, g, Grows, Reconciles, Frees, Growing, Deleting
    <3> QED BY <3>1 DEF Mine, Topo
  <2> QED BY <1>3, <2>1, <2>2 DEF Growing, Deleting, Joining
<1> QED BY <1>2, <1>3, <1>4, <1>5, <1>6 DEF Mine, g

LEMMA DetachMine ==
  ASSUME IType, NEW t \in Threads, Mine(t), Detach(t), ~SignalUrl(t)
  PROVE  Mine(t)' /\ Only(t)
<1>1. /\ frame[t].pc \in Detaching /\ Go(t, AfterDetach(frame[t]))
      /\ UNCHANGED <<zones, sources, driver, pool, recv>>
  BY DEF Detach, DetachNothing, JoinUrl, DetachAirplay, topology, airplay, sinks, manager
<1>2. CASE DetachNothing(t)
  <2>1. frame[t].prev = NoDriver /\ UNCHANGED <<src, pipe>>
    BY <1>2 DEF DetachNothing, airplay
  <2>2. (\A s : frame[t].prev # Airplay(s)) /\ (\A p : frame[t].prev # Url(p))
    BY <2>1, DriverIds
  <2> QED BY <1>1, <2>1, <2>2, DetachedMine
<1>3. CASE JoinUrl(t)
  <2> DEFINE q == frame[t].prev.id
  <2>1. /\ frame[t].prev.kind = "url" /\ pipe' = [pipe EXCEPT ![q] = NoPipe]
        /\ UNCHANGED src
    BY <1>3 DEF JoinUrl, airplay
  <2>2. \A s : frame[t].prev # Airplay(s) BY <2>1 DEF Airplay
  <2>3. \A p \in Pipelines : pipe'[p].state = "run" => pipe'[p] = pipe[p] /\ p # q
    BY <2>1 DEF IType, TypeOK, NoPipe
  <2>4. \A p : frame[t].prev = Url(p) => p = q BY DEF Url
  <2> QED BY <1>1, <2>1, <2>2, <2>3, <2>4, DetachedMine
<1>4. CASE DetachAirplay(t)
  <2> DEFINE r == frame[t].prev.id
  <2>1. /\ frame[t].prev.kind = "airplay" /\ UNCHANGED pipe
        /\ src' = IF r \in sources
                  THEN [src EXCEPT ![r].routed = FALSE, ![r].sink = None] ELSE src
    BY <1>4 DEF DetachAirplay
  <2>2. \A p : frame[t].prev # Url(p) BY <2>1 DEF Url
  <2>3. \A s : frame[t].prev = Airplay(s) => s = r BY DEF Airplay
  <2>4. \A s \in Zones : /\ src'[s].active <=> src[s].active
                         /\ src'[s].dest = src[s].dest
    BY <2>1 DEF IType, TypeOK, Source
  <2>5. \A s \in sources : src'[s].routed => src[s].routed /\ s # r
    BY <2>1 DEF IType, TypeOK, Source
  <2> QED BY <1>1, <2>1, <2>2, <2>3, <2>4, <2>5, DetachedMine
<1> QED BY <1>2, <1>3, <1>4 DEF Detach

(***************************************************************************)
(* Sessions.                                                               *)
(***************************************************************************)

\* A pump is not a client: it neither reconciles nor deletes.
LEMMA PumpTopo ==
  ASSUME IType, NEW s \in Zones, Topo(s), UNCHANGED <<zones, sources, recv>>,
         \A k \in Slots : pool'[k] \in {pool[k], None} \cup zones
  PROVE  Topo(s)'
<1>1. ~Grows(s) /\ ~Reconciles(s) /\ \A z : ~Frees(s, z)
  BY ThreadAssumption DEF Grows, Reconciles, Frees
<1> QED BY <1>1 DEF Topo

LEMMA PumpMovesMine ==
  ASSUME IType, NEW s \in Zones, Mine(s), PumpOpen(s) \/ PumpEof(s)
  PROVE  Mine(s)' /\ Only(s)
<1>1. s \in Threads BY ThreadsType
<1>2. /\ Only(s)
      /\ \/ frame[s].pc = "parked" /\ frame'[s].pc = "began"
         \/ frame[s].pc = "session" /\ frame'[s].pc = "ended"
      /\ UNCHANGED <<zones, sources, recv, src, driver, pipe, pool>>
  BY <1>1, GotoOnly DEF PumpOpen, PumpEof, At, topology, airplay, sinks, manager
<1>3. Locals(s)'
  BY <1>1, <1>2, LocalsFree DEF Emptied, OnAZone, Pointed, Rerouting, Joining
<1>4. Playback(s)'
  <2>1. s \in sources /\ frame'[s].pc \in Asleep => ~src[s].active
    BY <1>2 DEF Mine, Playback, Sleeps, Asleep
  <2> QED BY <1>1, <1>2, <2>1, PlaybackKeeps DEF Mine, Detaching, Pointed
<1>5. Topo(s)' BY <1>2, PumpTopo DEF Mine
<1> QED BY <1>2, <1>3, <1>4, <1>5 DEF Mine

LEMMA ChunkSnapshotMine ==
  ASSUME IType, NEW s \in Zones, Mine(s), ChunkSnapshot(s)
  PROVE  Mine(s)' /\ Only(s)
<1>1. s \in Threads BY ThreadsType
<1>2. /\ frame'[s] = [AtRest("chunk_sink") EXCEPT !.zone = src[s].dest,
                                                  !.outs = outputs[src[s].dest]]
      /\ Only(s) /\ frame[s].pc = "session" /\ src[s].dest \in zones
      /\ UNCHANGED <<zones, sources, recv, src, driver, pipe, pool>>
  BY <1>1, GoOnly DEF ChunkSnapshot, At, topology, airplay, sinks, manager
<1>3. frame'[s].pc = "chunk_sink" /\ frame'[s].zone = src[s].dest BY <1>2 DEF AtRest
<1>4. Locals(s)'
  BY <1>2, <1>3 DEF Locals, Emptied, OnAZone, Rerouting, Pointed, Joining
<1>5. Playback(s)'
  BY <1>1, <1>2, <1>3, PlaybackKeeps DEF Mine, Detaching, Pointed, Asleep
<1>6. Topo(s)' BY <1>2, PumpTopo DEF Mine
<1> QED BY <1>2, <1>3, <1>4, <1>5, <1>6 DEF Mine

LEMMA ChunkResolveMine ==
  ASSUME IType, NEW s \in Zones, Mine(s), ChunkResolve(s)
  PROVE  Mine(s)' /\ Only(s)
<1>1. s \in Threads BY ThreadsType
<1>2. frame[s].pc = "chunk_sink" /\ frame[s].zone \in zones
  BY DEF ChunkResolve, At, Mine, Locals, OnAZone
<1>3. /\ Only(s) /\ frame'[s].pc \in {"session", "chunk_cache"}
      /\ \A k \in Slots : pool'[k] \in {pool[k], None} \cup zones
  <2>1. ASSUME NEW n \in Sinks, ZoneSink(frame[s].zone, frame[s].outs, n),
               Go(s, [AtRest("chunk_cache") EXCEPT !.sink = n])
        PROVE  <1>3!:
    <3>1. [AtRest("chunk_cache") EXCEPT !.sink = n].pc = "chunk_cache" BY DEF AtRest
    <3> QED BY <1>1, <1>2, <2>1, <3>1, GoOnly, SinkPool
  <2>2. CASE ZoneSinkFails(frame[s].zone, frame[s].outs) /\ Go(s, AtRest("session"))
    BY <1>1, <2>2, GoOnly, AtRestFields DEF ZoneSinkFails
  <2> QED BY <2>1, <2>2 DEF ChunkResolve
<1>4. Locals(s)'
  BY <1>1, <1>3, LocalsFree DEF Emptied, OnAZone, Pointed, Rerouting, Joining
<1>5. Playback(s)'
  BY <1>1, <1>2, <1>3, PlaybackKeeps
     DEF Mine, ChunkResolve, airplay, Detaching, Pointed, Asleep
<1>6. Topo(s)' BY <1>3, PumpTopo DEF Mine, ChunkResolve, topology, airplay, manager
<1> QED BY <1>3, <1>4, <1>5, <1>6 DEF Mine

LEMMA ChunkCacheMine ==
  ASSUME IType, NEW s \in Zones, Mine(s), ChunkCache(s)
  PROVE  Mine(s)' /\ Only(s)
<1>1. s \in Threads BY ThreadsType
<1>2. /\ Only(s) /\ frame[s].pc = "chunk_cache" /\ frame'[s].pc = "session"
      /\ UNCHANGED <<zones, sources, recv, driver, pipe, pool>>
  BY <1>1, GoOnly, AtRestFields DEF ChunkCache, At, topology, sinks, manager
<1>3. \A r \in Zones : /\ src'[r].active <=> src[r].active
                       /\ src'[r].dest = src[r].dest
                       /\ src'[r].routed <=> src[r].routed
  BY DEF ChunkCache, IType, TypeOK, Source
<1>4. Locals(s)'
  BY <1>1, <1>2, LocalsFree DEF Emptied, OnAZone, Pointed, Rerouting, Joining
<1>5. Playback(s)'
  <2>1. (\A r : ~Settles(s, r)) /\ (\A p : ~Holds(s, p))
    BY <1>2 DEF Settles, Holds, Detaching, Pointed
  <2>2. Sleeps' /\ AtHome'
    BY <1>2, <1>3, ThreadsType
       DEF Mine, Playback, Sleeps, AtHome, Only, IType, TypeOK, Asleep
  <2> QED BY <1>2, <1>3, <2>1, <2>2 DEF Mine, Playback, Drives, Decodes, IType, TypeOK
<1>6. Topo(s)' BY <1>2, PumpTopo DEF Mine
<1> QED BY <1>2, <1>4, <1>5, <1>6 DEF Mine

\* A session begins: its source is at home, in a zone that exists.
LEMMA BeganSourceMine ==
  ASSUME IType, OffWhenNone, NEW s \in Zones, Mine(s), BeganSource(s)
  PROVE  Mine(s)' /\ Only(s)
<1>1. s \in Threads /\ s \notin Clients BY ThreadsType, ThreadAssumption
<1>2. /\ frame[s].pc = "began"
      /\ UNCHANGED <<zones, sources, recv, driver, pipe, pool>>
  BY <1>1 DEF BeganSource, At, topology, sinks, manager
<1>3. Topo(s)' BY <1>2, PumpTopo DEF Mine
<1>4. (\A r : ~Settles(s, r)) /\ (\A p : ~Holds(s, p))
  BY <1>2 DEF Settles, Holds, Detaching, Pointed
<1>5. CASE s \notin sources /\ Goto(s, "session") /\ UNCHANGED src
  <2>1. frame'[s].pc = "session" /\ Only(s) BY <1>1, <1>5, GotoOnly
  <2>2. Locals(s)'
    BY <1>1, <2>1, LocalsFree DEF Emptied, OnAZone, Pointed, Rerouting, Joining
  <2>3. Playback(s)'
    BY <1>1, <1>2, <1>5, <2>1, PlaybackKeeps DEF Mine, Detaching, Pointed
  <2> QED BY <1>3, <2>1, <2>2, <2>3 DEF Mine
<1>6. CASE /\ s \in sources
           /\ src' = [src EXCEPT ![s].active = TRUE, ![s].routed = TRUE, ![s].sink = None]
           /\ Go(s, [AtRest("began_zone") EXCEPT !.zone = src[s].dest])
  <2>1. /\ frame'[s] = [AtRest("began_zone") EXCEPT !.zone = src[s].dest]
        /\ Only(s)
    BY <1>1, <1>6, GoOnly
  <2>2. frame'[s].pc = "began_zone" /\ frame'[s].zone = src[s].dest BY <2>1 DEF AtRest
  <2>3. src[s].dest = s
    BY <1>2, <1>6 DEF Mine, Playback, Sleeps, AtHome, Asleep
  <2>4. s \in zones
    <3>1. recv[s] # "none" BY <1>2 DEF OffWhenNone
    <3>2. ~Grows(s) BY <1>1 DEF Grows
    <3> QED BY <1>6, <3>1, <3>2 DEF Mine, Topo
  <2>5. /\ src'[s].active /\ src'[s].dest = src[s].dest
        /\ \A r \in Zones \ {s} : src'[r] = src[r]
    BY <1>6 DEF IType, TypeOK, Source
  <2>6. Locals(s)'
    BY <1>2, <2>2, <2>3, <2>4, <2>5 DEF Locals, Emptied, OnAZone, Rerouting, Pointed, Joining
  <2>7. Playback(s)'
    <3>1. Sleeps' /\ AtHome'
      BY <1>2, <2>1, <2>2, <2>5, ThreadsType
         DEF Mine, Playback, Sleeps, AtHome, Only, IType, TypeOK, Asleep
    <3>2. Settles(s, s)' BY <2>2 DEF Settles
    <3>3. ASSUME NEW r \in sources, src'[r].routed, r # s
          PROVE  src'[r].active /\ Drives(r)'
      <4>1. src'[r] = src[r] BY <2>5, <3>3 DEF IType, TypeOK
      <4> QED BY <1>2, <1>4, <3>3, <4>1 DEF Mine, Playback, Drives
    <3> QED BY <1>2, <1>4, <2>5, <3>1, <3>2, <3>3 DEF Mine, Playback, Decodes
  <2> QED BY <1>3, <2>1, <2>2, <2>6, <2>7 DEF Mine
<1> QED BY <1>5, <1>6 DEF BeganSource

LEMMA BeganZoneMine ==
  ASSUME IType, NEW s \in Zones, Mine(s), BeganZone(s)
  PROVE  Mine(s)' /\ Only(s)
<1> DEFINE z == frame[s].zone
<1>1. s \in Threads BY ThreadsType
<1>2. /\ frame[s].pc = "began_zone" /\ z \in zones /\ zones \subseteq Zones
      /\ src[s].active /\ src[s].dest = z /\ frame[s] \in Frame
  BY <1>1 DEF BeganZone, At, Mine, Locals, OnAZone, IType, TypeOK
<1>3. /\ driver' = [driver EXCEPT ![z] = Airplay(s)]
      /\ Go(s, [frame[s] EXCEPT !.pc = "began_detach", !.prev = driver[z]])
      /\ UNCHANGED <<zones, sources, recv, src, pipe, pool>>
  BY <1>2 DEF BeganZone, topology, airplay, sinks, manager
<1>4. /\ frame'[s] = [frame[s] EXCEPT !.pc = "began_detach", !.prev = driver[z]]
      /\ Only(s)
  BY <1>1, <1>3, GoOnly
<1>5. frame'[s].pc = "began_detach" /\ frame'[s].prev = driver[z]
  BY <1>2, <1>4 DEF Frame
<1>6. Locals(s)'
  BY <1>1, <1>5, LocalsFree DEF Emptied, OnAZone, Pointed, Rerouting, Joining
<1>7. Playback(s)'
  <2>1. Sleeps' /\ AtHome'
    BY <1>3, <1>4, <1>5, ThreadsType DEF Mine, Playback, Sleeps, AtHome, Only, Asleep
  <2>2. \A y \in Zones : driver'[y] = IF y = z THEN Airplay(s) ELSE driver[y]
    BY <1>3 DEF IType, TypeOK
  <2>3. ASSUME NEW r \in sources, src[r].routed
        PROVE  src[r].active /\ (Drives(r)' \/ Settles(s, r)')
    <3>1. CASE r = s BY <1>2, <1>3, <2>2, <3>1 DEF Drives
    <3>2. CASE r # s
      <4>1. ~Settles(s, r) BY <1>2, <3>2 DEF Settles, Detaching, Pointed
      <4>2. src[r].active /\ Drives(r) /\ src[r].dest \in Zones
        BY <2>3, <4>1 DEF Mine, Playback, IType, TypeOK, Source
      <4> QED BY <1>3, <1>5, <2>2, <4>2 DEF Drives, Settles, Detaching
    <3> QED BY <3>1, <3>2
  <2>4. ASSUME NEW p \in Pipelines, pipe[p].state = "run"
        PROVE  pipe[p].zone \in Zones /\ (Decodes(p)' \/ Holds(s, p)')
    <3>1. ~Holds(s, p) BY <1>2 DEF Holds, Detaching
    <3>2. pipe[p].zone \in Zones /\ Decodes(p) BY <2>4, <3>1 DEF Mine, Playback
    <3> QED BY <1>3, <1>5, <2>2, <3>2 DEF Decodes, Holds, Detaching
  <2> QED BY <1>3, <2>1, <2>3, <2>4 DEF Playback
<1>8. Topo(s)' BY <1>3, PumpTopo DEF Mine
<1> QED BY <1>4, <1>5, <1>6, <1>7, <1>8 DEF Mine

LEMMA PumpLoopsOnly ==
  ASSUME IType, NEW s \in Zones, PumpLoops(s)
  PROVE  frame'[s].pc \in {"parked", "off"} /\ Only(s)
BY GoOnly, AtRestFields, ThreadsType DEF PumpLoops

\* A session ends: its source is reset, and at home whatever it was rerouted to.
LEMMA EndedSourceMine ==
  ASSUME IType, NEW s \in Zones, Mine(s), EndedSource(s)
  PROVE  Mine(s)' /\ Only(s)
<1>1. s \in Threads BY ThreadsType
<1>2. /\ frame[s].pc = "ended"
      /\ UNCHANGED <<zones, sources, recv, driver, pipe, pool>>
  BY <1>1 DEF EndedSource, At, topology, sinks, manager
<1>3. Topo(s)' BY <1>2, PumpTopo DEF Mine
<1>4. (\A r : ~Settles(s, r)) /\ (\A p : ~Holds(s, p))
  BY <1>2 DEF Settles, Holds, Detaching, Pointed
<1>5. CASE s \notin sources /\ PumpLoops(s) /\ UNCHANGED src
  <2>1. frame'[s].pc \in {"parked", "off"} /\ Only(s) BY <1>5, PumpLoopsOnly
  <2>2. Locals(s)'
    BY <1>1, <2>1, LocalsFree DEF Emptied, OnAZone, Pointed, Rerouting, Joining
  <2>3. Playback(s)'
    BY <1>1, <1>2, <1>5, <2>1, PlaybackKeeps DEF Mine, Detaching, Pointed
  <2> QED BY <1>3, <2>1, <2>2, <2>3 DEF Mine
<1>6. CASE /\ s \in sources /\ src' = [src EXCEPT ![s] = IdleSource(s)]
           /\ Go(s, [AtRest("ended_zone") EXCEPT !.zone = src[s].dest])
  <2>1. /\ frame'[s] = [AtRest("ended_zone") EXCEPT !.zone = src[s].dest]
        /\ Only(s)
    BY <1>1, <1>6, GoOnly
  <2>2. frame'[s].pc = "ended_zone" BY <2>1 DEF AtRest
  <2>3. /\ ~src'[s].active /\ ~src'[s].routed /\ src'[s].dest = s
        /\ \A r \in Zones \ {s} : src'[r] = src[r]
    BY <1>6 DEF IType, TypeOK, IdleSource
  <2>4. Locals(s)'
    BY <1>1, <2>2, LocalsFree DEF Emptied, OnAZone, Pointed, Rerouting, Joining
  <2>5. Playback(s)'
    <3>1. Sleeps' /\ AtHome'
      BY <1>2, <2>1, <2>2, <2>3, ThreadsType
         DEF Mine, Playback, Sleeps, AtHome, Only, IType, TypeOK
    <3>2. ASSUME NEW r \in sources, src'[r].routed
          PROVE  src'[r].active /\ Drives(r)'
      <4>1. src'[r] = src[r] BY <2>3, <3>2 DEF IType, TypeOK
      <4> QED BY <1>2, <1>4, <3>2, <4>1 DEF Mine, Playback, Drives
    <3> QED BY <1>2, <1>4, <3>1, <3>2 DEF Mine, Playback, Decodes
  <2> QED BY <1>3, <2>1, <2>2, <2>4, <2>5 DEF Mine
<1> QED BY <1>5, <1>6 DEF EndedSource

LEMMA EndedZoneMine ==
  ASSUME IType, NEW s \in Zones, Mine(s), EndedZone(s)
  PROVE  Mine(s)' /\ Only(s)
<1> DEFINE z == frame[s].zone
<1>1. s \in Threads BY ThreadsType
<1>2. /\ frame[s].pc = "ended_zone" /\ frame'[s].pc = "ended_release" /\ Only(s)
      /\ driver' = IF driver[z] = Airplay(s) THEN [driver EXCEPT ![z] = NoDriver] ELSE driver
      /\ UNCHANGED <<zones, sources, recv, src, pipe, pool>>
  BY <1>1, GotoOnly DEF EndedZone, At, topology, airplay, sinks, manager
<1>3. Locals(s)'
  BY <1>1, <1>2, LocalsFree DEF Emptied, OnAZone, Pointed, Rerouting, Joining
<1>4. Playback(s)'
  <2>1. (\A r : ~Settles(s, r)) /\ (\A p : ~Holds(s, p))
    BY <1>2 DEF Settles, Holds, Detaching, Pointed
  <2>2. Sleeps' /\ AtHome'
    BY <1>2, ThreadsType DEF Mine, Playback, Sleeps, AtHome, Only, Asleep
  <2>3. \A y \in Zones : \/ driver'[y] = driver[y]
                         \/ driver[y] = Airplay(s)
    BY <1>2 DEF IType, TypeOK
  <2>4. ASSUME NEW r \in sources, src[r].routed
        PROVE  src[r].active /\ Drives(r)'
    <3>1. src[r].active /\ Drives(r) /\ src[r].dest \in Zones
      BY <2>1, <2>4 DEF Mine, Playback, IType, TypeOK, Source
    <3>2. r # s BY <1>2, <3>1 DEF Mine, Playback, Sleeps, Asleep
    <3> QED BY <1>2, <2>3, <3>1, <3>2, DriverIds DEF Drives
  <2>5. ASSUME NEW p \in Pipelines, pipe[p].state = "run"
        PROVE  pipe[p].zone \in Zones /\ Decodes(p)'
    BY <1>2, <2>1, <2>3, <2>5, DriverIds DEF Mine, Playback, Decodes
  <2> QED BY <1>2, <2>2, <2>4, <2>5 DEF Playback
<1>5. Topo(s)' BY <1>2, PumpTopo DEF Mine
<1> QED BY <1>2, <1>3, <1>4, <1>5 DEF Mine

LEMMA EndedReleaseMine ==
  ASSUME IType, NEW s \in Zones, Mine(s), EndedRelease(s)
  PROVE  Mine(s)' /\ Only(s)
<1>1. s \in Threads BY ThreadsType
<1>2. /\ frame[s].pc = "ended_release" /\ pool' = Release(pool, frame[s].zone)
      /\ UNCHANGED <<zones, sources, recv, src, driver, pipe>>
  BY DEF EndedRelease, At, topology, airplay, manager
<1>3. frame'[s].pc \in {"parked", "off"} /\ Only(s) BY PumpLoopsOnly DEF EndedRelease
<1>4. Locals(s)'
  BY <1>1, <1>3, LocalsFree DEF Emptied, OnAZone, Pointed, Rerouting, Joining
<1>5. Playback(s)'
  <2>1. s \in sources => ~src[s].active
    BY <1>2 DEF Mine, Playback, Sleeps, Asleep
  <2> QED BY <1>1, <1>2, <1>3, <2>1, PlaybackKeeps DEF Mine, Detaching, Pointed
<1>6. Topo(s)'
  <2>1. \A k \in Slots : pool'[k] \in {pool[k], None} BY <1>2 DEF Release
  <2> QED BY <1>2, <2>1, PumpTopo DEF Mine
<1> QED BY <1>3, <1>4, <1>5, <1>6 DEF Mine

(***************************************************************************)
(* Reroute.                                                                *)
(***************************************************************************)

LEMMA RerouteValidateMine ==
  ASSUME IType, NEW c \in Clients, NEW s \in Zones, NEW z \in Zones, Mine(c),
         RerouteValidate(c, s, z)
  PROVE  Mine(c)' /\ Only(c)
<1> DEFINE l == IF z = src[s].dest THEN "reroute_reply" ELSE "reroute_zone"
<1>1. c \in Threads /\ c \notin Zones BY ThreadsType, ThreadAssumption
<1>2. /\ Go(c, [AtRest(l) EXCEPT !.zone = z, !.source = s, !.from = src[s].dest])
      /\ frame[c].pc = "idle" /\ s \in sources /\ src[s].active
      /\ UNCHANGED <<zones, sources, recv, src, driver, pipe, pool>>
  BY DEF RerouteValidate, Calls, At, topology, airplay, sinks, manager
<1> HIDE DEF l
<1>3. /\ frame'[c] = [AtRest(l) EXCEPT !.zone = z, !.source = s, !.from = src[s].dest]
      /\ Only(c)
  BY <1>1, <1>2, GoOnly
<1>4. frame'[c].pc = l /\ frame'[c].source = s BY <1>3 DEF AtRest
<1>5. l \in {"reroute_reply", "reroute_zone"} BY DEF l
<1>6. Locals(c)'
  BY <1>2, <1>4, <1>5 DEF Locals, Emptied, OnAZone, Rerouting, Pointed, Joining
<1>7. Playback(c)'
  BY <1>1, <1>2, <1>3, <1>4, <1>5, PlaybackKeeps DEF Mine, Detaching, Pointed, Asleep
<1>8. Topo(c)'
  BY <1>1, <1>2, TopoKeeps DEF Mine, Growing, Deleting, Joining
<1> QED BY <1>3, <1>4, <1>5, <1>6, <1>7, <1>8 DEF Mine

LEMMA RerouteZoneMine ==
  ASSUME IType, NEW c \in Clients, Mine(c), RerouteZone(c)
  PROVE  Mine(c)' /\ Only(c)
<1> DEFINE z == frame[c].zone
<1>1. c \in Threads /\ c \notin Zones BY ThreadsType, ThreadAssumption
<1>2. /\ frame[c].pc = "reroute_zone" /\ frame[c] \in Frame
      /\ UNCHANGED <<zones, sources, recv, src, driver, pipe, pool>>
  BY <1>1 DEF RerouteZone, At, IType, TypeOK, topology, airplay, sinks, manager
<1>3. /\ Only(c)
      /\ \/ frame'[c].pc = "idle"
         \/ /\ frame'[c].pc = "reroute_sink" /\ frame'[c].zone = z /\ z \in zones
            /\ frame'[c].source = frame[c].source
  <2>1. CASE /\ z \in zones
             /\ Go(c, [frame[c] EXCEPT !.pc = "reroute_sink", !.outs = outputs[z]])
    <3>1. /\ frame'[c] = [frame[c] EXCEPT !.pc = "reroute_sink", !.outs = outputs[z]]
          /\ Only(c)
      BY <1>1, <2>1, GoOnly
    <3> QED BY <1>2, <2>1, <3>1 DEF Frame
  <2>2. CASE Finish(c) BY <1>1, <2>2, FinishOnly
  <2> QED BY <2>1, <2>2 DEF RerouteZone
<1>4. Locals(c)'
  BY <1>2, <1>3 DEF Mine, Locals, Emptied, OnAZone, Rerouting, Pointed, Joining
<1>5. Playback(c)'
  BY <1>1, <1>2, <1>3, PlaybackKeeps DEF Mine, Detaching, Pointed, Asleep
<1>6. Topo(c)'
  BY <1>1, <1>2, TopoKeeps DEF Mine, Growing, Deleting, Joining
<1> QED BY <1>3, <1>4, <1>5, <1>6 DEF Mine

LEMMA RerouteResolveMine ==
  ASSUME IType, NEW c \in Clients, Mine(c), RerouteResolve(c)
  PROVE  Mine(c)' /\ Only(c)
<1>1. c \in Threads /\ c \notin Zones BY ThreadsType, ThreadAssumption
<1>2. /\ frame[c].pc = "reroute_sink" /\ frame[c].zone \in zones
      /\ UNCHANGED <<zones, sources, recv, src, driver, pipe>>
  BY <1>1 DEF RerouteResolve, At, Mine, Locals, OnAZone, topology, airplay, manager
<1>3. /\ Only(c)
      /\ \/ frame'[c].pc = "idle"
         \/ /\ frame'[c].pc = "reroute_point" /\ frame'[c].zone = frame[c].zone
            /\ frame'[c].source = frame[c].source
      /\ \A k \in Slots : pool'[k] \in {pool[k], None} \cup zones
  <2>1. ASSUME NEW n \in Sinks, ZoneSink(frame[c].zone, frame[c].outs, n),
               Go(c, [frame[c] EXCEPT !.pc = "reroute_point", !.outs = {}, !.sink = n])
        PROVE  <1>3!:
    BY <1>1, <1>2, <2>1, SinkOnly, SinkPool
  <2>2. CASE ZoneSinkFails(frame[c].zone, frame[c].outs) /\ Finish(c)
    BY <1>1, <2>2, FinishOnly DEF ZoneSinkFails
  <2> QED BY <2>1, <2>2 DEF RerouteResolve
<1>4. Locals(c)'
  BY <1>2, <1>3 DEF Mine, Locals, Emptied, OnAZone, Rerouting, Pointed, Joining
<1>5. Playback(c)'
  BY <1>1, <1>2, <1>3, PlaybackKeeps DEF Mine, Detaching, Pointed, Asleep
<1>6. Topo(c)'
  BY <1>1, <1>2, <1>3, TopoKeeps DEF Mine, Growing, Deleting, Joining
<1> QED BY <1>3, <1>4, <1>5, <1>6 DEF Mine

\* The source points at a zone it does not drive yet: the reroute goes on to.
LEMMA ReroutePointMine ==
  ASSUME IType, NEW c \in Clients, Mine(c), ReroutePoint(c)
  PROVE  Mine(c)' /\ Only(c)
<1> DEFINE s == frame[c].source  z == frame[c].zone
<1>1. c \in Threads /\ c \notin Zones BY ThreadsType, ThreadAssumption
<1>2. /\ frame[c].pc = "reroute_point" /\ frame[c] \in Frame /\ s \in Zones
      /\ s \in sources /\ src[s].active /\ z \in zones
  BY <1>1 DEF ReroutePoint, At, IType, TypeOK, GoodFrame, Mine, Locals, Rerouting, OnAZone
<1>3. /\ src' = [src EXCEPT ![s].dest = z, ![s].routed = TRUE, ![s].sink = frame[c].sink]
      /\ Go(c, [frame[c] EXCEPT !.pc = "reroute_leave", !.sink = None])
      /\ UNCHANGED <<zones, sources, recv, driver, pipe, pool>>
  BY <1>2 DEF ReroutePoint, topology, sinks, manager
<1>4. frame'[c] = [frame[c] EXCEPT !.pc = "reroute_leave", !.sink = None] /\ Only(c)
  BY <1>1, <1>3, GoOnly
<1>5. frame'[c].pc = "reroute_leave" /\ frame'[c].source = s /\ frame'[c].zone = z
  BY <1>2, <1>4 DEF Frame
<1>6. src'[s].dest = z /\ src'[s].active /\ \A r \in Zones \ {s} : src'[r] = src[r]
  BY <1>2, <1>3 DEF IType, TypeOK, Source
<1>7. Locals(c)'
  BY <1>2, <1>3, <1>5, <1>6 DEF Locals, Emptied, OnAZone, Pointed, Joining
<1>8. Playback(c)'
  <2>1. (\A r : ~Settles(c, r)) /\ (\A p : ~Holds(c, p))
    BY <1>1, <1>2 DEF Settles, Holds, Detaching, Pointed
  <2>2. Sleeps'
    <3>1. \A r \in Zones : src'[r].active <=> src[r].active BY <1>2, <1>6
    <3> QED BY <1>1, <1>3, <1>4, <3>1, ThreadsType DEF Mine, Playback, Sleeps, Only
  <2>3. AtHome' BY <1>3, <1>6 DEF Mine, Playback, AtHome, IType, TypeOK
  <2>4. Settles(c, s)' BY <1>5 DEF Settles, Pointed
  <2>5. ASSUME NEW r \in sources, src'[r].routed, r # s
        PROVE  src'[r].active /\ Drives(r)'
    <3>1. src'[r] = src[r] BY <1>6, <2>5 DEF IType, TypeOK
    <3> QED BY <1>3, <2>1, <2>5, <3>1 DEF Mine, Playback, Drives
  <2>6. ASSUME NEW r \in sources, src'[r].routed
        PROVE  src'[r].active /\ (Drives(r)' \/ Settles(c, r)')
    <3>1. CASE r = s
      <4>1. src'[r].active BY <1>6, <3>1
      <4>2. Settles(c, r)' BY <1>5, <3>1 DEF Settles, Pointed
      <4> QED BY <4>1, <4>2
    <3>2. CASE r # s BY <2>5, <2>6, <3>2
    <3> QED BY <3>1, <3>2
  <2>7. ASSUME NEW p \in Pipelines, pipe[p].state = "run"
        PROVE  pipe[p].zone \in Zones /\ Decodes(p)'
    BY <1>3, <2>1, <2>7 DEF Mine, Playback, Decodes
  <2> QED BY <1>3, <2>2, <2>3, <2>6, <2>7 DEF Playback
<1>9. Topo(c)'
  BY <1>1, <1>2, <1>3, TopoKeeps DEF Mine, Growing, Deleting, Joining
<1> QED BY <1>4, <1>5, <1>7, <1>8, <1>9 DEF Mine

LEMMA RerouteLeaveMine ==
  ASSUME IType, NEW c \in Clients, Mine(c), RerouteLeave(c)
  PROVE  Mine(c)' /\ Only(c)
<1> DEFINE s == frame[c].source  z == frame[c].zone  y == frame[c].from
<1>1. c \in Threads /\ c \notin Zones BY ThreadsType, ThreadAssumption
<1>2. /\ frame[c].pc = "reroute_leave"
      /\ s \in sources /\ src[s].active /\ src[s].dest = z /\ z \in zones
      /\ UNCHANGED <<zones, sources, recv, src, pipe, pool>>
  BY <1>1 DEF RerouteLeave, At, Mine, Locals, Rerouting, Pointed, OnAZone,
     topology, airplay, sinks, manager
<1>3. /\ Only(c) /\ frame'[c].pc \in {"reroute_release", "reroute_take"}
      /\ frame'[c].source = s /\ frame'[c].zone = z
  BY <1>1, GotoOnly DEF RerouteLeave
<1>4. \A x \in Zones : driver'[x] = driver[x] \/ driver[x] = Airplay(s)
  BY DEF RerouteLeave, IType, TypeOK
<1>5. Locals(c)'
  BY <1>2, <1>3 DEF Locals, Emptied, OnAZone, Pointed, Joining
<1>6. Playback(c)'
  <2>1. (\A r : Settles(c, r) <=> r = s) /\ (\A p : ~Holds(c, p)) /\ Settles(c, s)'
    BY <1>1, <1>2, <1>3 DEF Settles, Holds, Detaching, Pointed
  <2>2. Sleeps' /\ AtHome'
    BY <1>1, <1>2, <1>3, ThreadsType DEF Mine, Playback, Sleeps, AtHome, Only
  <2>3. ASSUME NEW r \in sources, src[r].routed
        PROVE  src[r].active /\ (Drives(r)' \/ Settles(c, r)')
    <3>1. CASE r = s
      <4>1. src[r].active BY <1>2, <3>1
      <4>2. Settles(c, r)' BY <1>3, <3>1 DEF Settles, Pointed
      <4> QED BY <4>1, <4>2
    <3>2. CASE r # s
      <4>1. src[r].active /\ Drives(r) /\ src[r].dest \in Zones
        BY <2>1, <2>3, <3>2 DEF Mine, Playback, IType, TypeOK, Source
      <4> QED BY <1>2, <1>4, <3>2, <4>1, DriverIds DEF Drives
    <3> QED BY <3>1, <3>2
  <2>4. ASSUME NEW p \in Pipelines, pipe[p].state = "run"
        PROVE  pipe[p].zone \in Zones /\ Decodes(p)'
    BY <1>2, <1>4, <2>1, <2>4, DriverIds DEF Mine, Playback, Decodes
  <2> QED BY <1>2, <2>2, <2>3, <2>4 DEF Playback
<1>7. Topo(c)'
  BY <1>1, <1>2, TopoKeeps DEF Mine, Growing, Deleting, Joining
<1> QED BY <1>3, <1>5, <1>6, <1>7 DEF Mine

LEMMA RerouteReleaseMine ==
  ASSUME IType, NEW c \in Clients, Mine(c), RerouteRelease(c)
  PROVE  Mine(c)' /\ Only(c)
<1> DEFINE s == frame[c].source  z == frame[c].zone
<1>1. c \in Threads /\ c \notin Zones BY ThreadsType, ThreadAssumption
<1>2. /\ frame[c].pc = "reroute_release" /\ frame'[c].pc = "reroute_take"
      /\ frame'[c].source = s /\ frame'[c].zone = z /\ Only(c)
      /\ UNCHANGED <<zones, sources, recv, src, driver, pipe>>
  BY <1>1, GotoOnly DEF RerouteRelease, At, topology, airplay, manager
<1>3. Locals(c)'
  BY <1>2 DEF Mine, Locals, Emptied, OnAZone, Rerouting, Pointed, Joining
<1>4. Playback(c)'
  <2>1. /\ \A r : Settles(c, r) => Settles(c, r)'
        /\ \A p : ~Holds(c, p)
    BY <1>1, <1>2 DEF Settles, Holds, Detaching, Pointed
  <2>2. Sleeps' /\ AtHome'
    BY <1>1, <1>2, ThreadsType DEF Mine, Playback, Sleeps, AtHome, Only
  <2> QED BY <1>2, <2>1, <2>2 DEF Mine, Playback, Drives, Decodes
<1>5. Topo(c)'
  <2>1. \A k \in Slots : pool'[k] \in {pool[k], None} BY DEF RerouteRelease, Release
  <2> QED BY <1>1, <1>2, <2>1, TopoKeeps DEF Mine, Growing, Deleting, Joining
<1> QED BY <1>2, <1>3, <1>4, <1>5 DEF Mine

LEMMA RerouteTakeMine ==
  ASSUME IType, NEW c \in Clients, Mine(c), RerouteTake(c)
  PROVE  Mine(c)' /\ Only(c)
<1> DEFINE s == frame[c].source  z == frame[c].zone
<1>1. c \in Threads /\ c \notin Zones BY ThreadsType, ThreadAssumption
<1>2. /\ frame[c].pc = "reroute_take" /\ frame[c] \in Frame
      /\ s \in sources /\ src[s].active /\ src[s].dest = z
      /\ z \in zones /\ zones \subseteq Zones
  BY <1>1 DEF RerouteTake, At, Mine, Locals, Rerouting, Pointed, OnAZone, IType, TypeOK
<1>3. /\ driver' = [driver EXCEPT ![z] = NoDriver]
      /\ Go(c, [frame[c] EXCEPT !.pc = "reroute_detach", !.prev = driver[z]])
      /\ UNCHANGED <<zones, sources, recv, src, pipe, pool>>
  BY DEF RerouteTake, topology, airplay, sinks, manager
<1>4. /\ frame'[c] = [frame[c] EXCEPT !.pc = "reroute_detach", !.prev = driver[z]]
      /\ Only(c)
  BY <1>1, <1>3, GoOnly
<1>5. /\ frame'[c].pc = "reroute_detach" /\ frame'[c].prev = driver[z]
      /\ frame'[c].source = s /\ frame'[c].zone = z
  BY <1>2, <1>4 DEF Frame
<1>6. Locals(c)'
  BY <1>2, <1>3, <1>5 DEF Locals, OnAZone, Pointed, Joining, IType, TypeOK
<1>7. Playback(c)'
  <2>1. \A r : Settles(c, r) => Settles(c, r)'
    BY <1>1, <1>2, <1>5 DEF Settles, Detaching, Pointed
  <2> QED BY <1>1, <1>2, <1>3, <1>4, <1>5, <2>1, TakePlayback DEF Mine, Detaching
<1>8. Topo(c)'
  BY <1>1, <1>2, <1>3, TopoKeeps DEF Mine, Growing, Deleting, Joining
<1> QED BY <1>4, <1>5, <1>6, <1>7, <1>8 DEF Mine

\* The new zone is still there, and nobody drives it: the source does now.
LEMMA RerouteInstallMine ==
  ASSUME IType, NEW c \in Clients, Mine(c), RerouteInstall(c)
  PROVE  Mine(c)' /\ Only(c)
<1> DEFINE s == frame[c].source  z == frame[c].zone
<1>1. c \in Threads /\ c \notin Zones BY ThreadsType, ThreadAssumption
<1>2. /\ frame[c].pc = "reroute_install"
      /\ s \in sources /\ src[s].active /\ src[s].dest = z
      /\ z \in zones /\ zones \subseteq Zones /\ driver[z] = NoDriver
  BY <1>1 DEF RerouteInstall, At, Mine, Locals, Rerouting, Pointed, OnAZone, Emptied,
     IType, TypeOK
<1>3. /\ driver' = [driver EXCEPT ![z] = Airplay(s)]
      /\ frame'[c].pc = "reroute_reply" /\ Only(c)
      /\ UNCHANGED <<zones, sources, recv, src, pipe, pool>>
  BY <1>1, <1>2, GotoOnly DEF RerouteInstall, topology, airplay, sinks, manager
<1>4. Locals(c)'
  BY <1>1, <1>3, LocalsFree DEF Emptied, OnAZone, Pointed, Rerouting, Joining
<1>5. Playback(c)'
  <2>1. (\A r : Settles(c, r) <=> r = s) /\ (\A p : ~Holds(c, p))
    BY <1>1, <1>2 DEF Settles, Holds, Detaching, Pointed
  <2>2. Sleeps' /\ AtHome'
    BY <1>1, <1>3, ThreadsType DEF Mine, Playback, Sleeps, AtHome, Only
  <2>3. \A x \in Zones : driver'[x] = IF x = z THEN Airplay(s) ELSE driver[x]
    BY <1>3 DEF IType, TypeOK
  <2>4. ASSUME NEW r \in sources, src[r].routed
        PROVE  src[r].active /\ Drives(r)'
    <3>1. CASE r = s BY <1>2, <1>3, <2>3, <3>1 DEF Drives
    <3>2. CASE r # s
      <4>1. src[r].active /\ Drives(r) /\ src[r].dest \in Zones
        BY <2>1, <2>4, <3>2 DEF Mine, Playback, IType, TypeOK, Source
      <4>2. src[r].dest # z BY <1>2, <4>1, DriverIds DEF Drives
      <4> QED BY <1>3, <2>3, <4>1, <4>2 DEF Drives
    <3> QED BY <3>1, <3>2
  <2>5. ASSUME NEW p \in Pipelines, pipe[p].state = "run"
        PROVE  pipe[p].zone \in Zones /\ Decodes(p)'
    <3>1. pipe[p].zone \in Zones /\ Decodes(p) BY <2>1, <2>5 DEF Mine, Playback
    <3>2. pipe[p].zone # z BY <1>2, <3>1, DriverIds DEF Decodes
    <3> QED BY <1>3, <2>3, <3>1, <3>2 DEF Decodes
  <2> QED BY <1>3, <2>2, <2>4, <2>5 DEF Playback
<1>6. Topo(c)'
  BY <1>1, <1>2, <1>3, TopoKeeps DEF Mine, Growing, Deleting, Joining
<1> QED BY <1>3, <1>4, <1>5, <1>6 DEF Mine

LEMMA RerouteReplyMine ==
  ASSUME IType, NEW c \in Clients, Mine(c), RerouteReply(c)
  PROVE  Mine(c)' /\ Only(c)
<1>1. c \in Threads /\ c \notin Zones BY ThreadsType, ThreadAssumption
<1>2. /\ frame[c].pc = "reroute_reply" /\ frame'[c].pc = "idle" /\ Only(c)
      /\ UNCHANGED <<zones, sources, recv, src, driver, pipe, pool>>
  BY <1>1, FinishOnly DEF RerouteReply, At, topology, airplay, sinks, manager
<1>3. Locals(c)'
  BY <1>1, <1>2, LocalsFree DEF Emptied, OnAZone, Pointed, Rerouting, Joining
<1>4. Playback(c)'
  BY <1>1, <1>2, PlaybackKeeps DEF Mine, Detaching, Pointed, Asleep
<1>5. Topo(c)'
  BY <1>1, <1>2, TopoKeeps DEF Mine, Growing, Deleting, Joining
<1> QED BY <1>2, <1>3, <1>4, <1>5 DEF Mine

(***************************************************************************)
(* Receivers: the manager drops those of deleted zones, waits for their    *)
(* pumps, and creates the missing ones.                                    *)
(***************************************************************************)

LEMMA ManagerLockMine ==
  ASSUME IType, NEW c \in Clients, Mine(c), ManagerLock(c)
  PROVE  Mine(c)' /\ Only(c)
<1>1. c \in Threads /\ c \notin Zones BY ThreadsType, ThreadAssumption
<1>2. /\ frame[c].pc = "topo_manager" /\ frame'[c].pc = "topo_join"
      /\ frame'[c].snap = frame[c].snap /\ Only(c)
      /\ UNCHANGED <<zones, sources, src, driver, pipe, pool, recv>>
  BY <1>1, GotoOnly DEF ManagerLock, At, topology, airplay, sinks
<1>3. Locals(c)'
  BY <1>2 DEF Mine, Locals, Emptied, OnAZone, Rerouting, Pointed, Joining
<1>4. Playback(c)'
  BY <1>1, <1>2, PlaybackKeeps DEF Mine, Detaching, Pointed, Asleep
<1>5. Topo(c)'
  <2>1. Reconciles(c)' BY <1>2 DEF Reconciles, Joining
  <2>2. ~Grows(c) /\ \A z : ~Frees(c, z)
    BY <1>2 DEF Grows, Frees, Growing, Deleting
  <2> QED BY <1>2, <2>1, <2>2 DEF Mine, Topo
<1> QED BY <1>2, <1>3, <1>4, <1>5 DEF Mine

\* While it drops receivers a client has the engine, but for the pump it joins.
LEMMA JoiningHasTurn ==
  ASSUME SInv, NEW c \in Clients, frame[c].pc = "topo_join", PumpsJoined
  PROVE  /\ \A u \in Threads \ {c} : frame[u].pc \in Resting
         /\ Mine(c) /\ frame[c].snap = zones /\ AirPlay /\ sources = zones
<1>1. c \in Threads /\ c \notin Zones BY ThreadsType, ThreadAssumption
<1>2. \A u \in Threads \ {c} : frame[u].pc \in Resting
  <2>1. Busy(c) /\ ~Stopping(c) BY <1>1 DEF Busy, Stopping, Resting
  <2>2. \A u \in Threads \ {c} : Busy(u) => Stopping(u) BY <1>1, <2>1 DEF SInv, Alone
  <2> QED BY <2>2 DEF PumpsJoined, At, Busy, Stopping, Resting
<1>3. Mine(c) BY <1>1, <1>2, TurnIsMine
<1>4. ~Grows(c) BY DEF Grows, Growing, Deleting
<1> QED BY <1>2, <1>3, <1>4 DEF Mine, Locals, Topo, Joining

LEMMA ManagerKillSerial ==
  ASSUME SInv, OInv', NEW c \in Clients, ManagerKill(c)
  PROVE  SInv'
<1>1. /\ frame[c].pc = "topo_join" /\ PumpsJoined
      /\ UNCHANGED <<zones, sources, src, driver, pipe, pool, frame>>
  BY DEF ManagerKill, At, topology, airplay, sinks
<1>2. PICK z \in Zones \ frame[c].snap :
        recv[z] = "run" /\ recv' = [Kept EXCEPT ![z] = "stopping"]
  BY DEF ManagerKill
<1>3. /\ \A u \in Threads \ {c} : frame[u].pc \in Resting
      /\ frame[c].snap = zones /\ AirPlay /\ sources = zones
  BY <1>1, JoiningHasTurn
<1>4. \A y \in Zones : recv'[y] = "stopping" => y = z
  BY <1>2 DEF Kept
<1>5. Alone' BY <1>1, <1>3 DEF Alone, Busy
<1>6. Drained'
  <2>1. c \notin Zones BY ThreadAssumption
  <2>2. frame[z].pc \in Resting BY <1>3, <2>1, ThreadsType
  <2> QED BY <1>1, <1>2, <1>3, <1>4, <2>2 DEF Drained, At
<1>7. \A u \in Threads : Locals(u)' BY <1>1 DEF SInv, Locals
<1>8. Sleeps' /\ AtHome' BY <1>1 DEF SInv, Sleeps, AtHome
<1>9. RoutedInv' BY <1>1 DEF SInv, RoutedInv, Drives, Settles
<1>10. DecoderInv' BY <1>1 DEF SInv, DecoderInv, Decodes, Holds
<1>11. SourcesInv' /\ PoolInv' BY <1>1 DEF SInv, SourcesInv, PoolInv, Grows, Frees
<1>12. ReceiversInv'
  <2>1. c \in Threads /\ Reconciles(c)'
    BY <1>1, ThreadsType DEF Reconciles, Joining
  <2> QED BY <1>3, <2>1 DEF ReceiversInv
<1> QED BY <1>5, <1>6, <1>7, <1>8, <1>9, <1>10, <1>11, <1>12 DEF SInv

LEMMA ManagerSpawnSerial ==
  ASSUME SInv, OInv', NEW c \in Clients, ManagerSpawn(c)
  PROVE  SInv'
<1>1. c \in Threads /\ c \notin Zones BY ThreadsType, ThreadAssumption
<1>2. /\ frame[c].pc = "topo_join" /\ PumpsJoined
      /\ \A z \in Zones : recv[z] = "run" => z \in frame[c].snap
      /\ UNCHANGED <<zones, sources, src, driver, pipe, pool>>
  BY DEF ManagerSpawn, At, topology, airplay, sinks
<1>3. PICK made \in SUBSET {z \in frame[c].snap : recv[z] = "none"} :
        /\ recv' = [z \in Zones |-> IF z \in made THEN "run"
                                    ELSE IF recv[z] = "stopping" THEN "none"
                                    ELSE recv[z]]
        /\ frame' = [t \in Threads |-> IF t = c THEN AtRest("idle")
                                       ELSE IF t \in made THEN AtRest("parked")
                                       ELSE frame[t]]
  BY SpawnMakes
<1>4. \A u \in Threads \ {c} : frame[u].pc \in Resting BY <1>2, JoiningHasTurn
<1>5. Mine(c) BY <1>2, JoiningHasTurn
<1>6. /\ frame[c].snap = zones /\ AirPlay /\ zones \subseteq Zones
      /\ \A z \in Zones : recv[z] = "run" => z \in zones
  BY <1>2, JoiningHasTurn DEF SInv, OInv, IType, TypeOK
<1>7. /\ \A u \in Threads : frame'[u].pc \in Resting
      /\ \A z \in Zones : \/ frame'[z] = frame[z]
                          \/ z \in made /\ frame'[z].pc = "parked"
  BY <1>1, <1>3, <1>4, AtRestFields, ThreadsType DEF Resting
<1>8. (\A s : ~Settles(c, s)) /\ (\A p : ~Holds(c, p)) /\ ~Grows(c) /\ \A z : ~Frees(c, z)
  BY <1>1, <1>2 DEF Settles, Holds, Grows, Frees, Detaching, Pointed, Growing, Deleting
<1>9. Alone' /\ Drained'
  <2>1. \A z \in Zones : recv'[z] # "stopping" BY <1>3 DEF SInv, OInv, IType, TypeOK
  <2> QED BY <1>7, <2>1 DEF Alone, Drained, Busy
<1>10. \A u \in Threads : Locals(u)' BY <1>7, RestOwesNothingNext
<1>11. Sleeps'
  <2>1. \A z \in made : frame[z].pc = "off"
    BY <1>6 DEF SInv, OInv, OffWhenNone
  <2> QED BY <1>2, <1>5, <1>7, <2>1 DEF Mine, Playback, Sleeps, Asleep
<1>12. AtHome' /\ RoutedInv' /\ DecoderInv'
  BY <1>2, <1>5, <1>8 DEF Mine, Playback, AtHome, RoutedInv, DecoderInv, Drives, Decodes
<1>13. SourcesInv' /\ PoolInv'
  BY <1>2, <1>5, <1>8 DEF Mine, Topo, SourcesInv, PoolInv
<1>14. ReceiversInv'
  <2>1. \A z \in Zones : recv'[z] # "none" => z \in zones
    BY <1>3, <1>6 DEF SInv, OInv, IType, TypeOK
  <2> QED BY <1>2, <1>6, <2>1 DEF ReceiversInv
<1> QED BY <1>9, <1>10, <1>11, <1>12, <1>13, <1>14 DEF SInv

\* A pump that is being torn down loses nothing but time.
LEMMA LeavingSerial ==
  ASSUME SInv, OInv', NEW s \in Zones, recv[s] = "stopping", Only(s),
         frame'[s].pc \in Resting \cup {"ended"},
         UNCHANGED <<zones, sources, src, driver, pipe, pool, recv>>
  PROVE  SInv'
<1>1. s \in Threads /\ s \notin Clients BY ThreadsType, ThreadAssumption
<1>2. frame[s].pc \in Resting \cup {"ended"} /\ s \notin sources BY DEF SInv, Drained
<1>3. \A u \in Threads : u = s \/ frame'[u] = frame[u] BY DEF Only
<1>4. Alone'
  <2>1. Stopping(s)' BY DEF Stopping
  <2> QED BY <1>3, <2>1 DEF SInv, Alone, Busy, Stopping
<1>5. Drained'
  BY <1>1, <1>3, ThreadsType DEF SInv, Drained, At
<1>6. \A u \in Threads : Locals(u)'
  <2>1. Locals(s)'
    BY <1>1, LocalsFree DEF Resting, Emptied, OnAZone, Pointed, Rerouting, Joining
  <2>2. ASSUME NEW u \in Threads, u # s PROVE Locals(u)'
    <3>1. frame'[u] = frame[u] /\ Locals(u) BY <1>3, <2>2 DEF SInv
    <3> QED BY <3>1 DEF Locals
  <2> QED BY <2>1, <2>2
<1>7. Sleeps' /\ AtHome' BY <1>2, <1>3, ThreadsType DEF SInv, Sleeps, AtHome
<1>8. /\ \A r : ~Settles(s, r)
      /\ \A p : ~Holds(s, p)
  BY <1>2 DEF Settles, Holds, Resting, Detaching, Pointed
<1>9. RoutedInv'
  <2>1. \A u \in Threads : \A r : Settles(u, r) => Settles(u, r)'
    BY <1>3, <1>8 DEF Settles
  <2> QED BY <2>1 DEF SInv, RoutedInv, Drives
<1>10. DecoderInv'
  <2>1. \A u \in Threads : \A p : Holds(u, p) => Holds(u, p)' BY <1>3, <1>8 DEF Holds
  <2> QED BY <2>1 DEF SInv, DecoderInv, Decodes
<1>11. SourcesInv' /\ ReceiversInv' /\ PoolInv'
  <2>1. \A u \in Clients : frame'[u] = frame[u] BY <1>1, <1>3, ThreadsType
  <2> QED BY <2>1 DEF SInv, SourcesInv, ReceiversInv, PoolInv, Grows, Reconciles, Frees
<1> QED BY <1>4, <1>5, <1>6, <1>7, <1>9, <1>10, <1>11 DEF SInv

\* A step in which no thread of the engine moves.
LEMMA StillSerial ==
  ASSUME SInv, OInv', UNCHANGED <<zones, sources, src, driver, pool, recv, frame>>,
         \A p \in Pipelines : pipe'[p].state = "run" =>
           pipe[p].state = "run" /\ pipe'[p].zone = pipe[p].zone
  PROVE  SInv'
<1>1. Alone' /\ Drained' BY DEF SInv, Alone, Drained, Busy, Stopping, At
<1>2. \A u \in Threads : Locals(u)' BY DEF SInv, Locals
<1>3. Sleeps' /\ AtHome' BY DEF SInv, Sleeps, AtHome
<1>4. RoutedInv' BY DEF SInv, RoutedInv, Drives, Settles
<1>5. DecoderInv' BY DEF SInv, DecoderInv, Decodes, Holds
<1>6. SourcesInv' /\ ReceiversInv' /\ PoolInv'
  BY DEF SInv, SourcesInv, ReceiversInv, PoolInv, Grows, Reconciles, Frees
<1> QED BY <1>1, <1>2, <1>3, <1>4, <1>5, <1>6 DEF SInv

LEMMA TurnSerial ==
  ASSUME OInv', NEW t \in Threads, Turn(t), UNCHANGED recv,
         Mine(t)' /\ Only(t)
  PROVE  SInv'
<1>1. Turn(t)' BY DEF Turn, Only
<1> QED BY <1>1, MineIsInv

(***************************************************************************)
(* Every step.                                                             *)
(***************************************************************************)

LEMMA StartSerial ==
  ASSUME Serial, SInv, OInv', NEW c \in Clients, Start(c)
  PROVE  SInv'
<1>1. c \in Threads /\ ~Stopping(c) BY ThreadsType, ThreadAssumption DEF Stopping
<1>2. frame[c].pc = "idle" /\ Admits(c)
  BY DEF Start, PlaySnapshot, StopTake, CreateZone, RenameZone, DeleteRemove, RegisterDongle,
     SetZoneOutputs, RerouteValidate, Calls, At
<1>3. Turn(c) /\ Mine(c) /\ IType
  BY <1>1, <1>2, StartHasTurn, TurnIsMine DEF Turn, SInv, OInv
<1>4. ASSUME NEW z \in Zones, NEW outs \in SUBSET (Dongles \cup {Local}),
             SetZoneOutputs(c, z, outs)
      PROVE  SInv'
  BY <1>4, StillSerial DEF SetZoneOutputs, airplay, sinks, manager
<1>5. CASE ~ \E z \in Zones, outs \in SUBSET (Dongles \cup {Local}) : SetZoneOutputs(c, z, outs)
  <2>1. Mine(c)' /\ Only(c)
    BY <1>2, <1>3, <1>5, PlaySnapshotMine, StopTakeMine, GrowMine, RegisterDongleMine,
       DeleteRemoveMine, RerouteValidateMine DEF Start
  <2>2. UNCHANGED recv
    BY <1>5 DEF Start, PlaySnapshot, StopTake, CreateZone, RenameZone, DeleteRemove,
       RegisterDongle, RerouteValidate, manager
  <2> QED BY <1>1, <1>3, <2>1, <2>2, TurnSerial
<1> QED BY <1>4, <1>5

LEMMA ContinueSerial ==
  ASSUME SInv, OInv', NEW c \in Clients, Continue(c) \/ ManagerLock(c)
  PROVE  SInv'
<1>1. CASE ManagerKill(c) \/ ManagerSpawn(c)
  BY <1>1, ManagerKillSerial, ManagerSpawnSerial
<1>2. CASE ~(ManagerKill(c) \/ ManagerSpawn(c))
  <2>1. c \in Threads /\ ~Stopping(c) BY ThreadsType, ThreadAssumption DEF Stopping
  <2>2. frame[c].pc \notin Resting \cup {"topo_join"} /\ UNCHANGED recv
    BY <1>2 DEF Continue, PlayResolve, PlayTake, PlayInstall, StopRelease, RegisterZone,
       DeleteRelease, SnapshotZones, ReconcileSources, ManagerLock, RerouteZone,
       RerouteResolve, ReroutePoint, RerouteLeave, RerouteRelease, RerouteTake,
       RerouteInstall, RerouteReply, At, Resting, manager
  <2>3. Turn(c) /\ Mine(c) /\ IType
    BY <2>1, <2>2, BusyHasTurn, TurnIsMine DEF Turn, Busy, SInv, OInv
  <2>5. ASSUME NEW d \in Dongles, RegisterZone(c, d) PROVE Mine(c)' /\ Only(c)
    BY <2>3, <2>5, GrowMine DEF RegisterZone, At
  <2>4. Mine(c)' /\ Only(c)
    BY <1>2, <2>3, <2>5, PlayResolveMine, PlayTakeMine, PlayInstallMine, StopReleaseMine,
       DeleteReleaseMine, SnapshotZonesMine, ReconcileSourcesMine, ManagerLockMine,
       RerouteZoneMine, RerouteResolveMine, ReroutePointMine, RerouteLeaveMine,
       RerouteReleaseMine, RerouteTakeMine, RerouteInstallMine, RerouteReplyMine DEF Continue
  <2> QED BY <2>1, <2>2, <2>3, <2>4, TurnSerial
<1> QED BY <1>1, <1>2

LEMMA SessionSerial ==
  ASSUME SInv, OInv', NEW s \in Zones, Session(s)
  PROVE  SInv'
<1>1. s \in Threads BY ThreadsType
<1>2. frame[s].pc \notin Resting \cup {"topo_join"} /\ UNCHANGED recv
  BY DEF Session, BeganSource, BeganZone, ChunkResolve, ChunkCache, EndedSource, EndedZone,
     EndedRelease, At, Resting, manager
<1>3. CASE recv[s] = "stopping"
  <2>1. frame[s].pc = "ended" /\ s \notin sources BY <1>2, <1>3 DEF SInv, Drained
  <2>2. /\ PumpLoops(s) /\ UNCHANGED <<zones, sources, src, driver, pipe, pool>>
    BY <2>1 DEF Session, BeganSource, BeganZone, ChunkResolve, ChunkCache, EndedSource,
       EndedZone, EndedRelease, At, topology, sinks
  <2>3. frame'[s].pc \in {"parked", "off"} /\ Only(s)
    BY <2>2, PumpLoopsOnly DEF SInv, OInv
  <2> QED BY <1>2, <1>3, <2>2, <2>3, LeavingSerial DEF Resting
<1>4. CASE recv[s] # "stopping"
  <2>1. Turn(s) /\ Mine(s) /\ IType /\ OffWhenNone
    BY <1>1, <1>2, <1>4, BusyHasTurn, TurnIsMine DEF Turn, Busy, Stopping, SInv, OInv
  <2>2. Mine(s)' /\ Only(s)
    BY <2>1, BeganSourceMine, BeganZoneMine, ChunkResolveMine, ChunkCacheMine,
       EndedSourceMine, EndedZoneMine, EndedReleaseMine DEF Session
  <2> QED BY <1>1, <1>2, <2>1, <2>2, TurnSerial
<1> QED BY <1>3, <1>4

LEMMA PumpSerial ==
  ASSUME Serial, SInv, OInv', NEW s \in Zones,
         PumpOpen(s) \/ PumpQuit(s) \/ ChunkSnapshot(s) \/ PumpEof(s)
  PROVE  SInv'
<1>1. s \in Threads /\ frame[s].pc \in {"parked", "session"} /\ UNCHANGED recv
  BY ThreadsType DEF PumpOpen, PumpQuit, ChunkSnapshot, PumpEof, At, manager
<1>2. CASE recv[s] = "stopping"
  <2>1. PumpQuit(s) \/ PumpEof(s) BY <1>2 DEF PumpOpen, ChunkSnapshot
  <2>2. /\ frame'[s].pc \in {"off", "ended"} /\ Only(s)
        /\ UNCHANGED <<zones, sources, src, driver, pipe, pool>>
    BY <1>1, <2>1, GotoOnly
       DEF SInv, OInv, PumpQuit, PumpEof, topology, airplay, sinks
  <2> QED BY <1>1, <1>2, <2>2, LeavingSerial DEF Resting
<1>3. CASE recv[s] # "stopping"
  <2>1. PumpOpen(s) \/ ChunkSnapshot(s) \/ PumpEof(s) BY <1>3 DEF PumpQuit
  <2>2. Admits(s) BY <2>1 DEF PumpOpen, ChunkSnapshot, PumpEof
  <2>3. Turn(s) /\ Mine(s) /\ IType
    BY <1>1, <1>3, <2>2, StartHasTurn, TurnIsMine DEF Turn, Stopping, SInv, OInv
  <2>4. Mine(s)' /\ Only(s)
    BY <2>1, <2>3, PumpMovesMine, ChunkSnapshotMine
  <2> QED BY <1>1, <2>3, <2>4, TurnSerial
<1> QED BY <1>2, <1>3

LEMMA DetachSerial ==
  ASSUME SInv, OInv', NEW t \in Threads, Detach(t)
  PROVE  SInv'
<1>1. frame[t].pc \in Detaching /\ UNCHANGED recv
  BY DEF Detach, DetachNothing, SignalUrl, JoinUrl, DetachAirplay, manager
<1>2. CASE SignalUrl(t)
  <2>1. \A p \in Pipelines : pipe'[p].state = pipe[p].state /\ pipe'[p].zone = pipe[p].zone
    BY <1>2 DEF SignalUrl, SInv, OInv, IType, TypeOK, Pipe
  <2> QED BY <1>2, <2>1, StillSerial DEF SignalUrl, topology, airplay, sinks, manager
<1>3. CASE ~SignalUrl(t)
  <2>1. Busy(t) /\ ~Stopping(t) /\ frame[t].pc # "topo_join"
    BY <1>1 DEF Busy, Stopping, SInv, Drained, Detaching, Resting
  <2>2. Turn(t) /\ Mine(t) /\ IType BY <2>1, BusyHasTurn, TurnIsMine DEF Turn, SInv, OInv
  <2>3. Mine(t)' /\ Only(t) BY <1>3, <2>2, DetachMine
  <2> QED BY <1>1, <2>2, <2>3, TurnSerial
<1> QED BY <1>2, <1>3

LEMMA InitSerial == ASSUME Init PROVE SInv
<1>1. OInv BY InitOwned
<1>2. \A t \in Threads : frame[t].pc \in Resting
  BY AtRestFields DEF Init, Resting
<1>3. /\ \A z \in Zones : recv[z] # "stopping"
      /\ \A s \in Zones : src[s].dest = s /\ ~src[s].active /\ ~src[s].routed
      /\ \A p \in Pipelines : pipe[p].state # "run"
      /\ \A k \in Slots : pool[k] = None
  BY DEF Init, IdleSource, NoPipe, EmptyPool
<1>4. sources \subseteq Zones BY <1>1 DEF OInv, IType, TypeOK
<1>5. Alone /\ Drained /\ \A t \in Threads : Locals(t)
  BY <1>2, <1>3, RestOwesNothing DEF Alone, Drained, Busy
<1>6. Sleeps /\ AtHome /\ RoutedInv /\ DecoderInv
  BY <1>3, <1>4 DEF Sleeps, AtHome, RoutedInv, DecoderInv
<1>7. SourcesInv /\ ReceiversInv /\ PoolInv
  BY <1>3 DEF Init, SourcesInv, ReceiversInv, PoolInv
<1> QED BY <1>1, <1>5, <1>6, <1>7 DEF SInv

LEMMA StepSerial == ASSUME Serial, SInv, [Next]_vars PROVE SInv'
<1>1. OInv' BY StepOwned DEF SInv
<1>2. ASSUME NEW p \in Pipelines, DecodeStops(p) \/ DecodeEnds(p) PROVE SInv'
  <2>1. \A q \in Pipelines : pipe'[q].state = "run" => pipe'[q] = pipe[q]
    BY <1>2 DEF DecodeStops, DecodeEnds, SInv, OInv, IType, TypeOK, Pipe
  <2> QED BY <1>1, <1>2, <2>1, StillSerial
          DEF DecodeStops, DecodeEnds, topology, airplay, sinks, manager
<1>3. ASSUME NEW d \in Dongles, DongleOffline(d) PROVE SInv'
  BY <1>1, <1>3, StillSerial DEF DongleOffline, topology, airplay, manager
<1>4. CASE UNCHANGED vars
  BY <1>1, <1>4, StillSerial DEF vars, topology, airplay, sinks, manager
<1> QED BY <1>1, <1>2, <1>3, <1>4, StartSerial, ContinueSerial, SessionSerial,
        PumpSerial, DetachSerial DEF Next

LEMMA SerialInvariant == ASSUME Serial PROVE Spec => []SInv
BY InitSerial, StepSerial, PTL DEF Spec

\* Between calls that do not overlap, every running decode thread drives the
\* zone it decodes for: play, stop, delete_zone and every takeover shut down what
\* they displace before anything else is installed.
THEOREM DecodersDrive == ASSUME Serial PROVE Spec => []EveryDecoderIsADriver
<1>1. SInv => EveryDecoderIsADriver
  <2> SUFFICES ASSUME SInv, Quiet, NEW p \in Pipelines, pipe[p].state = "run"
               PROVE  driver[pipe[p].zone] = Url(p)
    BY DEF EveryDecoderIsADriver
  <2>1. \A t \in Threads : frame[t].pc \in Resting BY DEF Quiet, InFlight
  <2> QED BY <2>1, RestOwesNothing DEF SInv, DecoderInv, Decodes
<1> QED BY <1>1, SerialInvariant, PTL

\* Between calls that do not overlap, a routed source is active and drives the
\* zone it points at, whatever took its zones over and wherever it was rerouted.
THEOREM RoutedDrive == ASSUME Serial PROVE Spec => []RoutedIsDriver
<1>1. SInv => RoutedIsDriver
  <2> SUFFICES ASSUME SInv, Quiet, NEW s \in sources, src[s].routed
               PROVE  src[s].active /\ driver[src[s].dest] = Airplay(s)
    BY DEF RoutedIsDriver
  <2>1. \A t \in Threads : frame[t].pc \in Resting BY DEF Quiet, InFlight
  <2> QED BY <2>1, RestOwesNothing DEF SInv, RoutedInv, Drives
<1> QED BY <1>1, SerialInvariant, PTL

\* A source without a session is at home: a reroute never outlives its session.
THEOREM IdleIsHome == ASSUME Serial PROVE Spec => []HomeWhenIdle
<1>1. SInv => HomeWhenIdle BY DEF SInv, AtHome, HomeWhenIdle
<1> QED BY <1>1, SerialInvariant, PTL

\* Between calls that do not overlap, the sources are those of the zones that
\* exist, and no receiver is left of a zone that does not.
THEOREM SourcesAreZones == ASSUME Serial PROVE Spec => []SourcesFollowZones
<1>1. SInv => SourcesFollowZones
  <2> SUFFICES ASSUME SInv, Quiet, AirPlay
               PROVE  sources = zones /\ \A z \in Zones : recv[z] # "none" => z \in zones
    BY DEF SourcesFollowZones
  <2>1. \A t \in Threads : frame[t].pc \in Resting BY DEF Quiet, InFlight
  <2> QED BY <2>1, RestOwesNothing DEF SInv, SourcesInv, ReceiversInv
<1> QED BY <1>1, SerialInvariant, PTL

\* Between calls that do not overlap, only zones that exist hold streams.
THEOREM NoLeak == ASSUME Serial PROVE Spec => []NoLeakedStream
<1>1. SInv => NoLeakedStream
  <2> SUFFICES ASSUME SInv, Quiet, NEW k \in Slots, pool[k] # None
               PROVE  pool[k] \in zones
    BY DEF NoLeakedStream
  <2>1. \A t \in Threads : frame[t].pc \in Resting BY DEF Quiet, InFlight
  <2> QED BY <2>1, RestOwesNothing DEF SInv, PoolInv
<1> QED BY <1>1, SerialInvariant, PTL
=============================================================================
