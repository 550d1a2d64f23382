--------------------------- MODULE SnapcastRouter ---------------------------
(***************************************************************************)
(* The router between zones and snapserver's groups (src/src/audio/        *)
(* snapcast_router.rs) with its control connections (snapcast_control.rs)  *)
(* and the engine calls that drive it (engine.rs zone_sink, stop,          *)
(* register_dongle, dongle_offline, set_zone_outputs).                     *)
(*                                                                         *)
(* Engine takes the router's calls as one step each; here a call is as     *)
(* many steps as the code takes locks or asks snapserver, and the event    *)
(* listener is a thread like the callers.  snapserver itself is external:  *)
(* a client is in one group, a group plays one stream, a group that gets   *)
(* clients keeps its stream and a client that is put out of a group takes  *)
(* that stream along into a group of its own.                              *)
(***************************************************************************)
EXTENDS StreamPool, FiniteSets

CONSTANTS Dongles,      \* dongle ids, which are the snapclients' host ids
          Groups,       \* snapserver's group ids
          Members,      \* ZonePlayback.outputs of each zone at the start
          Callers,      \* threads that call the engine
          Events,       \* the event listener's thread
          Ops,          \* the engine calls they make
          MaxInFlight,  \* how many threads may be in a call or a pass at one time
          Restarts      \* snapserver can restart

ASSUME MemberAssumption == Members \in [Zones -> SUBSET Dongles]
ASSUME ThreadAssumption == Events \notin Callers /\ None \notin Dongles \cup Callers \cup Groups
ASSUME FiniteAssumption == IsFiniteSet(Callers)
ASSUME BoundAssumption  == MaxInFlight \in Nat /\ Restarts \in BOOLEAN

VARIABLES
  outputs,    \* ZonePlayback.outputs
  online,     \* dongles the registry has online
  pool,       \* the stream pool
  desired,    \* desired clients of each zone; {}: no entry
  started,    \* "no", "yes", "dead": snapserver has dropped the control connections
  connected,  \* snapserver: clients that are connected
  group,      \* snapserver: each client's group, None before its first connect
  stream,     \* snapserver: the stream its group plays; None: no pool stream
  notified,   \* a notification the event listener has not read
  frame       \* per thread, the call it is in and its locals

router == <<pool, desired, started>>
server == <<connected, group, stream, notified>>
vars == <<outputs, online, router, server, frame>>

Threads == Callers \cup {Events}

\* The entries a reconcile has still to apply: each zone's stream and clients,
\* and what it read of snapserver's status.
NoPass == [left |-> {}, stream |-> [z \in Zones |-> None], clients |-> [z \in Zones |-> {}],
           group |-> [d \in Dongles |-> None], present |-> {}]
Idle == [pc |-> "idle", zone |-> None, ids |-> {}, pass |-> NoPass]

At(t, pc)   == frame[t].pc = pc
Go(t, f)    == frame' = [frame EXCEPT ![t] = f]
Goto(t, pc) == frame' = [frame EXCEPT ![t].pc = pc]
Return(t)   == Go(t, Idle)
Starts(t)    == At(t, "idle") /\ Cardinality({u \in Threads : ~At(u, "idle")}) < MaxInFlight
Calls(c, op) == op \in Ops /\ Starts(c)

Init ==
  /\ outputs = Members /\ online = Dongles
  /\ pool = EmptyPool /\ desired = [z \in Zones |-> {}] /\ started = "no"
  /\ connected = {} /\ group = [d \in Dongles |-> None] /\ stream = [d \in Dongles |-> None]
  /\ notified = FALSE
  /\ frame = [t \in Threads |-> Idle]
-----------------------------------------------------------------------------
(* Engine calls                                                            *)

\* play or reroute: zone_sink keeps the members that are online now.
Play(c, z) ==
  /\ Calls(c, "play")
  /\ outputs[z] \cap online # {}
  /\ Go(c, [Idle EXCEPT !.pc = "start", !.zone = z, !.ids = outputs[z] \cap online])
  /\ UNCHANGED <<outputs, online, router, server>>

\* stop, delete_zone and session_ended release the zone.
Stop(c, z) ==
  /\ Calls(c, "stop")
  /\ Go(c, [Idle EXCEPT !.pc = "release", !.zone = z])
  /\ UNCHANGED <<outputs, online, router, server>>

RegisterDongle(c, d) ==
  /\ Calls(c, "register") /\ d \notin online
  /\ online' = online \cup {d}
  /\ Goto(c, "entries")
  /\ UNCHANGED <<outputs, router, server>>

DongleOffline(c, d) ==
  /\ Calls(c, "offline")
  /\ online' = online \ {d}
  /\ UNCHANGED <<outputs, router, server, frame>>

SetZoneOutputs(c, z, ids) ==
  /\ Calls(c, "outputs")
  /\ outputs' = [outputs EXCEPT ![z] = ids]
  /\ Goto(c, "entries")
  /\ UNCHANGED <<online, router, server>>
-----------------------------------------------------------------------------
(* SnapcastRouter                                                          *)

\* ensure_started, under its lock; an error is the caller's.
EnsureStarted(t) ==
  /\ At(t, "start")
  /\ \/ started # "no" /\ Goto(t, "allocate") /\ UNCHANGED started
     \/ started = "no" /\ started' = "yes" /\ Goto(t, "allocate")
     \/ started = "no" /\ Return(t) /\ UNCHANGED started
  /\ UNCHANGED <<outputs, online, pool, desired, server>>

AllocateSlot(t) ==
  /\ At(t, "allocate")
  /\ LET z == frame[t].zone IN
     \/ /\ Exhausted(pool, z) /\ Return(t) /\ UNCHANGED pool
     \/ \E k \in Slots : /\ Allocates(pool, z, k) /\ pool' = Allocate(pool, z, k)
                         /\ Goto(t, "desire")
  /\ UNCHANGED <<outputs, online, desired, started, server>>

Desire(t) ==
  /\ At(t, "desire")
  /\ desired' = [desired EXCEPT ![frame[t].zone] = frame[t].ids]
  /\ Goto(t, "entries")
  /\ UNCHANGED <<outputs, online, pool, started, server>>

\* release_zone: the pool's lock, then the other one.
ReleaseSlot(t) ==
  /\ At(t, "release")
  /\ pool' = Release(pool, frame[t].zone)
  /\ Goto(t, "forget")
  /\ UNCHANGED <<outputs, online, desired, started, server>>

\* Mutant of Forget: the desired routing outlives the stream.
ForgetNothing(t) ==
  /\ At(t, "forget") /\ Return(t)
  /\ UNCHANGED <<outputs, online, router, server>>

Forget(t) ==
  /\ At(t, "forget")
  /\ desired' = [desired EXCEPT ![frame[t].zone] = {}]
  /\ Return(t)
  /\ UNCHANGED <<outputs, online, pool, started, server>>

\* reconcile_now without a snapserver.
NotStarted(t) ==
  /\ At(t, "entries") /\ started = "no"
  /\ Return(t)
  /\ UNCHANGED <<outputs, online, router, server>>

Allocated(z) == \E k \in Slots : pool[k] = z
StreamFor(z) == CHOOSE k \in Slots : FirstSlot(pool, z, k)

\* entries: one look at the desired routing and the pool.
Entries(t) ==
  /\ At(t, "entries") /\ started # "no"
  /\ LET active == {z \in Zones : desired[z] # {} /\ Allocated(z)} IN
     Go(t, [Idle EXCEPT !.pc = "status", !.pass =
       [NoPass EXCEPT !.left = active,
                      !.stream = [z \in Zones |-> IF z \in active THEN StreamFor(z) ELSE None],
                      !.clients = [z \in Zones |-> IF z \in active THEN desired[z] ELSE {}]]])
  /\ UNCHANGED <<outputs, online, router, server>>

\* get_status; a request on a dead connection fails, and the pass with it.
GetStatus(t) ==
  /\ At(t, "status")
  /\ IF started = "dead" THEN Return(t)
     ELSE Go(t, [frame[t] EXCEPT !.pc = "entry", !.pass.group = group, !.pass.present = connected])
  /\ UNCHANGED <<outputs, online, router, server>>

Present(t, z) == frame[t].pass.clients[z] \cap frame[t].pass.present

\* A zone without a connected client is skipped; the pass ends with the last one.
Skip(t) ==
  /\ At(t, "entry")
  /\ \/ frame[t].pass.left = {} /\ Return(t)
     \/ \E z \in frame[t].pass.left :
          /\ Present(t, z) = {}
          /\ frame' = [frame EXCEPT ![t].pass.left = @ \ {z}]
  /\ UNCHANGED <<outputs, online, router, server>>

\* Group.SetClients on the group the status listed for the first present client.
\* The request fails if the connection is dead or the group is gone.
SetClients(t) ==
  /\ At(t, "entry")
  /\ \E z \in frame[t].pass.left : \E first \in Present(t, z) :
       LET g == frame[t].pass.group[first]
           S == Present(t, z)
           Old == {d \in Dongles : group[d] = g}
           Out == Old \ S
           Free == Groups \ ({g} \cup {group[d] : d \in Dongles \ (S \cup Out)})
       IN IF started = "dead" \/ Old = {}
          THEN Return(t) /\ UNCHANGED <<group, stream>>
          ELSE /\ \E new \in [Out -> Free] :
                    /\ \A d, e \in Out : new[d] = new[e] => d = e
                    /\ group' = [d \in Dongles |-> IF d \in S THEN g
                                                   ELSE IF d \in Out THEN new[d] ELSE group[d]]
               /\ stream' = [d \in Dongles |-> IF d \in S THEN stream[CHOOSE e \in Old : TRUE]
                                               ELSE stream[d]]
               /\ frame' = [frame EXCEPT ![t].pc = "bind", ![t].zone = z, ![t].ids = {first}]
  /\ UNCHANGED <<outputs, online, router, connected, notified>>

\* Mutant of SetStream: the clients are grouped, but the stream is not set.
GroupOnly(t) ==
  /\ At(t, "bind")
  /\ frame' = [frame EXCEPT ![t].pc = "entry", ![t].pass.left = @ \ {frame[t].zone}]
  /\ UNCHANGED <<outputs, online, router, server>>

\* Group.SetStream on the same group.
SetStream(t) ==
  /\ At(t, "bind")
  /\ LET z == frame[t].zone
         g == frame[t].pass.group[CHOOSE d \in frame[t].ids : TRUE]
     IN IF started = "dead" \/ \A d \in Dongles : group[d] # g
        THEN Return(t) /\ UNCHANGED stream
        ELSE /\ stream' = [d \in Dongles |-> IF group[d] = g THEN frame[t].pass.stream[z]
                                             ELSE stream[d]]
             /\ frame' = [frame EXCEPT ![t].pc = "entry", ![t].pass.left = @ \ {z}]
  /\ UNCHANGED <<outputs, online, router, connected, group, notified>>
-----------------------------------------------------------------------------
(* The event listener, and snapserver (external)                           *)

Notified ==
  /\ Starts(Events) /\ notified
  /\ notified' = FALSE /\ Goto(Events, "entries")
  /\ UNCHANGED <<outputs, online, router, connected, group, stream>>

\* A client connects: the group it was in, or one of its own.  The clients of a
\* snapserver that has restarted are left out: no connection of the router asks
\* about them or hears of them.
ClientConnects(d) ==
  /\ started = "yes" /\ d \notin connected
  /\ connected' = connected \cup {d}
  /\ IF group[d] # None THEN UNCHANGED group
     ELSE \E g \in Groups \ {group[e] : e \in Dongles} : group' = [group EXCEPT ![d] = g]
  /\ notified' = TRUE
  /\ UNCHANGED <<outputs, online, router, stream, frame>>

ClientDisconnects(d) ==
  /\ d \in connected
  /\ connected' = connected \ {d}
  /\ notified' = TRUE
  /\ UNCHANGED <<outputs, online, router, group, stream, frame>>

\* The supervisor relaunches snapserver; both control connections are lost, and
\* neither CommandConn nor EventListener opens another.  It starts without clients.
SnapserverRestarts ==
  /\ Restarts /\ started = "yes"
  /\ started' = "dead" /\ connected' = {} /\ notified' = FALSE
  /\ group' = [d \in Dongles |-> None] /\ stream' = [d \in Dongles |-> None]
  /\ UNCHANGED <<outputs, online, pool, desired, frame>>
-----------------------------------------------------------------------------
Reconcile(t) == NotStarted(t) \/ Entries(t) \/ GetStatus(t) \/ Skip(t) \/ SetClients(t) \/ SetStream(t)
Route(t)     == EnsureStarted(t) \/ AllocateSlot(t) \/ Desire(t) \/ ReleaseSlot(t) \/ Forget(t)

Next ==
  \/ \E c \in Callers : \/ \E z \in Zones : Play(c, z) \/ Stop(c, z)
                        \/ \E z \in Zones, ids \in SUBSET Dongles : SetZoneOutputs(c, z, ids)
                        \/ \E d \in Dongles : RegisterDongle(c, d) \/ DongleOffline(c, d)
                        \/ Route(c)
  \/ \E t \in Threads : Reconcile(t)
  \/ Notified \/ SnapserverRestarts
  \/ \E d \in Dongles : ClientConnects(d) \/ ClientDisconnects(d)

Spec == Init /\ [][Next]_vars
-----------------------------------------------------------------------------
(* Properties                                                              *)

\* No call is in progress and no notification waits: every trigger was handled.
Quiet == ~notified /\ \A t \in Threads : At(t, "idle")

\* The router routes a zone: it has a stream and desired clients.
Routed(z) == desired[z] # {} /\ Allocated(z)

\* The zones the router routes want no client in common.
Disjoint == \A y, z \in Zones : y # z => desired[y] \cap desired[z] = {}

\* The reconciler converges: once every trigger was handled, the connected
\* clients of each routed zone are on the zone's stream, whatever they were on,
\* as long as the control connection lives.  (If the routings have been Disjoint:
\* a client that two zones wanted is not given back when one of them stops.)
Converged ==
  Quiet /\ started # "dead" =>
    \A z \in Zones : Routed(z) =>
      \A d \in desired[z] \cap connected : stream[d] = StreamFor(z)

\* A zone has a stream exactly if it has desired clients, between calls.
StreamIffDesired == Quiet => \A z \in Zones : Allocated(z) <=> desired[z] # {}

\* Independent routing: between calls a connected dongle is on the stream of a
\* routed zone only if that zone has it as an output.
NoCrossTalk ==
  Quiet => \A z \in Zones : Routed(z) =>
    \A d \in connected : stream[d] = StreamFor(z) => d \in desired[z]

\* Every connected, online output of a routed zone is on the zone's stream.
MembersHear ==
  Quiet /\ Disjoint /\ (\A y, z \in Zones : y # z => outputs[y] \cap outputs[z] = {}) =>
    \A z \in Zones : Routed(z) =>
      \A d \in outputs[z] \cap online \cap connected : stream[d] = StreamFor(z)
=============================================================================
