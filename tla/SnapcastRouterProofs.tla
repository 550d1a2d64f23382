------------------------ MODULE SnapcastRouterProofs ------------------------
(***************************************************************************)
(* Theorems about SnapcastRouter, for any number of zones, dongles, slots  *)
(* and callers, when one call or pass is in progress at a time.            *)
(***************************************************************************)
EXTENDS SnapcastRouter, FiniteSetTheorems, TLAPS

Serial == MaxInFlight = 1

(***************************************************************************)
(* Between the two locks of a play or a stop the zone it is about, and no  *)
(* other, is out of step: a play has its stream and not yet its routing, a *)
(* stop has neither its stream nor forgotten its routing.                  *)
(***************************************************************************)
Between(t, z) == frame[t].pc \in {"desire", "forget"} /\ frame[t].zone = z

FrameInv(t) ==
  /\ {"pc", "zone", "ids", "pass"} = DOMAIN frame[t]
  /\ frame[t].pc \in {"start", "allocate", "desire", "release", "forget"} => frame[t].zone \in Zones
  /\ frame[t].pc \in {"start", "allocate", "desire"} => frame[t].ids # {}
  /\ frame[t].pc = "desire" => Allocated(frame[t].zone)
  /\ frame[t].pc = "forget" => ~Allocated(frame[t].zone)

Alone == \A t, u \in Threads : At(t, "idle") \/ At(u, "idle") \/ t = u

InStep == \A z \in Zones : (Allocated(z) <=> desired[z] # {}) \/ \E t \in Threads : Between(t, z)

Maps == pool \in Pools /\ DOMAIN desired = Zones /\ DOMAIN frame = Threads

IInv == Maps /\ Alone /\ InStep /\ \A t \in Threads : FrameInv(t)
-----------------------------------------------------------------------------
(* The pool                                                                *)

\* A zone that is allocated a slot has one, and the others keep or lack theirs.
LEMMA AllocateHolds ==
  ASSUME pool \in Pools, NEW z \in Zones, NEW k \in Slots,
         Allocates(pool, z, k), pool' = Allocate(pool, z, k)
  PROVE  /\ pool' \in Pools /\ Allocated(z)'
         /\ \A y \in Zones \ {z} : Allocated(y)' <=> Allocated(y)
<1>1. pool[k] \in {z, None} BY DEF Allocates, FirstSlot
<1> QED BY <1>1, NoneAssumption DEF Pools, Allocate, Allocated

\* A zone that is released has none, and the others keep or lack theirs.
LEMMA ReleaseFrees ==
  ASSUME pool \in Pools, NEW z \in Zones, pool' = Release(pool, z)
  PROVE  /\ pool' \in Pools /\ ~Allocated(z)'
         /\ \A y \in Zones \ {z} : Allocated(y)' <=> Allocated(y)
BY NoneAssumption DEF Pools, Release, Allocated
-----------------------------------------------------------------------------
(* One call at a time                                                      *)

\* A call starts when no thread is in one.
LEMMA StartsAlone ==
  ASSUME Serial, NEW t \in Threads, Starts(t)
  PROVE  \A u \in Threads : At(u, "idle")
<1> DEFINE busy == {u \in Threads : ~At(u, "idle")}
<1>1. IsFiniteSet(Threads)
  BY FiniteAssumption, FS_AddElement DEF Threads
<1>2. IsFiniteSet(busy) BY <1>1, FS_Subset
<1>3. Cardinality(busy) \in Nat BY <1>2, FS_CardinalityType
<1>4. Cardinality(busy) = 0 BY <1>3 DEF Starts, Serial
<1>5. busy = {} BY <1>2, <1>4, FS_EmptySet
<1> QED BY <1>5

LEMMA IdleIs == Idle.pc = "idle" /\ DOMAIN Idle = {"pc", "zone", "ids", "pass"}
BY DEF Idle

LEMMA InitInv == Init => IInv
<1> SUFFICES ASSUME Init PROVE IInv OBVIOUS
<1>1. \A z \in Zones : ~Allocated(z)
  BY NoneAssumption DEF Init, EmptyPool, Allocated
<1> QED BY <1>1, IdleIs
     DEF Init, IInv, Maps, Alone, InStep, FrameInv, EmptyPool, Pools, At

\* What a step of thread t leaves of the other threads.
OnlyOf(t) ==
  /\ DOMAIN frame' = Threads
  /\ DOMAIN frame'[t] = {"pc", "zone", "ids", "pass"}
  /\ \A u \in Threads \ {t} : frame'[u] = frame[u]

\* The thread may take the step without another being in a call after it.
Allowed(t) == At(t, "idle")' \/ ~At(t, "idle") \/ \A u \in Threads : At(u, "idle")

LEMMA AloneStep ==
  ASSUME IInv, NEW t \in Threads, OnlyOf(t), Allowed(t) PROVE Alone'
BY DEF IInv, Alone, At, OnlyOf, Allowed

\* A step of a thread that leaves pool and routing alone, and is not between the
\* locks, keeps the invariant.
LEMMA FrameStep ==
  ASSUME IInv, UNCHANGED <<pool, desired>>, NEW t \in Threads, OnlyOf(t), Allowed(t),
         ~At(t, "desire"), ~At(t, "forget"),
         frame'[t].pc \notin {"desire", "forget"},
         frame'[t].pc \in {"start", "allocate", "release"} => frame'[t].zone \in Zones,
         frame'[t].pc \in {"start", "allocate"} => frame'[t].ids # {}
  PROVE  IInv'
<1>1. Maps' BY DEF IInv, Maps, OnlyOf
<1>2. \A z \in Zones : Allocated(z)' <=> Allocated(z) BY DEF Allocated
<1>3. \A u \in Threads : FrameInv(u)'
  <2>1. FrameInv(t)' BY DEF FrameInv, OnlyOf
  <2>2. \A u \in Threads \ {t} : FrameInv(u)' BY <1>2 DEF FrameInv, IInv, OnlyOf
  <2> QED BY <2>1, <2>2
<1>4. InStep'
  <2>1. ASSUME NEW z \in Zones, NEW u \in Threads, Between(u, z) PROVE Between(u, z)'
    BY <2>1 DEF Between, At, OnlyOf
  <2> QED BY <1>2, <2>1 DEF IInv, InStep
<1> QED BY <1>1, <1>3, <1>4, AloneStep DEF IInv

\* So does a step that leaves the frames alone as well.
LEMMA SameStep ==
  ASSUME IInv, UNCHANGED <<pool, desired, frame>> PROVE IInv'
BY DEF IInv, Maps, Alone, InStep, FrameInv, At, Between, Allocated
-----------------------------------------------------------------------------
(* The engine's calls begin                                                *)

LEMMA CallStep ==
  ASSUME IInv, Serial, NEW c \in Callers,
         \/ \E z \in Zones : Play(c, z) \/ Stop(c, z)
         \/ \E z \in Zones, ids \in SUBSET Dongles : SetZoneOutputs(c, z, ids)
         \/ \E d \in Dongles : RegisterDongle(c, d)
  PROVE  IInv'
<1> c \in Threads BY DEF Threads
<1>1. \A u \in Threads : At(u, "idle") BY StartsAlone DEF Play, Stop, SetZoneOutputs, RegisterDongle, Calls
<1>2. Allowed(c) /\ At(c, "idle") BY <1>1 DEF Allowed
<1>3. UNCHANGED <<pool, desired>> BY DEF Play, Stop, SetZoneOutputs, RegisterDongle, router
<1>4. CASE \E z \in Zones : Play(c, z)
  <2>1. PICK z \in Zones : Play(c, z) BY <1>4
  <2>2. /\ OnlyOf(c) /\ frame'[c].pc = "start" /\ frame'[c].zone = z /\ frame'[c].ids # {}
    BY <2>1 DEF Play, Go, Idle, IInv, Maps, OnlyOf
  <2> QED BY <1>2, <1>3, <2>2, FrameStep DEF At
<1>5. CASE \E z \in Zones : Stop(c, z)
  <2>1. PICK z \in Zones : Stop(c, z) BY <1>5
  <2>2. OnlyOf(c) /\ frame'[c].pc = "release" /\ frame'[c].zone = z
    BY <2>1 DEF Stop, Go, Idle, IInv, Maps, OnlyOf
  <2> QED BY <1>2, <1>3, <2>2, FrameStep DEF At
<1>6. CASE \/ \E z \in Zones, ids \in SUBSET Dongles : SetZoneOutputs(c, z, ids)
           \/ \E d \in Dongles : RegisterDongle(c, d)
  <2>1. frame' = [frame EXCEPT ![c].pc = "entries"]
    BY <1>6 DEF SetZoneOutputs, RegisterDongle, Goto
  <2>2. OnlyOf(c) /\ frame'[c].pc = "entries"
    BY <2>1 DEF IInv, Maps, OnlyOf, FrameInv
  <2> QED BY <1>2, <1>3, <2>2, FrameStep DEF At
<1> QED BY <1>4, <1>5, <1>6
-----------------------------------------------------------------------------
(* The router's calls                                                      *)

\* A return, or a step to a place that wants nothing of the frame.
LEMMA ReturnStep ==
  ASSUME IInv, NEW t \in Threads, Return(t) PROVE OnlyOf(t) /\ At(t, "idle")' /\ Allowed(t)
BY IdleIs DEF Return, Go, IInv, Maps, OnlyOf, At, Allowed

LEMMA GotoStep ==
  ASSUME IInv, NEW t \in Threads, NEW p, Goto(t, p), ~At(t, "idle")
  PROVE  /\ OnlyOf(t) /\ Allowed(t) /\ frame'[t].pc = p
         /\ frame'[t].zone = frame[t].zone /\ frame'[t].ids = frame[t].ids
BY DEF Goto, IInv, Maps, FrameInv, OnlyOf, At, Allowed

LEMMA EnsureStartedStep ==
  ASSUME IInv, NEW t \in Threads, EnsureStarted(t) PROVE IInv'
<1>1. UNCHANGED <<pool, desired>> /\ ~At(t, "idle") /\ ~At(t, "desire") /\ ~At(t, "forget")
  BY DEF EnsureStarted, At
<1>2. CASE Return(t) BY <1>1, <1>2, ReturnStep, FrameStep DEF At
<1>3. CASE Goto(t, "allocate")
  BY <1>1, <1>3, GotoStep, FrameStep DEF EnsureStarted, At, IInv, FrameInv
<1> QED BY <1>2, <1>3 DEF EnsureStarted

\* allocate: the play holds a stream, and its zone alone may be out of step.
LEMMA AllocateStep ==
  ASSUME IInv, NEW t \in Threads, AllocateSlot(t) PROVE IInv'
<1>1. PICK z \in Zones : /\ z = frame[t].zone /\ frame[t].ids # {}
                         /\ ~At(t, "idle") /\ frame[t].pc = "allocate"
  BY DEF AllocateSlot, At, IInv, FrameInv
<1>2. CASE Return(t) /\ UNCHANGED pool
  BY <1>1, <1>2, ReturnStep, FrameStep DEF AllocateSlot, At
<1>3. ASSUME NEW k \in Slots, Allocates(pool, z, k), pool' = Allocate(pool, z, k),
             Goto(t, "desire")
      PROVE  IInv'
  <2>1. /\ pool' \in Pools /\ Allocated(z)'
        /\ \A y \in Zones \ {z} : Allocated(y)' <=> Allocated(y)
    BY <1>1, <1>3, AllocateHolds DEF IInv, Maps
  <2>2. /\ OnlyOf(t) /\ Allowed(t) /\ frame'[t].pc = "desire"
        /\ frame'[t].zone = z /\ frame'[t].ids # {}
    BY <1>1, <1>3, GotoStep
  <2>3. desired' = desired BY DEF AllocateSlot
  <2>4. \A u \in Threads \ {t} : frame[u].pc = "idle" /\ frame'[u].pc = "idle"
    BY <1>1, <2>2 DEF IInv, Alone, At, OnlyOf
  <2>5. Maps' BY <2>1, <2>2, <2>3 DEF IInv, Maps, OnlyOf
  <2>6. \A u \in Threads : FrameInv(u)'
    BY <1>1, <2>1, <2>2, <2>4 DEF FrameInv, IInv, OnlyOf
  <2>7. InStep'
    <3>1. Between(t, z)' BY <2>2 DEF Between
    <3>2. ASSUME NEW y \in Zones \ {z} PROVE (Allocated(y)' <=> desired'[y] # {})
      BY <1>1, <2>1, <2>3, <2>4 DEF IInv, InStep, Between
    <3> QED BY <3>1, <3>2 DEF InStep
  <2> QED BY <2>2, <2>5, <2>6, <2>7, AloneStep DEF IInv
<1> QED BY <1>1, <1>2, <1>3 DEF AllocateSlot

\* The routing follows, and the zone is in step again.
LEMMA DesireStep ==
  ASSUME IInv, NEW t \in Threads, Desire(t) \/ Forget(t) PROVE IInv'
<1>1. PICK z \in Zones : /\ z = frame[t].zone /\ ~At(t, "idle")
                         /\ frame[t].pc \in {"desire", "forget"}
  BY DEF Desire, Forget, At, IInv, FrameInv
<1>2. /\ OnlyOf(t) /\ Allowed(t) /\ frame'[t].pc \in {"entries", "idle"}
  BY <1>1, GotoStep, ReturnStep DEF Desire, Forget, At
<1>3. \A u \in Threads \ {t} : frame[u].pc = "idle" /\ frame'[u].pc = "idle"
  BY <1>1, <1>2 DEF IInv, Alone, At, OnlyOf
<1>4. pool' = pool /\ \A y \in Zones : Allocated(y)' <=> Allocated(y)
  BY DEF Desire, Forget, Allocated
<1>5. DOMAIN desired' = Zones /\ \A y \in Zones \ {z} : desired'[y] = desired[y]
  BY <1>1 DEF Desire, Forget, IInv, Maps
<1>6. Allocated(z) <=> desired'[z] # {}
  <2>1. CASE Desire(t) BY <1>1, <2>1 DEF Desire, At, IInv, Maps, FrameInv
  <2>2. CASE Forget(t) BY <1>1, <2>2 DEF Forget, At, IInv, Maps, FrameInv
  <2> QED BY <2>1, <2>2
<1>7. Maps' BY <1>2, <1>4, <1>5 DEF IInv, Maps, OnlyOf
<1>8. \A u \in Threads : FrameInv(u)' BY <1>2, <1>3 DEF FrameInv, IInv, OnlyOf
<1>9. InStep'
  <2>1. ASSUME NEW y \in Zones PROVE Allocated(y)' <=> desired'[y] # {}
    <3>1. CASE y = z BY <3>1, <1>4, <1>6
    <3>2. CASE y # z BY <3>2, <1>1, <1>3, <1>4, <1>5 DEF IInv, InStep, Between
    <3> QED BY <3>1, <3>2
  <2> QED BY <2>1 DEF InStep
<1> QED BY <1>2, <1>7, <1>8, <1>9, AloneStep DEF IInv

\* release_zone: the stream goes first.
LEMMA ReleaseStep ==
  ASSUME IInv, NEW t \in Threads, ReleaseSlot(t) PROVE IInv'
<1>1. PICK z \in Zones : /\ z = frame[t].zone /\ ~At(t, "idle")
                         /\ frame[t].pc = "release"
  BY DEF ReleaseSlot, At, IInv, FrameInv
<1>2. /\ pool' \in Pools /\ ~Allocated(z)'
      /\ \A y \in Zones \ {z} : Allocated(y)' <=> Allocated(y)
  BY <1>1, ReleaseFrees DEF ReleaseSlot, IInv, Maps
<1>3. /\ OnlyOf(t) /\ Allowed(t) /\ frame'[t].pc = "forget" /\ frame'[t].zone = z
  BY <1>1, GotoStep DEF ReleaseSlot
<1>4. desired' = desired BY DEF ReleaseSlot
<1>5. \A u \in Threads \ {t} : frame[u].pc = "idle" /\ frame'[u].pc = "idle"
  BY <1>1, <1>3 DEF IInv, Alone, At, OnlyOf
<1>6. Maps' BY <1>2, <1>3, <1>4 DEF IInv, Maps, OnlyOf
<1>7. \A u \in Threads : FrameInv(u)' BY <1>1, <1>2, <1>3, <1>5 DEF FrameInv, IInv, OnlyOf
<1>8. InStep'
  <2>1. Between(t, z)' BY <1>3 DEF Between
  <2>2. ASSUME NEW y \in Zones \ {z} PROVE (Allocated(y)' <=> desired'[y] # {})
    BY <1>1, <1>2, <1>4, <1>5 DEF IInv, InStep, Between
  <2> QED BY <2>1, <2>2 DEF InStep
<1> QED BY <1>3, <1>6, <1>7, <1>8, AloneStep DEF IInv
-----------------------------------------------------------------------------
(* The passes                                                              *)

\* A step of a pass is one of its thread alone.
LEMMA PassMoves ==
  ASSUME IInv, NEW t \in Threads, Reconcile(t)
  PROVE  OnlyOf(t) /\ Allowed(t) /\ frame'[t].pc \in {"idle", "status", "entry", "bind"}
<1>1. frame[t].pc \in {"entries", "status", "entry", "bind"}
  BY DEF Reconcile, NotStarted, Entries, GetStatus, Skip, SetClients, SetStream, At
<1>2. frame' = [frame EXCEPT ![t] = frame'[t]]
        /\ DOMAIN frame'[t] = {"pc", "zone", "ids", "pass"}
        /\ frame'[t].pc \in {"idle", "status", "entry", "bind"}
  <2>1. CASE Return(t) BY <2>1, IdleIs DEF Return, Go, IInv, Maps
  <2>2. CASE Entries(t) BY <2>2 DEF Entries, Go, Idle, IInv, Maps
  <2>3. CASE GetStatus(t) /\ ~Return(t) BY <2>3 DEF GetStatus, Go, IInv, Maps, FrameInv
  <2>4. CASE Skip(t) /\ ~Return(t) BY <1>1, <2>4 DEF Skip, At, IInv, Maps, FrameInv
  <2>5. CASE SetClients(t) /\ ~Return(t)
    <3>1. PICK z, first : frame' = [frame EXCEPT ![t].pc = "bind", ![t].zone = z, ![t].ids = {first}]
      BY <2>5 DEF SetClients
    <3> QED BY <3>1 DEF IInv, Maps, FrameInv
  <2>6. CASE SetStream(t) /\ ~Return(t) BY <2>6 DEF SetStream, IInv, Maps, FrameInv
  <2> QED BY <2>1, <2>2, <2>3, <2>4, <2>5, <2>6 DEF Reconcile, NotStarted
<1>3. OnlyOf(t) BY <1>2 DEF OnlyOf, IInv, Maps
<1>4. Allowed(t) BY <1>1 DEF Allowed, At
<1> QED BY <1>2, <1>3, <1>4

\* A pass reads pool and routing and changes neither.
LEMMA PassStep ==
  ASSUME IInv, NEW t \in Threads, Reconcile(t) PROVE IInv'
<1>1. UNCHANGED <<pool, desired>> /\ frame[t].pc \in {"entries", "status", "entry", "bind"}
  BY DEF Reconcile, NotStarted, Entries, GetStatus, Skip, SetClients, SetStream, router, At
<1>2. OnlyOf(t) /\ Allowed(t) /\ frame'[t].pc \in {"idle", "status", "entry", "bind"}
  BY PassMoves
<1> QED BY <1>1, <1>2, FrameStep DEF At

LEMMA NotifiedStep == ASSUME IInv, Serial, Notified PROVE IInv'
<1> Events \in Threads BY DEF Threads
<1>1. \A u \in Threads : At(u, "idle") BY StartsAlone DEF Notified
<1>2. frame' = [frame EXCEPT ![Events].pc = "entries"] BY DEF Notified, Goto
<1>3. OnlyOf(Events) /\ frame'[Events].pc = "entries"
  BY <1>2 DEF IInv, Maps, OnlyOf, FrameInv
<1>4. Allowed(Events) BY <1>1 DEF Allowed
<1> QED BY <1>1, <1>3, <1>4, FrameStep DEF Notified, router, At
-----------------------------------------------------------------------------
LEMMA NextStep == ASSUME IInv, Serial, [Next]_vars PROVE IInv'
<1>1. CASE UNCHANGED vars BY <1>1, SameStep DEF vars, router
<1>2. CASE SnapserverRestarts BY <1>2, SameStep DEF SnapserverRestarts
<1>3. CASE \E d \in Dongles : ClientConnects(d) \/ ClientDisconnects(d)
  BY <1>3, SameStep DEF ClientConnects, ClientDisconnects, router
<1>4. CASE \E c \in Callers, d \in Dongles : DongleOffline(c, d)
  BY <1>4, SameStep DEF DongleOffline, router
<1>5. CASE \E c \in Callers : Route(c)
  <2>1. PICK c \in Callers : Route(c) BY <1>5
  <2>2. c \in Threads BY DEF Threads
  <2> QED BY <2>1, <2>2, EnsureStartedStep, AllocateStep, DesireStep, ReleaseStep DEF Route
<1> QED BY <1>1, <1>2, <1>3, <1>4, <1>5, CallStep, PassStep, NotifiedStep DEF Next

\* One call at a time, the pool and the desired routing agree between calls: a zone
\* has a stream exactly if it has desired clients.
THEOREM PoolFollowsRouting ==
  ASSUME Serial PROVE Spec => []StreamIffDesired
<1>1. IInv => StreamIffDesired
  BY DEF IInv, InStep, Between, StreamIffDesired, Quiet, At
<1>2. IInv /\ [Next]_vars => IInv' BY NextStep
<1> QED BY <1>1, <1>2, InitInv, PTL DEF Spec
-----------------------------------------------------------------------------
(***************************************************************************)
(* Convergence.  A pass works on a copy of the routing and on one status   *)
(* of snapserver.  Neither can change under it without a notification, and *)
(* its own requests leave every group it has still to use with a client.   *)
(***************************************************************************)

\* Outputs are dongles, and so is what a zone wants or a call that plays in it.
Wants ==
  /\ outputs \in [Zones -> SUBSET Dongles]
  /\ \A z \in Zones : desired[z] \subseteq Dongles
  /\ \A t \in Threads : frame[t].pc \in {"start", "allocate", "desire"} =>
       frame[t].ids \subseteq Dongles

\* Snapserver has no clients before it is started.
NoClients ==
  started \in {"no", "yes", "dead"} /\ (started = "no" => connected = {})

\* What a pass copied is still the routing.
Copied(t) ==
  LET pass == frame[t].pass IN
  frame[t].pc \in {"status", "entry", "bind"} =>
    /\ DOMAIN pass = {"left", "stream", "clients", "group", "present"}
    /\ \A z \in pass.left : z \in Zones /\ Routed(z)
    /\ \A z \in Zones : Routed(z) =>
         pass.clients[z] = desired[z] /\ pass.stream[z] = StreamFor(z)
    /\ frame[t].pc = "status" => \A z \in Zones : Routed(z) => z \in pass.left

\* The clients of zone z hear its stream.
Heard(z) == \A d \in desired[z] \cap connected : stream[d] = StreamFor(z)

\* The zones a pass still has to give a group, and those that have theirs.
Waiting(t) == IF At(t, "bind") THEN frame[t].pass.left \ {frame[t].zone}
                               ELSE frame[t].pass.left
Grouped(t, y) == Routed(y) /\ y \notin Waiting(t)

\* The group a pass is about to take for dongle d is not empty: d is still in it,
\* or a zone that was served before d took it.
Standing(t, d) ==
  \/ group[d] = frame[t].pass.group[d]
  \/ \E y \in Zones : Grouped(t, y) /\
       \E e \in desired[y] \cap connected : group[e] = frame[t].pass.group[d]

\* A pass that nothing has disturbed.
Undisturbed(t) ==
  /\ frame[t].pass.present = connected
  /\ \A z \in Zones : Routed(z) /\ z \notin frame[t].pass.left => Heard(z)
  /\ \A z \in Waiting(t) : \A d \in desired[z] \cap connected : Standing(t, d)
  /\ At(t, "bind") =>
       /\ frame[t].zone \in frame[t].pass.left
       /\ \E first \in desired[frame[t].zone] \cap connected :
            /\ frame[t].ids = {first}
            /\ \A d \in Dongles : group[d] = frame[t].pass.group[first]
                                  <=> d \in desired[frame[t].zone] \cap connected

\* Unless a notification waits, a pass under way is undisturbed, and with no pass
\* under way or about to start every routed zone is heard.
Converging ==
  started # "dead" /\ ~notified =>
    /\ \A t \in Threads : frame[t].pc \in {"entry", "bind"} => Undisturbed(t)
    /\ (\A t \in Threads : frame[t].pc \notin {"entries", "status", "entry", "bind"})
         => \A z \in Zones : Routed(z) => Heard(z)

CInv ==
  /\ IInv /\ Wants /\ NoClients /\ Converging
  /\ \A t \in Threads : Copied(t)
-----------------------------------------------------------------------------
(* Steps that do not touch the routing                                     *)

\* A zone whose slots are the same has the same stream.
LEMMA SameStream ==
  ASSUME NEW z \in Zones, \A k \in Slots : pool'[k] = z <=> pool[k] = z
  PROVE  StreamFor(z)' = StreamFor(z)
<1>1. \A k \in Slots : FirstSlot(pool, z, k)' <=> FirstSlot(pool, z, k) BY DEF FirstSlot
<1> QED BY <1>1, Zenon DEF StreamFor

\* What a zone wants are dongles.
LEMMA WantsDongles ==
  ASSUME Wants, NEW z \in Zones PROVE desired[z] \subseteq Dongles
BY DEF Wants

LEMMA InitCInv == Init => CInv
<1> SUFFICES ASSUME Init PROVE CInv OBVIOUS
<1>1. IInv BY InitInv
<1>2. \A t \in Threads : frame[t].pc = "idle" BY IdleIs DEF Init
<1>3. \A z \in Zones : ~Routed(z) BY DEF Init, Routed
<1>4. Wants /\ NoClients BY <1>2, MemberAssumption DEF Init, Wants, NoClients
<1>5. Converging BY <1>2, <1>3 DEF Converging
<1>6. \A t \in Threads : Copied(t) BY <1>2 DEF Copied
<1> QED BY <1>1, <1>4, <1>5, <1>6 DEF CInv

\* The routing of a step that leaves the pool and the desired routing.
LEMMA RoutingKept ==
  ASSUME UNCHANGED <<pool, desired>>
  PROVE  \A z \in Zones : /\ Routed(z)' = Routed(z) /\ StreamFor(z)' = StreamFor(z)
                          /\ desired'[z] = desired[z]
BY DEF Routed, Allocated, StreamFor

\* A step of thread t, the only one in a call: what is left to show of it.
LEMMA OneStep ==
  ASSUME CInv, IInv', NEW t \in Threads, OnlyOf(t),
         \A u \in Threads \ {t} : frame[u].pc = "idle",
         outputs' \in [Zones -> SUBSET Dongles], \A z \in Zones : desired'[z] \subseteq Dongles,
         frame'[t].pc \in {"start", "allocate", "desire"} =>
           frame'[t].ids \subseteq Dongles,
         NoClients', Copied(t)',
         started' # "dead" /\ ~notified' =>
           /\ frame'[t].pc \in {"entry", "bind"} => Undisturbed(t)'
           /\ frame'[t].pc \notin {"entries", "status", "entry", "bind"}
                => \A z \in Zones : Routed(z)' => Heard(z)'
  PROVE  CInv'
<1>1. \A u \in Threads \ {t} : frame'[u].pc = "idle" BY DEF OnlyOf
<1>2. Wants' BY <1>1 DEF CInv, Wants
<1>4. \A u \in Threads : Copied(u)' BY <1>1 DEF Copied
<1>5. Converging'
  <2>1. \A u \in Threads \ {t} : frame'[u].pc \notin {"entry", "bind"} BY <1>1
  <2> QED BY <2>1 DEF Converging
<1> QED BY <1>2, <1>4, <1>5 DEF CInv

\* A step that leaves everything a pass depends on.
LEMMA StillStep ==
  ASSUME CInv, IInv',
         UNCHANGED <<outputs, pool, desired, started, connected, group, stream, notified, frame>>
  PROVE  CInv'
<1>1. \A z \in Zones : /\ Routed(z)' = Routed(z) /\ StreamFor(z)' = StreamFor(z)
                        /\ desired'[z] = desired[z]
  BY RoutingKept
<1>2. \A z \in Zones : Heard(z)' = Heard(z) BY <1>1 DEF Heard
<1>3. \A t \in Threads : Copied(t)' = Copied(t) BY <1>1 DEF Copied
<1>4. \A t \in Threads : Waiting(t)' = Waiting(t) BY DEF Waiting, At
<1>5. ASSUME NEW t \in Threads, NEW d PROVE Standing(t, d)' = Standing(t, d)
  BY <1>1, <1>4 DEF Standing, Grouped
<1>6. \A t \in Threads : Undisturbed(t) => Undisturbed(t)'
  BY <1>1, <1>2, <1>4, <1>5 DEF Undisturbed, At
<1>7. Converging' BY <1>1, <1>2, <1>6 DEF CInv, Converging
<1>8. Wants' /\ NoClients' BY DEF CInv, Wants, NoClients
<1> QED BY <1>3, <1>7, <1>8 DEF CInv

\* A client comes or goes, and the event listener will be told; or snapserver
\* restarts, and nothing is promised any more.
LEMMA ServerStep ==
  ASSUME CInv, IInv',
         SnapserverRestarts \/ \E d \in Dongles : ClientConnects(d) \/ ClientDisconnects(d)
  PROVE  CInv'
<1>1. UNCHANGED <<outputs, pool, desired, frame>>
  BY DEF SnapserverRestarts, ClientConnects, ClientDisconnects, router
<1>2. started' \in {"yes", "dead"} /\ (started' = "dead" \/ notified')
  <2>1. CASE SnapserverRestarts BY <2>1 DEF SnapserverRestarts
  <2>2. CASE \E d \in Dongles : ClientConnects(d) \/ ClientDisconnects(d)
    <3>1. started' = started /\ started # "no" /\ notified'
      BY <2>2 DEF ClientConnects, ClientDisconnects, router, CInv, NoClients
    <3> QED BY <3>1 DEF CInv, NoClients
  <2> QED BY <2>1, <2>2
<1>3. \A z \in Zones : /\ Routed(z)' = Routed(z) /\ StreamFor(z)' = StreamFor(z)
                        /\ desired'[z] = desired[z]
  BY <1>1, RoutingKept
<1>4. \A t \in Threads : Copied(t)' BY <1>1, <1>3 DEF Copied, CInv
<1>5. Wants' BY <1>1 DEF CInv, Wants
<1> QED BY <1>2, <1>4, <1>5 DEF CInv, NoClients, Converging
-----------------------------------------------------------------------------
(* Calls begin, and change the routing                                     *)

\* The group of a routed client, and the routing, are as before: so is what it hears.
LEMMA HeardKept ==
  ASSUME NEW z \in Zones, Heard(z), UNCHANGED <<connected, stream>>,
         desired'[z] = desired[z], StreamFor(z)' = StreamFor(z)
  PROVE  Heard(z)'
BY DEF Heard

\* With every thread idle, every routed zone is heard or a notification waits.
LEMMA RestHeard ==
  ASSUME CInv, \A u \in Threads : frame[u].pc \notin {"entries", "status", "entry", "bind"},
         started # "dead", ~notified
  PROVE  \A z \in Zones : Routed(z) => Heard(z)
BY DEF CInv, Converging

LEMMA CallConverges ==
  ASSUME CInv, IInv', Serial, NEW c \in Callers,
         \/ \E z \in Zones : Play(c, z) \/ Stop(c, z)
         \/ \E z \in Zones, ids \in SUBSET Dongles : SetZoneOutputs(c, z, ids)
         \/ \E d \in Dongles : RegisterDongle(c, d)
  PROVE  CInv'
<1> c \in Threads BY DEF Threads
<1>1. \A u \in Threads : frame[u].pc = "idle"
  BY StartsAlone DEF Play, Stop, SetZoneOutputs, RegisterDongle, Calls, At
<1>2. UNCHANGED <<pool, desired, started, connected, group, stream, notified>>
  BY DEF Play, Stop, SetZoneOutputs, RegisterDongle, router, server
<1>3. outputs' \in [Zones -> SUBSET Dongles]
  BY DEF Play, Stop, SetZoneOutputs, RegisterDongle, CInv, Wants
<1>4. \A z \in Zones : /\ Routed(z)' = Routed(z) /\ StreamFor(z)' = StreamFor(z)
                        /\ desired'[z] = desired[z]
  BY <1>2, RoutingKept
<1>5. started' # "dead" /\ ~notified' => \A z \in Zones : Routed(z)' => Heard(z)'
  BY <1>1, <1>2, <1>4, RestHeard, HeardKept
<1>6. \A z \in Zones : desired'[z] \subseteq Dongles BY <1>2 DEF CInv, Wants
<1>7. NoClients' BY <1>2 DEF NoClients, CInv
<1>8. /\ OnlyOf(c) /\ frame'[c].pc \in {"start", "release", "entries"}
      /\ frame'[c].pc = "start" => frame'[c].ids \subseteq Dongles
  <2>1. CASE \E z \in Zones : Play(c, z)
    <3>1. PICK z \in Zones : Play(c, z) BY <2>1
    <3>2. /\ OnlyOf(c) /\ frame'[c].pc = "start" /\ frame'[c].zone = z
          /\ frame'[c].ids = outputs[z] \cap online /\ outputs[z] \subseteq Dongles
      BY <3>1 DEF Play, Go, Idle, CInv, IInv, Maps, OnlyOf, Wants
    <3> QED BY <3>2 DEF CInv, Wants
  <2>2. CASE \E z \in Zones : Stop(c, z)
    <3>1. OnlyOf(c) /\ frame'[c].pc = "release"
      BY <2>2 DEF Stop, Go, Idle, CInv, IInv, Maps, OnlyOf
    <3> QED BY <3>1
  <2>3. CASE \/ \E z \in Zones, ids \in SUBSET Dongles : SetZoneOutputs(c, z, ids)
             \/ \E d \in Dongles : RegisterDongle(c, d)
    <3>1. frame' = [frame EXCEPT ![c].pc = "entries"]
      BY <2>3 DEF SetZoneOutputs, RegisterDongle, Goto
    <3>2. OnlyOf(c) /\ frame'[c].pc = "entries"
      BY <3>1 DEF CInv, IInv, Maps, OnlyOf, FrameInv
    <3> QED BY <3>2
  <2> QED BY <2>1, <2>2, <2>3
<1>9. Copied(c)' BY <1>8 DEF Copied
<1> QED BY <1>1, <1>3, <1>5, <1>6, <1>7, <1>8, <1>9, OneStep

\* The event listener reads a notification: its pass is to come.
LEMMA NotifiedConverges == ASSUME CInv, IInv', Serial, Notified PROVE CInv'
<1> Events \in Threads BY DEF Threads
<1>1. \A u \in Threads : frame[u].pc = "idle" BY StartsAlone DEF Notified, At
<1>2. frame' = [frame EXCEPT ![Events].pc = "entries"] BY DEF Notified, Goto
<1>3. OnlyOf(Events) /\ frame'[Events].pc = "entries"
  BY <1>2 DEF CInv, IInv, Maps, OnlyOf, FrameInv
<1>4. Copied(Events)' BY <1>3 DEF Copied
<1>5. NoClients' /\ outputs' = outputs /\ desired' = desired
  BY DEF CInv, NoClients, Notified, router
<1> QED BY <1>1, <1>3, <1>4, <1>5, OneStep DEF CInv, Wants

\* The other threads of one that is in a call.
LEMMA OthersIdle ==
  ASSUME IInv, NEW t \in Threads, ~At(t, "idle")
  PROVE  \A u \in Threads \ {t} : frame[u].pc = "idle"
BY DEF IInv, Alone, At

LEMMA EnsureStartedConverges ==
  ASSUME CInv, IInv', NEW t \in Threads, EnsureStarted(t) PROVE CInv'
<1>1. frame[t].pc = "start" /\ IInv BY DEF EnsureStarted, At, CInv
<1>2. \A u \in Threads \ {t} : frame[u].pc = "idle" BY <1>1, OthersIdle DEF At
<1>3. UNCHANGED <<outputs, pool, desired, connected, stream, notified>>
  BY DEF EnsureStarted, server
<1>4. \A z \in Zones : /\ Routed(z)' = Routed(z) /\ StreamFor(z)' = StreamFor(z)
                        /\ desired'[z] = desired[z]
  BY <1>3, RoutingKept
<1>5. (started' = started \/ started = "no") /\ NoClients'
  BY <1>3 DEF EnsureStarted, CInv, NoClients
<1>6. started' # "dead" /\ ~notified' => \A z \in Zones : Routed(z)' => Heard(z)'
  BY <1>1, <1>2, <1>3, <1>4, <1>5, RestHeard, HeardKept
<1>7. /\ OnlyOf(t) /\ frame'[t].pc \in {"allocate", "idle"}
      /\ frame'[t].pc = "allocate" => /\ frame'[t].zone = frame[t].zone
                                      /\ frame'[t].ids = frame[t].ids
  <2>1. CASE Return(t) BY <1>1, <2>1, ReturnStep DEF At
  <2>2. CASE Goto(t, "allocate") BY <1>1, <2>2, GotoStep DEF At
  <2> QED BY <2>1, <2>2 DEF EnsureStarted
<1>8. Copied(t)' BY <1>7 DEF Copied
<1>9. /\ outputs' \in [Zones -> SUBSET Dongles]
      /\ \A z \in Zones : desired'[z] \subseteq Dongles
      /\ frame'[t].pc = "allocate" => frame'[t].ids \subseteq Dongles
  BY <1>1, <1>3, <1>7 DEF CInv, Wants
<1> QED BY <1>2, <1>3, <1>5, <1>6, <1>7, <1>8, <1>9, OneStep

\* A play gets a stream, or has it: its zone is not routed yet or keeps its stream,
\* and so do the other zones.
LEMMA AllocateConverges ==
  ASSUME CInv, IInv', NEW t \in Threads, AllocateSlot(t) PROVE CInv'
<1>1. PICK z \in Zones : z = frame[t].zone /\ frame[t].pc = "allocate"
  BY DEF AllocateSlot, At, CInv, IInv, FrameInv
<1>2. \A u \in Threads \ {t} : frame[u].pc = "idle" BY <1>1, OthersIdle DEF At, CInv
<1>3. UNCHANGED <<outputs, desired, started, connected, stream, notified>>
  BY DEF AllocateSlot, server
<1>4. ASSUME NEW y \in Zones, Routed(y)'
      PROVE  Routed(y) /\ StreamFor(y)' = StreamFor(y)
  <2>1. CASE pool' = pool BY <2>1, <1>3, <1>4, RoutingKept
  <2>2. ASSUME NEW k \in Slots, Allocates(pool, z, k), pool' = Allocate(pool, z, k)
        PROVE  Routed(y) /\ StreamFor(y)' = StreamFor(y)
    <3>1. CASE FirstSlot(pool, z, k)
      <4>1. pool' = pool BY <2>2, <3>1 DEF Allocate, FirstSlot, CInv, IInv, Maps, Pools
      <4> QED BY <4>1, <1>3, <1>4, RoutingKept
    <3>2. CASE FirstSlot(pool, None, k) /\ ~Allocated(z)
      <4>1. desired[z] = {} BY <1>1, <1>2, <3>2 DEF CInv, IInv, InStep, Between
      <4>2. y # z BY <1>3, <1>4, <4>1 DEF Routed
      <4>3. \A j \in Slots : pool'[j] = y <=> pool[j] = y
        BY <2>2, <3>2, <4>2, NoneAssumption DEF Allocate, FirstSlot, CInv, IInv, Maps, Pools
      <4>4. Routed(y) BY <1>3, <1>4, <4>3 DEF Routed, Allocated
      <4>5. StreamFor(y)' = StreamFor(y) BY <4>3, SameStream
      <4> QED BY <4>4, <4>5
    <3> QED BY <2>2, <3>1, <3>2 DEF Allocates, Allocated
  <2> QED BY <1>1, <2>1, <2>2 DEF AllocateSlot
<1>5. started' # "dead" /\ ~notified' => \A y \in Zones : Routed(y)' => Heard(y)'
  BY <1>1, <1>2, <1>3, <1>4, RestHeard, HeardKept
<1>6. /\ OnlyOf(t) /\ frame'[t].pc \in {"desire", "idle"}
      /\ frame'[t].pc = "desire" => frame'[t].zone = z /\ frame'[t].ids = frame[t].ids
  <2>1. CASE Return(t) BY <1>1, <2>1, ReturnStep DEF At, CInv
  <2>2. CASE Goto(t, "desire") BY <1>1, <2>2, GotoStep DEF At, CInv
  <2> QED BY <2>1, <2>2 DEF AllocateSlot
<1>7. Copied(t)' BY <1>6 DEF Copied
<1>8. /\ NoClients' /\ \A y \in Zones : desired'[y] \subseteq Dongles
      /\ outputs' \in [Zones -> SUBSET Dongles]
      /\ frame'[t].pc = "desire" => frame'[t].ids \subseteq Dongles
  BY <1>1, <1>3, <1>6 DEF CInv, Wants, NoClients
<1> QED BY <1>2, <1>3, <1>5, <1>6, <1>7, <1>8, OneStep

\* The routing takes in the zone that plays: the reconcile is to come.
LEMMA DesireConverges ==
  ASSUME CInv, IInv', NEW t \in Threads, Desire(t) PROVE CInv'
<1>1. PICK z \in Zones : z = frame[t].zone /\ frame[t].pc = "desire"
  BY DEF Desire, At, CInv, IInv, FrameInv
<1>2. \A u \in Threads \ {t} : frame[u].pc = "idle" BY <1>1, OthersIdle DEF At, CInv
<1>3. OnlyOf(t) /\ frame'[t].pc = "entries" BY <1>1, GotoStep DEF Desire, At, CInv
<1>4. Copied(t)' BY <1>3 DEF Copied
<1>5. \A y \in Zones : desired'[y] \subseteq Dongles
  BY <1>1 DEF Desire, CInv, Wants, IInv, Maps
<1>6. outputs' \in [Zones -> SUBSET Dongles] /\ NoClients'
  BY DEF Desire, CInv, Wants, NoClients, server
<1> QED BY <1>2, <1>3, <1>4, <1>5, <1>6, OneStep

\* A stop takes its zone out of the routing and leaves the others.
LEMMA ReleaseConverges ==
  ASSUME CInv, IInv', NEW t \in Threads, ReleaseSlot(t) \/ Forget(t) PROVE CInv'
<1>1. PICK z \in Zones : z = frame[t].zone /\ frame[t].pc \in {"release", "forget"}
  BY DEF ReleaseSlot, Forget, At, CInv, IInv, FrameInv
<1>2. \A u \in Threads \ {t} : frame[u].pc = "idle" BY <1>1, OthersIdle DEF At, CInv
<1>3. UNCHANGED <<outputs, started, connected, stream, notified>>
  BY DEF ReleaseSlot, Forget, server
<1>4. OnlyOf(t) /\ frame'[t].pc \in {"forget", "idle"}
  BY <1>1, GotoStep, ReturnStep DEF ReleaseSlot, Forget, At, CInv
<1>5. \A y \in Zones : desired'[y] \subseteq desired[y]
  BY <1>1 DEF ReleaseSlot, Forget, CInv, IInv, Maps
<1>6. ASSUME NEW y \in Zones, Routed(y)'
      PROVE  Routed(y) /\ StreamFor(y)' = StreamFor(y) /\ desired'[y] = desired[y]
  <2>1. CASE ReleaseSlot(t)
    <3>1. pool' = Release(pool, z) /\ desired' = desired BY <1>1, <2>1 DEF ReleaseSlot
    <3>2. y # z BY <1>6, <3>1, ReleaseFrees DEF Routed, CInv, IInv, Maps
    <3>3. \A j \in Slots : pool'[j] = y <=> pool[j] = y
      BY <3>1, <3>2, NoneAssumption DEF Release, CInv, IInv, Maps, Pools
    <3>4. Routed(y) BY <1>6, <3>1, <3>3 DEF Routed, Allocated
    <3> QED BY <3>1, <3>3, <3>4, SameStream
  <2>2. CASE Forget(t)
    <3>1. pool' = pool /\ desired' = [desired EXCEPT ![z] = {}] BY <1>1, <2>2 DEF Forget
    <3>2. y # z BY <1>6, <3>1 DEF Routed, CInv, IInv, Maps
    <3>3. desired'[y] = desired[y] BY <3>1, <3>2 DEF CInv, IInv, Maps
    <3> QED BY <1>6, <3>1, <3>3 DEF Routed, Allocated, StreamFor
  <2> QED BY <2>1, <2>2
<1>7. started' # "dead" /\ ~notified' => \A y \in Zones : Routed(y)' => Heard(y)'
  BY <1>1, <1>2, <1>3, <1>6, RestHeard, HeardKept
<1>8. Copied(t)' BY <1>4 DEF Copied
<1>9. /\ NoClients' /\ \A y \in Zones : desired'[y] \subseteq Dongles
      /\ outputs' \in [Zones -> SUBSET Dongles]
  BY <1>3, <1>5 DEF CInv, NoClients, Wants
<1> QED BY <1>2, <1>3, <1>4, <1>7, <1>8, <1>9, OneStep
-----------------------------------------------------------------------------
(* The passes                                                              *)

\* A step of a pass: what is left to show.
LEMMA PassConverges ==
  ASSUME CInv, IInv', NEW t \in Threads, Reconcile(t), Copied(t)',
         started # "dead" /\ ~notified =>
           /\ frame'[t].pc \in {"entry", "bind"} => Undisturbed(t)'
           /\ frame'[t].pc = "idle" => \A z \in Zones : Routed(z)' => Heard(z)'
  PROVE  CInv'
<1>1. /\ UNCHANGED <<outputs, pool, desired, started, connected, notified>>
      /\ frame[t].pc \in {"entries", "status", "entry", "bind"}
  BY DEF Reconcile, NotStarted, Entries, GetStatus, Skip, SetClients, SetStream, router, server, At
<1>2. \A u \in Threads \ {t} : frame[u].pc = "idle" BY <1>1, OthersIdle DEF At, CInv
<1>3. OnlyOf(t) /\ frame'[t].pc \in {"idle", "status", "entry", "bind"}
  BY PassMoves DEF CInv
<1>4. /\ NoClients' /\ \A z \in Zones : desired'[z] \subseteq Dongles
      /\ outputs' \in [Zones -> SUBSET Dongles]
  BY <1>1 DEF CInv, NoClients, Wants
<1> QED BY <1>1, <1>2, <1>3, <1>4, OneStep

\* Without a snapserver there is no client to be heard.
LEMMA NotStartedConverges ==
  ASSUME CInv, IInv', NEW t \in Threads, NotStarted(t) PROVE CInv'
<1>1. At(t, "idle")' BY ReturnStep DEF NotStarted, CInv
<1>2. connected' = {} BY DEF NotStarted, CInv, NoClients, server
<1>3. \A z \in Zones : Heard(z)' BY <1>2 DEF Heard
<1>4. Copied(t)' BY <1>1 DEF Copied, At
<1> QED BY <1>1, <1>3, <1>4, PassConverges DEF Reconcile, At

\* The copy of the routing is the routing.
LEMMA EntriesConverges ==
  ASSUME CInv, IInv', NEW t \in Threads, Entries(t) PROVE CInv'
<1> DEFINE active == {z \in Zones : Routed(z)}
<1> DEFINE copy == [NoPass EXCEPT !.left = active,
                     !.stream = [z \in Zones |-> IF z \in active THEN StreamFor(z) ELSE None],
                     !.clients = [z \in Zones |-> IF z \in active THEN desired[z] ELSE {}]]
<1>1. frame' = [frame EXCEPT ![t] = [Idle EXCEPT !.pc = "status", !.pass = copy]]
  BY DEF Entries, Go, Routed
<1>2. frame'[t].pc = "status" /\ frame'[t].pass = copy BY <1>1 DEF Idle, CInv, IInv, Maps
<1>3. /\ DOMAIN copy = {"left", "stream", "clients", "group", "present"}
      /\ copy.left = active
      /\ \A z \in active : copy.stream[z] = StreamFor(z) /\ copy.clients[z] = desired[z]
  BY DEF NoPass
<1>4. \A z \in Zones : /\ Routed(z)' = Routed(z) /\ StreamFor(z)' = StreamFor(z)
                        /\ desired'[z] = desired[z]
  BY RoutingKept DEF Entries, router
<1>5. Copied(t)' BY <1>2, <1>3, <1>4 DEF Copied
<1> QED BY <1>2, <1>5, PassConverges DEF Reconcile

\* The status is what snapserver has.
LEMMA GetStatusConverges ==
  ASSUME CInv, IInv', NEW t \in Threads, GetStatus(t) PROVE CInv'
<1>1. frame[t].pc = "status" BY DEF GetStatus, At
<1>2. /\ UNCHANGED <<pool, desired, started, connected, group, stream>>
      /\ frame' \in {[frame EXCEPT ![t] = Idle],
            [frame EXCEPT ![t] = [frame[t] EXCEPT !.pc = "entry", !.pass.group = group,
                                                 !.pass.present = connected]]}
  BY DEF GetStatus, Return, Go, router, server
<1>3. \A z \in Zones : /\ Routed(z)' = Routed(z) /\ StreamFor(z)' = StreamFor(z)
                        /\ desired'[z] = desired[z]
  BY <1>2, RoutingKept
<1>4. CASE started = "dead"
  <2>1. At(t, "idle")' BY <1>4, ReturnStep DEF GetStatus, CInv
  <2>2. Copied(t)' BY <2>1 DEF Copied, At
  <2> QED BY <1>4, <2>2, PassConverges DEF Reconcile
<1>5. CASE started # "dead"
  <2> DEFINE pass == frame[t].pass
  <2>1. frame'[t] = [frame[t] EXCEPT !.pc = "entry", !.pass.group = group,
                                     !.pass.present = connected]
    BY <1>5 DEF GetStatus, Go, CInv, IInv, Maps
  <2>2. DOMAIN frame[t] = {"pc", "zone", "ids", "pass"} BY DEF CInv, IInv, FrameInv
  <2>3. DOMAIN pass = {"left", "stream", "clients", "group", "present"}
    BY <1>1 DEF CInv, Copied
  <2>4. frame'[t].pc = "entry" /\ frame'[t].pass = [pass EXCEPT !.group = group, !.present = connected]
    BY <2>1, <2>2
  <2>5. /\ DOMAIN frame'[t].pass = DOMAIN pass
        /\ frame'[t].pass.left = pass.left /\ frame'[t].pass.clients = pass.clients
        /\ frame'[t].pass.stream = pass.stream
        /\ frame'[t].pass.group = group /\ frame'[t].pass.present = connected
    BY <2>3, <2>4
  <2>6. Copied(t)' BY <1>1, <1>3, <2>4, <2>5 DEF Copied, CInv
  <2>7. Undisturbed(t)'
    <3>1. \A z \in Zones : Routed(z) => z \in pass.left BY <1>1 DEF Copied, CInv
    <3>2. \A d : Standing(t, d)' BY <1>2, <2>5 DEF Standing
    <3> QED BY <1>2, <1>3, <2>4, <2>5, <3>1, <3>2 DEF Undisturbed, At
  <2> QED BY <2>4, <2>6, <2>7, PassConverges DEF Reconcile
<1> QED BY <1>4, <1>5

\* The pass of thread t takes zone z off its list and goes on with the next.
LeavesOut(t, z) ==
  \/ frame[t].pc = "entry" /\ frame' = [frame EXCEPT ![t].pass.left = @ \ {z}]
  \/ frame' = [frame EXCEPT ![t].pc = "entry", ![t].pass.left = @ \ {z}]

\* A pass that takes a zone off its list keeps the rest of what it copied.
LEMMA LeftStep ==
  ASSUME CInv, NEW t \in Threads, NEW z, frame[t].pc \in {"entry", "bind"},
         UNCHANGED <<pool, desired>>,
         LeavesOut(t, z)
  PROVE  /\ Copied(t)' /\ frame'[t].pc = "entry"
         /\ frame'[t].pass.left = frame[t].pass.left \ {z}
         /\ frame'[t].pass.group = frame[t].pass.group
         /\ frame'[t].pass.present = frame[t].pass.present
         /\ frame'[t].zone = frame[t].zone /\ frame'[t].ids = frame[t].ids
<1> DEFINE pass == frame[t].pass
<1>1. DOMAIN frame[t] = {"pc", "zone", "ids", "pass"} /\ t \in DOMAIN frame
  BY DEF CInv, IInv, Maps, FrameInv
<1>2. DOMAIN pass = {"left", "stream", "clients", "group", "present"} BY DEF CInv, Copied
<1>3. /\ frame'[t].pc = "entry"
      /\ frame'[t].zone = frame[t].zone /\ frame'[t].ids = frame[t].ids
      /\ frame'[t].pass = [pass EXCEPT !.left = @ \ {z}]
  <2>1. CASE frame[t].pc = "entry" /\ frame' = [frame EXCEPT ![t].pass.left = @ \ {z}]
    <3>1. frame'[t] = [frame[t] EXCEPT !.pass.left = @ \ {z}] BY <1>1, <2>1
    <3> QED BY <1>1, <2>1, <3>1
  <2>2. CASE frame' = [frame EXCEPT ![t].pc = "entry", ![t].pass.left = @ \ {z}]
    <3>1. frame'[t] = [frame[t] EXCEPT !.pc = "entry", !.pass.left = @ \ {z}] BY <1>1, <2>2
    <3> QED BY <1>1, <3>1
  <2> QED BY <2>1, <2>2 DEF LeavesOut
<1>4. /\ DOMAIN frame'[t].pass = DOMAIN pass /\ frame'[t].pass.left = pass.left \ {z}
      /\ frame'[t].pass.clients = pass.clients /\ frame'[t].pass.stream = pass.stream
      /\ frame'[t].pass.group = pass.group /\ frame'[t].pass.present = pass.present
  BY <1>2, <1>3
<1>5. \A y \in Zones : /\ Routed(y)' = Routed(y) /\ StreamFor(y)' = StreamFor(y)
                        /\ desired'[y] = desired[y]
  BY RoutingKept
<1>6. Copied(t)' BY <1>2, <1>3, <1>4, <1>5 DEF Copied, CInv
<1> QED BY <1>3, <1>4, <1>6

\* A zone that is skipped has no client to be heard; the last one ends the pass.
LEMMA SkipConverges ==
  ASSUME CInv, IInv', NEW t \in Threads, Skip(t) PROVE CInv'
<1>1. /\ frame[t].pc = "entry" /\ Copied(t)
      /\ started # "dead" /\ ~notified => Undisturbed(t)
  BY DEF Skip, At, CInv, Converging
<1>2. UNCHANGED <<pool, desired, connected, group, stream>> BY DEF Skip, router, server
<1>3. \A z \in Zones : /\ Routed(z)' = Routed(z) /\ StreamFor(z)' = StreamFor(z)
                        /\ desired'[z] = desired[z]
  BY <1>2, RoutingKept
<1>4. CASE frame[t].pass.left = {} /\ Return(t)
  <2>1. At(t, "idle")' BY <1>4, ReturnStep DEF CInv
  <2>2. Copied(t)' BY <2>1 DEF Copied, At
  <2>3. started # "dead" /\ ~notified => \A z \in Zones : Routed(z)' => Heard(z)'
    BY <1>1, <1>2, <1>3, <1>4, HeardKept DEF Undisturbed
  <2> QED BY <2>1, <2>2, <2>3, PassConverges DEF Reconcile, At
<1>5. ASSUME NEW z \in frame[t].pass.left, Present(t, z) = {},
             frame' = [frame EXCEPT ![t].pass.left = @ \ {z}]
      PROVE  CInv'
  <2>1. /\ Copied(t)' /\ frame'[t].pc = "entry"
        /\ frame'[t].pass.left = frame[t].pass.left \ {z}
        /\ frame'[t].pass.group = frame[t].pass.group
        /\ frame'[t].pass.present = frame[t].pass.present
    <3>1. LeavesOut(t, z) BY <1>1, <1>5, Zenon DEF LeavesOut
    <3> QED BY <1>1, <1>2, <3>1, LeftStep
  <2>2. ASSUME Undisturbed(t) PROVE Undisturbed(t)'
    <3>1. z \in Zones /\ Routed(z) /\ frame[t].pass.clients[z] = desired[z]
      BY <1>1, <1>5 DEF Copied
    <3>2. Heard(z) BY <1>5, <2>2, <3>1 DEF Present, Undisturbed, Heard
    <3>3. ASSUME NEW y \in Zones, Routed(y)', y \notin frame'[t].pass.left PROVE Heard(y)'
      BY <1>2, <1>3, <2>1, <2>2, <3>2, <3>3, HeardKept DEF Undisturbed
    <3>4. Waiting(t) = frame[t].pass.left /\ Waiting(t)' = Waiting(t) \ {z}
      BY <1>1, <2>1 DEF Waiting, At
    <3>5. ASSUME NEW d, Standing(t, d) PROVE Standing(t, d)'
      BY <1>2, <1>3, <2>1, <3>4, <3>5 DEF Standing, Grouped
    <3>6. Waiting(t) \subseteq Zones BY <1>1, <3>4 DEF Copied
    <3> QED BY <1>2, <1>3, <2>1, <2>2, <3>3, <3>4, <3>5, <3>6 DEF Undisturbed, At
  <2> QED BY <1>1, <2>1, <2>2, PassConverges DEF Reconcile
<1> QED BY <1>4, <1>5 DEF Skip

\* SetClients for zone z with the group of client first.
Regroups(t, z, first) ==
  LET g == frame[t].pass.group[first]
      S == Present(t, z)
      Old == {d \in Dongles : group[d] = g}
      Out == Old \ S
      Free == Groups \ ({g} \cup {group[d] : d \in Dongles \ (S \cup Out)})
  IN IF started = "dead" \/ Old = {}
     THEN Return(t) /\ UNCHANGED <<group, stream>>
     ELSE /\ \E new \in [Out -> Free] :
               /\ \A d, e \in Out : new[d] = new[e] => d = e
               /\ group' = [d \in Dongles |-> IF d \in S THEN g
                                              ELSE IF d \in Out THEN new[d] ELSE group[d]]
          /\ stream' = [d \in Dongles |-> IF d \in S THEN stream[CHOOSE e \in Old : TRUE]
                                          ELSE stream[d]]
          /\ frame' = [frame EXCEPT ![t].pc = "bind", ![t].zone = z, ![t].ids = {first}]

\* The clients of the zone, and no others, come to be in the group, and every
\* group that a later zone will take keeps a client.
LEMMA SetClientsConverges ==
  ASSUME CInv, IInv', Disjoint, NEW t \in Threads, SetClients(t) PROVE CInv'
<1>1. /\ frame[t].pc = "entry" /\ Copied(t) /\ Wants
      /\ started # "dead" /\ ~notified => Undisturbed(t)
  BY DEF SetClients, At, CInv, Converging
<1>2. UNCHANGED <<pool, desired, connected>> BY DEF SetClients, router
<1>3. \A y \in Zones : /\ Routed(y)' = Routed(y) /\ StreamFor(y)' = StreamFor(y)
                        /\ desired'[y] = desired[y]
  BY <1>2, RoutingKept
<1>4. PICK z \in frame[t].pass.left : \E first \in Present(t, z) : Regroups(t, z, first)
  BY DEF SetClients, Regroups
<1>0. PICK first \in Present(t, z) : Regroups(t, z, first) BY <1>4
<1> DEFINE pass == frame[t].pass
<1> DEFINE g == pass.group[first]
<1> DEFINE S == Present(t, z)
<1> DEFINE Old == {d \in Dongles : group[d] = g}
<1>5. z \in Zones /\ Routed(z) /\ pass.clients[z] = desired[z] BY <1>1 DEF Copied
<1>6. CASE Return(t)
  <2>1. At(t, "idle")' BY <1>6, ReturnStep DEF CInv
  <2>2. Copied(t)' BY <2>1 DEF Copied, At
  <2>3. ASSUME started # "dead", ~notified PROVE FALSE
    <3>1. Undisturbed(t) BY <1>1, <2>3
    <3>2. first \in desired[z] \cap connected BY <1>5, <3>1 DEF Present, Undisturbed
    <3>3. Standing(t, first) BY <1>1, <3>1, <3>2 DEF Undisturbed, Waiting, At
    <3>4. \E d \in Dongles : group[d] = g
      BY <1>1, <1>5, <3>2, <3>3, WantsDongles DEF Standing
    <3>5. frame'[t].pc = "bind" BY <1>1, <1>0, <2>3, <3>4 DEF Regroups, CInv, IInv, Maps, FrameInv
    <3> QED BY <2>1, <3>5 DEF At
  <2> QED BY <2>1, <2>2, <2>3, PassConverges DEF Reconcile, At
<1>7. CASE ~Return(t)
  <2> DEFINE Out == Old \ S
  <2> DEFINE Free == Groups \ ({g} \cup {group[d] : d \in Dongles \ (S \cup Out)})
  <2>1. PICK new \in [Out -> Free] :
          group' = [d \in Dongles |-> IF d \in S THEN g
                                      ELSE IF d \in Out THEN new[d] ELSE group[d]]
    BY <1>0, <1>7 DEF Regroups
  <2>2. /\ stream' = [d \in Dongles |-> IF d \in S THEN stream[CHOOSE e \in Old : TRUE]
                                        ELSE stream[d]]
        /\ frame' = [frame EXCEPT ![t].pc = "bind", ![t].zone = z, ![t].ids = {first}]
    BY <1>0, <1>7 DEF Regroups
  <2>3. /\ frame'[t].pc = "bind" /\ frame'[t].zone = z /\ frame'[t].ids = {first}
        /\ frame'[t].pass = pass
    BY <2>2 DEF CInv, IInv, Maps, FrameInv
  <2>4. Copied(t)' BY <1>1, <1>3, <2>3 DEF Copied
  <2>5. \A d \in Dongles : group'[d] = g <=> d \in S
    <3>1. ASSUME NEW d \in Dongles, d \notin S PROVE group'[d] # g
      <4>1. CASE d \in Out
        <5>1. new[d] \in Free BY <4>1, <2>1
        <5> QED BY <2>1, <3>1, <4>1, <5>1
      <4>2. CASE d \notin Out BY <2>1, <3>1, <4>2
      <4> QED BY <4>1, <4>2
    <3> QED BY <2>1, <3>1
  <2>6. \A d \in Dongles \ S : group[d] # g => group'[d] = group[d] BY <2>1
  <2>7. \A d \in Dongles \ S : stream'[d] = stream[d] BY <2>2
  <2> HIDE DEF g, Old, Out, Free
  <2>8. ASSUME Undisturbed(t) PROVE Undisturbed(t)'
    <3>1. S = desired[z] \cap connected BY <1>5, <2>8 DEF Present, Undisturbed
    <3>2. \A y \in Zones \ {z} : desired[y] \cap S = {} /\ desired[y] \subseteq Dongles
      BY <1>1, <1>5, <3>1, WantsDongles DEF Disjoint
    <3>3. first \in S /\ S \subseteq Dongles BY <1>1, <1>5, <3>1, WantsDongles
    <3> HIDE DEF S
    <3>4. ASSUME NEW y \in Zones, Routed(y)', y \notin frame'[t].pass.left PROVE Heard(y)'
      <4>1. y # z /\ Heard(y) BY <1>3, <2>3, <2>8, <3>4 DEF Undisturbed
      <4> QED BY <1>2, <1>3, <2>7, <3>2, <4>1 DEF Heard
    <3>5. Waiting(t) = pass.left /\ Waiting(t)' = pass.left \ {z}
      BY <1>1, <2>3 DEF Waiting, At
    <3>6. Grouped(t, z)' /\ \A y \in Zones : Grouped(t, y) => Grouped(t, y)' /\ y # z
      BY <1>3, <1>5, <3>5 DEF Grouped
    <3>7. ASSUME NEW w \in pass.left \ {z}, NEW d \in desired[w] \cap connected
          PROVE  Standing(t, d)'
      <4>1. w \in Zones /\ d \in Dongles \ S /\ Standing(t, d)
        BY <1>1, <2>8, <3>2, <3>5, <3>7 DEF Copied, Undisturbed
      <4>2. CASE pass.group[d] = g
        <5>1. first \in desired'[z] \cap connected' /\ group'[first] = frame'[t].pass.group[d]
          BY <1>2, <1>3, <1>5, <2>3, <2>5, <3>1, <3>3, <4>2
        <5> QED BY <1>5, <3>6, <5>1 DEF Standing
      <4>3. CASE pass.group[d] # g /\ group[d] = pass.group[d]
        BY <2>3, <2>6, <4>1, <4>3 DEF Standing
      <4>4. CASE pass.group[d] # g /\ group[d] # pass.group[d]
        <5>1. PICK y \in Zones : Grouped(t, y) /\
                \E e \in desired[y] \cap connected : group[e] = pass.group[d]
          BY <4>1, <4>4 DEF Standing
        <5>2. PICK e \in desired[y] \cap connected : group[e] = pass.group[d] BY <5>1
        <5>3. y # z /\ Grouped(t, y)' BY <3>6, <5>1
        <5>4. e \in Dongles \ S BY <3>2, <5>2, <5>3
        <5>5. group'[e] = frame'[t].pass.group[d] BY <2>3, <2>6, <4>4, <5>2, <5>4
        <5>6. e \in desired'[y] \cap connected' BY <1>2, <5>2
        <5> QED BY <5>3, <5>5, <5>6 DEF Standing
      <4> QED BY <4>2, <4>3, <4>4
    <3>8. /\ z \in frame'[t].pass.left /\ first \in desired'[z] \cap connected'
          /\ \A d \in Dongles : group'[d] = frame'[t].pass.group[first]
                                <=> d \in desired'[z] \cap connected'
      BY <1>2, <2>3, <2>5, <3>1, <3>3 DEF g
    <3>9. frame'[t].pass.present = connected' BY <1>2, <2>3, <2>8 DEF Undisturbed
    <3> QED BY <1>2, <2>3, <3>4, <3>5, <3>7, <3>8, <3>9 DEF Undisturbed, At
  <2> QED BY <1>1, <2>3, <2>4, <2>8, PassConverges DEF Reconcile
<1> QED BY <1>6, <1>7

\* The group plays the zone's stream, and the zone is done.
LEMMA SetStreamConverges ==
  ASSUME CInv, IInv', Disjoint, NEW t \in Threads, SetStream(t) PROVE CInv'
<1>1. /\ frame[t].pc = "bind" /\ Copied(t) /\ Wants
      /\ started # "dead" /\ ~notified => Undisturbed(t)
  BY DEF SetStream, At, CInv, Converging
<1>2. UNCHANGED <<pool, desired, connected, group>> BY DEF SetStream, router
<1>3. \A y \in Zones : /\ Routed(y)' = Routed(y) /\ StreamFor(y)' = StreamFor(y)
                        /\ desired'[y] = desired[y]
  BY <1>2, RoutingKept
<1> DEFINE pass == frame[t].pass
<1> DEFINE z == frame[t].zone
<1> DEFINE g == pass.group[CHOOSE d \in frame[t].ids : TRUE]
<1>4. ASSUME Undisturbed(t)
      PROVE  /\ z \in Zones /\ Routed(z) /\ z \in pass.left
             /\ desired[z] \cap connected # {}
             /\ \A d \in Dongles : group[d] = g <=> d \in desired[z] \cap connected
  <2>1. PICK first \in desired[z] \cap connected :
          /\ frame[t].ids = {first}
          /\ \A d \in Dongles : group[d] = pass.group[first] <=> d \in desired[z] \cap connected
    BY <1>1, <1>4 DEF Undisturbed, At
  <2>2. (CHOOSE d \in frame[t].ids : TRUE) = first BY <2>1
  <2> QED BY <1>1, <1>4, <2>1, <2>2 DEF Undisturbed, Copied, At
<1>5. CASE Return(t)
  <2>1. At(t, "idle")' BY <1>5, ReturnStep DEF CInv
  <2>2. Copied(t)' BY <2>1 DEF Copied, At
  <2>3. ASSUME started # "dead", ~notified PROVE FALSE
    <3>1. \E d \in Dongles : group[d] = g BY <1>1, <1>4, <2>3, WantsDongles
    <3>2. frame'[t].pc = "entry"
      BY <1>1, <2>3, <3>1 DEF SetStream, CInv, IInv, Maps, FrameInv
    <3> QED BY <2>1, <3>2 DEF At
  <2> QED BY <2>1, <2>2, <2>3, PassConverges DEF Reconcile, At
<1>6. CASE ~Return(t)
  <2>1. /\ stream' = [d \in Dongles |-> IF group[d] = g THEN pass.stream[z] ELSE stream[d]]
        /\ frame' = [frame EXCEPT ![t].pc = "entry", ![t].pass.left = @ \ {z}]
    BY <1>6 DEF SetStream
  <2>2. /\ Copied(t)' /\ frame'[t].pc = "entry" /\ frame'[t].pass.left = pass.left \ {z}
        /\ frame'[t].pass.group = pass.group /\ frame'[t].pass.present = pass.present
    <3>1. LeavesOut(t, z) BY <2>1, Zenon DEF LeavesOut
    <3> QED BY <1>1, <1>2, <3>1, LeftStep
  <2> HIDE DEF g
  <2>3. ASSUME Undisturbed(t) PROVE Undisturbed(t)'
    <3>1. /\ z \in Zones /\ Routed(z) /\ z \in pass.left
          /\ \A d \in Dongles : group[d] = g <=> d \in desired[z] \cap connected
      BY <1>4, <2>3
    <3>2. \A y \in Zones : desired[y] \subseteq Dongles BY <1>1, WantsDongles
    <3>3. \A y \in Zones \ {z} : desired[y] \cap desired[z] = {} BY <1>1, <3>1 DEF Disjoint
    <3>4. pass.stream[z] = StreamFor(z) BY <1>1, <3>1 DEF Copied
    <3>5. \A d \in desired[z] \cap connected : stream'[d] = StreamFor(z)
      BY <2>1, <3>1, <3>2, <3>4
    <3>6. ASSUME NEW y \in Zones, Routed(y)', y \notin frame'[t].pass.left PROVE Heard(y)'
      <4>1. CASE y = z BY <1>2, <1>3, <3>5, <4>1 DEF Heard
      <4>2. CASE y # z
        <5>1. Heard(y) BY <1>3, <2>2, <2>3, <3>6, <4>2 DEF Undisturbed
        <5>2. \A d \in desired[y] : stream'[d] = stream[d] BY <2>1, <3>1, <3>2, <3>3, <4>2
        <5>3. \A d \in desired[y] \cap connected : stream'[d] = StreamFor(y)
          BY <5>1, <5>2 DEF Heard
        <5> QED BY <1>2, <1>3, <5>3 DEF Heard
      <4> QED BY <4>1, <4>2
    <3>7. Waiting(t)' = Waiting(t) /\ Waiting(t) \subseteq Zones
      BY <1>1, <2>2 DEF Waiting, At, Copied
    <3>8. ASSUME NEW d, Standing(t, d) PROVE Standing(t, d)'
      BY <1>2, <1>3, <2>2, <3>7, <3>8 DEF Standing, Grouped
    <3> QED BY <1>2, <1>3, <2>2, <2>3, <3>6, <3>7, <3>8 DEF Undisturbed, At
  <2> QED BY <1>1, <2>2, <2>3, PassConverges DEF Reconcile
<1> QED BY <1>5, <1>6
-----------------------------------------------------------------------------
LEMMA NextConverges == ASSUME CInv, Serial, Disjoint, [Next]_vars PROVE CInv'
<1>1. IInv' BY NextStep DEF CInv
<1>2. CASE UNCHANGED vars BY <1>1, <1>2, StillStep DEF vars, router, server
<1>3. CASE SnapserverRestarts \/ \E d \in Dongles : ClientConnects(d) \/ ClientDisconnects(d)
  BY <1>1, <1>3, ServerStep
<1>4. CASE \E c \in Callers, d \in Dongles : DongleOffline(c, d)
  <2>1. UNCHANGED <<outputs, pool, desired, started, connected, group, stream, notified, frame>>
    BY <1>4 DEF DongleOffline, router, server
  <2> QED BY <1>1, <2>1, StillStep
<1>5. CASE \E c \in Callers : Route(c)
  <2>1. PICK c \in Callers : Route(c) BY <1>5
  <2>2. c \in Threads BY DEF Threads
  <2> QED BY <1>1, <2>1, <2>2, EnsureStartedConverges, AllocateConverges, DesireConverges,
             ReleaseConverges DEF Route
<1>6. CASE \E t \in Threads : Reconcile(t)
  BY <1>1, <1>6, NotStartedConverges, EntriesConverges, GetStatusConverges, SkipConverges,
     SetClientsConverges, SetStreamConverges DEF Reconcile
<1>7. CASE \E c \in Callers : \/ \E z \in Zones : Play(c, z) \/ Stop(c, z)
                              \/ \E d \in Dongles : RegisterDongle(c, d)
                              \/ \E z \in Zones, ids \in SUBSET Dongles : SetZoneOutputs(c, z, ids)
  BY <1>1, <1>7, CallConverges
<1> QED BY <1>1, <1>2, <1>3, <1>4, <1>5, <1>6, <1>7, NotifiedConverges DEF Next

\* One call or pass at a time, and no two routings that ever wanted a client in
\* common: once every trigger was handled, the connected clients of each routed
\* zone are on the zone's stream, however snapserver had grouped them, whatever
\* came and went before and however the zones' outputs were reassigned.
THEOREM Convergence ==
  ASSUME Serial PROVE Spec /\ []Disjoint => []Converged
<1>1. ASSUME CInv PROVE Converged
  <2>1. ASSUME Quiet, started # "dead" PROVE \A z \in Zones : Routed(z) => Heard(z)
    BY <1>1, <2>1, RestHeard DEF Quiet, At
  <2> QED BY <2>1 DEF Converged, Heard
<1>2. CInv /\ Disjoint /\ [Next]_vars => CInv' BY NextConverges
<1> QED BY <1>1, <1>2, InitCInv, PTL DEF Spec
=============================================================================
