----------------------------- MODULE StreamPool -----------------------------
(***************************************************************************)
(* The fixed pool of snapserver pipe streams (src/src/audio/               *)
(* snapcast_router.rs, StreamPool).  A pool is a function from slot to the *)
(* zone the slot is allocated to, or None.  Every operator below is one    *)
(* method of StreamPool; the router calls each under its `pool` mutex, so  *)
(* a caller uses them inside a single step.                                *)
(***************************************************************************)
EXTENDS Integers

CONSTANTS Zones,     \* every zone id a client can name
          PoolSize,  \* STREAM_POOL_SIZE
          None       \* Option::None

ASSUME PoolSizeAssumption == PoolSize \in Nat
ASSUME NoneAssumption     == None \notin Zones

Slots == 0 .. PoolSize - 1

\* The type of a pool, and StreamPool::new.
Pools     == [Slots -> Zones \cup {None}]
EmptyPool == [k \in Slots |-> None]

\* slots.iter().find(|s| s.allocated_to == x): k is the first slot that holds x.
FirstSlot(pool, x, k) ==
  /\ pool[k] = x
  /\ \A j \in Slots : j < k => pool[j] # x

\* Mutant of Allocates: the slot the zone already holds is not looked for.
AllocatesAnew(pool, z, k) == FirstSlot(pool, None, k)

\* StreamPool::allocate picks slot k for zone z: the slot the zone already
\* holds, or else the first free one.
Allocates(pool, z, k) ==
  \/ FirstSlot(pool, z, k)
  \/ /\ \A j \in Slots : pool[j] # z
     /\ FirstSlot(pool, None, k)

Allocate(pool, z, k) == [pool EXCEPT ![k] = z]

\* allocate returns None (the router's `no_free_stream`).
Exhausted(pool, z) == \A k \in Slots : pool[k] \notin {z, None}

\* Mutant of Release: the stream is not returned.
ReleasesNone(pool, z) == pool

\* StreamPool::release: every slot the zone holds becomes free.
Release(pool, z) == [k \in Slots |-> IF pool[k] = z THEN None ELSE pool[k]]

\* A zone never holds two streams: two slots with the same owner are one slot.
OneStreamEach(pool) ==
  \A j, k \in Slots : pool[j] = pool[k] /\ pool[j] # None => j = k
=============================================================================
