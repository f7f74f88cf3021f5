----------------------------- MODULE LruManager -----------------------------
(***************************************************************************)
(* The LRU manager of vendor/github.com/pressly/chainstore/lrumgr, which   *)
(* wraps the memory store and the bolt store of imgry's chain.             *)
(*                                                                         *)
(* Callers are the goroutines inside Put, Get and Del of one manager.  A   *)
(* section between m.Lock() and m.Unlock() is one step that needs the      *)
(* mutex free; every access made outside the mutex (the wrapped store, the *)
(* two reads of m.capacity in prune) is a step of its own.  The mutex is   *)
(* still a variable: one return of prune leaves with it locked.            *)
(*                                                                         *)
(* A value is abstracted to its length, the only thing the manager reads   *)
(* of it; 0 stands for a key the wrapped store does not hold.              *)
(***************************************************************************)
EXTENDS Integers, FiniteSets, Sequences, SequencesExt, Functions

CONSTANTS
    Callers,       \* goroutines that may be inside the manager at once
    Keys,          \* keys of the store
    Sizes,         \* lengths of the values that callers put
    Capacity,      \* the byte budget given to New
    Ops,           \* the methods the callers use
    StoreMayFail,  \* whether the wrapped store may return an error
    Unlocked,      \* the free mutex
    NoKey          \* no call in progress

\* Open refuses a capacity below 10; imgry stores no empty blob.
ASSUME CapacityAssumption == Capacity \in Nat /\ Capacity >= 10
ASSUME SizesAssumption == Sizes \subseteq Nat \ {0}
ASSUME OpsAssumption == Ops \subseteq {"Put", "Get", "Del"}
ASSUME FailAssumption == StoreMayFail \in BOOLEAN
ASSUME NamesAssumption == Unlocked \notin Callers /\ NoKey \notin Keys
ASSUME FiniteAssumption == IsFiniteSet(Keys) /\ IsFiniteSet(Callers)

VARIABLES
    items,     \* key -> charged size, for the tracked keys
    order,     \* the tracked keys, most recently used first
    capacity,  \* bytes left, may fall below zero
    mu,        \* holder of the mutex, or Unlocked
    store,     \* length of what the wrapped store holds, 0 for nothing
    pc,        \* where each caller is
    key,       \* the key it works on
    size       \* the length it put or read

cacheVars == <<items, order, capacity>>
vars == <<items, order, capacity, mu, store, pc, key, size>>

Cushion == Capacity \div 10

Init ==
    /\ items = [k \in {} |-> 0]
    /\ order = <<>>
    /\ capacity = Capacity
    /\ mu = Unlocked
    /\ store = [k \in Keys |-> 0]
    /\ pc = [c \in Callers |-> "idle"]
    /\ key = [c \in Callers |-> NoKey]
    /\ size = [c \in Callers |-> 0]

-----------------------------------------------------------------------------
\* Control of one caller.

At(c, here) == pc[c] = here
Goto(c, there) == pc' = [pc EXCEPT ![c] = there]

Return(c) ==
    /\ Goto(c, "idle")
    /\ key' = [key EXCEPT ![c] = NoKey]
    /\ size' = [size EXCEPT ![c] = 0]

Begin(c, op, k, s) ==
    /\ At(c, "idle")
    /\ key' = [key EXCEPT ![c] = k]
    /\ size' = [size EXCEPT ![c] = s]
    /\ Goto(c, op)
    /\ UNCHANGED <<cacheVars, mu, store>>

-----------------------------------------------------------------------------
\* The three helpers that touch the items, the list and the byte count.

\* Mutant of addItem: PushBack for PushFront.
AddItemAtBack(k, s) ==
    /\ items' = [x \in DOMAIN items \cup {k} |-> IF x = k THEN s ELSE items[x]]
    /\ order' = Append(order, k)
    /\ capacity' = capacity - s

AddItem(k, s) ==
    /\ items' = [x \in DOMAIN items \cup {k} |-> IF x = k THEN s ELSE items[x]]
    /\ order' = <<k>> \o order
    /\ capacity' = capacity - s

\* Mutant of evict: the list element stays.
EvictKeepingElement(k) ==
    /\ items' = Restrict(items, DOMAIN items \ {k})
    /\ capacity' = capacity + items[k]
    /\ UNCHANGED order

Evict(k) ==
    /\ items' = Restrict(items, DOMAIN items \ {k})
    /\ order' = RemoveFirst(order, k)
    /\ capacity' = capacity + items[k]

MoveToFront(k) == order' = <<k>> \o RemoveFirst(order, k)

\* What Del does under the mutex.
EvictIfTracked(k) ==
    \/ k \in DOMAIN items /\ Evict(k)
    \/ k \notin DOMAIN items /\ UNCHANGED cacheVars

-----------------------------------------------------------------------------
\* Put: charge and track under the mutex, store outside it, prune on return.

CallPut(c) ==
    /\ "Put" \in Ops
    /\ \E k \in Keys, s \in Sizes : Begin(c, "put_track", k, s)

\* Mutant of Put: an overwrite forgets what the old value was charged.
PutTrackForgetsOld(c) ==
    /\ At(c, "put_track") /\ mu = Unlocked
    /\ \/ /\ key[c] \in DOMAIN items
          /\ MoveToFront(key[c])
          /\ items' = [items EXCEPT ![key[c]] = size[c]]
          /\ capacity' = capacity - size[c]
       \/ /\ key[c] \notin DOMAIN items
          /\ AddItem(key[c], size[c])
    /\ Goto(c, "put_store")
    /\ UNCHANGED <<mu, store, key, size>>

PutTrack(c) ==
    /\ At(c, "put_track") /\ mu = Unlocked
    /\ \/ /\ key[c] \in DOMAIN items
          /\ MoveToFront(key[c])
          /\ items' = [items EXCEPT ![key[c]] = size[c]]
          /\ capacity' = capacity + (items[key[c]] - size[c])
       \/ /\ key[c] \notin DOMAIN items
          /\ AddItem(key[c], size[c])
    /\ Goto(c, "put_store")
    /\ UNCHANGED <<mu, store, key, size>>

PutStore(c) ==
    /\ At(c, "put_store")
    /\ \/ store' = [store EXCEPT ![key[c]] = size[c]]
       \/ StoreMayFail /\ UNCHANGED store
    /\ Goto(c, "prune")
    /\ UNCHANGED <<cacheVars, mu, key, size>>

-----------------------------------------------------------------------------
\* prune, the deferred call of Put: the two tests read capacity unlocked.

\* Mutant of prune: a capacity of exactly 0 passes as room.
PruneEnterAtZero(c) ==
    /\ At(c, "prune")
    /\ \/ capacity >= 0 /\ Return(c)
       \/ capacity < 0 /\ Goto(c, "prune_check") /\ UNCHANGED <<key, size>>
    /\ UNCHANGED <<cacheVars, mu, store>>

PruneEnter(c) ==
    /\ At(c, "prune")
    /\ \/ capacity > 0 /\ Return(c)
       \/ capacity <= 0 /\ Goto(c, "prune_check") /\ UNCHANGED <<key, size>>
    /\ UNCHANGED <<cacheVars, mu, store>>

PruneCheck(c) ==
    /\ At(c, "prune_check")
    /\ \/ capacity < Cushion /\ Goto(c, "prune_tail") /\ UNCHANGED <<key, size>>
       \/ capacity >= Cushion /\ Return(c)
    /\ UNCHANGED <<cacheVars, mu, store>>

\* On an empty list prune returns between m.Lock() and m.Unlock().
PruneTail(c) ==
    /\ At(c, "prune_tail") /\ mu = Unlocked
    /\ \/ /\ order # <<>>
          /\ key' = [key EXCEPT ![c] = Last(order)]
          /\ Goto(c, "prune_evict")
          /\ UNCHANGED <<mu, size>>
       \/ /\ order = <<>>
          /\ mu' = c
          /\ Return(c)
    /\ UNCHANGED <<cacheVars, store>>

\* Mutant of prune: it calls evict in place of Del.
PruneEvictWithoutDrop(c) ==
    /\ At(c, "prune_evict") /\ mu = Unlocked
    /\ EvictIfTracked(key[c])
    /\ Goto(c, "prune_check")
    /\ UNCHANGED <<mu, store, key, size>>

\* Mutant of prune: it calls the wrapped store's Del in place of its own.
PruneEvictBypassed(c) ==
    /\ At(c, "prune_evict")
    /\ Goto(c, "prune_drop")
    /\ UNCHANGED <<cacheVars, mu, store, key, size>>

\* The body of Del, on the key that was the tail when the mutex was held.
PruneEvict(c) ==
    /\ At(c, "prune_evict") /\ mu = Unlocked
    /\ EvictIfTracked(key[c])
    /\ Goto(c, "prune_drop")
    /\ UNCHANGED <<mu, store, key, size>>

\* Mutant of Del: the evicted value stays in the wrapped store.
PruneDropForgets(c) ==
    /\ At(c, "prune_drop")
    /\ Goto(c, "prune_check")
    /\ UNCHANGED <<cacheVars, mu, store, key, size>>

\* Mutant of prune: the next round does not look at the capacity again.
PruneDropWithoutTest(c) ==
    /\ At(c, "prune_drop")
    /\ store' = [store EXCEPT ![key[c]] = 0]
    /\ Goto(c, "prune_tail")
    /\ UNCHANGED <<cacheVars, mu, key, size>>

PruneDrop(c) ==
    /\ At(c, "prune_drop")
    /\ \/ store' = [store EXCEPT ![key[c]] = 0]
       \/ StoreMayFail /\ UNCHANGED store
    /\ Goto(c, "prune_check")
    /\ UNCHANGED <<cacheVars, mu, key, size>>

-----------------------------------------------------------------------------
\* Get: read the wrapped store, then promote or start to track what was read.

CallGet(c) ==
    /\ "Get" \in Ops
    /\ \E k \in Keys : Begin(c, "get_read", k, 0)

GetRead(c) ==
    /\ At(c, "get_read")
    /\ \/ size' = [size EXCEPT ![c] = store[key[c]]]
       \/ StoreMayFail /\ size' = [size EXCEPT ![c] = 0]
    /\ Goto(c, "get_track")
    /\ UNCHANGED <<cacheVars, mu, store, key>>

\* Mutant of Get: a miss is tracked as well.
GetTrackMisses(c) ==
    /\ At(c, "get_track") /\ mu = Unlocked
    /\ \/ key[c] \in DOMAIN items /\ UNCHANGED cacheVars
       \/ key[c] \notin DOMAIN items /\ AddItem(key[c], size[c])
    /\ Return(c)
    /\ UNCHANGED <<mu, store>>

\* Mutant of Get: a hit does not promote the item.
GetTrackNoPromotion(c) ==
    /\ At(c, "get_track") /\ mu = Unlocked
    /\ \/ key[c] \in DOMAIN items /\ UNCHANGED cacheVars
       \/ key[c] \notin DOMAIN items /\ size[c] > 0 /\ AddItem(key[c], size[c])
       \/ key[c] \notin DOMAIN items /\ size[c] = 0 /\ UNCHANGED cacheVars
    /\ Return(c)
    /\ UNCHANGED <<mu, store>>

GetTrack(c) ==
    /\ At(c, "get_track") /\ mu = Unlocked
    /\ \/ /\ key[c] \in DOMAIN items
          /\ MoveToFront(key[c])
          /\ UNCHANGED <<items, capacity>>
       \/ key[c] \notin DOMAIN items /\ size[c] > 0 /\ AddItem(key[c], size[c])
       \/ key[c] \notin DOMAIN items /\ size[c] = 0 /\ UNCHANGED cacheVars
    /\ Return(c)
    /\ UNCHANGED <<mu, store>>

-----------------------------------------------------------------------------
\* Del called by a client of the manager.

CallDel(c) ==
    /\ "Del" \in Ops
    /\ \E k \in Keys : Begin(c, "del_evict", k, 0)

DelEvict(c) ==
    /\ At(c, "del_evict") /\ mu = Unlocked
    /\ EvictIfTracked(key[c])
    /\ Goto(c, "del_drop")
    /\ UNCHANGED <<mu, store, key, size>>

DelDrop(c) ==
    /\ At(c, "del_drop")
    /\ \/ store' = [store EXCEPT ![key[c]] = 0]
       \/ StoreMayFail /\ UNCHANGED store
    /\ Return(c)
    /\ UNCHANGED <<cacheVars, mu>>

-----------------------------------------------------------------------------
\* The steps a caller takes once it has called; the scheduler is fair to them.
Work(c) ==
    \/ PutTrack(c) \/ PutStore(c)
    \/ PruneEnter(c) \/ PruneCheck(c) \/ PruneTail(c)
    \/ PruneEvict(c) \/ PruneDrop(c)
    \/ GetRead(c) \/ GetTrack(c)
    \/ DelEvict(c) \/ DelDrop(c)

Next == \E c \in Callers : CallPut(c) \/ CallGet(c) \/ CallDel(c) \/ Work(c)

Spec == Init /\ [][Next]_vars
-----------------------------------------------------------------------------
\* Properties.

PutLocations ==
    {"put_track", "put_store", "prune", "prune_check", "prune_tail",
     "prune_evict", "prune_drop"}
Locations ==
    PutLocations \cup {"idle", "get_read", "get_track", "del_evict", "del_drop"}

CacheType ==
    /\ DOMAIN items \subseteq Keys
    /\ items \in [DOMAIN items -> Sizes]
    /\ order \in Seq(Keys)
    /\ capacity \in Int

CallersType ==
    /\ mu \in Callers \cup {Unlocked}
    /\ store \in [Keys -> Sizes \cup {0}]
    /\ pc \in [Callers -> Locations]
    /\ key \in [Callers -> Keys \cup {NoKey}]
    /\ size \in [Callers -> Sizes \cup {0}]
    /\ \A c \in Callers :
          /\ pc[c] \in {"put_track", "put_store", "get_read", "get_track",
                       "prune_evict", "prune_drop", "del_evict", "del_drop"}
                => key[c] \in Keys
          /\ pc[c] \in {"put_track", "put_store"} => size[c] \in Sizes

\* Every variable has its type (the fields of lruManager and lruItem), and a
\* caller has the arguments its next step uses.
TypeOK == CacheType /\ CallersType

\* The map and the list of lru_manager.go:21-22 never part: the list holds
\* exactly the tracked keys, each of them once.
ListMatchesItems == IsInjective(order) /\ ToSet(order) = DOMAIN items

\* The bytes of a map from keys to lengths, one element for each byte.
Bytes(lengths) == UNION {{k} \X (1 .. lengths[k]) : k \in DOMAIN lengths}

\* The bytes charged to the budget.
Used == Cardinality(Bytes(items))

\* No interleaving of addItem, evict and the overwrite of Put makes the budget
\* drift: what is left and what is charged always add up to the capacity.
Accounting == capacity = Capacity - Used

\* A caller that has returned does not hold the mutex (prune, :164-170).
LockReleased == \A c \in Callers : At(c, "idle") => mu # c

\* The budget has room, or some Put is still on its way to prune or in it.
OverBudgetOnlyDuringPut ==
    capacity <= 0 => \E c \in Callers : pc[c] \in PutLocations

\* The budget is overrun only while a Put is under way, or after a Get that
\* tracks what was evicted or never tracked since it read it, for no prune
\* follows (lru_manager.go:98-127).  The next Put to return ends even that.
OverrunOnlyByLateGet ==
    [][OverBudgetOnlyDuringPut =>
          \/ OverBudgetOnlyDuringPut'
          \/ \E c \in Callers : GetTrack(c) /\ key[c] \notin DOMAIN items]_vars

\* A stored value that is tracked, or that a Del under way will drop.
InSight(k) ==
    store[k] # 0 =>
        \/ k \in DOMAIN items
        \/ \E c \in Callers : pc[c] \in {"prune_drop", "del_drop"} /\ key[c] = k

\* A value stays in the store, charged to nothing, only if its Put stores it
\* after a prune or a Del has evicted its key (lru_manager.go:85-90), or if the
\* store fails to drop it.
LostSightOnlyByLatePut ==
    [][\A k \in Keys : InSight(k) =>
          \/ InSight(k)'
          \/ \E c \in Callers :
                /\ key[c] = k
                /\ PutStore(c) \/ ((PruneDrop(c) \/ DelDrop(c)) /\ UNCHANGED store)]_vars

Quiet == \A c \in Callers : At(c, "idle")

\* Between calls the manager tracks exactly what the wrapped store holds, at
\* its size (Put tracks before it stores, Del evicts before it drops).
QuietTracksStore ==
    Quiet => /\ DOMAIN items = {k \in Keys : store[k] # 0}
             /\ \A k \in DOMAIN items : items[k] = store[k]

\* Every call returns: prune terminates and nobody waits for the mutex forever.
CallsReturn == \A c \in Callers : ~At(c, "idle") ~> At(c, "idle")
=============================================================================
