------------------------------ MODULE LruOrder ------------------------------
(***************************************************************************)
(* The order of use, recorded from the calls alone: recent lists the keys  *)
(* by their latest Put or Get, newest first.  It is a history variable, it *)
(* constrains nothing, and it is what "least recently used" means to a     *)
(* client of the manager.                                                  *)
(***************************************************************************)
EXTENDS LruManager

VARIABLE recent

OrderInit == Init /\ recent = <<>>

Uses(c, k) == recent' = <<k>> \o RemoveFirst(recent, k)

OrderNext ==
    \E c \in Callers :
        \/ CallPut(c) /\ Uses(c, key'[c])
        \/ CallGet(c) /\ Uses(c, key'[c])
        \/ CallDel(c) /\ UNCHANGED recent
        \/ Work(c) /\ UNCHANGED recent

\* A goroutine that can run is eventually run; nobody has to call.
OrderSpec ==
    OrderInit /\ [][OrderNext]_<<vars, recent>> /\ \A c \in Callers : WF_vars(Work(c))

Before(list, j, k) ==
    \E a, b \in DOMAIN list : a < b /\ list[a] = j /\ list[b] = k

Newer(j, k) == Before(recent, j, k)

\* prune evicts the tracked key whose latest Put or Get is the oldest
\* (PushFront, MoveToFront and Back of lru_manager.go agree on the ends).
EvictsLeastRecent ==
    [][\A c \in Callers : PruneEvict(c) =>
          \A k \in DOMAIN items \ DOMAIN items' :
              \A j \in DOMAIN items' : Newer(j, k)]_<<vars, recent>>

\* Some call is between the first test of prune and its last.
Pruning ==
    \E c \in Callers :
        pc[c] \in {"prune_check", "prune_tail", "prune_evict", "prune_drop"}

\* Which keys were used, and which not since.
UsedSince ==
    {p \in Keys \X Keys :
        \/ Newer(p[1], p[2])
        \/ p[1] \in ToSet(recent) /\ p[2] \notin ToSet(recent)}

Cache == INSTANCE RecencyCache
    WITH held <- items, since <- UsedSince, shrinking <- Pruning

\* One caller of the manager has a cache that evicts for want of room only, the
\* least recently used key first, and stops when the cushion is free
\* (lru_manager.go:20, 155-173).
KeepsRecencyCache == Cache!Spec

\* The list is the order of use restricted to the tracked keys, between calls:
\* it holds those keys, each once, the more recently used before the less.
QuietOrderIsRecency ==
    Quiet =>
        /\ ToSet(order) = ToSet(recent) \cap DOMAIN items
        /\ \A j, k \in Keys : Before(order, j, k) => Newer(j, k)
=============================================================================
