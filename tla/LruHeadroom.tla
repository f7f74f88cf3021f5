---------------------------- MODULE LruHeadroom -----------------------------
(***************************************************************************)
(* When prune's return with the mutex held (lru_manager.go:166-168) cannot *)
(* happen.  A pruner that has seen the cushion missing may find the list   *)
(* empty only because the others emptied it in between.  Each of them      *)
(* evicts at most one item before it looks at the capacity again, so the   *)
(* list cannot run dry if the values are small enough for the number of    *)
(* callers, and no client calls Del.                                       *)
(***************************************************************************)
EXTENDS LruManager

CONSTANT MaxSize  \* the length of the largest value

ASSUME MaxSizeAssumption ==
    MaxSize \in Nat \ {0} /\ \A s \in Sizes : s <= MaxSize

\* Between n callers, n - 1 values of the largest size and the cushion fit.
Headroom == (Cardinality(Callers) - 1) * MaxSize <= Capacity - Cushion

\* The callers that have passed the loop test and not yet evicted.
Pruners == {c \in Callers : pc[c] \in {"prune_tail", "prune_evict"}}

\* While some caller is about to evict, the tracked items, with one more item
\* for each caller that may have evicted since, still overrun the budget.
EnoughItems ==
    Pruners # {} =>
        (Cardinality(DOMAIN items) + Cardinality(Callers \ Pruners)) * MaxSize
            > Capacity - Cushion

\* The mutex is never left locked: outside the locked sections it is free
\* (lru_manager.go:164-170).
MutexFree == mu = Unlocked

\* What makes MutexFree inductive.
HeadroomInv == MutexFree /\ EnoughItems
=============================================================================
