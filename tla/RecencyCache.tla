---------------------------- MODULE RecencyCache ----------------------------
(***************************************************************************)
(* What an LRU manager promises the one client that calls it: the keys it  *)
(* holds are charged to a budget, a budget that is used up is made good by *)
(* letting the least recently used keys go, and only as many as it takes   *)
(* for the cushion to be free.  There is no list here, only who was used   *)
(* since whom.                                                             *)
(***************************************************************************)
EXTENDS Integers, FiniteSets

CONSTANTS
    Keys,
    Sizes,     \* lengths of the values
    Capacity,  \* the budget in bytes
    Cushion    \* what is free when it has been made good

VARIABLES
    held,      \* key -> length, for the keys held
    since,     \* the pairs <<j, k>> such that j was used and k was not since
    shrinking  \* whether the budget is being made good

Room == Capacity - Cardinality(UNION {{k} \X (1 .. held[k]) : k \in DOMAIN held})

Others(k) == Keys \ {k}

Init == held = [k \in {} |-> 0] /\ since = {} /\ shrinking = FALSE

\* The client calls with a key: it is now the latest.
Use(k) ==
    /\ ~shrinking
    /\ since' = (since \cap (Others(k) \X Others(k))) \cup ({k} \X Others(k))
    /\ UNCHANGED <<held, shrinking>>

\* The value of the latest key is charged, in place of what it had.
Hold(k, s) ==
    /\ ~shrinking
    /\ {k} \X Others(k) \subseteq since
    /\ held' = [j \in DOMAIN held \cup {k} |-> IF j = k THEN s ELSE held[j]]
    /\ UNCHANGED <<since, shrinking>>

Drop(k) ==
    /\ held' = [j \in DOMAIN held \ {k} |-> held[j]]
    /\ UNCHANGED <<since, shrinking>>

Forget(k) == ~shrinking /\ Drop(k)

BeginToShrink == Room <= 0 /\ ~shrinking /\ shrinking' = TRUE /\ UNCHANGED <<held, since>>

\* A key goes since every other key was used after it.
LetGo(k) ==
    /\ shrinking /\ Room < Cushion
    /\ (DOMAIN held \ {k}) \X {k} \subseteq since
    /\ Drop(k)

EndShrinking == Room >= Cushion /\ shrinking /\ shrinking' = FALSE /\ UNCHANGED <<held, since>>

Next ==
    \/ \E k \in Keys : Use(k) \/ Forget(k) \/ \E s \in Sizes : Hold(k, s)
    \/ BeginToShrink \/ EndShrinking
    \/ \E k \in DOMAIN held : LetGo(k)

Spec == Init /\ [][Next]_<<held, since, shrinking>>
=============================================================================
