----------------------------- MODULE Semaphore ------------------------------
(***************************************************************************)
(* What every limit of the server promises: at no time do more clients     *)
(* hold a permit than there are permits.  The throttler's tokens and the   *)
(* redis connections are two implementations.                              *)
(***************************************************************************)
EXTENDS Naturals, FiniteSets

CONSTANTS
    Clients,  \* who may hold a permit
    Permits   \* how many may hold one at once

VARIABLE holders

Init == holders = {}

Acquire(c) ==
    /\ c \notin holders
    /\ Cardinality(holders) < Permits
    /\ holders' = holders \cup {c}

Release(c) ==
    /\ c \in holders
    /\ holders' = holders \ {c}

Next == \E c \in Clients : Acquire(c) \/ Release(c)

Spec == Init /\ [][Next]_holders
=============================================================================
