----------------------------- MODULE MagickEnv ------------------------------
(***************************************************************************)
(* When ImageMagick's environment may be ended: the counter and the        *)
(* channel canTerminate of vendor/gopkg.in/gographics/imagick.v3/imagick   *)
(* (magick_wand_env.go, magick_wand.go), which imgry's engine relies on.   *)
(*                                                                         *)
(* A holder makes and destroys one wand at a time.  NewMagickWand counts   *)
(* the wand and then empties the channel; Destroy uncounts it, looks at    *)
(* the counter and then fills the channel: none of this is locked, and     *)
(* each access is a step.  A wand that is dropped and not destroyed is an  *)
(* orphan: the garbage collector's finalizer destroys it later.            *)
(***************************************************************************)
EXTENDS Integers, FiniteSets

CONSTANTS
    Holders,     \* goroutines that use wands
    Finalizer,   \* the goroutine that runs finalizers
    MaxOrphans   \* bound: orphans at one time

ASSUME HoldersAssumption == IsFiniteSet(Holders) /\ Finalizer \notin Holders
ASSUME OrphansAssumption == MaxOrphans \in Nat

VARIABLES
    wand,          \* what each holder and the finalizer are doing
    orphans,       \* wands nobody can reach
    canTerminate   \* length of the channel, 0 or 1

envVars == <<wand, orphans, canTerminate>>

Hands == Holders \cup {Finalizer}

EnvInit ==
    /\ wand = [h \in Hands |-> "none"]
    /\ orphans = 0
    /\ canTerminate = 0

\* The wands that exist, and the counter of them.
Alive == {h \in Hands : wand[h] \in {"counted", "held"}}
Counter == Cardinality(Alive) + orphans

Hand(h, there) == wand' = [wand EXCEPT ![h] = there]

\* Initialize finds no wand and fills the channel.
Initialize ==
    /\ canTerminate' = 1
    /\ UNCHANGED <<wand, orphans>>

CountWand(h) ==
    /\ wand[h] = "none"
    /\ Hand(h, "counted")
    /\ UNCHANGED <<orphans, canTerminate>>

\* unsetCanTerminate.
Unset(h) ==
    /\ wand[h] = "counted"
    /\ canTerminate' = 0
    /\ Hand(h, "held")
    /\ UNCHANGED orphans

DestroyWand(h) ==
    /\ wand[h] = "held"
    /\ Hand(h, "uncounted")
    /\ UNCHANGED <<orphans, canTerminate>>

\* Nobody can reach the wand any more.
Orphan(h) ==
    /\ wand[h] = "held" /\ orphans < MaxOrphans
    /\ orphans' = orphans + 1
    /\ Hand(h, "none")
    /\ UNCHANGED canTerminate

\* The garbage collector has found an orphan, whose finalizer destroys it.
Collect ==
    /\ orphans > 0 /\ wand[Finalizer] = "none"
    /\ orphans' = orphans - 1
    /\ Hand(Finalizer, "uncounted")
    /\ UNCHANGED canTerminate

\* isImageMagickCleaned, called by setCanTerminate.
CheckCounter(h) ==
    /\ wand[h] = "uncounted"
    /\ Hand(h, IF Counter = 0 THEN "clean" ELSE "none")
    /\ UNCHANGED <<orphans, canTerminate>>

\* Mutant of setCanTerminate: the channel is filled by Terminate's caller only.
SetForgets(h) ==
    /\ wand[h] = "clean"
    /\ Hand(h, "none")
    /\ UNCHANGED <<orphans, canTerminate>>

Set(h) ==
    /\ wand[h] = "clean"
    /\ canTerminate' = 1
    /\ Hand(h, "none")
    /\ UNCHANGED orphans

\* The rest of Destroy.
Settle(h) == CheckCounter(h) \/ Set(h)

\* terminate takes the permission and then ends the environment.
TakePermission ==
    /\ canTerminate = 1
    /\ canTerminate' = 0
    /\ UNCHANGED <<wand, orphans>>

EnvTypeOK ==
    /\ wand \in [Hands -> {"none", "counted", "held", "uncounted", "clean"}]
    /\ orphans \in 0 .. MaxOrphans
    /\ canTerminate \in 0 .. 1
=============================================================================
