---------------------------- MODULE EngineImage -----------------------------
(***************************************************************************)
(* Who owns the wands: imagick.Image (imagick/imagick.go) and the          *)
(* server.Image around it (server/image.go).                               *)
(*                                                                         *)
(* Wands are named for where they come from.  wands holds those that exist *)
(* and mw names the one an image works on.  A call that may fail is an     *)
(* action with both outcomes; what the calls draw is left out.             *)
(***************************************************************************)
EXTENDS Naturals

CONSTANT Images

VARIABLES
    wands,   \* the wands of each image that exist
    mw,      \* i.mw of each image
    canvas   \* the canvas is being drawn on, in sizeFrames

wandVars == <<wands, mw, canvas>>

Wands == {"source", "coalesced", "canvas", "background", "deconstructed"}

WandInit ==
    /\ wands = [i \in Images |-> {}]
    /\ mw = [i \in Images |-> "none"]
    /\ canvas = FALSE

Own(i, those, one) ==
    /\ wands' = [wands EXCEPT ![i] = those]
    /\ mw' = [mw EXCEPT ![i] = one]

\* LoadBlob of data that is an image or is not; nothing is left of the latter.
LoadBlob(i, data) ==
    /\ IF data \in {"image", "blobless"} THEN Own(i, {"source"}, "source")
       ELSE UNCHANGED <<wands, mw>>
    /\ UNCHANGED canvas

\* sizeFrames before its loop: an animation that is not flattened is
\* coalesced, and the canvas and its background are made.
Coalesces(asked) == "animation" \in asked /\ "flatten" \notin asked

Prepare(i, asked) ==
    LET frames == IF Coalesces(asked) THEN "coalesced" ELSE mw[i]
    IN /\ Own(i, wands[i] \cup {frames} \cup
                 (IF "canvas" \in asked THEN {"canvas", "background"} ELSE {}),
              frames)
       /\ canvas' = ("canvas" \in asked)

\* The deferred function of sizeFrames, given the wands and i.mw it finds.
Deferred(i, those, one) ==
    /\ Own(i, those \ ({"background"} \cup ({"canvas"} \ {one})), one)
    /\ canvas' = FALSE

\* A crop or a resize of some frame fails.
FrameFails(i) == Deferred(i, wands[i], mw[i])

\* sizeFrames after its loop.
\* Mutant: the canvas takes the place of the wand, which is not destroyed.
FramesDoneKeeping(i, asked) ==
    LET drawn == IF canvas THEN "canvas" ELSE mw[i]
        last == IF Coalesces(asked) THEN "deconstructed" ELSE drawn
    IN Deferred(i, wands[i] \cup {last}, last)

FramesDone(i, asked) ==
    LET drawn == IF canvas THEN "canvas" ELSE mw[i]
        kept == IF canvas THEN wands[i] \ {mw[i]} ELSE wands[i]
        last == IF Coalesces(asked) THEN "deconstructed" ELSE drawn
    IN Deferred(i, kept \cup {last}, last)

\* Image.Release, deferred by whoever has the image: of the images of a batch,
\* of one, or of none when MakeSize returned nil.
ReleaseAll(these) ==
    /\ wands' = [i \in Images |-> IF i \in these THEN wands[i] \ {mw[i]} ELSE wands[i]]
    /\ mw' = [i \in Images |-> IF i \in these THEN "none" ELSE mw[i]]
    /\ UNCHANGED canvas

WandTypeOK ==
    /\ wands \in [Images -> SUBSET Wands]
    /\ mw \in [Images -> Wands \cup {"none"}]
    /\ canvas \in BOOLEAN
=============================================================================
