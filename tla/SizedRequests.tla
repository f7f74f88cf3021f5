----------------------------- MODULE SizedRequests -----------------------------
(***************************************************************************)
(* GetImageSize of server/bucket.go with its sizing: what requests for one  *)
(* original with different queries find in the index, and what they make.   *)
(*                                                                          *)
(* The sizing of a request is one mutable record.  It is changed by the     *)
(* first CalcResizeRect, rounded, hashed into the key to look for, changed  *)
(* by MakeSize, and hashed again into the key to save under.  The races of  *)
(* the stores are in ImageStore: here one request runs at a time.           *)
(***************************************************************************)
EXTENDS Sizing

CONSTANTS
    Queries,   \* the sizings that SetFromQuery may return
    Sources,   \* the sizes of the original
    MaxSaved   \* bound: sizes in the index at once

ASSUME QueriesAssumption == Queries \subseteq Sizings
ASSUME SourcesAssumption == Sources \subseteq [w : Nat \ {0}, h : Nat \ {0}]
(* A crop box has at least a pixel each way. *)
ASSUME BoxesAssumption ==
    \A q \in Queries, src \in Sources : BoxInvalid(q, src) \/ HasPixels(Boxed(q, src))
ASSUME SavedAssumption == MaxSaved \in Nat \ {0}

VARIABLES
    orig,     \* the size of the original
    saved,    \* index key -> the size made for it
    stage,    \* where the request is
    asked,    \* its query
    sizing,   \* the sizing made of the query
    result    \* what it made or found

request == <<stage, asked, sizing, result>>
vars == <<orig, saved, request>>

NoSizing == [op |-> "none"]
NoResult == [resized |-> ZeroRect]

Init ==
    /\ orig \in Sources
    /\ saved = << >>
    /\ stage = "idle" /\ asked = NoSizing /\ sizing = NoSizing /\ result = NoResult

-----------------------------------------------------------------------------

(* Mutant of GetImageSize: the sizing is not calculated ahead of time. *)
AheadOfTimeSizeOnly(sz) == [sz EXCEPT !.size = GranularizedSize(sz)]

(* The sizing that is looked for: CalcResizeRect for its side effect on the
   focal point, then the size rounded. *)
AheadOfTime(sz) == [WithFocalPoint(sz) EXCEPT !.size = GranularizedSize(sz)]

Ask(q) ==
    /\ stage = "idle"
    /\ stage' = "find"
    /\ asked' = q
    /\ sizing' = AheadOfTime(q)
    /\ UNCHANGED <<orig, saved, result>>

Find ==
    /\ stage = "find"
    /\ LET key == ToQuery(sizing) IN
        \/ key \in DOMAIN saved /\ result' = saved[key] /\ stage' = "found"
        \/ key \notin DOMAIN saved /\ stage' = "make" /\ UNCHANGED result
    /\ UNCHANGED <<orig, saved, asked, sizing>>

(* Mutant of MakeSize: the error of the engine is dropped. *)
MakeUnchecked ==
    /\ stage = "make"
    /\ sizing' = WithFocalPoint(sizing)
    /\ LET made == Sized(sizing', orig) IN
        \/ result' \in made
        \/ made = {} /\ UNCHANGED result
    /\ stage' = "save"
    /\ UNCHANGED <<orig, saved, asked>>

(* MakeSize: the engine calls CalcResizeRect once more. *)
Make ==
    /\ stage = "make"
    /\ sizing' = WithFocalPoint(sizing)
    /\ LET made == Sized(sizing', orig) IN
        \/ result' \in made /\ stage' = "save"
        \/ made = {} /\ stage' = "failed" /\ UNCHANGED result
    /\ UNCHANGED <<orig, saved, asked>>

(* DbSaveImage. *)
Save ==
    /\ stage = "save"
    /\ LET key  == ToQuery(sizing)
           keys == DOMAIN saved \cup {key}
       IN  /\ Cardinality(keys) <= MaxSaved
           /\ saved' = [k \in keys |-> IF k = key THEN result ELSE saved[k]]
    /\ stage' = "made"
    /\ UNCHANGED <<orig, asked, sizing, result>>

(* The handler answers and its sizing is gone. *)
Respond ==
    /\ stage \in {"found", "made", "failed"}
    /\ stage' = "idle" /\ asked' = NoSizing /\ sizing' = NoSizing /\ result' = NoResult
    /\ UNCHANGED <<orig, saved>>

(* A size that the stores have dropped is as if it had not been saved. *)
Drop ==
    /\ \E k \in DOMAIN saved : saved' = [j \in DOMAIN saved \ {k} |-> saved[j]]
    /\ UNCHANGED <<orig, request>>

Next == (\E q \in Queries : Ask(q)) \/ Find \/ Make \/ Save \/ Respond \/ Drop

Spec == Init /\ [][Next]_vars

-----------------------------------------------------------------------------
(* Properties. *)

Answered == stage \in {"found", "made"}

(* Every variable has its type; what is saved is an image with pixels. *)
TypeOK ==
    /\ orig \in Sources
    /\ stage \in {"idle", "find", "make", "save", "found", "made", "failed"}
    /\ asked \in Queries \cup {NoSizing}
    /\ sizing # NoSizing => sizing.size \in Rect
    /\ \A k \in DOMAIN saved : HasPixels(saved[k].resized)

(* cover and balance give the whole of the asked size: the resized image is
   never too small to be cropped, wherever the focal point is, though the crop
   is of the asked size and the resize of the granularized one
   (sizing.go:175: "returning sz.Size here...??"). *)
CoverFills ==
    Answered /\ sizing.op \in CropOps /\ sizing.size.w # 0 /\ sizing.size.h # 0
        => result.cut = sizing.size

(* contain and contain2 stay inside the asked size whichever side is scaled
   and however it is rounded, and contain enlarges nothing. *)
ContainFits ==
    Answered /\ sizing.op \in {"contain", "contain2"} =>
        /\ sizing.size.w # 0 => result.resized.w <= sizing.size.w
        /\ sizing.size.h # 0 => result.resized.h <= sizing.size.h
        /\ sizing.op = "contain" =>
              result.resized.w <= orig.w /\ result.resized.h <= orig.h

(* fitted leaves no image larger than its canvas, so nothing of it is clipped
   when it is put there.  On a canvas one pixel wide or high it may: a product
   cut to zero both ways means that the image is not resized at all. *)
FittedOnCanvas ==
    Answered /\ sizing.op = "fitted" /\ sizing.size # ZeroRect =>
        \/ sizing.canvas = << >> \/ sizing.canvas[1] = 1 \/ sizing.canvas[2] = 1
        \/ result.cut.w <= sizing.canvas[1] /\ result.cut.h <= sizing.canvas[2]

(* What was found under a key is what this request would have made itself, up
   to the two decimals a focal point is printed with: the crop is off by at
   most a hundredth of the image and one pixel. *)
FoundIsOwn ==
    stage = "found" =>
        \E own \in Sized(sizing, orig) :
            /\ own.resized = result.resized /\ own.out = result.out
            /\ 100 * (own.at.x - result.at.x) \in -(own.resized.w + 100) .. own.resized.w + 100
            /\ 100 * (own.at.y - result.at.y) \in -(own.resized.h + 100) .. own.resized.h + 100

(* What is saved is found by the next request with the same query, though the
   key is hashed twice from a sizing that the engine changes in between
   (bucket.go:120-121: "so our query is updated and we can find it in our
   db"). *)
SavedIsFound ==
    [][Save => ToQuery(AheadOfTime(asked)) \in DOMAIN saved']_vars
===============================================================================
