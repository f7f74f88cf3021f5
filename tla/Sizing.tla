-------------------------------- MODULE Sizing --------------------------------
(***************************************************************************)
(* The geometry of sizing.go, and what imagick/imagick.go makes of it: from *)
(* a parsed query and the size of the original to the size of the answer.   *)
(*                                                                          *)
(* A sizing is a record: size (a zero length is one that was not given), op,*)
(* g (the granularity), fp (the focal point, << >> when nil), cb (the crop   *)
(* box, NoBox when not given) and canvas (<< >> when nil).  Points and boxes *)
(* are in thousandths of the image, so that the two decimals of an index key *)
(* are fewer than a query can have.  Format, quality and flatten are printed *)
(* in the key as they are and do not touch the geometry: they are left out.  *)
(*                                                                          *)
(* The floats of the source are exact fractions here.  Two fractions of      *)
(* image lengths are equal as floats only if they are equal, so comparisons  *)
(* are exact; a value half way between two pixels is rounded up, where the   *)
(* float may be a hair below; and a product that should be a whole number    *)
(* may be a hair below it before int() cuts it (Truncated).                  *)
(***************************************************************************)
EXTENDS Integers, FiniteSets

Rect == [w : Nat, h : Nat]

ZeroRect == [w |-> 0, h |-> 0]

Thousandths == 0 .. 1000

NoBox == <<0, 0, 0, 0>>

Corner == [x |-> 0, y |-> 0]

CropOps == {"cover", "balance"}

Ops == CropOps \cup {"exact", "contain", "contain2", "expand", "fitted"}

(* What SetFromQuery makes of a query, up to its bounds: lengths are not
   negative, points are inside the image and a canvas has pixels. *)
Sizings ==
    [size : Rect, op : Ops, g : Nat \ {0},
     fp : {<< >>} \cup (Thousandths \X Thousandths),
     cb : Thousandths \X Thousandths \X Thousandths \X Thousandths,
     canvas : {<< >>} \cup ((Nat \ {0}) \X (Nat \ {0}))]

Least(a, b) == IF a < b THEN a ELSE b

(* round(n / d) for a fraction that is not negative. *)
Round(n, d) == (2 * n + d) \div (2 * d)

(* The values int(x) may give when x is n / d up to float rounding. *)
Truncated(n, d) ==
    {n \div d} \cup {m \in {n \div d - 1} : n % d = 0 /\ m \in Nat}

(* a.AspectRatio() > b.AspectRatio(), by cross-multiplication; with a height
   of zero the float is Inf or NaN and the comparison comes out the same. *)
Wider(a, b) == a.w * b.h > b.w * a.h

-----------------------------------------------------------------------------
(* Granularity and scaling. *)

Granularize(g, length) ==
    g * (length \div g + ((length % g) * 2) \div g)

GranularizedSize(sz) ==
    [w |-> Granularize(sz.g, sz.size.w), h |-> Granularize(sz.g, sz.size.h)]

ScaleToWidth(sz, src) ==
    LET w == Granularize(sz.g, sz.size.w)
    IN  [w |-> w, h |-> Round(w * src.h, src.w)]

ScaleToHeight(sz, src) ==
    LET h == Granularize(sz.g, sz.size.h)
    IN  [w |-> Round(h * src.w, src.h), h |-> h]

(* Mutant of calcScaledSize: the ratios are compared the other way round. *)
CalcScaledSizeAround(sz, src, scale) ==
    CASE sz.size.w = 0 -> ScaleToHeight(sz, src)
      [] sz.size.w # 0 /\ sz.size.h = 0 -> ScaleToWidth(sz, src)
      [] sz.size.w # 0 /\ sz.size.h # 0 /\ ~scale -> GranularizedSize(sz)
      [] sz.size.w # 0 /\ sz.size.h # 0 /\ scale ->
             IF Wider(src, sz.size) THEN ScaleToHeight(sz, src)
                                    ELSE ScaleToWidth(sz, src)

CalcScaledSize(sz, src, scale) ==
    CASE sz.size.w = 0 -> ScaleToHeight(sz, src)
      [] sz.size.w # 0 /\ sz.size.h = 0 -> ScaleToWidth(sz, src)
      [] sz.size.w # 0 /\ sz.size.h # 0 /\ ~scale -> GranularizedSize(sz)
      [] sz.size.w # 0 /\ sz.size.h # 0 /\ scale ->
             IF Wider(sz.size, src) THEN ScaleToHeight(sz, src)
                                    ELSE ScaleToWidth(sz, src)

-----------------------------------------------------------------------------
(* The operations.  Resized is what the image is scaled to. *)

Contain(sz, src) ==
    LET rr == CalcScaledSize(sz, src, FALSE)
    IN  IF src.w > rr.w \/ src.h > rr.h
        THEN CalcScaledSize(sz, src, TRUE) ELSE src

Expand(sz, src) ==
    LET rr == CalcScaledSize(sz, src, FALSE)
    IN  IF src.w < rr.w \/ src.h < rr.h
        THEN CalcScaledSize(sz, src, TRUE) ELSE src

(* Mutant of fitted: scaled by the ratio of the widths alone. *)
FittedByWidth(sz, src) ==
    LET size == CalcScaledSize(sz, src, FALSE)
    IN  IF sz.canvas = << >> \/ size.w <= sz.canvas[1] THEN {size}
        ELSE [w : Truncated(size.w * sz.canvas[1], size.w),
              h : Truncated(size.h * sz.canvas[1], size.w)]

(* Scaled down until it fits in the canvas, by the smaller of the two ratios. *)
Fitted(sz, src) ==
    LET size == CalcScaledSize(sz, src, FALSE)
        shrink(n, d) == [w : Truncated(size.w * n, d),
                         h : Truncated(size.h * n, d)]
    IN  IF \/ sz.canvas = << >>
           \/ size.w <= sz.canvas[1] /\ size.h <= sz.canvas[2]
        THEN {size}
        ELSE IF sz.canvas[1] * size.h < sz.canvas[2] * size.w
             THEN shrink(sz.canvas[1], size.w)
             ELSE shrink(sz.canvas[2], size.h)

(* cropByOffset: an original wider than the asked size keeps its width to be
   cropped, a taller one its height. *)
CutsWidth(sz, src) == Wider(src, CalcScaledSize(sz, src, FALSE))

(* Mutant of cropByOffset: the comparison of the ratios is turned around. *)
CropByOffsetAround(sz, src) ==
    IF CutsWidth(sz, src) THEN ScaleToWidth(sz, src)
                          ELSE ScaleToHeight(sz, src)

CropByOffset(sz, src) ==
    IF CutsWidth(sz, src) THEN ScaleToHeight(sz, src)
                          ELSE ScaleToWidth(sz, src)

Resized(sz, src) ==
    CASE sz.op = "contain"  -> {Contain(sz, src)}
      [] sz.op = "contain2" -> {CalcScaledSize(sz, src, TRUE)}
      [] sz.op = "expand"   -> {Expand(sz, src)}
      [] sz.op = "fitted"   -> Fitted(sz, src)
      [] sz.op \in CropOps  -> {CropByOffset(sz, src)}
      [] OTHER              -> {CalcScaledSize(sz, src, FALSE)}

(* The start of a crop of length want out of full, around the focal point f;
   it may be negative, as nothing here says that want is at most full. *)
Offset(full, want, f) ==
    LET diff == 2 * full * f - 1000 * want
    IN  Least(Round(IF diff < 0 THEN 0 ELSE diff, 2000), full - want)

(* CalcResizeRect's origin, which is moved to the corner if it is not inside
   the image that is going to be cropped. *)
CropOrigin(sz, src, rr) ==
    LET at == IF CutsWidth(sz, src)
              THEN [x |-> Offset(rr.w, sz.size.w, sz.fp[1]), y |-> 0]
              ELSE [x |-> 0, y |-> Offset(rr.h, sz.size.h, sz.fp[2])]
    IN  IF at.x < 0 \/ at.y < 0 \/ at.x > rr.w \/ at.y > rr.h
        THEN Corner ELSE at

(* The side effect of the cropping operations on the sizing they are given. *)
WithFocalPoint(sz) ==
    IF sz.fp # << >> \/ sz.op \notin CropOps THEN sz
    ELSE [sz EXCEPT !.fp = IF sz.op = "cover" THEN <<500, 500>>
                                              ELSE <<500, 330>>]

-----------------------------------------------------------------------------
(* The frame loop of the engine. *)

(* CalcCropBox: the corners in pixels. *)
Corners(cb, src) ==
    [x1 |-> Round(cb[1] * src.w, 1000), y1 |-> Round(cb[2] * src.h, 1000),
     x2 |-> Round(cb[3] * src.w, 1000), y2 |-> Round(cb[4] * src.h, 1000)]

BoxInvalid(sz, src) ==
    LET c == Corners(sz.cb, src) IN c.x2 < c.x1 \/ c.y2 < c.y1

(* What is left of the source after the initial crop. *)
Boxed(sz, src) ==
    LET c == Corners(sz.cb, src)
        box == [w |-> c.x2 - c.x1, h |-> c.y2 - c.y1]
    IN  IF box = ZeroRect THEN src ELSE box

(* A crop of length want at at out of full: what ImageMagick leaves of it.
   It takes a length of zero for all there is. *)
Cut(full, want, at) ==
    IF want = 0 THEN full - at ELSE Least(want, full - at)

(* One way to size a source: resized to rr (a zero rectangle means that it is
   left as it is), then cropped and put on the canvas. *)
Outcome(sz, src, rr) ==
    LET box   == Boxed(sz, src)
        have  == IF rr = ZeroRect THEN box ELSE rr
        at    == CropOrigin(sz, box, rr)
        crops == sz.op \in CropOps /\ sz.size # ZeroRect
        cut   == IF ~crops THEN have
                 ELSE [w |-> Cut(have.w, sz.size.w, at.x),
                       h |-> Cut(have.h, sz.size.h, at.y)]
        out   == IF sz.canvas = << >> THEN cut
                 ELSE [w |-> sz.canvas[1], h |-> sz.canvas[2]]
    IN  [resized |-> have,
         at |-> IF crops THEN at ELSE Corner,
         cut |-> cut, out |-> out]

HasPixels(r) == r.w > 0 /\ r.h > 0

(* sizeFrames on one frame: the results it may have.  There is none if the
   crop box is upside down or if the engine is asked to resize or to crop to an
   image without pixels, which is an error. *)
Sized(sz, src) ==
    IF sz.size = ZeroRect /\ sz.cb = NoBox
    THEN {[resized |-> src, at |-> Corner, cut |-> src, out |-> src]}
    ELSE {o \in {Outcome(sz, src, rr) :
                   rr \in {r \in Resized(sz, Boxed(sz, src)) :
                             r = ZeroRect \/ HasPixels(r)}} :
            ~BoxInvalid(sz, src) /\ HasPixels(o.cut)}

-----------------------------------------------------------------------------
(* The index key: ToQuery.  A point is printed with two decimals. *)

(* Mutant of FloatPoint.ToString: one decimal. *)
PrintedShort(p) == [i \in DOMAIN p |-> Round(p[i], 100)]

Printed(p) == [i \in DOMAIN p |-> Round(p[i], 10)]

ToQuery(sz) ==
    [s |-> sz.size, canvas |-> sz.canvas, op |-> sz.op,
     fp |-> Printed(sz.fp), cb |-> Printed(sz.cb), g |-> sz.g]
===============================================================================
