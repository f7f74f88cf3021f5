------------------------------ MODULE SizingProofs ------------------------------
(***************************************************************************)
(* Proofs about Sizing and SizedRequests, for any original, any queries     *)
(* with any granularity and focal point, and any number of sizes saved.     *)
(***************************************************************************)
EXTENDS SizedRequests, TLAPS

-----------------------------------------------------------------------------
(* Rounding. *)

LEMMA DivMod ==
    ASSUME NEW n \in Nat, NEW d \in Nat \ {0}
    PROVE  /\ n \div d \in Nat /\ n % d \in Nat
           /\ n = d * (n \div d) + (n % d) /\ n % d < d
  OBVIOUS

LEMMA DivExact ==
    ASSUME NEW k \in Nat, NEW d \in Nat \ {0}
    PROVE  (d * k) \div d = k /\ (d * k) % d = 0
  OBVIOUS

(* round is within half of the fraction it rounds. *)
LEMMA RoundBounds ==
    ASSUME NEW n \in Nat, NEW d \in Nat \ {0}
    PROVE  /\ Round(n, d) \in Nat
           /\ 2 * (d * Round(n, d)) <= 2 * n + d
           /\ 2 * n < 2 * (d * Round(n, d)) + d
<1> DEFINE q == (2 * n + d) \div (2 * d)
           m == (2 * n + d) % (2 * d)
<1>1. 2 * n + d \in Nat /\ 2 * d \in Nat \ {0}
  OBVIOUS
<1>2. /\ q \in Nat /\ m \in Nat /\ 2 * n + d = (2 * d) * q + m /\ m < 2 * d
  BY <1>1, DivMod
<1>3. Round(n, d) = q
  BY DEF Round
<1> HIDE DEF q, m
<1> QED BY <1>2, <1>3

(* A whole number below a fraction is not above the fraction rounded. *)
LEMMA RoundAtLeast ==
    ASSUME NEW n \in Nat, NEW d \in Nat \ {0}, NEW k \in Nat, k * d <= n
    PROVE  k <= Round(n, d)
<1> DEFINE r == Round(n, d)
<1>1. r \in Nat /\ 2 * n < 2 * (d * r) + d
  BY RoundBounds
<1> HIDE DEF r
<1>2. ASSUME r + 1 <= k PROVE FALSE
  <2>1. (r + 1) * d <= k * d
    BY <1>1, <1>2
  <2>2. (r + 1) * d = d * r + d
    BY <1>1
  <2> QED BY <1>1, <2>1, <2>2
<1> QED BY <1>1, <1>2 DEF r

(* And a whole number above it is not below. *)
LEMMA RoundAtMost ==
    ASSUME NEW n \in Nat, NEW d \in Nat \ {0}, NEW k \in Nat, n <= k * d
    PROVE  Round(n, d) <= k
<1> DEFINE r == Round(n, d)
<1>1. r \in Nat /\ 2 * (d * r) <= 2 * n + d
  BY RoundBounds
<1> HIDE DEF r
<1>2. ASSUME k + 1 <= r PROVE FALSE
  <2>1. (k + 1) * d <= r * d
    BY <1>1, <1>2
  <2>2. (k + 1) * d = k * d + d /\ r * d = d * r
    BY <1>1
  <2> QED BY <1>1, <2>1, <2>2
<1> QED BY <1>1, <1>2 DEF r

(* int(x) of a fraction is not above a whole number that the fraction is not
   above, and of a whole number it is that number or one less. *)
LEMMA TruncatedAtMost ==
    ASSUME NEW n \in Nat, NEW d \in Nat \ {0}, NEW k \in Nat, n <= k * d,
           NEW m \in Truncated(n, d)
    PROVE  m \in Nat /\ m <= k
<1> DEFINE q == n \div d
<1>1. q \in Nat /\ n % d \in Nat /\ n = d * q + (n % d)
  BY DivMod
<1>2. m \in Nat /\ m <= q
  BY <1>1 DEF Truncated
<1> HIDE DEF q
<1>3. ASSUME k + 1 <= q PROVE FALSE
  <2>1. d * (k + 1) <= d * q
    BY <1>1, <1>3
  <2>2. d * (k + 1) = k * d + d
    OBVIOUS
  <2> QED BY <1>1, <2>1, <2>2
<1> QED BY <1>1, <1>2, <1>3

LEMMA TruncatedExact ==
    ASSUME NEW d \in Nat \ {0}, NEW k \in Nat, NEW m \in Truncated(d * k, d)
    PROVE  m = k \/ m = k - 1
<1>1. (d * k) \div d = k
  BY DivExact
<1> QED BY <1>1 DEF Truncated

(* granularize returns the nearest multiple of the granularity, as the comment
   at sizing.go:239 says. *)
THEOREM GranularizeNearest ==
    ASSUME NEW g \in Nat \ {0}, NEW n \in Nat
    PROVE  /\ \E k \in Nat : Granularize(g, n) = g * k
           /\ 2 * Granularize(g, n) <= 2 * n + g
           /\ 2 * n <= 2 * Granularize(g, n) + g
<1> DEFINE q == n \div g
           m == n % g
           u == (m * 2) \div g
           v == (m * 2) % g
<1>1. q \in Nat /\ m \in Nat /\ n = g * q + m /\ m < g
  BY DivMod
<1>2. u \in Nat /\ v \in Nat /\ m * 2 = g * u + v /\ v < g
  <2>1. m * 2 \in Nat
    BY <1>1
  <2> QED BY <2>1, DivMod
<1>3. Granularize(g, n) = g * (q + u)
  BY DEF Granularize
<1> HIDE DEF q, m, u, v
<1>4. g * (q + u) = g * q + g * u
  BY <1>1, <1>2
<1>5. u <= 1
  <2>1. ASSUME 2 <= u PROVE FALSE
    <3>1. g * 2 <= g * u
      BY <2>1, <1>2
    <3> QED BY <3>1, <1>1, <1>2
  <2> QED BY <2>1, <1>2
<1>6. u = 0 \/ u = 1
  BY <1>2, <1>5
<1>7. /\ 2 * Granularize(g, n) <= 2 * n + g
      /\ 2 * n <= 2 * Granularize(g, n) + g
  BY <1>1, <1>2, <1>3, <1>4, <1>6
<1>8. q + u \in Nat
  BY <1>1, <1>2
<1>9. \E k \in Nat : Granularize(g, n) = g * k
  BY <1>3, <1>8
<1> QED BY <1>7, <1>9

(* Rounding a size again does not move it: GetImageSize rounds it for the key,
   and the engine once more for every frame. *)
THEOREM GranularizeSettles ==
    ASSUME NEW g \in Nat \ {0}, NEW n \in Nat
    PROVE  /\ Granularize(g, n) \in Nat
           /\ Granularize(g, Granularize(g, n)) = Granularize(g, n)
<1>1. PICK k \in Nat : Granularize(g, n) = g * k
  BY GranularizeNearest
<1>2. (g * k) \div g = k /\ (g * k) % g = 0
  BY DivExact
<1>3. (0 * 2) \div g = 0
  OBVIOUS
<1>4. Granularize(g, g * k) = g * (k + 0)
  BY <1>2, <1>3 DEF Granularize
<1> QED BY <1>1, <1>4
-----------------------------------------------------------------------------
(* Cropping. *)

Pixels == [w : Nat \ {0}, h : Nat \ {0}]

(* A sizing that has been rounded. *)
Settled(sz) ==
    /\ sz \in Sizings
    /\ Granularize(sz.g, sz.size.w) = sz.size.w
    /\ Granularize(sz.g, sz.size.h) = sz.size.h

BothGiven(sz) == sz.size.w # 0 /\ sz.size.h # 0

(* The image is resized so that it covers the asked size: one side fits
   exactly, the other has at least the asked length. *)
LEMMA ResizedCovers ==
    ASSUME NEW sz, Settled(sz), BothGiven(sz), NEW src \in Pixels
    PROVE  LET rr == CropByOffset(sz, src) IN
             /\ rr \in Rect
             /\ CutsWidth(sz, src) => rr.h = sz.size.h /\ sz.size.w <= rr.w
             /\ ~CutsWidth(sz, src) => rr.w = sz.size.w /\ sz.size.h <= rr.h
<1> DEFINE W == sz.size.w
           H == sz.size.h
<1>1. /\ W \in Nat \ {0} /\ H \in Nat \ {0} /\ sz.size = [w |-> W, h |-> H]
      /\ src.w \in Nat \ {0} /\ src.h \in Nat \ {0}
  BY DEF Settled, Sizings, Rect, BothGiven, Pixels
<1>2. CalcScaledSize(sz, src, FALSE) = [w |-> W, h |-> H]
  BY <1>1 DEF CalcScaledSize, GranularizedSize, Settled
<1>3. CutsWidth(sz, src) <=> src.w * H > W * src.h
  BY <1>1, <1>2 DEF CutsWidth, Wider
<1>4. ASSUME CutsWidth(sz, src)
      PROVE  /\ CropByOffset(sz, src) = [w |-> Round(H * src.w, src.h), h |-> H]
             /\ Round(H * src.w, src.h) \in Nat /\ W <= Round(H * src.w, src.h)
  <2>1. CropByOffset(sz, src) = [w |-> Round(H * src.w, src.h), h |-> H]
    BY <1>4 DEF CropByOffset, ScaleToHeight, Settled
  <2>2. W * src.h <= H * src.w /\ H * src.w \in Nat
    BY <1>1, <1>3, <1>4
  <2> QED BY <1>1, <2>1, <2>2, RoundAtLeast, RoundBounds
<1>5. ASSUME ~CutsWidth(sz, src)
      PROVE  /\ CropByOffset(sz, src) = [w |-> W, h |-> Round(W * src.h, src.w)]
             /\ Round(W * src.h, src.w) \in Nat /\ H <= Round(W * src.h, src.w)
  <2>1. CropByOffset(sz, src) = [w |-> W, h |-> Round(W * src.h, src.w)]
    BY <1>5 DEF CropByOffset, ScaleToWidth, Settled
  <2>2. H * src.w <= W * src.h /\ W * src.h \in Nat
    BY <1>1, <1>3, <1>5
  <2> QED BY <1>1, <2>1, <2>2, RoundAtLeast, RoundBounds
<1> QED BY <1>1, <1>4, <1>5 DEF Rect

(* A crop that is not longer than the image starts inside it and ends inside
   it, for every focal point. *)
LEMMA OffsetInside ==
    ASSUME NEW full \in Nat, NEW want \in Nat, want <= full, NEW f \in Nat
    PROVE  /\ Offset(full, want, f) \in Nat
           /\ Offset(full, want, f) + want <= full
<1> DEFINE diff == 2 * full * f - 1000 * want
           d == IF diff < 0 THEN 0 ELSE diff
           r == Round(d, 2000)
<1>1. d \in Nat
  <2>1. 2 * full * f \in Nat
    OBVIOUS
  <2> QED BY <2>1
<1> HIDE DEF d
<1>2. r \in Nat
  BY <1>1, RoundBounds
<1>3. Offset(full, want, f) = Least(r, full - want)
  BY DEF Offset, d
<1> HIDE DEF r
<1> QED BY <1>2, <1>3 DEF Least

LEMMA CutInside ==
    ASSUME NEW full \in Nat, NEW want \in Nat \ {0}, NEW at \in Nat, at + want <= full
    PROVE  Cut(full, want, at) = want
  BY DEF Cut, Least

LEMMA PointInNat ==
    ASSUME NEW p \in Thousandths \X Thousandths
    PROVE  p[1] \in Nat /\ p[2] \in Nat
<1>1. PICK a \in Thousandths, b \in Thousandths : p = <<a, b>>
  OBVIOUS
<1>2. a \in Nat /\ b \in Nat
  BY DEF Thousandths
<1> QED BY <1>1, <1>2

(* What a crop makes of an image that covers the asked size: it is cropped
   where the focal point says, and the crop leaves exactly the asked size. *)
Cropped(sz, box, rr, o) ==
    /\ rr \in Rect /\ HasPixels(rr) /\ o.resized = rr /\ o.cut = sz.size
    /\ o.at = IF CutsWidth(sz, box) THEN [x |-> Offset(rr.w, sz.size.w, sz.fp[1]), y |-> 0]
                                   ELSE [x |-> 0, y |-> Offset(rr.h, sz.size.h, sz.fp[2])]
    /\ CutsWidth(sz, box) => sz.size.w <= rr.w
    /\ ~CutsWidth(sz, box) => sz.size.h <= rr.h

LEMMA CropLeavesSize ==
    ASSUME NEW sz, Settled(sz), BothGiven(sz), sz.op \in CropOps, sz.fp # << >>,
           NEW src \in Pixels, Boxed(sz, src) \in Pixels,
           NEW rr, rr = CropByOffset(sz, Boxed(sz, src)),
           NEW o, o = Outcome(sz, src, rr)
    PROVE  Cropped(sz, Boxed(sz, src), rr, o)
<1> DEFINE box == Boxed(sz, src)
           W == sz.size.w
           H == sz.size.h
           at == CropOrigin(sz, box, rr)
<1>1. /\ W \in Nat \ {0} /\ H \in Nat \ {0} /\ sz.size = [w |-> W, h |-> H]
      /\ sz.size # ZeroRect /\ sz.fp[1] \in Nat /\ sz.fp[2] \in Nat
  <2>1. sz.fp \in Thousandths \X Thousandths
    BY DEF Settled, Sizings
  <2>2. sz.fp[1] \in Nat /\ sz.fp[2] \in Nat
    BY <2>1, PointInNat
  <2> QED BY <2>2 DEF Settled, Sizings, Rect, BothGiven, ZeroRect
<1>2. /\ rr \in Rect
      /\ CutsWidth(sz, box) => rr.h = H /\ W <= rr.w
      /\ ~CutsWidth(sz, box) => rr.w = W /\ H <= rr.h
  BY ResizedCovers
<1>3. rr # ZeroRect /\ rr.w \in Nat \ {0} /\ rr.h \in Nat \ {0}
  BY <1>1, <1>2 DEF ZeroRect, Rect
<1> HIDE DEF box
<1>4. /\ at.x \in Nat /\ at.x + W <= rr.w
      /\ at.y \in Nat /\ at.y + H <= rr.h
      /\ at = IF CutsWidth(sz, box) THEN [x |-> Offset(rr.w, W, sz.fp[1]), y |-> 0]
                                   ELSE [x |-> 0, y |-> Offset(rr.h, H, sz.fp[2])]
  <2>1. CASE CutsWidth(sz, box)
    <3> DEFINE x == Offset(rr.w, W, sz.fp[1])
    <3>1. x \in Nat /\ x + W <= rr.w
      BY <1>1, <1>2, <1>3, <2>1, OffsetInside
    <3>2. at = [x |-> x, y |-> 0]
      <4> HIDE DEF x
      <4>1. ~(x < 0 \/ 0 < 0 \/ x > rr.w \/ 0 > rr.h)
        BY <1>1, <1>3, <3>1
      <4> QED BY <2>1, <4>1 DEF CropOrigin, x
    <3> QED BY <1>1, <1>2, <1>3, <2>1, <3>1, <3>2 DEF x
  <2>2. CASE ~CutsWidth(sz, box)
    <3> DEFINE y == Offset(rr.h, H, sz.fp[2])
    <3>1. y \in Nat /\ y + H <= rr.h
      BY <1>1, <1>2, <1>3, <2>2, OffsetInside
    <3>2. at = [x |-> 0, y |-> y]
      <4> HIDE DEF y
      <4>1. ~(0 < 0 \/ y < 0 \/ 0 > rr.w \/ y > rr.h)
        BY <1>1, <1>3, <3>1
      <4> QED BY <2>2, <4>1 DEF CropOrigin, y
    <3> QED BY <1>1, <1>2, <1>3, <2>2, <3>1, <3>2 DEF y
  <2> QED BY <2>1, <2>2
<1>5. /\ o.cut = [w |-> Cut(rr.w, W, at.x), h |-> Cut(rr.h, H, at.y)]
      /\ o.resized = rr /\ o.at = at
  BY <1>1, <1>3 DEF Outcome, box
<1>6. Cut(rr.w, W, at.x) = W /\ Cut(rr.h, H, at.y) = H
  <2> HIDE DEF at
  <2> QED BY <1>1, <1>3, <1>4, CutInside
<1>7. o.cut = sz.size
  BY <1>1, <1>5, <1>6
<1> HIDE DEF at
<1> QED BY <1>2, <1>3, <1>4, <1>5, <1>7 DEF Cropped, HasPixels, box
-----------------------------------------------------------------------------
(* Fitting in. *)

(* A rectangle inside the lengths that were given. *)
Inside(r, size) ==
    /\ r \in Rect
    /\ size.w # 0 => r.w <= size.w
    /\ size.h # 0 => r.h <= size.h

(* Scaled with its ratio kept, an image is within the asked size. *)
LEMMA ScaledFits ==
    ASSUME NEW sz, Settled(sz), NEW src \in Pixels
    PROVE  /\ Inside(CalcScaledSize(sz, src, TRUE), sz.size)
           /\ CalcScaledSize(sz, src, TRUE) = ZeroRect => sz.size = ZeroRect
<1> DEFINE W == sz.size.w
           H == sz.size.h
           rr == CalcScaledSize(sz, src, TRUE)
           byH == [w |-> Round(H * src.w, src.h), h |-> H]
           byW == [w |-> W, h |-> Round(W * src.h, src.w)]
<1>1. /\ W \in Nat /\ H \in Nat /\ sz.size = [w |-> W, h |-> H]
      /\ src.w \in Nat \ {0} /\ src.h \in Nat \ {0}
  BY DEF Settled, Sizings, Rect, Pixels
<1>2. ScaleToHeight(sz, src) = byH /\ ScaleToWidth(sz, src) = byW
  BY DEF ScaleToHeight, ScaleToWidth, Settled
<1>3. H * src.w \in Nat /\ W * src.h \in Nat
  BY <1>1
<1>4. Round(H * src.w, src.h) \in Nat /\ Round(W * src.h, src.w) \in Nat
  BY <1>1, <1>3, RoundBounds
<1>5. CASE W = 0
  <2>1. rr = byH
    BY <1>2, <1>5 DEF CalcScaledSize
  <2>2. Inside(byH, sz.size) /\ (byH = ZeroRect => sz.size = ZeroRect)
    BY <1>1, <1>4, <1>5 DEF Inside, Rect, ZeroRect
  <2> QED BY <2>1, <2>2
<1>6. CASE W # 0 /\ H = 0
  <2>1. rr = byW
    BY <1>2, <1>6 DEF CalcScaledSize
  <2>2. Inside(byW, sz.size) /\ (byW = ZeroRect => sz.size = ZeroRect)
    BY <1>1, <1>4, <1>6 DEF Inside, Rect, ZeroRect
  <2> QED BY <2>1, <2>2
<1>7. CASE W # 0 /\ H # 0 /\ Wider(sz.size, src)
  <2>1. rr = byH
    BY <1>2, <1>7 DEF CalcScaledSize
  <2>2. H * src.w <= W * src.h
    BY <1>1, <1>7 DEF Wider
  <2>3. Round(H * src.w, src.h) <= W
    BY <1>1, <1>3, <2>2, RoundAtMost
  <2>4. Inside(byH, sz.size) /\ (byH = ZeroRect => sz.size = ZeroRect)
    BY <1>1, <1>4, <1>7, <2>3 DEF Inside, Rect, ZeroRect
  <2> QED BY <2>1, <2>4
<1>8. CASE W # 0 /\ H # 0 /\ ~Wider(sz.size, src)
  <2>1. rr = byW
    BY <1>2, <1>8 DEF CalcScaledSize
  <2>2. W * src.h <= H * src.w
    BY <1>1, <1>8 DEF Wider
  <2>3. Round(W * src.h, src.w) <= H
    BY <1>1, <1>3, <2>2, RoundAtMost
  <2>4. Inside(byW, sz.size) /\ (byW = ZeroRect => sz.size = ZeroRect)
    BY <1>1, <1>4, <1>8, <2>3 DEF Inside, Rect, ZeroRect
  <2> QED BY <2>1, <2>4
<1> QED BY <1>5, <1>6, <1>7, <1>8

(* contain leaves an image alone unless it is too large, and then makes it
   smaller: it never enlarges one. *)
LEMMA ContainShrinks ==
    ASSUME NEW sz, Settled(sz), NEW src \in Pixels
    PROVE  /\ Inside(Contain(sz, src), sz.size)
           /\ Contain(sz, src).w <= src.w /\ Contain(sz, src).h <= src.h
           /\ Contain(sz, src) = ZeroRect => sz.size = ZeroRect
<1> DEFINE W == sz.size.w
           H == sz.size.h
           plain == CalcScaledSize(sz, src, FALSE)
           rr == CalcScaledSize(sz, src, TRUE)
           byH == [w |-> Round(H * src.w, src.h), h |-> H]
           byW == [w |-> W, h |-> Round(W * src.h, src.w)]
           large == src.w > plain.w \/ src.h > plain.h
<1>1. /\ W \in Nat /\ H \in Nat /\ sz.size = [w |-> W, h |-> H]
      /\ src.w \in Nat \ {0} /\ src.h \in Nat \ {0} /\ src \in Rect
  BY DEF Settled, Sizings, Rect, Pixels
<1>2. /\ ScaleToHeight(sz, src) = byH /\ ScaleToWidth(sz, src) = byW
      /\ GranularizedSize(sz) = sz.size
  BY <1>1 DEF ScaleToHeight, ScaleToWidth, GranularizedSize, Settled
<1>3. H * src.w \in Nat /\ W * src.h \in Nat
  BY <1>1
<1>4. Round(H * src.w, src.h) \in Nat /\ Round(W * src.h, src.w) \in Nat
  BY <1>1, <1>3, RoundBounds
<1>5. Contain(sz, src) = IF large THEN rr ELSE src
  BY DEF Contain
<1>6. /\ W = 0 => plain = byH /\ rr = byH
      /\ W # 0 /\ H = 0 => plain = byW /\ rr = byW
      /\ W # 0 /\ H # 0 => /\ plain = sz.size
                           /\ rr = IF Wider(sz.size, src) THEN byH ELSE byW
  BY <1>2 DEF CalcScaledSize
<1>7. Inside(rr, sz.size) /\ (rr = ZeroRect => sz.size = ZeroRect)
  BY ScaledFits
<1> HIDE DEF plain, rr
<1>8. H <= src.h => Round(H * src.w, src.h) <= src.w
  <2>1. H <= src.h => H * src.w <= src.w * src.h
    BY <1>1
  <2> QED BY <1>1, <1>3, <2>1, RoundAtMost
<1>9. W <= src.w => Round(W * src.h, src.w) <= src.h
  <2>1. W <= src.w => W * src.h <= src.h * src.w
    BY <1>1
  <2> QED BY <1>1, <1>3, <2>1, RoundAtMost
<1>10. src.h <= H => src.w <= Round(H * src.w, src.h)
  <2>1. src.h <= H => src.w * src.h <= H * src.w
    BY <1>1
  <2> QED BY <1>1, <1>3, <2>1, RoundAtLeast
<1>11. src.w <= W => src.h <= Round(W * src.h, src.w)
  <2>1. src.w <= W => src.h * src.w <= W * src.h
    BY <1>1
  <2> QED BY <1>1, <1>3, <2>1, RoundAtLeast
<1>12. ~large => Inside(src, sz.size)
  <2>1. CASE W = 0
    BY <1>1, <1>4, <1>6, <2>1 DEF Inside
  <2>2. CASE W # 0 /\ H = 0
    BY <1>1, <1>4, <1>6, <2>2 DEF Inside
  <2>3. CASE W # 0 /\ H # 0
    BY <1>1, <1>6, <2>3 DEF Inside
  <2> QED BY <2>1, <2>2, <2>3
<1>13. large => rr.w <= src.w /\ rr.h <= src.h
  <2> SUFFICES ASSUME large PROVE rr.w <= src.w /\ rr.h <= src.h
    OBVIOUS
  <2>1. CASE W = 0
    <3>1. plain = byH /\ rr = byH
      BY <1>6, <2>1
    <3>2. H <= src.h
      BY <1>1, <1>4, <1>10, <3>1
    <3> QED BY <1>8, <3>1, <3>2
  <2>2. CASE W # 0 /\ H = 0
    <3>1. plain = byW /\ rr = byW
      BY <1>6, <2>2
    <3>2. W <= src.w
      BY <1>1, <1>4, <1>11, <3>1
    <3> QED BY <1>9, <3>1, <3>2
  <2>3. CASE W # 0 /\ H # 0 /\ Wider(sz.size, src)
    <3>1. rr = byH /\ (src.w > W \/ src.h > H)
      BY <1>1, <1>6, <2>3
    <3>2. W * src.h > src.w * H
      BY <1>1, <2>3 DEF Wider
    <3>3. ASSUME H > src.h PROVE FALSE
      <4>1. src.w > W
        BY <1>1, <3>1, <3>3
      <4>2. W * src.h <= src.w * src.h /\ src.w * src.h <= src.w * H
        BY <1>1, <3>3, <4>1
      <4> QED BY <1>1, <1>3, <3>2, <4>2
    <3>4. H <= src.h
      BY <1>1, <3>3
    <3> QED BY <1>8, <3>1, <3>4
  <2>4. CASE W # 0 /\ H # 0 /\ ~Wider(sz.size, src)
    <3>1. rr = byW /\ (src.w > W \/ src.h > H)
      BY <1>1, <1>6, <2>4
    <3>2. W * src.h <= src.w * H
      BY <1>1, <2>4 DEF Wider
    <3>3. ASSUME W > src.w PROVE FALSE
      <4>1. src.h > H
        BY <1>1, <3>1, <3>3
      <4>2. src.w * H < src.w * src.h /\ src.w * src.h <= W * src.h
        BY <1>1, <3>3, <4>1
      <4> QED BY <1>1, <1>3, <3>2, <4>2
    <3>4. W <= src.w
      BY <1>1, <3>3
    <3> QED BY <1>9, <3>1, <3>4
  <2> QED BY <2>1, <2>2, <2>3, <2>4
<1>14. CASE large
  <2>1. Contain(sz, src) = rr
    BY <1>5, <1>14
  <2> QED BY <1>7, <1>13, <1>14, <2>1
<1>15. CASE ~large
  <2>1. Contain(sz, src) = src
    BY <1>5, <1>15
  <2> QED BY <1>1, <1>12, <1>15, <2>1 DEF ZeroRect
<1> QED BY <1>14, <1>15

(* Within the canvas, if there is one and it has more than a pixel each way. *)
OnCanvas(canvas, r) ==
    \/ canvas = << >> \/ canvas[1] = 1 \/ canvas[2] = 1
    \/ r.w <= canvas[1] /\ r.h <= canvas[2]

(* A size that is asked for is not rounded away on both sides. *)
LEMMA PlainSize ==
    ASSUME NEW sz, Settled(sz), sz.size # ZeroRect, NEW src \in Pixels
    PROVE  /\ CalcScaledSize(sz, src, FALSE) \in Rect
           /\ CalcScaledSize(sz, src, FALSE) # ZeroRect
<1> DEFINE W == sz.size.w
           H == sz.size.h
<1>1. /\ W \in Nat /\ H \in Nat /\ sz.size = [w |-> W, h |-> H] /\ (W # 0 \/ H # 0)
      /\ src.w \in Nat \ {0} /\ src.h \in Nat \ {0}
  BY DEF Settled, Sizings, Rect, Pixels, ZeroRect
<1>2. H * src.w \in Nat /\ W * src.h \in Nat
  BY <1>1
<1>3. Round(H * src.w, src.h) \in Nat /\ Round(W * src.h, src.w) \in Nat
  BY <1>1, <1>2, RoundBounds
<1>4. CASE W = 0
  BY <1>1, <1>3, <1>4 DEF CalcScaledSize, ScaleToHeight, Settled, Rect, ZeroRect
<1>5. CASE W # 0 /\ H = 0
  BY <1>1, <1>3, <1>5 DEF CalcScaledSize, ScaleToWidth, Settled, Rect, ZeroRect
<1>6. CASE W # 0 /\ H # 0
  BY <1>1, <1>6 DEF CalcScaledSize, GranularizedSize, Settled, Rect, ZeroRect
<1> QED BY <1>4, <1>5, <1>6

(* fitted scales to the canvas, by the ratio of the side that is the further
   beyond it, and leaves at least a pixel of that side. *)
LEMMA FittedFits ==
    ASSUME NEW sz, Settled(sz), sz.size # ZeroRect, NEW src \in Pixels,
           NEW rr \in Fitted(sz, src), rr = ZeroRect \/ HasPixels(rr)
    PROVE  OnCanvas(sz.canvas, rr) /\ (rr = ZeroRect => OnCanvas(sz.canvas, src))
<1> DEFINE size == CalcScaledSize(sz, src, FALSE)
<1>1. size \in Rect /\ size # ZeroRect
  BY PlainSize
<1>2. CASE sz.canvas = << >> \/ sz.canvas[1] = 1 \/ sz.canvas[2] = 1
  BY <1>2 DEF OnCanvas
<1>3. CASE ~(sz.canvas = << >> \/ sz.canvas[1] = 1 \/ sz.canvas[2] = 1)
  <2>1. PICK c \in Nat \ {0}, e \in Nat \ {0} : sz.canvas = <<c, e>>
    BY <1>3 DEF Settled, Sizings
  <2> DEFINE W == size.w
             H == size.h
             shrink(n, d) == [w : Truncated(W * n, d), h : Truncated(H * n, d)]
  <2>2. W \in Nat /\ H \in Nat /\ (W # 0 \/ H # 0) /\ c >= 2 /\ e >= 2
        /\ c * H \in Nat /\ e * W \in Nat
    <3>1. W \in Nat /\ H \in Nat /\ (W # 0 \/ H # 0)
      BY <1>1 DEF Rect, ZeroRect
    <3> HIDE DEF size
    <3> QED BY <1>3, <2>1, <3>1
  <2>3. /\ sz.canvas # << >> /\ sz.canvas[1] = c /\ sz.canvas[2] = e
        /\ Fitted(sz, src) = IF W <= c /\ H <= e THEN {size}
                             ELSE IF c * H < e * W THEN shrink(c, W) ELSE shrink(e, H)
    <3>1. sz.canvas # << >> /\ sz.canvas[1] = c /\ sz.canvas[2] = e
      BY <2>1
    <3> QED BY <3>1, Zenon DEF Fitted
  <2>4. CASE W <= c /\ H <= e
    <3>1. rr = size
      BY <2>3, <2>4
    <3> QED BY <1>1, <2>3, <2>4, <3>1 DEF OnCanvas
  <2>5. CASE ~(W <= c /\ H <= e) /\ c * H < e * W
    <3>1. rr \in shrink(c, W)
      BY <2>3, <2>5
    <3>2. rr.w \in Truncated(W * c, W) /\ rr.h \in Truncated(H * c, W)
      BY <3>1
    <3> HIDE DEF size
    <3>3. W \in Nat \ {0}
      BY <2>2, <2>5
    <3>4. rr.w = c \/ rr.w = c - 1
      BY <2>2, <3>2, <3>3, TruncatedExact
    <3>5. H * c \in Nat /\ H * c <= e * W
      BY <2>2, <2>5
    <3>6. rr.h \in Nat /\ rr.h <= e
      BY <3>2, <3>3, <3>5, TruncatedAtMost
    <3> QED BY <2>2, <2>3, <3>4, <3>6 DEF OnCanvas, ZeroRect
  <2>6. CASE ~(W <= c /\ H <= e) /\ ~(c * H < e * W)
    <3>1. rr \in shrink(e, H)
      BY <2>3, <2>6
    <3>2. rr.w \in Truncated(W * e, H) /\ rr.h \in Truncated(H * e, H)
      BY <3>1
    <3> HIDE DEF size
    <3>3. H \in Nat \ {0}
      <4>1. ASSUME H = 0 PROVE FALSE
        <5>1. e * W <= 0
          BY <2>2, <2>6, <4>1
        <5>2. W = 0
          BY <2>2, <5>1
        <5> QED BY <2>2, <4>1, <5>2
      <4> QED BY <2>2, <4>1
    <3>4. rr.h = e \/ rr.h = e - 1
      BY <2>2, <3>2, <3>3, TruncatedExact
    <3>5. W * e \in Nat /\ W * e <= c * H
      BY <2>2, <2>6
    <3>6. rr.w \in Nat /\ rr.w <= c
      BY <3>2, <3>3, <3>5, TruncatedAtMost
    <3> QED BY <2>2, <2>3, <3>4, <3>6 DEF OnCanvas, ZeroRect
  <2> QED BY <2>4, <2>5, <2>6
<1> QED BY <1>2, <1>3
-----------------------------------------------------------------------------
(* The engine. *)

(* What the initial crop leaves is not larger than the image. *)
LEMMA BoxShrinks ==
    ASSUME NEW sz \in Sizings, NEW src \in Pixels, ~BoxInvalid(sz, src)
    PROVE  /\ Boxed(sz, src) \in Rect
           /\ Boxed(sz, src).w <= src.w /\ Boxed(sz, src).h <= src.h
<1> DEFINE cb == sz.cb
           c == Corners(sz.cb, src)
<1>1. /\ src.w \in Nat \ {0} /\ src.h \in Nat \ {0} /\ src \in Rect
  BY DEF Pixels, Rect
<1>2. PICK a \in Thousandths, b \in Thousandths, d \in Thousandths, e \in Thousandths :
        sz.cb = <<a, b, d, e>>
  BY DEF Sizings
<1>3. /\ a \in Nat /\ b \in Nat /\ d \in Nat /\ e \in Nat
      /\ d <= 1000 /\ e <= 1000
  BY DEF Thousandths
<1>4. /\ c.x1 = Round(a * src.w, 1000) /\ c.y1 = Round(b * src.h, 1000)
      /\ c.x2 = Round(d * src.w, 1000) /\ c.y2 = Round(e * src.h, 1000)
  BY <1>2 DEF Corners
<1>5. /\ a * src.w \in Nat /\ b * src.h \in Nat
      /\ d * src.w \in Nat /\ e * src.h \in Nat
      /\ d * src.w <= src.w * 1000 /\ e * src.h <= src.h * 1000
  BY <1>1, <1>3
<1>6. c.x1 \in Nat /\ c.y1 \in Nat /\ c.x2 \in Nat /\ c.y2 \in Nat
  <2>1. \A n \in Nat : Round(n, 1000) \in Nat
    BY RoundBounds
  <2> QED BY <1>4, <1>5, <2>1
<1>7. c.x2 <= src.w /\ c.y2 <= src.h
  <2>1. \A n, k \in Nat : n <= k * 1000 => Round(n, 1000) <= k
    BY RoundAtMost
  <2> QED BY <1>1, <1>4, <1>5, <2>1
<1>8. ~(c.x2 < c.x1) /\ ~(c.y2 < c.y1)
  BY DEF BoxInvalid
<1>9. Boxed(sz, src) = LET box == [w |-> c.x2 - c.x1, h |-> c.y2 - c.y1]
                      IN  IF box = ZeroRect THEN src ELSE box
  BY DEF Boxed
<1> HIDE DEF c
<1> QED BY <1>1, <1>6, <1>7, <1>8, <1>9 DEF Rect

(* What is true of a size that is saved under a key. *)
Kept(key, r, src) ==
    /\ HasPixels(r.resized)
    /\ key.op \in CropOps /\ key.s.w # 0 /\ key.s.h # 0 => r.cut = key.s
    /\ key.op \in {"contain", "contain2"} => Inside(r.resized, key.s)
    /\ key.op = "contain" => r.resized.w <= src.w /\ r.resized.h <= src.h
    /\ key.op = "fitted" /\ key.s # ZeroRect => OnCanvas(key.canvas, r.cut)

LEMMA SizedKeeps ==
    ASSUME NEW sz, Settled(sz), sz.op \in CropOps => sz.fp # << >>,
           NEW src \in Pixels, BoxInvalid(sz, src) \/ HasPixels(Boxed(sz, src)),
           NEW o \in Sized(sz, src)
    PROVE  Kept(ToQuery(sz), o, src)
<1> DEFINE box == Boxed(sz, src)
<1>1. sz \in Sizings /\ sz.size \in Rect
  BY DEF Settled, Sizings
<1>2. ToQuery(sz).op = sz.op /\ ToQuery(sz).s = sz.size /\ ToQuery(sz).canvas = sz.canvas
  BY DEF ToQuery
<1>3. src \in Rect /\ HasPixels(src)
  BY DEF Pixels, Rect, HasPixels
<1>4. CASE sz.size = ZeroRect /\ sz.cb = NoBox
  <2>1. o.resized = src
    BY <1>4 DEF Sized
  <2>2. sz.size.w = 0 /\ sz.size.h = 0
    BY <1>4 DEF ZeroRect
  <2> QED BY <1>2, <1>3, <1>4, <2>1, <2>2 DEF Kept, Inside, Rect
<1>5. CASE ~(sz.size = ZeroRect /\ sz.cb = NoBox)
  <2>1. PICK rr \in Resized(sz, box) :
          /\ rr = ZeroRect \/ HasPixels(rr)
          /\ o = Outcome(sz, src, rr) /\ ~BoxInvalid(sz, src)
    BY <1>5 DEF Sized
  <2>2. o.resized = IF rr = ZeroRect THEN box ELSE rr
    BY <2>1 DEF Outcome
  <2>3. /\ box \in Pixels /\ box \in Rect /\ HasPixels(box)
        /\ box.w <= src.w /\ box.h <= src.h
    BY <1>1, <2>1, BoxShrinks DEF Pixels, Rect, HasPixels
  <2>4. HasPixels(o.resized)
    BY <2>1, <2>2, <2>3
  <2>5. ASSUME sz.op \in CropOps, sz.size.w # 0, sz.size.h # 0
        PROVE  o.cut = sz.size
    <3>1. rr = CropByOffset(sz, box)
      <4> HIDE DEF box
      <4>1. Resized(sz, box) = {CropByOffset(sz, box)}
        BY <2>5 DEF Resized, CropOps
      <4> QED BY <4>1
    <3>2. BothGiven(sz) /\ sz.fp # << >>
      BY <2>5 DEF BothGiven
    <3>3. Boxed(sz, src) \in Pixels /\ rr = CropByOffset(sz, Boxed(sz, src)) /\ sz.op \in CropOps
      BY <2>3, <2>5, <3>1
    <3>4. o = Outcome(sz, src, rr)
      BY <2>1
    <3> HIDE DEF box
    <3>5. Cropped(sz, Boxed(sz, src), rr, o)
      BY <3>2, <3>3, <3>4, CropLeavesSize
    <3> QED BY <3>5 DEF Cropped
  <2>6. ASSUME sz.op = "contain2" PROVE Inside(o.resized, sz.size)
    <3> HIDE DEF box
    <3>0. Resized(sz, box) = {CalcScaledSize(sz, box, TRUE)}
      BY <2>6 DEF Resized, CropOps
    <3>1. rr = CalcScaledSize(sz, box, TRUE)
      BY <3>0
    <3>2. Inside(rr, sz.size) /\ (rr = ZeroRect => sz.size = ZeroRect)
      BY <2>3, <3>1, ScaledFits
    <3> QED BY <2>2, <2>3, <3>2 DEF Inside, ZeroRect
  <2>7. ASSUME sz.op = "contain"
        PROVE  /\ Inside(o.resized, sz.size)
               /\ o.resized.w <= src.w /\ o.resized.h <= src.h
    <3> HIDE DEF box
    <3>0. Resized(sz, box) = {Contain(sz, box)}
      BY <2>7 DEF Resized, CropOps
    <3>1. rr = Contain(sz, box)
      BY <3>0
    <3>2. /\ Inside(rr, sz.size) /\ (rr = ZeroRect => sz.size = ZeroRect)
          /\ rr.w <= box.w /\ rr.h <= box.h
      BY <2>3, <3>1, ContainShrinks
    <3>3. /\ box.w \in Nat /\ box.h \in Nat /\ rr.w \in Nat /\ rr.h \in Nat
          /\ src.w \in Nat /\ src.h \in Nat
      BY <1>3, <2>3, <3>2 DEF Inside, Rect
    <3>4. CASE rr = ZeroRect
      BY <2>2, <2>3, <3>2, <3>4 DEF Inside, ZeroRect
    <3>5. CASE rr # ZeroRect
      BY <2>2, <2>3, <3>2, <3>3, <3>5
    <3> QED BY <3>4, <3>5
  <2>8. ASSUME sz.op = "fitted", sz.size # ZeroRect
        PROVE  OnCanvas(sz.canvas, o.cut)
    <3>1. o.cut = IF rr = ZeroRect THEN box ELSE rr
      BY <2>1, <2>8 DEF Outcome, CropOps
    <3> HIDE DEF box
    <3>2. rr \in Fitted(sz, box)
      <4>1. Resized(sz, box) = Fitted(sz, box)
        BY <2>8 DEF Resized, CropOps
      <4> QED BY <4>1
    <3>3. OnCanvas(sz.canvas, rr) /\ (rr = ZeroRect => OnCanvas(sz.canvas, box))
      BY <2>1, <2>3, <2>8, <3>2, FittedFits
    <3> QED BY <3>1, <3>3
  <2> QED BY <1>2, <2>4, <2>5, <2>6, <2>7, <2>8 DEF Kept
<1> QED BY <1>4, <1>5
-----------------------------------------------------------------------------
(* The requests. *)

(* Calculated ahead of time, a sizing is rounded for good and has the focal
   point that its operation needs: calculating it again changes nothing. *)
LEMMA AheadSettles ==
    ASSUME NEW q \in Queries
    PROVE  LET sz == AheadOfTime(q) IN
             /\ Settled(sz)
             /\ sz.op \in CropOps => sz.fp # << >>
             /\ WithFocalPoint(sz) = sz
             /\ sz.cb = q.cb
<1> DEFINE p == WithFocalPoint(q)
           sz == AheadOfTime(q)
<1>1. q \in Sizings
  BY QueriesAssumption
<1>2. <<500, 500>> \in Thousandths \X Thousandths /\ <<500, 330>> \in Thousandths \X Thousandths
  BY DEF Thousandths
<1>3. /\ p \in Sizings /\ p.cb = q.cb /\ p.size = q.size /\ p.g = q.g
      /\ p.op \in CropOps => p.fp # << >>
  <2>1. CASE q.fp # << >> \/ q.op \notin CropOps
    BY <1>1, <2>1 DEF WithFocalPoint
  <2>2. CASE ~(q.fp # << >> \/ q.op \notin CropOps)
    <3> DEFINE f == IF q.op = "cover" THEN <<500, 500>> ELSE <<500, 330>>
    <3>1. p = [q EXCEPT !.fp = f]
      BY <2>2 DEF WithFocalPoint
    <3>2. f \in Thousandths \X Thousandths /\ f # << >>
      BY <1>2
    <3> HIDE DEF f
    <3> QED BY <1>1, <3>1, <3>2 DEF Sizings
  <2> QED BY <2>1, <2>2
<1> HIDE DEF p
<1>4. sz = [p EXCEPT !.size = GranularizedSize(q)]
  BY DEF AheadOfTime, p
<1>5. /\ GranularizedSize(q) \in Rect
      /\ Granularize(q.g, GranularizedSize(q).w) = GranularizedSize(q).w
      /\ Granularize(q.g, GranularizedSize(q).h) = GranularizedSize(q).h
  <2>1. q.g \in Nat \ {0} /\ q.size.w \in Nat /\ q.size.h \in Nat
    BY <1>1 DEF Sizings, Rect
  <2> QED BY <2>1, GranularizeSettles DEF GranularizedSize, Rect
<1> HIDE DEF sz
<1>6. sz \in Sizings /\ sz.size = GranularizedSize(q) /\ sz.g = q.g
      /\ sz.cb = q.cb /\ sz.op = p.op /\ sz.fp = p.fp
  BY <1>3, <1>4, <1>5 DEF Sizings
<1>7. Settled(sz)
  BY <1>5, <1>6 DEF Settled
<1>8. WithFocalPoint(sz) = sz
  BY <1>3, <1>6 DEF WithFocalPoint
<1> QED BY <1>3, <1>6, <1>7, <1>8 DEF sz

(* The inductive invariant: a request works on the sizing calculated from its
   query, and what it holds and what is saved keeps to its key. *)
SizingInv ==
    /\ orig \in Sources
    /\ stage \in {"idle", "find", "make", "save", "found", "made", "failed"}
    /\ stage = "idle" => asked = NoSizing /\ sizing = NoSizing
    /\ stage # "idle" => asked \in Queries /\ sizing = AheadOfTime(asked)
    /\ stage \in {"save", "found", "made"} => Kept(ToQuery(sizing), result, orig)
    /\ \A k \in DOMAIN saved : Kept(k, saved[k], orig)

(* SizingInv holds in every reachable state. *)
THEOREM SizingInvariant == Spec => []SizingInv
<1>1. Init => SizingInv
  BY DEF Init, SizingInv
<1>2. SizingInv /\ [Next]_vars => SizingInv'
  <2> SUFFICES ASSUME SizingInv, [Next]_vars PROVE SizingInv'
    OBVIOUS
  <2> USE DEF SizingInv
  <2>1. ASSUME NEW q \in Queries, Ask(q) PROVE SizingInv'
    BY <2>1 DEF Ask
  <2>2. CASE Find
    BY <2>2 DEF Find
  <2>3. CASE Make
    <3>1. asked \in Queries /\ sizing = AheadOfTime(asked) /\ orig \in Pixels
      BY <2>3, SourcesAssumption DEF Make, Pixels
    <3>2. /\ Settled(sizing) /\ (sizing.op \in CropOps => sizing.fp # << >>)
          /\ WithFocalPoint(sizing) = sizing /\ sizing.cb = asked.cb
      BY <3>1, AheadSettles
    <3>3. BoxInvalid(sizing, orig) \/ HasPixels(Boxed(sizing, orig))
      <4>1. BoxInvalid(asked, orig) \/ HasPixels(Boxed(asked, orig))
        BY <3>1, BoxesAssumption
      <4> QED BY <3>2, <4>1 DEF BoxInvalid, Boxed
    <3>4. sizing' = sizing
      BY <2>3, <3>2 DEF Make
    <3>5. CASE result' \in Sized(sizing', orig) /\ stage' = "save"
      <4>1. Kept(ToQuery(sizing), result', orig)
        BY <3>1, <3>2, <3>3, <3>4, <3>5, SizedKeeps
      <4> QED BY <2>3, <3>4, <3>5, <4>1 DEF Make
    <3>6. CASE stage' = "failed"
      BY <2>3, <3>4, <3>6 DEF Make
    <3> QED BY <2>3, <3>5, <3>6 DEF Make
  <2>4. CASE Save
    BY <2>4 DEF Save
  <2>5. CASE Respond
    BY <2>5 DEF Respond
  <2>6. CASE Drop
    BY <2>6 DEF Drop, request
  <2>7. CASE UNCHANGED vars
    BY <2>7 DEF vars, request
  <2> QED BY <2>1, <2>2, <2>3, <2>4, <2>5, <2>6, <2>7 DEF Next
<1> QED BY <1>1, <1>2, PTL DEF Spec

(* Every reachable state has its types, and what is saved has pixels. *)
THEOREM SizingTypes == Spec => []TypeOK
<1>1. SizingInv => TypeOK
  <2> SUFFICES ASSUME SizingInv PROVE TypeOK
    OBVIOUS
  <2>1. stage # "idle" => sizing.size \in Rect
    BY AheadSettles DEF SizingInv, Settled, Sizings
  <2> QED BY <2>1 DEF SizingInv, TypeOK, Kept
<1> QED BY <1>1, SizingInvariant, PTL

(* cover and balance fill the asked size, for every original, focal point and
   granularity. *)
THEOREM CoverAlwaysFills == Spec => []CoverFills
<1>1. SizingInv => CoverFills
  BY DEF SizingInv, CoverFills, Answered, Kept, ToQuery
<1> QED BY <1>1, SizingInvariant, PTL

(* contain and contain2 stay inside the asked size, and contain never enlarges
   the original. *)
THEOREM ContainAlwaysFits == Spec => []ContainFits
<1>1. SizingInv => ContainFits
  BY DEF SizingInv, ContainFits, Answered, Kept, ToQuery, Inside
<1> QED BY <1>1, SizingInvariant, PTL

(* fitted keeps the image within its canvas, whatever the sides, unless the
   canvas is one pixel wide or high. *)
THEOREM FittedAlwaysOnCanvas == Spec => []FittedOnCanvas
<1>1. SizingInv => FittedOnCanvas
  BY DEF SizingInv, FittedOnCanvas, Answered, Kept, ToQuery, OnCanvas
<1> QED BY <1>1, SizingInvariant, PTL

(* A size is saved under the key that the next request with the same query
   looks for. *)
THEOREM SavedUnderItsKey == Spec => SavedIsFound
<1>1. SizingInv /\ [Next]_vars => [Save => ToQuery(AheadOfTime(asked)) \in DOMAIN saved']_vars
  BY DEF SizingInv, Save
<1> QED BY <1>1, SizingInvariant, PTL DEF Spec, SavedIsFound
-----------------------------------------------------------------------------
(* Two sizings under one key. *)

(* Numbers that print alike are less than a hundredth apart. *)
LEMMA PrintedAlike ==
    ASSUME NEW a \in Nat, NEW b \in Nat, Round(a, 10) = Round(b, 10)
    PROVE  a <= b + 9 /\ b <= a + 9
<1>1. Round(b, 10) \in Nat
  BY RoundBounds
<1>2. 2 * (10 * Round(b, 10)) <= 2 * a + 10 /\ 2 * a < 2 * (10 * Round(b, 10)) + 10
  BY RoundBounds
<1>3. 2 * (10 * Round(b, 10)) <= 2 * b + 10 /\ 2 * b < 2 * (10 * Round(b, 10)) + 10
  BY RoundBounds
<1> QED BY <1>1, <1>2, <1>3

(* Focal points that close together move a crop by a hundredth of the image and a pixel. *)
LEMMA OffsetsClose ==
    ASSUME NEW full \in Nat, NEW want \in Nat, want <= full,
           NEW f \in Nat, NEW e \in Nat, f <= e + 9
    PROVE  100 * (Offset(full, want, f) - Offset(full, want, e)) <= full + 100
<1> DEFINE start(v) == 2 * full * v - 1000 * want
           d(v) == IF start(v) < 0 THEN 0 ELSE start(v)
           r(v) == Round(d(v), 2000)
<1>1. /\ full * f \in Nat /\ full * e \in Nat /\ full * f <= full * e + 9 * full
  <2>1. full * f <= full * (e + 9) /\ full * (e + 9) = full * e + 9 * full
    OBVIOUS
  <2> QED BY <2>1
<1>2. /\ 2 * full * f = 2 * (full * f) /\ 2 * full * e = 2 * (full * e)
  OBVIOUS
<1>3. d(f) \in Nat /\ d(e) \in Nat /\ d(f) <= d(e) + 18 * full
  BY <1>1, <1>2
<1>4. /\ Offset(full, want, f) = Least(r(f), full - want)
      /\ Offset(full, want, e) = Least(r(e), full - want)
  BY DEF Offset
<1> HIDE DEF d
<1>5. /\ r(f) \in Nat /\ r(e) \in Nat
      /\ 2 * (2000 * r(f)) <= 2 * d(f) + 2000
      /\ 2 * d(e) < 2 * (2000 * r(e)) + 2000
  BY <1>3, RoundBounds
<1> HIDE DEF r
<1>6. 100 * (r(f) - r(e)) <= full + 100
  BY <1>3, <1>5
<1> QED BY <1>4, <1>5, <1>6 DEF Least

(* What two sizings under one key have in common. *)
Alike(sz, tz) ==
    /\ sz.size = tz.size /\ sz.op = tz.op /\ sz.g = tz.g
    /\ sz.canvas = tz.canvas /\ sz.cb = tz.cb
    /\ sz.fp = << >> <=> tz.fp = << >>
    /\ sz.fp # << >> => \A i \in {1, 2} : Round(sz.fp[i], 10) = Round(tz.fp[i], 10)

InHundredths(sz) == \A i \in 1 .. 4 : sz.cb[i] % 10 = 0

LEMMA BoxPrintedExactly ==
    ASSUME NEW cb \in Thousandths \X Thousandths \X Thousandths \X Thousandths,
           NEW db \in Thousandths \X Thousandths \X Thousandths \X Thousandths,
           \A i \in 1 .. 4 : cb[i] % 10 = 0 /\ db[i] % 10 = 0,
           Printed(cb) = Printed(db)
    PROVE  cb = db
<1>1. ASSUME NEW n \in Nat, n % 10 = 0 PROVE n = 10 * Round(n, 10)
  BY <1>1 DEF Round
<1>2. DOMAIN cb = 1 .. 4 /\ DOMAIN db = 1 .. 4
  OBVIOUS
<1>3. \A i \in 1 .. 4 : cb[i] \in Nat /\ db[i] \in Nat
  <2>1. ASSUME NEW v \in Thousandths \X Thousandths \X Thousandths \X Thousandths, NEW i \in 1 .. 4
        PROVE  v[i] \in Nat
    <3>1. PICK a \in Thousandths, b \in Thousandths, c \in Thousandths, d \in Thousandths :
            v = <<a, b, c, d>>
      OBVIOUS
    <3>2. a \in Nat /\ b \in Nat /\ c \in Nat /\ d \in Nat
      BY DEF Thousandths
    <3> QED BY <3>1, <3>2
  <2> QED BY <2>1
<1>4. \A i \in 1 .. 4 : Round(cb[i], 10) = Round(db[i], 10)
  <2> SUFFICES ASSUME NEW i \in 1 .. 4 PROVE Round(cb[i], 10) = Round(db[i], 10)
    OBVIOUS
  <2>1. Printed(cb)[i] = Round(cb[i], 10) /\ Printed(db)[i] = Round(db[i], 10)
    BY <1>2 DEF Printed
  <2> QED BY <2>1
<1>5. \A i \in 1 .. 4 : cb[i] = db[i]
  BY <1>1, <1>3, <1>4
<1> QED BY <1>5

LEMMA OneKeyAlike ==
    ASSUME NEW sz \in Sizings, NEW tz \in Sizings, ToQuery(sz) = ToQuery(tz),
           InHundredths(sz), InHundredths(tz)
    PROVE  Alike(sz, tz)
<1>1. /\ sz.size = tz.size /\ sz.op = tz.op /\ sz.g = tz.g /\ sz.canvas = tz.canvas
      /\ Printed(sz.fp) = Printed(tz.fp) /\ Printed(sz.cb) = Printed(tz.cb)
  BY DEF ToQuery
<1>2. sz.cb = tz.cb
  BY <1>1, BoxPrintedExactly DEF Sizings, InHundredths
<1>3. ASSUME NEW p \in {<< >>} \cup (Thousandths \X Thousandths)
      PROVE  /\ DOMAIN Printed(p) = DOMAIN p
             /\ p = << >> => DOMAIN p = {}
             /\ p # << >> => /\ DOMAIN p = {1, 2}
                             /\ Printed(p)[1] = Round(p[1], 10)
                             /\ Printed(p)[2] = Round(p[2], 10)
  <2>1. p = << >> => DOMAIN p = {}
    OBVIOUS
  <2>2. p # << >> => DOMAIN p = {1, 2}
    <3> SUFFICES ASSUME p \in Thousandths \X Thousandths PROVE DOMAIN p = {1, 2}
      OBVIOUS
    <3>1. DOMAIN p = 1 .. 2
      OBVIOUS
    <3> QED BY <3>1
  <2> QED BY <2>1, <2>2 DEF Printed
<1>4. /\ sz.fp \in {<< >>} \cup (Thousandths \X Thousandths)
      /\ tz.fp \in {<< >>} \cup (Thousandths \X Thousandths)
  BY DEF Sizings
<1>5. sz.fp = << >> <=> tz.fp = << >>
  BY <1>1, <1>3, <1>4
<1>6. sz.fp # << >> => \A i \in {1, 2} : Round(sz.fp[i], 10) = Round(tz.fp[i], 10)
  BY <1>1, <1>3, <1>4, <1>5
<1> QED BY <1>1, <1>2, <1>5, <1>6 DEF Alike

(* The focal point is not looked at but by CropOrigin. *)
LEMMA AlikeResized ==
    ASSUME NEW sz, NEW tz, Alike(sz, tz), NEW src
    PROVE  /\ Resized(sz, src) = Resized(tz, src)
           /\ Boxed(sz, src) = Boxed(tz, src)
           /\ BoxInvalid(sz, src) <=> BoxInvalid(tz, src)
           /\ CutsWidth(sz, src) <=> CutsWidth(tz, src)
<1>1. /\ sz.size = tz.size /\ sz.op = tz.op /\ sz.g = tz.g
      /\ sz.canvas = tz.canvas /\ sz.cb = tz.cb
  BY DEF Alike
<1>2. Boxed(sz, src) = Boxed(tz, src) /\ (BoxInvalid(sz, src) <=> BoxInvalid(tz, src))
  BY <1>1 DEF Boxed, BoxInvalid
<1>3. ASSUME NEW scale \in BOOLEAN PROVE CalcScaledSize(sz, src, scale) = CalcScaledSize(tz, src, scale)
  BY <1>1 DEF CalcScaledSize, ScaleToHeight, ScaleToWidth, GranularizedSize
<1>4. CutsWidth(sz, src) <=> CutsWidth(tz, src)
  BY <1>3 DEF CutsWidth
<1>5. /\ Contain(sz, src) = Contain(tz, src) /\ Expand(sz, src) = Expand(tz, src)
      /\ Fitted(sz, src) = Fitted(tz, src)
      /\ CropByOffset(sz, src) = CropByOffset(tz, src)
  BY <1>1, <1>3, <1>4 DEF Contain, Expand, Fitted, CropByOffset, ScaleToHeight, ScaleToWidth
<1>6. Resized(sz, src) = Resized(tz, src)
  BY <1>1, <1>3, <1>5 DEF Resized
<1> QED BY <1>2, <1>4, <1>6

(* Up to where the crop begins, o is what a request with the sizing sz would
   have made. *)
AsOwn(own, o) ==
    /\ own.resized = o.resized /\ own.out = o.out
    /\ 100 * (own.at.x - o.at.x) \in -(own.resized.w + 100) .. own.resized.w + 100
    /\ 100 * (own.at.y - o.at.y) \in -(own.resized.h + 100) .. own.resized.h + 100

LEMMA AlikeCrops ==
    ASSUME NEW sz, NEW tz, Settled(sz), Settled(tz), Alike(sz, tz),
           BothGiven(sz), sz.op \in CropOps, sz.fp # << >>,
           NEW src \in Pixels, BoxInvalid(sz, src) \/ HasPixels(Boxed(sz, src)),
           NEW o \in Sized(tz, src)
    PROVE  \E own \in Sized(sz, src) : AsOwn(own, o)
<1> DEFINE box == Boxed(sz, src)
           rr == CropByOffset(sz, box)
           own == Outcome(sz, src, rr)
           W == sz.size.w
           H == sz.size.h
<1>1. /\ sz.size = tz.size /\ sz.op = tz.op /\ sz.canvas = tz.canvas /\ tz.fp # << >>
      /\ Round(sz.fp[1], 10) = Round(tz.fp[1], 10)
      /\ Round(sz.fp[2], 10) = Round(tz.fp[2], 10)
  BY DEF Alike
<1>2. /\ sz \in Sizings /\ sz.size # ZeroRect /\ W \in Nat \ {0} /\ H \in Nat \ {0}
  BY DEF Settled, Sizings, BothGiven, Rect, ZeroRect
<1>3. /\ Boxed(tz, src) = box /\ Resized(tz, box) = Resized(sz, box)
      /\ CutsWidth(tz, box) <=> CutsWidth(sz, box)
      /\ BoxInvalid(tz, src) <=> BoxInvalid(sz, src)
  BY AlikeResized
<1>4. Resized(sz, box) = {rr}
  <2> HIDE DEF box
  <2> QED BY DEF Resized, CropOps
<1>5. o = Outcome(tz, src, rr) /\ ~BoxInvalid(sz, src)
  BY <1>1, <1>2, <1>3, <1>4 DEF Sized
<1>6. box \in Pixels
  BY <1>2, <1>5, BoxShrinks DEF Pixels, Rect, HasPixels
<1>7. /\ rr \in Rect /\ HasPixels(rr) /\ own.resized = rr /\ own.cut = sz.size
      /\ own.at = IF CutsWidth(sz, box) THEN [x |-> Offset(rr.w, W, sz.fp[1]), y |-> 0]
                                     ELSE [x |-> 0, y |-> Offset(rr.h, H, sz.fp[2])]
      /\ CutsWidth(sz, box) => W <= rr.w
      /\ ~CutsWidth(sz, box) => H <= rr.h
  BY <1>6, CropLeavesSize DEF Cropped
<1>8. rr = CropByOffset(tz, box)
  <2>1. sz.g = tz.g
    BY DEF Alike
  <2> HIDE DEF box
  <2> QED BY <1>1, <1>3, <2>1 DEF CropByOffset, ScaleToHeight, ScaleToWidth
<1>9. /\ o.resized = rr /\ o.cut = sz.size
      /\ o.at = IF CutsWidth(sz, box) THEN [x |-> Offset(rr.w, W, tz.fp[1]), y |-> 0]
                                   ELSE [x |-> 0, y |-> Offset(rr.h, H, tz.fp[2])]
  <2>1. BothGiven(tz)
    BY <1>1 DEF BothGiven
  <2> HIDE DEF rr, box
  <2> QED BY <1>1, <1>3, <1>5, <1>6, <1>8, <2>1, CropLeavesSize DEF Cropped
<1>10. own.out = o.out
  <2>1. own.out = IF sz.canvas = << >> THEN own.cut ELSE [w |-> sz.canvas[1], h |-> sz.canvas[2]]
    BY DEF Outcome
  <2>2. o.out = IF tz.canvas = << >> THEN o.cut ELSE [w |-> tz.canvas[1], h |-> tz.canvas[2]]
    BY <1>5 DEF Outcome
  <2> HIDE DEF own
  <2> QED BY <1>1, <1>7, <1>9, <2>1, <2>2
<1>11. own \in Sized(sz, src)
  <2>1. HasPixels(own.cut)
    BY <1>2, <1>7 DEF HasPixels
  <2> QED BY <1>2, <1>4, <1>5, <1>7, <2>1 DEF Sized
<1> HIDE DEF own, rr, box
<1>12. /\ sz.fp[1] \in Nat /\ sz.fp[2] \in Nat /\ tz.fp[1] \in Nat /\ tz.fp[2] \in Nat
       /\ rr.w \in Nat /\ rr.h \in Nat
  <2>1. sz.fp \in Thousandths \X Thousandths /\ tz.fp \in Thousandths \X Thousandths
    BY <1>1 DEF Settled, Sizings
  <2> QED BY <1>7, <2>1, PointInNat DEF Rect
<1>13. /\ sz.fp[1] <= tz.fp[1] + 9 /\ tz.fp[1] <= sz.fp[1] + 9
       /\ sz.fp[2] <= tz.fp[2] + 9 /\ tz.fp[2] <= sz.fp[2] + 9
  BY <1>1, <1>12, PrintedAlike
<1>14. ASSUME NEW full \in Nat, NEW want \in Nat, want <= full,
              NEW f \in Nat, NEW e \in Nat, f <= e + 9, e <= f + 9
       PROVE  100 * (Offset(full, want, f) - Offset(full, want, e)) \in -(full + 100) .. full + 100
  <2>1. /\ 100 * (Offset(full, want, f) - Offset(full, want, e)) <= full + 100
        /\ 100 * (Offset(full, want, e) - Offset(full, want, f)) <= full + 100
    BY <1>14, OffsetsClose
  <2>2. Offset(full, want, f) \in Nat /\ Offset(full, want, e) \in Nat
    BY <1>14, OffsetInside
  <2> QED BY <2>1, <2>2
<1>15. /\ 100 * (own.at.x - o.at.x) \in -(rr.w + 100) .. rr.w + 100
       /\ 100 * (own.at.y - o.at.y) \in -(rr.h + 100) .. rr.h + 100
  <2>1. CASE CutsWidth(sz, box)
    <3>1. /\ own.at.x = Offset(rr.w, W, sz.fp[1]) /\ own.at.y = 0
          /\ o.at.x = Offset(rr.w, W, tz.fp[1]) /\ o.at.y = 0
      BY <1>7, <1>9, <2>1
    <3>2. 100 * (Offset(rr.w, W, sz.fp[1]) - Offset(rr.w, W, tz.fp[1])) \in -(rr.w + 100) .. rr.w + 100
      BY <1>2, <1>7, <1>12, <1>13, <1>14, <2>1
    <3> QED BY <1>12, <3>1, <3>2
  <2>2. CASE ~CutsWidth(sz, box)
    <3>1. /\ own.at.y = Offset(rr.h, H, sz.fp[2]) /\ own.at.x = 0
          /\ o.at.y = Offset(rr.h, H, tz.fp[2]) /\ o.at.x = 0
      BY <1>7, <1>9, <2>2
    <3>2. 100 * (Offset(rr.h, H, sz.fp[2]) - Offset(rr.h, H, tz.fp[2])) \in -(rr.h + 100) .. rr.h + 100
      BY <1>2, <1>7, <1>12, <1>13, <1>14, <2>2
    <3> QED BY <1>12, <3>1, <3>2
  <2> QED BY <2>1, <2>2
<1> QED BY <1>7, <1>9, <1>10, <1>11, <1>15 DEF AsOwn

LEMMA ScaledInRect ==
    ASSUME NEW sz \in Sizings, NEW src \in Pixels, NEW scale \in BOOLEAN
    PROVE  /\ CalcScaledSize(sz, src, scale) \in Rect
           /\ ScaleToWidth(sz, src) \in Rect /\ ScaleToHeight(sz, src) \in Rect
<1>1. /\ sz.g \in Nat \ {0} /\ sz.size.w \in Nat /\ sz.size.h \in Nat
      /\ src.w \in Nat \ {0} /\ src.h \in Nat \ {0}
  BY DEF Sizings, Rect, Pixels
<1>2. Granularize(sz.g, sz.size.w) \in Nat /\ Granularize(sz.g, sz.size.h) \in Nat
  BY <1>1, GranularizeSettles
<1>3. /\ Granularize(sz.g, sz.size.w) * src.h \in Nat
      /\ Granularize(sz.g, sz.size.h) * src.w \in Nat
  BY <1>1, <1>2
<1>4. /\ Round(Granularize(sz.g, sz.size.w) * src.h, src.w) \in Nat
      /\ Round(Granularize(sz.g, sz.size.h) * src.w, src.h) \in Nat
  BY <1>1, <1>3, RoundBounds
<1>5. /\ ScaleToWidth(sz, src) \in Rect /\ ScaleToHeight(sz, src) \in Rect
      /\ GranularizedSize(sz) \in Rect
  BY <1>2, <1>4 DEF ScaleToWidth, ScaleToHeight, GranularizedSize, Rect
<1> QED BY <1>1, <1>5 DEF CalcScaledSize

LEMMA FittedInRect ==
    ASSUME NEW sz \in Sizings, NEW src \in Pixels
    PROVE  Fitted(sz, src) \subseteq Rect
<1> DEFINE size == CalcScaledSize(sz, src, FALSE)
           shrink(n, d) == [w : Truncated(size.w * n, d), h : Truncated(size.h * n, d)]
<1>1. size \in Rect /\ size.w \in Nat /\ size.h \in Nat
  BY ScaledInRect DEF Rect
<1> HIDE DEF size
<1>2. ASSUME NEW n \in Nat, NEW d \in Nat \ {0} PROVE shrink(n, d) \subseteq Rect
  <2>1. ASSUME NEW m \in Nat PROVE Truncated(m, d) \subseteq Nat
    BY <2>1, DivMod DEF Truncated
  <2>2. size.w * n \in Nat /\ size.h * n \in Nat
    BY <1>1
  <2> QED BY <2>1, <2>2 DEF Rect
<1>3. CASE sz.canvas = << >> \/ (size.w <= sz.canvas[1] /\ size.h <= sz.canvas[2])
  BY <1>1, <1>3 DEF Fitted, size
<1>4. CASE ~(sz.canvas = << >> \/ (size.w <= sz.canvas[1] /\ size.h <= sz.canvas[2]))
  <2>1. PICK a \in Nat \ {0}, b \in Nat \ {0} : sz.canvas[1] = a /\ sz.canvas[2] = b
    BY <1>4 DEF Sizings
  <2>2. CASE a * size.h < b * size.w
    <3>1. size.w # 0
      BY <1>1, <2>1, <2>2
    <3>2. Fitted(sz, src) = shrink(a, size.w)
      BY <1>4, <2>1, <2>2 DEF Fitted, size
    <3> QED BY <1>1, <1>2, <3>1, <3>2
  <2>3. CASE ~(a * size.h < b * size.w)
    <3>1. size.h # 0
      <4>1. ASSUME size.h = 0 PROVE FALSE
        <5>1. a * size.h = 0 /\ (size.w # 0 => b * size.w > 0)
          BY <1>1, <4>1
        <5>2. size.w = 0
          BY <1>1, <2>3, <5>1
        <5> QED BY <1>4, <2>1, <4>1, <5>2
      <4> QED BY <4>1
    <3>2. Fitted(sz, src) = shrink(b, size.h)
      BY <1>4, <2>1, <2>3 DEF Fitted, size
    <3> QED BY <1>1, <1>2, <3>1, <3>2
  <2> QED BY <2>2, <2>3
<1> QED BY <1>3, <1>4

LEMMA ResizedInRect ==
    ASSUME NEW sz \in Sizings, NEW src \in Pixels
    PROVE  Resized(sz, src) \subseteq Rect
<1>1. src \in Rect
  BY DEF Pixels, Rect
<1>2. /\ Contain(sz, src) \in Rect /\ Expand(sz, src) \in Rect
      /\ CropByOffset(sz, src) \in Rect
  BY <1>1, ScaledInRect DEF Contain, Expand, CropByOffset
<1> QED BY <1>2, ScaledInRect, FittedInRect DEF Resized

(* A sizing that crops nothing is made alike whatever its focal point. *)
LEMMA AlikeUncropped ==
    ASSUME NEW sz, NEW tz, Settled(sz), Alike(sz, tz),
           sz.op \notin CropOps \/ sz.size = ZeroRect,
           NEW src \in Pixels, BoxInvalid(sz, src) \/ HasPixels(Boxed(sz, src)),
           NEW o \in Sized(tz, src)
    PROVE  \E own \in Sized(sz, src) : AsOwn(own, o)
<1> DEFINE box == Boxed(sz, src)
<1>1. /\ sz.size = tz.size /\ sz.op = tz.op /\ sz.canvas = tz.canvas /\ sz.cb = tz.cb
      /\ sz \in Sizings
  BY DEF Alike, Settled
<1>2. /\ Boxed(tz, src) = box /\ Resized(tz, box) = Resized(sz, box)
      /\ BoxInvalid(tz, src) <=> BoxInvalid(sz, src)
  BY AlikeResized
<1>3. ASSUME NEW rr
      PROVE  /\ Outcome(sz, src, rr) = Outcome(tz, src, rr)
             /\ Outcome(sz, src, rr).resized = (IF rr = ZeroRect THEN box ELSE rr)
             /\ Outcome(sz, src, rr).at = Corner
  <2> HIDE DEF box
  <2>1. Boxed(sz, src) = box
    BY DEF box
  <2>2. ~(sz.op \in CropOps /\ sz.size # ZeroRect) /\ ~(tz.op \in CropOps /\ tz.size # ZeroRect)
    BY <1>1
  <2> QED BY <1>1, <1>2, <2>1, <2>2 DEF Outcome
<1>4. o \in Sized(sz, src)
  <2>1. CASE sz.size = ZeroRect /\ sz.cb = NoBox
    BY <1>1, <2>1 DEF Sized
  <2>2. CASE ~(sz.size = ZeroRect /\ sz.cb = NoBox)
    <3>1. PICK rr \in Resized(tz, Boxed(tz, src)) :
            /\ rr = ZeroRect \/ HasPixels(rr)
            /\ o = Outcome(tz, src, rr) /\ ~BoxInvalid(tz, src) /\ HasPixels(o.cut)
      BY <1>1, <2>2 DEF Sized
    <3>2. o = Outcome(sz, src, rr) /\ rr \in Resized(sz, Boxed(sz, src)) /\ ~BoxInvalid(sz, src)
      BY <1>2, <1>3, <3>1
    <3> QED BY <2>2, <3>1, <3>2 DEF Sized
  <2> QED BY <2>1, <2>2
<1>5. o.at = Corner /\ o.resized \in Rect
  <2>1. CASE sz.size = ZeroRect /\ sz.cb = NoBox
    <3>1. o.resized = src /\ o.at = Corner
      BY <1>4, <2>1 DEF Sized
    <3> QED BY <3>1 DEF Pixels, Rect
  <2>2. CASE ~(sz.size = ZeroRect /\ sz.cb = NoBox)
    <3>1. PICK rr \in Resized(sz, box) : o = Outcome(sz, src, rr) /\ ~BoxInvalid(sz, src)
      BY <1>4, <2>2 DEF Sized
    <3>2. box \in Pixels /\ box \in Rect
      BY <1>1, <3>1, BoxShrinks DEF Pixels, Rect, HasPixels
    <3>3. rr \in Rect
      <4> HIDE DEF box
      <4> QED BY <1>1, <3>2, ResizedInRect
    <3> QED BY <1>3, <3>1, <3>2, <3>3
  <2> QED BY <2>1, <2>2
<1>6. AsOwn(o, o)
  <2>1. o.at.x = 0 /\ o.at.y = 0 /\ o.resized.w \in Nat /\ o.resized.h \in Nat
    BY <1>5 DEF Corner, Rect
  <2> QED BY <2>1 DEF AsOwn
<1> QED BY <1>4, <1>6

(* What is saved was made by a request with a query of that key. *)
MadeUnder(key, r) ==
    \E q \in Queries : ToQuery(AheadOfTime(q)) = key /\ r \in Sized(AheadOfTime(q), orig)

MadeInv ==
    /\ stage \in {"save", "found"} => MadeUnder(ToQuery(sizing), result)
    /\ \A k \in DOMAIN saved : MadeUnder(k, saved[k])

LEMMA MadeInductive == SizingInv /\ MadeInv /\ [Next]_vars => MadeInv'
<1> SUFFICES ASSUME SizingInv, MadeInv, [Next]_vars PROVE MadeInv'
  OBVIOUS
<1>1. orig' = orig
  BY DEF Next, Ask, Find, Make, Save, Respond, Drop, vars
<1>2. ASSUME NEW key, NEW r, MadeUnder(key, r) PROVE MadeUnder(key, r)'
  BY <1>1, <1>2 DEF MadeUnder
<1>3. ASSUME UNCHANGED saved PROVE \A k \in DOMAIN saved' : MadeUnder(k, saved[k])'
  BY <1>2, <1>3 DEF MadeInv
<1>4. ASSUME NEW q \in Queries, Ask(q) PROVE MadeInv'
  BY <1>3, <1>4 DEF Ask, MadeInv
<1>5. CASE Find
  <2>1. stage' = "found" => MadeUnder(ToQuery(sizing), result')
    BY <1>5 DEF Find, MadeInv
  <2>2. UNCHANGED <<saved, sizing>> /\ stage' # "save"
    BY <1>5 DEF Find
  <2> QED BY <1>1, <1>3, <2>1, <2>2 DEF MadeInv, MadeUnder
<1>6. CASE Make
  <2>1. sizing = AheadOfTime(asked) /\ asked \in Queries /\ WithFocalPoint(sizing) = sizing
    BY <1>6, AheadSettles DEF Make, SizingInv
  <2>2. sizing' = sizing /\ UNCHANGED saved /\ stage' # "found"
    BY <1>6, <2>1 DEF Make
  <2>3. stage' = "save" => result' \in Sized(AheadOfTime(asked), orig)
    BY <1>6, <2>1, <2>2 DEF Make
  <2>4. stage' = "save" => MadeUnder(ToQuery(sizing), result')
    BY <2>1, <2>3 DEF MadeUnder
  <2> QED BY <1>1, <1>3, <2>2, <2>4 DEF MadeInv, MadeUnder
<1>7. CASE Save
  <2>1. /\ stage = "save" /\ stage' = "made"
        /\ DOMAIN saved' = DOMAIN saved \cup {ToQuery(sizing)}
        /\ \A k \in DOMAIN saved' :
              saved'[k] = IF k = ToQuery(sizing) THEN result ELSE saved[k]
    BY <1>7 DEF Save
  <2>2. \A k \in DOMAIN saved' : MadeUnder(k, saved'[k])
    BY <2>1 DEF MadeInv
  <2> QED BY <1>1, <2>1, <2>2 DEF MadeInv, MadeUnder
<1>8. CASE Respond
  BY <1>3, <1>8 DEF Respond, MadeInv
<1>9. CASE Drop
  <2>1. /\ DOMAIN saved' \subseteq DOMAIN saved
        /\ \A k \in DOMAIN saved' : saved'[k] = saved[k]
        /\ UNCHANGED <<stage, sizing, result>>
    BY <1>9 DEF Drop, request
  <2>2. \A k \in DOMAIN saved' : MadeUnder(k, saved'[k])
    BY <2>1 DEF MadeInv
  <2> QED BY <1>1, <2>1, <2>2 DEF MadeInv, MadeUnder
<1>10. CASE UNCHANGED vars
  BY <1>10 DEF vars, request, MadeInv, MadeUnder
<1> QED BY <1>4, <1>5, <1>6, <1>7, <1>8, <1>9, <1>10 DEF Next

(* Crop boxes are given in whole hundredths, and what is to be cropped has both
   its lengths given after rounding. *)
PlainQueriesOnly ==
    \A q \in Queries :
        /\ InHundredths(q)
        /\ q.op \in CropOps =>
              LET size == AheadOfTime(q).size IN
                  size = ZeroRect \/ (size.w # 0 /\ size.h # 0)

(* A size that is found under the key of a query is the one that the query
   would have made, up to the two decimals a focal point is printed with
   (FloatPoint.ToString, sizing.go:526). *)
THEOREM FoundAlwaysOwn ==
    ASSUME PlainQueriesOnly
    PROVE  Spec => []FoundIsOwn
<1>1. Init => SizingInv /\ MadeInv
  BY DEF Init, SizingInv, MadeInv
<1>2. SizingInv /\ MadeInv => FoundIsOwn
  <2> SUFFICES ASSUME SizingInv, MadeInv, stage = "found"
               PROVE  \E own \in Sized(sizing, orig) : AsOwn(own, result)
    BY DEF FoundIsOwn, AsOwn
  <2>1. PICK q \in Queries :
          ToQuery(AheadOfTime(q)) = ToQuery(sizing) /\ result \in Sized(AheadOfTime(q), orig)
    BY DEF MadeInv, MadeUnder
  <2>2. asked \in Queries /\ sizing = AheadOfTime(asked) /\ orig \in Pixels
    BY SourcesAssumption DEF SizingInv, Pixels
  <2> DEFINE tz == AheadOfTime(q)
  <2>3. /\ Settled(sizing) /\ Settled(tz)
        /\ sizing.op \in CropOps => sizing.fp # << >>
        /\ sizing.cb = asked.cb /\ tz.cb = q.cb
    BY <2>2, AheadSettles
  <2>4. /\ InHundredths(sizing) /\ InHundredths(tz)
        /\ sizing \in Sizings /\ tz \in Sizings
    BY <2>2, <2>3 DEF PlainQueriesOnly, InHundredths, Settled
  <2>5. sizing.op = asked.op
    BY <2>2, QueriesAssumption DEF AheadOfTime, WithFocalPoint, Sizings
  <2>6. sizing.op \in CropOps => sizing.size = ZeroRect \/ BothGiven(sizing)
    BY <2>2, <2>5 DEF PlainQueriesOnly, BothGiven
  <2>7. BoxInvalid(sizing, orig) \/ HasPixels(Boxed(sizing, orig))
    <3>1. orig \in Sources
      BY DEF SizingInv
    <3>2. BoxInvalid(asked, orig) \/ HasPixels(Boxed(asked, orig))
      BY <2>2, <3>1, BoxesAssumption
    <3> QED BY <2>3, <3>2 DEF BoxInvalid, Boxed
  <2> HIDE DEF tz
  <2>8. Alike(sizing, tz) /\ result \in Sized(tz, orig)
    BY <2>1, <2>4, OneKeyAlike DEF tz
  <2>9. CASE sizing.op \in CropOps /\ BothGiven(sizing)
    BY <2>2, <2>3, <2>7, <2>8, <2>9, AlikeCrops
  <2>10. CASE sizing.op \notin CropOps \/ sizing.size = ZeroRect
    BY <2>2, <2>3, <2>7, <2>8, <2>10, AlikeUncropped
  <2> QED BY <2>6, <2>9, <2>10
<1> QED BY <1>1, <1>2, SizingInvariant, MadeInductive, PTL DEF Spec
===============================================================================
