----------------------------- MODULE LruProofs ------------------------------
(***************************************************************************)
(* Proofs about the LRU manager, for every set of callers, keys and sizes. *)
(***************************************************************************)
EXTENDS LruHeadroom, FiniteSetTheorems, TLAPS

-----------------------------------------------------------------------------
\* Lemmas about the list.

\* The list r is s without its element i.
Cut(r, s, i) ==
    /\ Len(r) = Len(s) - 1
    /\ \A j \in 1 .. Len(s) - 1 : r[j] = IF j < i THEN s[j] ELSE s[j + 1]

\* RemoveFirst, the list.Remove of evict, closes the gap of the one element it
\* takes out of a list without repetitions.
LEMMA RemoveFirstCuts ==
    ASSUME NEW S, NEW s \in Seq(S), IsInjective(s), NEW e \in S
    PROVE  /\ RemoveFirst(s, e) \in Seq(S)
           /\ \/ e \notin ToSet(s) /\ RemoveFirst(s, e) = s
              \/ \E i \in 1 .. Len(s) : s[i] = e /\ Cut(RemoveFirst(s, e), s, i)
<1> DEFINE r == RemoveFirst(s, e)
<1>1. CASE ~ \E i \in 1 .. Len(s) : s[i] = e
  <2>1. r = s
    BY <1>1 DEF RemoveFirst
  <2>2. e \notin ToSet(s)
    BY <1>1 DEF ToSet
  <2> QED
    BY <2>1, <2>2
<1>2. CASE \E i \in 1 .. Len(s) : s[i] = e
  <2>1. PICK i \in 1 .. Len(s) : s[i] = e
    BY <1>2
  <2>2. \A j \in 1 .. Len(s) : s[j] = e => j = i
    BY <2>1 DEF IsInjective
  <2>3. SelectInSeq(s, LAMBDA v : v = e) = i
    <3>1. {j \in 1 .. Len(s) : s[j] = e} = {i}
      BY <2>1, <2>2
    <3> QED
      BY <3>1 DEF SelectInSeq, Min
  <2>4. r = SubSeq(s, 1, i - 1) \o SubSeq(s, i + 1, Len(s))
    BY <1>2, <2>3 DEF RemoveFirst, RemoveAt
  <2>5. /\ r \in Seq(S)
        /\ Len(r) = Len(s) - 1
        /\ \A j \in 1 .. Len(s) - 1 : r[j] = IF j < i THEN s[j] ELSE s[j + 1]
    <3> DEFINE a == SubSeq(s, 1, i - 1)
               b == SubSeq(s, i + 1, Len(s))
    <3>1. /\ a \in Seq(S)
          /\ Len(a) = i - 1
          /\ \A j \in 1 .. i - 1 : a[j] = s[j]
      <4>1. s \in Seq(S) /\ i \in 1 .. Len(s) /\ Len(s) \in Nat
        BY <2>1
      <4> QED
        BY <4>1
    <3>2. /\ b \in Seq(S)
          /\ Len(b) = Len(s) - i
          /\ \A j \in 1 .. Len(s) - i : b[j] = s[j + i]
      <4>1. s \in Seq(S) /\ i \in 1 .. Len(s) /\ Len(s) \in Nat
        BY <2>1
      <4>2. b \in Seq(S) /\ Len(b) = Len(s) - i
        BY <4>1
      <4> QED
        BY <4>1, <4>2
    <3> HIDE DEF a, b
    <3>3. r = a \o b
      BY <2>4 DEF a, b
    <3>4. /\ a \o b \in Seq(S)
          /\ Len(a \o b) = Len(s) - 1
          /\ \A j \in 1 .. Len(s) - 1 :
                (a \o b)[j] = IF j < i THEN a[j] ELSE b[j - (i - 1)]
      BY <3>1, <3>2, <2>1
    <3>5. \A j \in 1 .. Len(s) - 1 : r[j] = IF j < i THEN s[j] ELSE s[j + 1]
      <4> HIDE DEF r
      <4> SUFFICES ASSUME NEW j \in 1 .. Len(s) - 1
                   PROVE  r[j] = IF j < i THEN s[j] ELSE s[j + 1]
        OBVIOUS
      <4>1. r[j] = IF j < i THEN a[j] ELSE b[j - (i - 1)]
        BY <3>3, <3>4
      <4>2. CASE j < i
        <5>1. j \in 1 .. i - 1
          BY <4>2, <2>1
        <5>2. r[j] = a[j] /\ a[j] = s[j]
          BY <4>1, <4>2, <5>1, <3>1
        <5> QED
          BY <4>2, <5>2
      <4>3. CASE ~(j < i)
        <5>1. j - (i - 1) \in 1 .. Len(s) - i /\ j - (i - 1) + i = j + 1
          BY <4>3, <2>1
        <5>2. b[j - (i - 1)] = s[j + 1]
          BY <5>1, <3>2
        <5> QED
          BY <4>1, <4>3, <5>2
      <4> QED
        BY <4>2, <4>3
    <3> QED
      BY <3>3, <3>4, <3>5
  <2> HIDE DEF r
  <2>6. Cut(r, s, i)
    BY <2>5 DEF Cut
  <2> QED
    BY <2>1, <2>5, <2>6 DEF r
<1> QED
  BY <1>1, <1>2

\* Removing a key from a list without repetitions removes that key and keeps
\* the list free of repetitions (list.Remove in evict, MoveToFront).
LEMMA RemoveFirstFacts ==
    ASSUME NEW S, NEW s \in Seq(S), IsInjective(s), NEW e \in S
    PROVE  /\ RemoveFirst(s, e) \in Seq(S)
           /\ IsInjective(RemoveFirst(s, e))
           /\ ToSet(RemoveFirst(s, e)) = ToSet(s) \ {e}
<1> DEFINE r == RemoveFirst(s, e)
<1>1. CASE e \notin ToSet(s) /\ r = s
  BY <1>1
<1>2. CASE \E i \in 1 .. Len(s) : s[i] = e /\ Cut(r, s, i)
  <2>1. PICK i \in 1 .. Len(s) : s[i] = e /\ Cut(r, s, i)
    BY <1>2
  <2>2. i \in 1 .. Len(s) /\ s[i] = e /\ \A j \in 1 .. Len(s) : s[j] = e => j = i
    BY <2>1 DEF IsInjective
  <2>3. /\ r \in Seq(S)
        /\ Len(r) = Len(s) - 1
        /\ \A j \in 1 .. Len(s) - 1 : r[j] = IF j < i THEN s[j] ELSE s[j + 1]
    BY <2>1, RemoveFirstCuts DEF Cut
  <2> HIDE DEF r
  <2>4. IsInjective(r)
    <3>1. ASSUME NEW j \in 1 .. Len(s) - 1, NEW k \in 1 .. Len(s) - 1, r[j] = r[k]
          PROVE  j = k
      <4> DEFINE up(x) == IF x < i THEN x ELSE x + 1
      <4>1. s[up(j)] = s[up(k)] /\ up(j) \in 1 .. Len(s) /\ up(k) \in 1 .. Len(s)
        BY <3>1, <2>3, <2>2
      <4>2. up(j) = up(k)
        BY <4>1 DEF IsInjective
      <4> QED
        BY <4>2, <2>2
    <3> QED
      BY <3>1, <2>3 DEF IsInjective
  <2>5. ToSet(r) = ToSet(s) \ {e}
    <3>1. ASSUME NEW j \in 1 .. Len(s) - 1
          PROVE  r[j] \in ToSet(s) \ {e}
      BY <2>2, <2>3 DEF ToSet
    <3>2. ASSUME NEW j \in 1 .. Len(s), s[j] # e
          PROVE  s[j] \in ToSet(r)
      <4>1. CASE j < i
        BY <4>1, <2>2, <2>3 DEF ToSet
      <4>2. CASE j > i
        <5>1. j - 1 \in 1 .. Len(s) - 1 /\ r[j - 1] = s[j]
          BY <4>2, <2>2, <2>3
        <5> QED
          BY <5>1, <2>3 DEF ToSet
      <4> QED
        BY <4>1, <4>2, <3>2, <2>2
    <3> QED
      BY <3>1, <3>2, <2>3 DEF ToSet
  <2> QED
    BY <2>3, <2>4, <2>5 DEF r
<1> QED
  BY <1>1, <1>2, RemoveFirstCuts

\* Pushing a key that the list does not hold keeps it free of repetitions.
LEMMA PushFrontFacts ==
    ASSUME NEW S, NEW s \in Seq(S), IsInjective(s), NEW e \in S, e \notin ToSet(s)
    PROVE  /\ <<e>> \o s \in Seq(S)
           /\ IsInjective(<<e>> \o s)
           /\ ToSet(<<e>> \o s) = ToSet(s) \cup {e}
<1> DEFINE r == <<e>> \o s
<1>1. /\ r \in Seq(S)
      /\ Len(r) = Len(s) + 1
      /\ r[1] = e
      /\ \A j \in 1 .. Len(s) : r[j + 1] = s[j]
  OBVIOUS
<1>2. \A j \in 2 .. Len(r) : r[j] = s[j - 1]
  BY <1>1
<1>3. IsInjective(r)
  BY <1>1, <1>2 DEF IsInjective, ToSet
<1> HIDE DEF r
<1>4. ToSet(r) = ToSet(s) \cup {e}
  <2>1. ASSUME NEW j \in 1 .. Len(r)
        PROVE  r[j] \in ToSet(s) \cup {e}
    BY <1>1, <1>2 DEF ToSet
  <2>2. ASSUME NEW j \in 1 .. Len(s)
        PROVE  s[j] \in ToSet(r)
    <3>1. j + 1 \in 1 .. Len(r) /\ r[j + 1] = s[j]
      BY <1>1
    <3> QED
      BY <3>1, <1>1 DEF ToSet
  <2>3. e \in ToSet(r)
    BY <1>1 DEF ToSet
  <2> QED
    BY <2>1, <2>2, <2>3, <1>1 DEF ToSet
<1> QED
  BY <1>1, <1>3, <1>4 DEF r
-----------------------------------------------------------------------------
\* Lemmas about the byte count.

\* The bytes of one value.
LEMMA RowFacts ==
    ASSUME NEW k, NEW n \in Nat
    PROVE  IsFiniteSet({k} \X (1 .. n)) /\ Cardinality({k} \X (1 .. n)) = n
<1> DEFINE S == {k}
           T == 1 .. n
<1>1. IsFiniteSet(S) /\ Cardinality(S) = 1
  BY FS_Singleton
<1>2. IsFiniteSet(T) /\ Cardinality(T) = n
  BY FS_Interval
<1>3. IsFiniteSet(S \X T) /\ Cardinality(S \X T) = Cardinality(S) * Cardinality(T)
  <2> HIDE DEF S, T
  <2> QED
    BY <1>1, <1>2, FS_Product
<1> QED
  BY <1>1, <1>2, <1>3

\* Finitely many tracked values have finitely many bytes.
LEMMA BytesFinite ==
    ASSUME NEW D, IsFiniteSet(D), NEW f \in [D -> Nat]
    PROVE  IsFiniteSet(Bytes(f))
<1> DEFINE row == [k \in D |-> {k} \X (1 .. f[k])]
           T == {{k} \X (1 .. f[k]) : k \in D}
<1>1. row \in Surjection(D, T)
  BY DEF Surjection
<1>2. IsFiniteSet(T)
  BY <1>1, FS_Surjection
<1>3. ASSUME NEW k \in D
      PROVE  IsFiniteSet({k} \X (1 .. f[k]))
  BY RowFacts
<1>4. \A t \in T : IsFiniteSet(t)
  BY <1>3
<1>5. IsFiniteSet(UNION T)
  <2> HIDE DEF T
  <2> QED
    BY <1>2, <1>4, FS_UNION
<1> QED
  BY <1>5 DEF Bytes

\* The bytes of a map are those of one of its keys and those of the others.
LEMMA BytesSplit ==
    ASSUME NEW D, IsFiniteSet(D), NEW f \in [D -> Nat], NEW k \in D
    PROVE  /\ Cardinality(Bytes(f)) \in Nat
           /\ Cardinality(Bytes(Restrict(f, D \ {k}))) \in Nat
           /\ Cardinality(Bytes(f)) = Cardinality(Bytes(Restrict(f, D \ {k}))) + f[k]
<1> DEFINE rest == Restrict(f, D \ {k})
           one == {k} \X (1 .. f[k])
<1>1. IsFiniteSet(D \ {k}) /\ rest \in [D \ {k} -> Nat]
  BY FS_RemoveElement DEF Restrict
<1>2. IsFiniteSet(Bytes(f)) /\ IsFiniteSet(Bytes(rest))
  BY <1>1, BytesFinite
<1>3. IsFiniteSet(one) /\ Cardinality(one) = f[k]
  BY RowFacts
<1>4. Bytes(f) = Bytes(rest) \cup one
  BY DEF Bytes, Restrict
<1>5. Bytes(rest) \cap one = {}
  BY DEF Bytes, Restrict
<1>6. Cardinality(Bytes(rest) \cap one) = 0
  BY <1>5, FS_EmptySet
<1>7. Cardinality(Bytes(f)) =
        Cardinality(Bytes(rest)) + Cardinality(one) - Cardinality(Bytes(rest) \cap one)
  <2> HIDE DEF one, rest
  <2> QED
    BY <1>2, <1>3, <1>4, FS_Union
<1>8. Cardinality(Bytes(f)) \in Nat /\ Cardinality(Bytes(rest)) \in Nat
  BY <1>2, FS_CardinalityType
<1> QED
  BY <1>3, <1>6, <1>7, <1>8

\* n values of at most m bytes have at most n * m bytes.
LEMMA BytesBound ==
    ASSUME NEW D, IsFiniteSet(D), NEW m \in Nat, NEW f \in [D -> Nat],
           \A k \in D : f[k] <= m
    PROVE  Cardinality(Bytes(f)) <= Cardinality(D) * m
<1>1. Bytes(f) \subseteq D \X (1 .. m)
  BY DEF Bytes
<1>2. IsFiniteSet(1 .. m) /\ Cardinality(1 .. m) = m
  BY FS_Interval
<1>3. IsFiniteSet(D \X (1 .. m)) /\ Cardinality(D \X (1 .. m)) = Cardinality(D) * m
  BY <1>2, FS_Product
<1> QED
  BY <1>1, <1>3, FS_Subset
-----------------------------------------------------------------------------
\* The three shared pieces, and what every change of them preserves.

CacheOK == CacheType /\ ListMatchesItems /\ Accounting

\* A map on keys is finite.
LEMMA ItemsFinite ==
    ASSUME CacheType
    PROVE  IsFiniteSet(DOMAIN items) /\ items \in [DOMAIN items -> Nat]
<1>1. IsFiniteSet(DOMAIN items)
  BY FiniteAssumption, FS_Subset DEF CacheType
<1>2. items \in [DOMAIN items -> Nat]
  BY SizesAssumption DEF CacheType
<1> QED
  BY <1>1, <1>2

\* addItem keeps the list, the map and the count together.
LEMMA AddItemKeeps ==
    ASSUME CacheOK, NEW k \in Keys, k \notin DOMAIN items, NEW s \in Sizes,
           AddItem(k, s)
    PROVE  CacheOK'
<1> DEFINE D == DOMAIN items \cup {k}
<1>1. s \in Nat
  BY SizesAssumption
<1>2. /\ DOMAIN items' = D
      /\ items' \in [D -> Sizes]
      /\ items' \in [D -> Nat]
      /\ items'[k] = s
      /\ Restrict(items', D \ {k}) = items
  BY SizesAssumption DEF AddItem, CacheOK, CacheType, Restrict
<1>3. CacheType'
  BY <1>1, <1>2 DEF CacheOK, CacheType, AddItem
<1>4. ListMatchesItems'
  <2>1. /\ order \in Seq(Keys) /\ IsInjective(order)
        /\ ToSet(order) = DOMAIN items
    BY DEF CacheOK, CacheType, ListMatchesItems
  <2>2. IsInjective(order') /\ ToSet(order') = D
    BY <2>1, PushFrontFacts DEF AddItem
  <2> QED
    BY <2>2, <1>2 DEF ListMatchesItems
<1>5. Accounting'
  <2>1. IsFiniteSet(D)
    BY ItemsFinite, FS_AddElement DEF CacheOK
  <2>2. /\ Cardinality(Bytes(items')) = Cardinality(Bytes(items)) + s
        /\ Cardinality(Bytes(items)) \in Nat
    BY <2>1, <1>2, BytesSplit
  <2>3. Used' = Used + s /\ Used \in Nat
    BY <2>2 DEF Used
  <2> QED
    BY <2>3, <1>1, CapacityAssumption DEF Accounting, CacheOK, AddItem
<1> QED
  BY <1>3, <1>4, <1>5 DEF CacheOK

\* evict does.
LEMMA EvictKeeps ==
    ASSUME CacheOK, NEW k \in DOMAIN items, Evict(k)
    PROVE  CacheOK'
<1>1. k \in Keys /\ items[k] \in Nat
  BY SizesAssumption DEF CacheOK, CacheType
<1>2. /\ DOMAIN items' = DOMAIN items \ {k}
      /\ items' \in [DOMAIN items \ {k} -> Sizes]
  BY DEF Evict, CacheOK, CacheType, Restrict
<1>3. /\ order' \in Seq(Keys)
      /\ IsInjective(order')
      /\ ToSet(order') = DOMAIN items \ {k}
  <2>1. /\ order \in Seq(Keys) /\ IsInjective(order)
        /\ ToSet(order) = DOMAIN items
    BY DEF CacheOK, CacheType, ListMatchesItems
  <2> QED
    BY <2>1, <1>1, RemoveFirstFacts DEF Evict
<1>4. CacheType' /\ ListMatchesItems'
  <2>1. capacity' \in Int
    BY <1>1 DEF CacheOK, CacheType, Evict
  <2>2. DOMAIN items' \subseteq Keys
    BY <1>2 DEF CacheOK, CacheType
  <2> QED
    BY <1>2, <1>3, <2>1, <2>2 DEF CacheType, ListMatchesItems
<1>5. Accounting'
  <2>1. /\ Cardinality(Bytes(items)) = Cardinality(Bytes(items')) + items[k]
        /\ Cardinality(Bytes(items')) \in Nat
    BY ItemsFinite, BytesSplit DEF CacheOK, Evict
  <2>2. Used = Used' + items[k] /\ Used' \in Nat
    BY <2>1 DEF Used
  <2> QED
    BY <2>2, <1>1, CapacityAssumption DEF Accounting, CacheOK, Evict
<1> QED
  BY <1>4, <1>5 DEF CacheOK

\* MoveToFront permutes the list.
LEMMA PromoteKeepsList ==
    ASSUME CacheOK, NEW k \in DOMAIN items, MoveToFront(k)
    PROVE  /\ order' \in Seq(Keys)
           /\ IsInjective(order')
           /\ ToSet(order') = DOMAIN items
<1> DEFINE rest == RemoveFirst(order, k)
<1>1. /\ k \in Keys
      /\ order \in Seq(Keys) /\ IsInjective(order)
      /\ ToSet(order) = DOMAIN items
  BY DEF CacheOK, CacheType, ListMatchesItems
<1>2. /\ rest \in Seq(Keys) /\ IsInjective(rest)
      /\ ToSet(rest) = DOMAIN items \ {k}
  BY <1>1, RemoveFirstFacts
<1>3. order' = <<k>> \o rest
  BY DEF MoveToFront
<1> HIDE DEF rest
<1>4. order' \in Seq(Keys) /\ IsInjective(order') /\ ToSet(order') = ToSet(rest) \cup {k}
  BY <1>1, <1>2, <1>3, PushFrontFacts
<1> QED
  BY <1>2, <1>4

\* A hit of Get.
LEMMA PromoteKeeps ==
    ASSUME CacheOK, NEW k \in DOMAIN items, MoveToFront(k),
           UNCHANGED <<items, capacity>>
    PROVE  CacheOK'
<1>1. Used' = Used
  BY DEF Used
<1> QED
  BY <1>1, PromoteKeepsList
  DEF CacheOK, CacheType, ListMatchesItems, Accounting

\* A Put on a tracked key charges the difference.
LEMMA OverwriteKeeps ==
    ASSUME CacheOK, NEW k \in DOMAIN items, NEW s \in Sizes, MoveToFront(k),
           items' = [items EXCEPT ![k] = s],
           capacity' = capacity + (items[k] - s)
    PROVE  CacheOK'
<1> DEFINE D == DOMAIN items
           rest == Restrict(items, D \ {k})
<1>1. s \in Nat /\ items[k] \in Nat
  BY SizesAssumption DEF CacheOK, CacheType
<1>2. /\ DOMAIN items' = D
      /\ items' \in [D -> Sizes]
      /\ items' \in [D -> Nat]
      /\ items'[k] = s
      /\ Restrict(items', D \ {k}) = rest
  BY SizesAssumption DEF CacheOK, CacheType, Restrict
<1>3. CacheType' /\ ListMatchesItems'
  BY <1>1, <1>2, PromoteKeepsList DEF CacheOK, CacheType, ListMatchesItems
<1>4. IsFiniteSet(D) /\ items \in [D -> Nat]
  BY ItemsFinite DEF CacheOK
<1>5. Accounting'
  <2> HIDE DEF D
  <2>1. k \in D
    BY DEF D
  <2>2. /\ Cardinality(Bytes(items)) = Cardinality(Bytes(rest)) + items[k]
        /\ Cardinality(Bytes(rest)) \in Nat
    BY <1>4, <2>1, BytesSplit
  <2>3. Cardinality(Bytes(items')) = Cardinality(Bytes(rest)) + s
    <3>1. ASSUME NEW f \in [D -> Nat], Restrict(f, D \ {k}) = rest
          PROVE  Cardinality(Bytes(f)) = Cardinality(Bytes(rest)) + f[k]
      BY <1>4, <2>1, <3>1, BytesSplit
    <3> HIDE DEF rest
    <3> QED
      BY <3>1, <1>2
  <2>4. Used' = Used - items[k] + s /\ Used \in Nat
    BY <2>2, <2>3, <1>1 DEF Used
  <2> QED
    BY <2>4, <1>1, CapacityAssumption DEF Accounting, CacheOK
<1> QED
  BY <1>3, <1>5 DEF CacheOK
-----------------------------------------------------------------------------
\* Types and accounting are inductive.

LEMMA InitOK == Init => CallersType /\ CacheOK
<1> SUFFICES ASSUME Init PROVE CallersType /\ CacheOK
  OBVIOUS
<1> USE DEF Init
<1>1. CallersType
  BY DEF CallersType, Locations
<1>2. CacheType
  BY CapacityAssumption DEF CacheType
<1>3. ListMatchesItems
  BY DEF ListMatchesItems, IsInjective, ToSet
<1>4. Accounting
  <2>1. Bytes(items) = {}
    BY DEF Bytes
  <2>2. Used = 0
    BY <2>1, FS_EmptySet DEF Used
  <2> QED
    BY <2>2, CapacityAssumption DEF Accounting
<1> QED
  BY <1>1, <1>2, <1>3, <1>4 DEF CacheOK

LEMMA UnchangedKeeps ==
    ASSUME CacheOK, UNCHANGED cacheVars
    PROVE  CacheOK'
  BY DEF CacheOK, CacheType, ListMatchesItems, Accounting, Used, cacheVars

LEMMA EvictIfTrackedKeeps ==
    ASSUME CacheOK, NEW k, EvictIfTracked(k)
    PROVE  CacheOK'
<1>1. CASE k \in DOMAIN items /\ Evict(k)
  BY <1>1, EvictKeeps
<1>2. CASE UNCHANGED cacheVars
  BY <1>2, UnchangedKeeps
<1> QED
  BY <1>1, <1>2 DEF EvictIfTracked

\* Every step keeps the cache consistent.
LEMMA NextKeepsCache == CallersType /\ CacheOK /\ [Next]_vars => CacheOK'
<1> SUFFICES ASSUME CallersType, CacheOK, [Next]_vars PROVE CacheOK'
  OBVIOUS
<1>1. CASE UNCHANGED vars
  BY <1>1, UnchangedKeeps DEF vars, cacheVars
<1>2. ASSUME NEW c \in Callers, CallPut(c) \/ CallGet(c) \/ CallDel(c)
      PROVE  CacheOK'
  BY <1>2, UnchangedKeeps DEF CallPut, CallGet, CallDel, Begin
<1>3. ASSUME NEW c \in Callers, PutTrack(c)
      PROVE  CacheOK'
  <2>1. key[c] \in Keys /\ size[c] \in Sizes
    BY <1>3 DEF PutTrack, CallersType, At
  <2>2. CASE key[c] \in DOMAIN items
    BY <1>3, <2>1, <2>2, OverwriteKeeps DEF PutTrack
  <2>3. CASE key[c] \notin DOMAIN items
    BY <1>3, <2>1, <2>3, AddItemKeeps DEF PutTrack
  <2> QED
    BY <2>2, <2>3
<1>4. ASSUME NEW c \in Callers,
             \/ PutStore(c) \/ PruneEnter(c) \/ PruneCheck(c)
             \/ PruneTail(c) \/ PruneDrop(c) \/ GetRead(c) \/ DelDrop(c)
      PROVE  CacheOK'
  BY <1>4, UnchangedKeeps
  DEF PutStore, PruneEnter, PruneCheck, PruneTail, PruneDrop, GetRead, DelDrop
<1>5. ASSUME NEW c \in Callers, PruneEvict(c) \/ DelEvict(c)
      PROVE  CacheOK'
  BY <1>5, EvictIfTrackedKeeps DEF PruneEvict, DelEvict
<1>6. ASSUME NEW c \in Callers, GetTrack(c)
      PROVE  CacheOK'
  <2>1. key[c] \in Keys /\ size[c] \in Sizes \cup {0}
    BY <1>6 DEF GetTrack, CallersType, At
  <2>2. CASE key[c] \in DOMAIN items
    BY <1>6, <2>2, PromoteKeeps DEF GetTrack
  <2>3. CASE key[c] \notin DOMAIN items /\ size[c] > 0
    <3>1. size[c] \in Sizes /\ AddItem(key[c], size[c])
      BY <1>6, <2>1, <2>3 DEF GetTrack
    <3> QED
      BY <2>1, <2>3, <3>1, AddItemKeeps
  <2>4. CASE key[c] \notin DOMAIN items /\ ~(size[c] > 0)
    BY <1>6, <2>4, UnchangedKeeps DEF GetTrack
  <2> QED
    BY <2>2, <2>3, <2>4
<1> QED
  BY <1>1, <1>2, <1>3, <1>4, <1>5, <1>6 DEF Next, Work

\* A caller's own fields after one of its steps.
LEMMA NextKeepsCallers == CallersType /\ CacheOK /\ [Next]_vars => CallersType'
<1> SUFFICES ASSUME CallersType, CacheOK, [Next]_vars PROVE CallersType'
  OBVIOUS
<1> USE DEF CallersType, Locations, PutLocations, At, Goto, Return
<1>1. CASE UNCHANGED vars
  BY <1>1 DEF vars
<1>2. ASSUME NEW c \in Callers, CallPut(c) \/ CallGet(c) \/ CallDel(c)
      PROVE  CallersType'
  <2>1. CASE CallPut(c)
    BY <2>1 DEF CallPut, Begin
  <2>2. CASE CallGet(c)
    BY <2>2 DEF CallGet, Begin
  <2>3. CASE CallDel(c)
    BY <2>3 DEF CallDel, Begin
  <2> QED
    BY <1>2, <2>1, <2>2, <2>3
<1>3. ASSUME NEW c \in Callers, PutTrack(c)
      PROVE  CallersType'
  BY <1>3 DEF PutTrack
<1>4. ASSUME NEW c \in Callers, PutStore(c)
      PROVE  CallersType'
  BY <1>4 DEF PutStore
<1>5. ASSUME NEW c \in Callers, PruneEnter(c) \/ PruneCheck(c)
      PROVE  CallersType'
  BY <1>5 DEF PruneEnter, PruneCheck
<1>6. ASSUME NEW c \in Callers, PruneTail(c)
      PROVE  CallersType'
  <2>1. order # <<>> => Last(order) \in Keys
    BY DEF CacheOK, CacheType, Last
  <2> QED
    BY <1>6, <2>1 DEF PruneTail
<1>7. ASSUME NEW c \in Callers, PruneEvict(c) \/ DelEvict(c)
      PROVE  CallersType'
  BY <1>7 DEF PruneEvict, DelEvict
<1>8. ASSUME NEW c \in Callers, PruneDrop(c) \/ DelDrop(c)
      PROVE  CallersType'
  BY <1>8 DEF PruneDrop, DelDrop
<1>9. ASSUME NEW c \in Callers, GetRead(c) \/ GetTrack(c)
      PROVE  CallersType'
  BY <1>9 DEF GetRead, GetTrack
<1> QED
  BY <1>1, <1>2, <1>3, <1>4, <1>5, <1>6, <1>7, <1>8, <1>9 DEF Next, Work

LEMMA SpecKeeps == Spec => [](CallersType /\ CacheOK)
<1>1. Init => CallersType /\ CacheOK
  BY InitOK
<1>2. CallersType /\ CacheOK /\ [Next]_vars => (CallersType /\ CacheOK)'
  BY NextKeepsCache, NextKeepsCallers
<1> QED
  BY <1>1, <1>2, PTL DEF Spec

\* Type correctness of the manager.
THEOREM TypeCorrect == Spec => []TypeOK
<1>1. CallersType /\ CacheOK => TypeOK
  BY DEF CacheOK, TypeOK
<1> QED
  BY <1>1, SpecKeeps, PTL

\* The list and the map of the manager never part, whatever the callers do.
THEOREM ListAlwaysMatches == Spec => []ListMatchesItems
<1>1. CallersType /\ CacheOK => ListMatchesItems
  BY DEF CacheOK
<1> QED
  BY <1>1, SpecKeeps, PTL

\* The bytes left and the bytes charged always add up to the capacity given
\* to New (addItem, evict and the overwrite of Put).
THEOREM BudgetNeverDrifts == Spec => []Accounting
<1>1. CallersType /\ CacheOK => Accounting
  BY DEF CacheOK
<1> QED
  BY <1>1, SpecKeeps, PTL
-----------------------------------------------------------------------------
\* One caller over a store that does not fail.

\* What is tracked is what is stored.
Same(k) == (k \in DOMAIN items <=> store[k] # 0) /\ (k \in DOMAIN items => items[k] = store[k])

\* Only the key that a call has tracked and not yet stored, or evicted and not
\* yet dropped, may differ; a Get tracks what it has read.
SyncInv(c) ==
    /\ \A k \in Keys :
          Same(k) \/ (k = key[c] /\ pc[c] \in {"put_store", "prune_drop", "del_drop"})
    /\ At(c, "put_store") => key[c] \in DOMAIN items /\ items[key[c]] = size[c]
    /\ pc[c] \in {"prune_drop", "del_drop"} => key[c] \notin DOMAIN items
    /\ At(c, "get_track") => size[c] = store[key[c]]

LEMMA NextKeepsSync ==
    ASSUME NEW c, Callers = {c}, StoreMayFail = FALSE, CallersType, CacheOK, SyncInv(c), [Next]_vars
    PROVE  SyncInv(c)'
<1>1. /\ c \in Callers /\ pc \in [Callers -> Locations] /\ key \in [Callers -> Keys \cup {NoKey}]
      /\ size \in [Callers -> Sizes \cup {0}] /\ store \in [Keys -> Sizes \cup {0}]
      /\ Sizes \subseteq Nat \ {0} /\ DOMAIN items \subseteq Keys
  BY SizesAssumption DEF CallersType, CacheOK, CacheType
<1>2. ASSUME NEW there, Goto(c, there) PROVE pc'[c] = there
  BY <1>1, <1>2 DEF Goto
<1>3. ASSUME Return(c) PROVE pc'[c] = "idle"
  BY <1>2, <1>3 DEF Return
<1>4. CASE CallPut(c) \/ CallGet(c) \/ CallDel(c)
  <2>1. UNCHANGED <<items, store>> /\ At(c, "idle")
    BY <1>4 DEF CallPut, CallGet, CallDel, Begin, cacheVars
  <2>2. pc'[c] \in {"put_track", "get_read", "del_evict"}
    BY <1>2, <1>4 DEF CallPut, CallGet, CallDel, Begin
  <2> QED
    BY <2>1, <2>2 DEF SyncInv, Same, At
<1>5. CASE PutTrack(c)
  <2>1. /\ pc'[c] = "put_store" /\ UNCHANGED <<key, size, store>> /\ At(c, "put_track")
        /\ key[c] \in Keys /\ size[c] \in Sizes
    BY <1>1, <1>2, <1>5 DEF PutTrack, CallersType, At
  <2>2. /\ DOMAIN items' = DOMAIN items \cup {key[c]} /\ items'[key[c]] = size[c]
        /\ \A k \in DOMAIN items \ {key[c]} : items'[k] = items[k]
    <3>1. CASE key[c] \in DOMAIN items /\ items' = [items EXCEPT ![key[c]] = size[c]]
      BY <3>1 DEF CacheOK, CacheType
    <3>2. CASE AddItem(key[c], size[c])
      BY <3>2 DEF AddItem
    <3> QED
      BY <1>5, <3>1, <3>2 DEF PutTrack
  <2>3. \A k \in Keys \ {key[c]} : Same(k)'
    BY <2>1, <2>2 DEF SyncInv, Same, At
  <2> QED
    BY <2>1, <2>2, <2>3 DEF SyncInv, At
<1>6. CASE PutStore(c)
  <2>1. /\ pc'[c] = "prune" /\ UNCHANGED <<key, items>> /\ At(c, "put_store")
        /\ store' = [store EXCEPT ![key[c]] = size[c]] /\ key[c] \in Keys /\ size[c] # 0
    BY <1>1, <1>2, <1>6 DEF PutStore, CallersType, At, cacheVars
  <2>2. \A k \in Keys : Same(k)'
    BY <1>1, <2>1 DEF SyncInv, Same, At
  <2> QED
    BY <2>1, <2>2 DEF SyncInv, At
<1>7. CASE PruneEnter(c) \/ PruneCheck(c) \/ PruneTail(c)
  <2>1. UNCHANGED <<items, store>> /\ pc[c] \in {"prune", "prune_check", "prune_tail"}
    BY <1>7 DEF PruneEnter, PruneCheck, PruneTail, cacheVars, At
  <2>2. pc'[c] \in {"idle", "prune_check", "prune_tail", "prune_evict"}
    BY <1>2, <1>3, <1>7 DEF PruneEnter, PruneCheck, PruneTail
  <2> QED
    BY <2>1, <2>2 DEF SyncInv, Same, At
<1>8. CASE PruneEvict(c) \/ DelEvict(c)
  <2>1. /\ pc'[c] \in {"prune_drop", "del_drop"} /\ UNCHANGED <<key, store>>
        /\ EvictIfTracked(key[c]) /\ pc[c] \in {"prune_evict", "del_evict"}
    BY <1>2, <1>8 DEF PruneEvict, DelEvict, At
  <2>2. /\ DOMAIN items' = DOMAIN items \ {key[c]}
        /\ \A k \in DOMAIN items' : items'[k] = items[k]
    BY <2>1 DEF EvictIfTracked, Evict, Restrict, cacheVars
  <2>3. \A k \in Keys \ {key[c]} : Same(k)'
    BY <2>1, <2>2 DEF SyncInv, Same
  <2> QED
    BY <2>1, <2>2, <2>3 DEF SyncInv, At
<1>9. CASE PruneDrop(c) \/ DelDrop(c)
  <2>1. /\ UNCHANGED items /\ pc[c] \in {"prune_drop", "del_drop"}
        /\ store' = [store EXCEPT ![key[c]] = 0] /\ key[c] \in Keys
    BY <1>1, <1>9 DEF PruneDrop, DelDrop, CallersType, At, cacheVars
  <2>2. pc'[c] \in {"prune_check", "idle"}
    BY <1>2, <1>3, <1>9 DEF PruneDrop, DelDrop
  <2>3. \A k \in Keys : Same(k)'
    BY <1>1, <2>1 DEF SyncInv, Same
  <2> QED
    BY <2>2, <2>3 DEF SyncInv, At
<1>10. CASE GetRead(c)
  <2>1. /\ pc'[c] = "get_track" /\ UNCHANGED <<items, store, key>> /\ At(c, "get_read")
        /\ size'[c] = store[key[c]]
    BY <1>1, <1>2, <1>10 DEF GetRead, cacheVars
  <2> QED
    BY <2>1 DEF SyncInv, Same, At
<1>11. CASE GetTrack(c)
  <2>1. pc'[c] = "idle" /\ UNCHANGED store /\ At(c, "get_track") /\ key[c] \in Keys
    BY <1>1, <1>3, <1>11 DEF GetTrack, CallersType, At
  <2>2. size[c] = store[key[c]] /\ \A k \in Keys : Same(k)
    BY <2>1 DEF SyncInv, At
  <2>3. ~(key[c] \notin DOMAIN items /\ size[c] > 0)
    BY <1>1, <2>1, <2>2 DEF Same
  <2>4. UNCHANGED items
    BY <1>11, <2>3 DEF GetTrack, cacheVars
  <2> QED
    BY <2>1, <2>2, <2>4 DEF SyncInv, Same, At
<1>12. CASE UNCHANGED vars
  BY <1>12 DEF vars, SyncInv, Same, At
<1> QED
  BY <1>1, <1>4, <1>5, <1>6, <1>7, <1>8, <1>9, <1>10, <1>11, <1>12 DEF Next, Work

\* Between the calls of one caller the manager tracks exactly what the wrapped
\* store holds, if that does not fail (Put, Get, Del and prune of
\* lru_manager.go). Two callers may leave a value that nobody tracks.
THEOREM OneCallerTracksStore ==
    ASSUME NEW caller, Callers = {caller}, StoreMayFail = FALSE
    PROVE  Spec => []QuietTracksStore
<1> DEFINE Inv == CallersType /\ CacheOK /\ SyncInv(caller)
<1>1. Init => Inv
  BY InitOK DEF Init, SyncInv, Same, At
<1>2. Inv /\ [Next]_vars => Inv'
  <2>1. CacheOK' => CacheType'
    BY DEF CacheOK
  <2> QED
    BY <2>1, NextKeepsCallers, NextKeepsCache, NextKeepsSync
<1>3. Inv => QuietTracksStore
  <2> SUFFICES ASSUME Inv, Quiet PROVE QuietTracksStore
    BY DEF QuietTracksStore
  <2>1. DOMAIN items \subseteq Keys /\ \A k \in Keys : Same(k)
    BY DEF Quiet, SyncInv, At, CacheOK, CacheType
  <2> QED
    BY <2>1 DEF Same, QuietTracksStore
<1> QED
  BY <1>1, <1>2, <1>3, PTL DEF Spec

-----------------------------------------------------------------------------
\* The budget is overrun only by a Put in flight or a late Get.

LEMMA CushionFacts == Cushion \in Nat /\ Cushion >= 1 /\ Cushion <= Capacity
  BY CapacityAssumption DEF Cushion

\* An empty list means that the whole capacity is left.
LEMMA EmptyListMeansFullBudget ==
    ASSUME CacheOK, order = <<>>
    PROVE  DOMAIN items = {} /\ capacity = Capacity
<1>1. DOMAIN items = {}
  BY DEF CacheOK, ListMatchesItems, ToSet
<1>2. Bytes(items) = {}
  BY <1>1 DEF Bytes
<1>3. Used = 0
  BY <1>2, FS_EmptySet DEF Used
<1> QED
  BY <1>1, <1>3, CapacityAssumption DEF CacheOK, Accounting

\* Giving bytes back does not overrun the budget.
LEMMA EvictGivesBack ==
    ASSUME CacheOK, NEW k, EvictIfTracked(k)
    PROVE  capacity' >= capacity /\ capacity' \in Int
<1>1. CASE k \in DOMAIN items /\ Evict(k)
  <2>1. items[k] \in Nat /\ capacity \in Int
    BY <1>1, SizesAssumption DEF CacheOK, CacheType
  <2> QED
    BY <1>1, <2>1 DEF Evict
<1>2. CASE UNCHANGED cacheVars
  BY <1>2 DEF cacheVars, CacheOK, CacheType
<1> QED
  BY <1>1, <1>2 DEF EvictIfTracked

LEMMA NextKeepsOverBudget ==
    ASSUME CallersType, CacheOK, OverBudgetOnlyDuringPut, [Next]_vars
    PROVE  \/ OverBudgetOnlyDuringPut'
           \/ \E c \in Callers : GetTrack(c) /\ key[c] \notin DOMAIN items
<1> USE DEF OverBudgetOnlyDuringPut, At, Goto, Return
<1>1. CASE UNCHANGED vars
  BY <1>1 DEF vars
<1>2. ASSUME NEW c \in Callers, CallPut(c) \/ CallGet(c) \/ CallDel(c)
      PROVE  OverBudgetOnlyDuringPut'
  BY <1>2 DEF CallPut, CallGet, CallDel, Begin, cacheVars, PutLocations, CallersType
<1>3. ASSUME NEW c \in Callers, PutTrack(c) \/ PutStore(c) \/ PruneDrop(c)
      PROVE  OverBudgetOnlyDuringPut'
  <2>1. pc'[c] \in PutLocations
    BY <1>3 DEF PutTrack, PutStore, PruneDrop, CallersType, PutLocations
  <2> QED
    BY <2>1
<1>4. ASSUME NEW c \in Callers, PruneEvict(c)
      PROVE  OverBudgetOnlyDuringPut'
  <2>1. pc'[c] \in PutLocations
    BY <1>4 DEF PruneEvict, CallersType, PutLocations
  <2> QED
    BY <2>1
<1>5. ASSUME NEW c \in Callers, PruneEnter(c)
      PROVE  OverBudgetOnlyDuringPut'
  <2>1. CASE capacity > 0
    BY <1>5, <2>1 DEF PruneEnter, cacheVars, CacheOK, CacheType
  <2>2. CASE ~(capacity > 0)
    BY <1>5, <2>2 DEF PruneEnter, PutLocations, CallersType, CacheOK, CacheType
  <2> QED
    BY <2>1, <2>2
<1>6. ASSUME NEW c \in Callers, PruneCheck(c)
      PROVE  OverBudgetOnlyDuringPut'
  <2>1. CASE capacity >= Cushion
    BY <1>6, <2>1, CushionFacts DEF PruneCheck, cacheVars, CacheOK, CacheType
  <2>2. CASE ~(capacity >= Cushion)
    BY <1>6, <2>2 DEF PruneCheck, PutLocations, CallersType, CacheOK, CacheType
  <2> QED
    BY <2>1, <2>2
<1>7. ASSUME NEW c \in Callers, PruneTail(c)
      PROVE  OverBudgetOnlyDuringPut'
  <2>1. CASE order # <<>>
    BY <1>7, <2>1 DEF PruneTail, PutLocations, CallersType
  <2>2. CASE order = <<>>
    BY <1>7, <2>2, EmptyListMeansFullBudget, CapacityAssumption
    DEF PruneTail, cacheVars
  <2> QED
    BY <2>1, <2>2
<1>8. ASSUME NEW c \in Callers, DelEvict(c) \/ DelDrop(c)
      PROVE  OverBudgetOnlyDuringPut'
  <2>1. capacity' >= capacity /\ capacity' \in Int /\ capacity \in Int
    BY <1>8, EvictGivesBack DEF DelEvict, DelDrop, cacheVars, CacheOK, CacheType
  <2>2. \A d \in Callers : pc[d] \in PutLocations => pc'[d] = pc[d]
    BY <1>8 DEF DelEvict, DelDrop, CallersType, PutLocations
  <2> QED
    BY <2>1, <2>2
<1>9. ASSUME NEW c \in Callers,
             GetRead(c) \/ (GetTrack(c) /\ key[c] \in DOMAIN items)
      PROVE  OverBudgetOnlyDuringPut'
  <2>1. UNCHANGED capacity
    BY <1>9 DEF GetRead, GetTrack, cacheVars
  <2>2. \A d \in Callers : pc[d] \in PutLocations => pc'[d] = pc[d]
    BY <1>9 DEF GetRead, GetTrack, CallersType, PutLocations
  <2> QED
    BY <2>1, <2>2
<1> QED
  BY <1>1, <1>2, <1>3, <1>4, <1>5, <1>6, <1>7, <1>8, <1>9 DEF Next, Work

\* With any number of callers, of any methods, the budget is overrun only while
\* some Put has yet to return, or from the moment a Get tracks a value that was
\* not tracked when it came back from the store (Put, prune, Get and Del of
\* lru_manager.go): every other way out of prune leaves room.
THEOREM PutLeavesRoom == Spec => OverrunOnlyByLateGet
<1>1. Init => CallersType /\ CacheOK
  BY InitOK
<1>2. CallersType /\ CacheOK /\ [Next]_vars => (CallersType /\ CacheOK)'
  BY NextKeepsCallers, NextKeepsCache
<1>3. CallersType /\ CacheOK /\ [Next]_vars =>
        [OverBudgetOnlyDuringPut =>
            \/ OverBudgetOnlyDuringPut'
            \/ \E c \in Callers : GetTrack(c) /\ key[c] \notin DOMAIN items]_vars
  BY NextKeepsOverBudget
<1> QED
  BY <1>1, <1>2, <1>3, PTL DEF Spec, OverrunOnlyByLateGet

-----------------------------------------------------------------------------
\* What is stored stays in sight of the budget.

\* An eviction of a caller's own key leaves every value in sight: the caller
\* goes on to drop it.
LEMMA EvictionKeepsSight ==
    ASSUME CallersType, CacheOK, NEW c \in Callers, EvictIfTracked(key[c]),
           Goto(c, "prune_drop") \/ Goto(c, "del_drop"),
           ~(pc[c] \in {"prune_drop", "del_drop"}), UNCHANGED <<store, key>>,
           NEW k \in Keys, InSight(k)
    PROVE  InSight(k)'
<1>1. DOMAIN items' = DOMAIN items \ {key[c]} \/ UNCHANGED items
  BY DEF EvictIfTracked, Evict, Restrict, cacheVars
<1>2. DOMAIN items \ {key[c]} \subseteq DOMAIN items'
  BY <1>1
<1>3. pc'[c] \in {"prune_drop", "del_drop"}
      /\ \A d \in Callers \ {c} : pc'[d] = pc[d]
  BY DEF Goto, CallersType
<1> QED
  BY <1>2, <1>3 DEF InSight

LEMMA NextKeepsSight ==
    ASSUME CallersType, CacheOK, [Next]_vars, NEW k \in Keys, InSight(k)
    PROVE  \/ InSight(k)'
           \/ \E c \in Callers :
                 /\ key[c] = k
                 /\ PutStore(c) \/ ((PruneDrop(c) \/ DelDrop(c)) /\ UNCHANGED store)
<1>1. ASSUME UNCHANGED store, DOMAIN items \subseteq DOMAIN items',
             \A d \in Callers : pc[d] \in {"prune_drop", "del_drop"} =>
                                  pc'[d] = pc[d] /\ key'[d] = key[d]
      PROVE  InSight(k)'
  BY <1>1 DEF InSight
<1>2. CASE UNCHANGED vars
  BY <1>1, <1>2 DEF vars
<1>3. ASSUME NEW c \in Callers, CallPut(c) \/ CallGet(c) \/ CallDel(c)
      PROVE  InSight(k)'
  BY <1>1, <1>3 DEF CallPut, CallGet, CallDel, Begin, At, Goto, cacheVars, CallersType
<1>4. ASSUME NEW c \in Callers, PutTrack(c)
      PROVE  InSight(k)'
  BY <1>1, <1>4 DEF PutTrack, AddItem, At, Goto, CallersType
<1>5. ASSUME NEW c \in Callers, GetRead(c) \/ PruneEnter(c) \/ PruneCheck(c)
      PROVE  InSight(k)'
  BY <1>1, <1>5 DEF GetRead, PruneEnter, PruneCheck, Return, At, Goto, cacheVars,
                    CallersType
<1>6. ASSUME NEW c \in Callers, PruneTail(c)
      PROVE  InSight(k)'
  BY <1>1, <1>6 DEF PruneTail, Return, At, Goto, cacheVars, CallersType
<1>7. ASSUME NEW c \in Callers, GetTrack(c)
      PROVE  InSight(k)'
  <2>1. DOMAIN items \subseteq DOMAIN items'
    BY <1>7 DEF GetTrack, AddItem, cacheVars
  <2> QED
    BY <1>1, <1>7, <2>1 DEF GetTrack, Return, At, Goto, CallersType
<1>8. ASSUME NEW c \in Callers, PruneEvict(c) \/ DelEvict(c)
      PROVE  InSight(k)'
  BY <1>8, EvictionKeepsSight DEF PruneEvict, DelEvict, At
<1>9. ASSUME NEW c \in Callers, PutStore(c), key[c] # k
      PROVE  InSight(k)'
  <2>1. store'[k] = store[k]
    BY <1>9 DEF PutStore, CallersType
  <2>2. UNCHANGED items
        /\ \A d \in Callers : pc[d] \in {"prune_drop", "del_drop"} =>
                               pc'[d] = pc[d] /\ key'[d] = key[d]
    BY <1>9 DEF PutStore, At, Goto, cacheVars, CallersType
  <2> QED
    BY <2>1, <2>2 DEF InSight
<1>10. ASSUME NEW c \in Callers, PruneDrop(c) \/ DelDrop(c),
              ~(key[c] = k /\ UNCHANGED store)
       PROVE  InSight(k)'
  <2>1. UNCHANGED items
        /\ \A d \in Callers \ {c} : pc'[d] = pc[d] /\ key'[d] = key[d]
    BY <1>10 DEF PruneDrop, DelDrop, Return, Goto, cacheVars, CallersType
  <2>2. CASE key[c] = k
    BY <1>10, <2>2 DEF PruneDrop, DelDrop, CallersType, InSight
  <2>3. CASE key[c] # k
    <3>1. store'[k] = store[k]
      BY <1>10, <2>3 DEF PruneDrop, DelDrop, CallersType
    <3> QED
      BY <2>1, <2>3, <3>1 DEF InSight
  <2> QED
    BY <2>2, <2>3
<1> QED
  BY <1>2, <1>3, <1>4, <1>5, <1>6, <1>7, <1>8, <1>9, <1>10 DEF Next, Work

\* With any number of callers, a stored value stays tracked, or about to be
\* dropped, until its own Put stores it again or the store fails to drop it: no
\* interleaving of addItem, evict and the unlocked calls of the store
\* (lru_manager.go:76-90, 118-123, 164-182) hides a value in any other way.
THEOREM ValuesStayInSight == Spec => LostSightOnlyByLatePut
<1>1. Init => CallersType /\ CacheOK
  BY InitOK
<1>2. CallersType /\ CacheOK /\ [Next]_vars => (CallersType /\ CacheOK)'
  BY NextKeepsCallers, NextKeepsCache
<1>3. CallersType /\ CacheOK /\ [Next]_vars =>
        [\A k \in Keys : InSight(k) =>
            \/ InSight(k)'
            \/ \E c \in Callers :
                  /\ key[c] = k
                  /\ PutStore(c) \/ ((PruneDrop(c) \/ DelDrop(c)) /\ UNCHANGED store)]_vars
  BY NextKeepsSight
<1> QED
  BY <1>1, <1>2, <1>3, PTL DEF Spec, LostSightOnlyByLatePut
-----------------------------------------------------------------------------
\* One caller: the mutex and the budget, whatever methods it calls.

\* prune looks for the last item only while the cushion is missing, and then
\* there is one.
ShortInv(c) ==
    /\ MutexFree
    /\ pc[c] \in {"prune_tail", "prune_evict"} => capacity < Cushion

LEMMA NextKeepsShort ==
    ASSUME NEW c, Callers = {c}, CallersType, CacheOK, ShortInv(c), [Next]_vars
    PROVE  ShortInv(c)'
<1>1. /\ c \in Callers /\ pc \in [Callers -> Locations]
      /\ capacity \in Int /\ Cushion \in Nat /\ Cushion <= Capacity
  BY CushionFacts DEF CallersType, CacheOK, CacheType
<1>2. ASSUME NEW there, Goto(c, there) PROVE pc'[c] = there
  BY <1>1, <1>2 DEF Goto
<1>3. ASSUME Return(c) PROVE pc'[c] = "idle"
  BY <1>2, <1>3 DEF Return
<1>4. CASE CallPut(c) \/ CallGet(c) \/ CallDel(c)
  BY <1>2, <1>4 DEF CallPut, CallGet, CallDel, Begin, ShortInv, MutexFree
<1>5. CASE PutTrack(c) \/ PutStore(c) \/ PruneEnter(c) \/ PruneDrop(c)
  BY <1>2, <1>3, <1>5
     DEF PutTrack, PutStore, PruneEnter, PruneDrop, ShortInv, MutexFree
<1>6. CASE PruneCheck(c)
  BY <1>2, <1>3, <1>6 DEF PruneCheck, cacheVars, ShortInv, MutexFree
<1>7. CASE PruneTail(c)
  <2>1. capacity < Cushion /\ At(c, "prune_tail") /\ UNCHANGED capacity
    BY <1>7 DEF PruneTail, At, ShortInv, cacheVars
  <2>2. order # <<>>
    BY <1>1, <2>1, EmptyListMeansFullBudget, CapacityAssumption
  <2> QED
    BY <1>7, <2>1, <2>2 DEF PruneTail, ShortInv, MutexFree
<1>8. CASE PruneEvict(c) \/ GetRead(c) \/ GetTrack(c) \/ DelEvict(c) \/ DelDrop(c)
  BY <1>2, <1>3, <1>8
     DEF PruneEvict, GetRead, GetTrack, DelEvict, DelDrop, ShortInv, MutexFree
<1>9. CASE UNCHANGED vars
  BY <1>9 DEF vars, ShortInv, MutexFree
<1> QED
  BY <1>1, <1>4, <1>5, <1>6, <1>7, <1>8, <1>9 DEF Next, Work

LEMMA NextKeepsBudget ==
    ASSUME NEW c, Callers = {c}, StoreMayFail = FALSE, CallersType, CacheOK,
           SyncInv(c), OverBudgetOnlyDuringPut, [Next]_vars
    PROVE  OverBudgetOnlyDuringPut'
<1>1. /\ c \in Callers /\ pc \in [Callers -> Locations]
      /\ capacity \in Int /\ Cushion \in Nat /\ Cushion >= 1
  BY CushionFacts DEF CallersType, CacheOK, CacheType
<1>2. ASSUME NEW there, Goto(c, there) PROVE pc'[c] = there
  BY <1>1, <1>2 DEF Goto
<1>3. ASSUME Return(c) PROVE pc'[c] = "idle"
  BY <1>2, <1>3 DEF Return
<1>4. ASSUME pc'[c] \in PutLocations PROVE OverBudgetOnlyDuringPut'
  BY <1>1, <1>4 DEF OverBudgetOnlyDuringPut
<1>5. ASSUME pc[c] \notin PutLocations, capacity' >= capacity, capacity' \in Int
      PROVE  OverBudgetOnlyDuringPut'
  BY <1>1, <1>5 DEF OverBudgetOnlyDuringPut
<1>6. ASSUME capacity' > 0, capacity' \in Int PROVE OverBudgetOnlyDuringPut'
  BY <1>6 DEF OverBudgetOnlyDuringPut
<1>7. CASE CallPut(c) \/ CallGet(c) \/ CallDel(c)
  BY <1>1, <1>5, <1>7 DEF CallPut, CallGet, CallDel, Begin, At, PutLocations, cacheVars
<1>8. CASE PutTrack(c) \/ PutStore(c) \/ PruneEvict(c) \/ PruneDrop(c)
  BY <1>2, <1>4, <1>8 DEF PutTrack, PutStore, PruneEvict, PruneDrop, PutLocations
<1>9. CASE PruneEnter(c)
  BY <1>1, <1>2, <1>4, <1>6, <1>9 DEF PruneEnter, PutLocations, cacheVars
<1>10. CASE PruneCheck(c)
  BY <1>1, <1>2, <1>4, <1>6, <1>10 DEF PruneCheck, PutLocations, cacheVars
<1>11. CASE PruneTail(c)
  <2>1. CASE Goto(c, "prune_evict")
    BY <1>2, <1>4, <2>1 DEF PutLocations
  <2>2. CASE order = <<>> /\ UNCHANGED cacheVars
    BY <1>1, <1>6, <2>2, EmptyListMeansFullBudget, CapacityAssumption DEF cacheVars
  <2> QED
    BY <1>11, <2>1, <2>2 DEF PruneTail
<1>12. CASE GetRead(c) \/ DelDrop(c)
  BY <1>1, <1>5, <1>12 DEF GetRead, DelDrop, At, PutLocations, cacheVars
<1>13. CASE DelEvict(c)
  BY <1>1, <1>5, <1>13, EvictGivesBack DEF DelEvict, At, PutLocations
<1>14. CASE GetTrack(c)
  <2>1. At(c, "get_track") /\ key[c] \in Keys /\ store[key[c]] \in Sizes \cup {0}
    BY <1>1, <1>14 DEF GetTrack, At, CallersType
  <2>2. size[c] = store[key[c]] /\ Same(key[c])
    BY <2>1 DEF SyncInv, At
  <2>3. ~(key[c] \notin DOMAIN items /\ size[c] > 0)
    BY <2>1, <2>2, SizesAssumption DEF Same
  <2>4. UNCHANGED capacity
    BY <1>14, <2>3 DEF GetTrack, cacheVars
  <2> QED
    BY <1>1, <1>5, <2>1, <2>4 DEF At, PutLocations
<1>15. CASE UNCHANGED vars
  BY <1>15 DEF vars, OverBudgetOnlyDuringPut
<1> QED
  BY <1>1, <1>7, <1>8, <1>9, <1>10, <1>11, <1>12, <1>13, <1>14, <1>15 DEF Next, Work

\* One caller may call Get, too: over a store that does not fail a Get never
\* charges bytes, since what is stored is tracked, and every Put leaves room.
THEOREM OneCallerKeepsBudget ==
    ASSUME NEW caller, Callers = {caller}, StoreMayFail = FALSE
    PROVE  Spec => []OverBudgetOnlyDuringPut
<1> DEFINE Inv == CallersType /\ CacheOK /\ SyncInv(caller) /\ OverBudgetOnlyDuringPut
<1>1. Init => Inv
  <2>1. Init => OverBudgetOnlyDuringPut
    BY CapacityAssumption DEF Init, OverBudgetOnlyDuringPut
  <2> QED
    BY <2>1, InitOK DEF Init, SyncInv, Same, At
<1>2. Inv /\ [Next]_vars => Inv'
  BY NextKeepsCallers, NextKeepsCache, NextKeepsSync, NextKeepsBudget
<1>3. Inv => OverBudgetOnlyDuringPut
  OBVIOUS
<1> QED
  BY <1>1, <1>2, <1>3, PTL DEF Spec

-----------------------------------------------------------------------------
\* One caller: every step brings a call nearer to its return.

\* A bound of the steps a call has left, with n keys tracked: a round of prune
\* is four steps and tracks one key less.
CallLeft(p, n) ==
    CASE p = "put_track" -> 4 * n + 12
      [] p = "put_store" -> 4 * n + 6
      [] p = "prune" -> 4 * n + 5
      [] p = "prune_check" -> 4 * n + 4
      [] p = "prune_tail" -> 4 * n + 3
      [] p = "prune_evict" -> 4 * n + 2
      [] p = "prune_drop" -> 4 * n + 5
      [] p \in {"get_read", "del_evict"} -> 3
      [] p \in {"get_track", "del_drop"} -> 2
      [] p = "idle" -> 0

CallsComeNearer ==
    \A c \in Callers :
        Work(c) => CallLeft(pc'[c], Cardinality(DOMAIN items'))
                     < CallLeft(pc[c], Cardinality(DOMAIN items))

\* The key that prune has read from the list is still tracked when it evicts it.
TailInv(c) == At(c, "prune_evict") => key[c] \in DOMAIN items

\* Tracking a key is one key more at most, evicting one that is tracked one less.
LEMMA TrackedCount ==
    ASSUME CacheOK
    PROVE  /\ Cardinality(DOMAIN items) \in Nat
           /\ \A k : Cardinality(DOMAIN items \cup {k}) \in Nat
                     /\ Cardinality(DOMAIN items \cup {k}) <= Cardinality(DOMAIN items) + 1
           /\ \A k \in DOMAIN items :
                 Cardinality(DOMAIN items \ {k}) = Cardinality(DOMAIN items) - 1
<1>1. IsFiniteSet(DOMAIN items)
  BY FiniteAssumption, FS_Subset DEF CacheOK, CacheType
<1>2. Cardinality(DOMAIN items) \in Nat
  BY <1>1, FS_CardinalityType
<1>3. ASSUME NEW k
      PROVE  /\ Cardinality(DOMAIN items \cup {k}) \in Nat
             /\ Cardinality(DOMAIN items \cup {k}) <= Cardinality(DOMAIN items) + 1
  <2>1. CASE k \in DOMAIN items
    <3>1. DOMAIN items \cup {k} = DOMAIN items
      BY <2>1
    <3> QED
      BY <1>2, <3>1
  <2>2. CASE k \notin DOMAIN items
    <3>1. Cardinality(DOMAIN items \cup {k}) = Cardinality(DOMAIN items) + 1
      BY <1>1, <2>2, FS_AddElement
    <3> QED
      BY <1>2, <3>1
  <2> QED
    BY <2>1, <2>2
<1>4. \A k \in DOMAIN items :
          Cardinality(DOMAIN items \ {k}) = Cardinality(DOMAIN items) - 1
  BY <1>1, FS_RemoveElement
<1> QED
  BY <1>2, <1>3, <1>4

LEMMA NextKeepsTail ==
    ASSUME NEW c, Callers = {c}, CallersType, CacheOK, TailInv(c), [Next]_vars
    PROVE  TailInv(c)'
<1>1. c \in Callers /\ pc \in [Callers -> Locations] /\ key \in [Callers -> Keys \cup {NoKey}]
  BY DEF CallersType
<1>2. ASSUME NEW there, Goto(c, there) PROVE pc'[c] = there
  BY <1>1, <1>2 DEF Goto
<1>3. ASSUME Return(c) PROVE pc'[c] = "idle"
  BY <1>2, <1>3 DEF Return
<1>4. CASE PruneTail(c)
  <2>1. CASE order # <<>> /\ key' = [key EXCEPT ![c] = Last(order)] /\ UNCHANGED items
    <3>1. Last(order) \in ToSet(order)
      BY <2>1 DEF CacheOK, CacheType, Last, ToSet
    <3>2. key'[c] \in DOMAIN items'
      BY <1>1, <2>1, <3>1 DEF CacheOK, ListMatchesItems
    <3> QED
      BY <3>2 DEF TailInv
  <2>2. CASE Return(c)
    BY <1>3, <2>2 DEF TailInv, At
  <2> QED
    BY <1>4, <2>1, <2>2 DEF PruneTail, cacheVars
<1>5. CASE Next /\ ~PruneTail(c)
  <2>1. pc'[c] # "prune_evict"
    BY <1>1, <1>2, <1>3, <1>5
    DEF Next, Work, CallPut, CallGet, CallDel, Begin, PutTrack, PutStore, PruneEnter,
        PruneCheck, PruneEvict, PruneDrop, GetRead, GetTrack, DelEvict, DelDrop
  <2> QED
    BY <2>1 DEF TailInv, At
<1>6. CASE UNCHANGED vars
  BY <1>6 DEF vars, TailInv, At
<1> QED
  BY <1>4, <1>5, <1>6

LEMMA WorkComesNearer ==
    ASSUME NEW c \in Callers, CallersType, CacheOK, TailInv(c), Work(c)
    PROVE  CallLeft(pc'[c], Cardinality(DOMAIN items'))
             < CallLeft(pc[c], Cardinality(DOMAIN items))
<1> DEFINE n == Cardinality(DOMAIN items)
           n1 == Cardinality(DOMAIN items')
<1>1. pc \in [Callers -> Locations] /\ n \in Nat
  BY TrackedCount DEF CallersType
<1>2. ASSUME NEW there, Goto(c, there) PROVE pc'[c] = there
  BY <1>1, <1>2 DEF Goto
<1>3. ASSUME Return(c) PROVE pc'[c] = "idle"
  BY <1>2, <1>3 DEF Return
<1>4. CASE PutTrack(c)
  <2>1. pc[c] = "put_track" /\ pc'[c] = "put_store"
    BY <1>2, <1>4 DEF PutTrack, At
  <2>2. DOMAIN items' = DOMAIN items \cup {key[c]}
    BY <1>4 DEF PutTrack, AddItem, CacheOK, CacheType
  <2>3. n1 \in Nat /\ n1 <= n + 1
    BY <2>2, TrackedCount
  <2>4. CallLeft(pc[c], n) = 4 * n + 12 /\ CallLeft(pc'[c], n1) = 4 * n1 + 6
    BY <2>1 DEF CallLeft
  <2>5. CallLeft(pc'[c], n1) < CallLeft(pc[c], n)
    <3> HIDE DEF n, n1
    <3> QED
      BY <1>1, <2>3, <2>4
  <2> QED
    BY <2>5
<1>5. CASE PruneEvict(c)
  <2>1. pc[c] = "prune_evict" /\ pc'[c] = "prune_drop"
    BY <1>2, <1>5 DEF PruneEvict, At
  <2>2. key[c] \in DOMAIN items
    BY <2>1 DEF TailInv, At
  <2>3. DOMAIN items' = DOMAIN items \ {key[c]}
    BY <1>5, <2>2 DEF PruneEvict, EvictIfTracked, Evict, Restrict
  <2>4. n1 = n - 1
    BY <2>2, <2>3, TrackedCount
  <2>5. CallLeft(pc[c], n) = 4 * n + 2 /\ CallLeft(pc'[c], n1) = 4 * n1 + 5
    BY <2>1 DEF CallLeft
  <2>6. CallLeft(pc'[c], n1) < CallLeft(pc[c], n)
    <3> HIDE DEF n, n1
    <3> QED
      BY <1>1, <2>4, <2>5
  <2> QED
    BY <2>6
<1>6. CASE PutStore(c) \/ PruneEnter(c) \/ PruneCheck(c) \/ PruneTail(c) \/ PruneDrop(c)
  <2>1. n1 = n
    BY <1>6 DEF PutStore, PruneEnter, PruneCheck, PruneTail, PruneDrop, cacheVars
  <2>2. \/ pc[c] = "put_store" /\ pc'[c] = "prune"
        \/ pc[c] = "prune" /\ pc'[c] \in {"idle", "prune_check"}
        \/ pc[c] = "prune_check" /\ pc'[c] \in {"idle", "prune_tail"}
        \/ pc[c] = "prune_tail" /\ pc'[c] \in {"idle", "prune_evict"}
        \/ pc[c] = "prune_drop" /\ pc'[c] = "prune_check"
    BY <1>2, <1>3, <1>6 DEF PutStore, PruneEnter, PruneCheck, PruneTail, PruneDrop, At
  <2>3. CallLeft(pc'[c], n1) < CallLeft(pc[c], n)
    <3> HIDE DEF n, n1
    <3> QED
      BY <1>1, <2>1, <2>2 DEF CallLeft
  <2> QED
    BY <2>3
<1>7. CASE GetRead(c) \/ GetTrack(c) \/ DelEvict(c) \/ DelDrop(c)
  <2>1. \/ pc[c] = "get_read" /\ pc'[c] = "get_track"
        \/ pc[c] = "get_track" /\ pc'[c] = "idle"
        \/ pc[c] = "del_evict" /\ pc'[c] = "del_drop"
        \/ pc[c] = "del_drop" /\ pc'[c] = "idle"
    BY <1>2, <1>3, <1>7 DEF GetRead, GetTrack, DelEvict, DelDrop, At
  <2> QED
    BY <2>1 DEF CallLeft
<1> QED
  BY <1>4, <1>5, <1>6, <1>7 DEF Work

\* For one caller the mutex is free whenever a call wants it, and every step
\* brings a call nearer to its return: a Put of a manager that tracks n keys
\* returns after at most 4 * n + 12 steps, whatever was overrun, because each
\* round of prune finds a tracked key to evict (lru_manager.go:158-174).
THEOREM OneCallerComesNearer ==
    ASSUME NEW caller, Callers = {caller}
    PROVE  Spec => [](mu = Unlocked) /\ [][CallsComeNearer]_vars
<1> DEFINE Inv == CallersType /\ CacheOK /\ ShortInv(caller) /\ TailInv(caller)
<1>1. Init => Inv
  BY InitOK DEF Init, ShortInv, MutexFree, TailInv, At
<1>2. Inv /\ [Next]_vars => Inv'
  BY NextKeepsCallers, NextKeepsCache, NextKeepsShort, NextKeepsTail
<1>3. Inv => mu = Unlocked
  BY DEF ShortInv, MutexFree
<1>4. Inv /\ [Next]_vars => [CallsComeNearer]_vars
  BY WorkComesNearer DEF CallsComeNearer
<1> QED
  BY <1>1, <1>2, <1>3, <1>4, PTL DEF Spec

-----------------------------------------------------------------------------
\* The mutex is always given back, if the values leave headroom.

NoDel == \A c \in Callers : pc[c] \notin {"del_evict", "del_drop"}

LEMMA NextKeepsNoDel ==
    ASSUME "Del" \notin Ops, CallersType, NoDel, [Next]_vars
    PROVE  NoDel'
  BY DEF CallersType, NoDel, Next, Work, vars, Begin, Goto, Return, At,
         CallPut, CallGet, CallDel, PutTrack, PutStore, PruneEnter, PruneCheck,
         PruneTail, PruneEvict, PruneDrop, GetRead, GetTrack, DelEvict, DelDrop

LEMMA Monotone ==
    ASSUME NEW a \in Nat, NEW b \in Nat, NEW m \in Nat, a <= b
    PROVE  a * m <= b * m
<1>1. PICK d \in Nat : b = a + d
  <2>1. b - a \in Nat /\ b = a + (b - a)
    OBVIOUS
  <2> QED
    BY <2>1
<1>2. b * m = a * m + d * m
  BY <1>1
<1>3. d * m \in Nat /\ a * m \in Nat
  BY <1>1
<1> QED
  BY <1>2, <1>3

LEMMA PrunersFinite ==
    /\ IsFiniteSet(Callers \ Pruners)
    /\ Cardinality(Callers \ Pruners) \in Nat
  BY FiniteAssumption, FS_Difference, FS_CardinalityType

\* Steps that evict nothing and let nobody pass the loop test.
LEMMA EnoughItemsPreserved ==
    ASSUME CacheOK, CacheType', EnoughItems,
           Pruners' = Pruners, DOMAIN items \subseteq DOMAIN items'
    PROVE  EnoughItems'
<1> DEFINE n == Cardinality(DOMAIN items)
           n1 == Cardinality(DOMAIN items')
           o == Cardinality(Callers \ Pruners)
<1>1. IsFiniteSet(DOMAIN items) /\ IsFiniteSet(DOMAIN items')
  BY FiniteAssumption, FS_Subset DEF CacheOK, CacheType
<1>2. n \in Nat /\ n1 \in Nat /\ n <= n1 /\ o \in Nat
  BY <1>1, FS_CardinalityType, FS_Subset, PrunersFinite
<1>3. (n + o) * MaxSize <= (n1 + o) * MaxSize
  <2> HIDE DEF n, n1, o
  <2> QED
    BY <1>2, Monotone, MaxSizeAssumption
<1>4. (n + o) * MaxSize \in Nat /\ (n1 + o) * MaxSize \in Nat
  <2> HIDE DEF n, n1, o
  <2> QED
    BY <1>2, MaxSizeAssumption
<1>5. Pruners' # {} => (n1 + o) * MaxSize > Capacity - Cushion
  <2> HIDE DEF n1
  <2> QED
    BY <1>3, <1>4, CapacityAssumption, CushionFacts DEF EnoughItems
<1> QED
  BY <1>5 DEF EnoughItems

\* The loop test: a missing cushion means enough tracked items.
LEMMA EnoughItemsAtCheck ==
    ASSUME CacheOK, capacity < Cushion, UNCHANGED cacheVars
    PROVE  EnoughItems'
<1> DEFINE n == Cardinality(DOMAIN items)
           o == Cardinality(Callers \ Pruners')
<1>1. /\ IsFiniteSet(DOMAIN items) /\ items \in [DOMAIN items -> Nat]
      /\ \A k \in DOMAIN items : items[k] <= MaxSize
  BY ItemsFinite, MaxSizeAssumption DEF CacheOK, CacheType
<1>2. n \in Nat /\ o \in Nat
  BY <1>1, FS_CardinalityType, FiniteAssumption, FS_Difference
<1>3. Cardinality(Bytes(items)) <= n * MaxSize
  BY <1>1, MaxSizeAssumption, BytesBound
<1>4. IsFiniteSet(Bytes(items))
  <2>1. IsFiniteSet(DOMAIN items) /\ items \in [DOMAIN items -> Nat]
    BY <1>1
  <2> QED
    BY <2>1, BytesFinite
<1>5. Used \in Nat /\ Used <= n * MaxSize
  BY <1>3, <1>4, FS_CardinalityType DEF Used
<1>6. Used > Capacity - Cushion
  BY <1>5, CapacityAssumption, CushionFacts DEF CacheOK, Accounting
<1>7. n * MaxSize <= (n + o) * MaxSize
  <2> HIDE DEF n, o
  <2> QED
    BY <1>2, Monotone, MaxSizeAssumption
<1>8. n * MaxSize \in Nat /\ (n + o) * MaxSize \in Nat
  <2> HIDE DEF n, o
  <2> QED
    BY <1>2, MaxSizeAssumption
<1>9. (n + o) * MaxSize > Capacity - Cushion
  <2> HIDE DEF n, o
  <2> QED
    BY <1>5, <1>6, <1>7, <1>8, CapacityAssumption, CushionFacts
<1> QED
  BY <1>9 DEF EnoughItems, cacheVars

\* An eviction takes at most one item and makes one pruner look again.
LEMMA EnoughItemsAfterEviction ==
    ASSUME CacheOK, CacheType', EnoughItems, NEW c \in Pruners,
           Pruners' = Pruners \ {c}, NEW k, EvictIfTracked(k)
    PROVE  EnoughItems'
<1> DEFINE n == Cardinality(DOMAIN items)
           n1 == Cardinality(DOMAIN items')
           o == Cardinality(Callers \ Pruners)
           o1 == Cardinality(Callers \ Pruners')
<1>1. IsFiniteSet(DOMAIN items)
  BY ItemsFinite DEF CacheOK
<1>2. DOMAIN items' = DOMAIN items \ {k} \/ DOMAIN items' = DOMAIN items
  BY DEF EvictIfTracked, Evict, Restrict, cacheVars
<1>3. n \in Nat /\ n1 \in Nat /\ n1 >= n - 1
  <2>1. n \in Nat
    BY <1>1, FS_CardinalityType
  <2>2. IsFiniteSet(DOMAIN items \ {k}) /\ Cardinality(DOMAIN items \ {k}) >= n - 1
    BY <1>1, <2>1, FS_RemoveElement
  <2>3. Cardinality(DOMAIN items \ {k}) \in Nat
    BY <2>2, FS_CardinalityType
  <2>4. CASE DOMAIN items' = DOMAIN items \ {k}
    BY <2>1, <2>2, <2>3, <2>4
  <2>5. CASE DOMAIN items' = DOMAIN items
    BY <2>1, <2>5
  <2> QED
    BY <1>2, <2>4, <2>5
<1>4. o \in Nat /\ o1 = o + 1
  <2>1. Callers \ Pruners' = (Callers \ Pruners) \cup {c} /\ c \notin Callers \ Pruners
    BY DEF Pruners
  <2> QED
    BY <2>1, PrunersFinite, FS_AddElement
<1>5. (n + o) * MaxSize <= (n1 + o1) * MaxSize
  <2> HIDE DEF n, n1, o, o1
  <2>1. n + o \in Nat /\ n1 + o1 \in Nat /\ n + o <= n1 + o1
    BY <1>3, <1>4
  <2> QED
    BY <2>1, Monotone, MaxSizeAssumption
<1>6. (n + o) * MaxSize \in Nat /\ (n1 + o1) * MaxSize \in Nat
  <2> HIDE DEF n, n1, o, o1
  <2> QED
    BY <1>3, <1>4, MaxSizeAssumption
<1>7. (n + o) * MaxSize > Capacity - Cushion
  BY DEF EnoughItems
<1>8. (n1 + o1) * MaxSize > Capacity - Cushion
  <2> HIDE DEF n, n1, o, o1
  <2> QED
    BY <1>5, <1>6, <1>7, CapacityAssumption, CushionFacts
<1> QED
  BY <1>8 DEF EnoughItems

\* A pruner does not find the list empty.
LEMMA TailExists ==
    ASSUME Headroom, CacheOK, EnoughItems, NEW c \in Pruners
    PROVE  order # <<>>
<1> SUFFICES ASSUME order = <<>> PROVE FALSE
  OBVIOUS
<1> DEFINE o == Cardinality(Callers \ Pruners)
           N == Cardinality(Callers)
<1>1. Cardinality(DOMAIN items) = 0
  BY EmptyListMeansFullBudget, FS_EmptySet
<1>2. o \in Nat /\ N - 1 \in Nat /\ o <= N - 1
  <2>1. c \in Callers /\ Callers \ Pruners \subseteq Callers \ {c}
    BY DEF Pruners
  <2>2. IsFiniteSet(Callers \ {c}) /\ Cardinality(Callers \ {c}) = N - 1
    BY <2>1, FiniteAssumption, FS_RemoveElement
  <2>3. Cardinality(Callers \ {c}) \in Nat
    BY <2>2, FS_CardinalityType
  <2> QED
    BY <2>1, <2>2, <2>3, FS_Subset, PrunersFinite
<1>3. o * MaxSize <= (N - 1) * MaxSize
  <2> HIDE DEF o, N
  <2> QED
    BY <1>2, Monotone, MaxSizeAssumption
<1>4. (0 + o) * MaxSize > Capacity - Cushion
  BY <1>1 DEF EnoughItems
<1>5. o * MaxSize > Capacity - Cushion
  BY <1>2, <1>4
<1>6. (N - 1) * MaxSize <= Capacity - Cushion
  BY DEF Headroom
<1>7. o * MaxSize \in Nat /\ (N - 1) * MaxSize \in Nat
  <2> HIDE DEF o, N
  <2> QED
    BY <1>2, MaxSizeAssumption
<1> QED
  <2> HIDE DEF o, N
  <2> QED
    BY <1>3, <1>5, <1>6, <1>7, CapacityAssumption, CushionFacts

LEMMA NextKeepsHeadroom ==
    ASSUME Headroom, CallersType, CacheOK, CacheType', NoDel, HeadroomInv,
           [Next]_vars
    PROVE  HeadroomInv'
<1> USE DEF HeadroomInv, MutexFree, At, Goto, Return
<1>1. CASE UNCHANGED vars
  BY <1>1 DEF vars, EnoughItems, Pruners
<1>2. ASSUME NEW c \in Callers, CallPut(c) \/ CallGet(c) \/ CallDel(c)
      PROVE  HeadroomInv'
  <2>1. mu' = mu /\ Pruners' = Pruners /\ items' = items
    BY <1>2 DEF CallPut, CallGet, CallDel, Begin, Pruners, CallersType, cacheVars
  <2> QED
    BY <2>1, EnoughItemsPreserved
<1>3. ASSUME NEW c \in Callers,
             \/ PutTrack(c) \/ PutStore(c) \/ PruneEnter(c) \/ PruneDrop(c)
             \/ GetRead(c) \/ GetTrack(c)
      PROVE  HeadroomInv'
  <2>1. mu' = mu
    BY <1>3 DEF PutTrack, PutStore, PruneEnter, PruneDrop, GetRead, GetTrack
  <2>2. Pruners' = Pruners
    BY <1>3 DEF PutTrack, PutStore, PruneEnter, PruneDrop, GetRead, GetTrack,
                Pruners, CallersType
  <2>3. DOMAIN items \subseteq DOMAIN items'
    <3>1. CASE PutTrack(c)
      BY <3>1 DEF PutTrack, AddItem
    <3>2. CASE GetTrack(c)
      BY <3>2 DEF GetTrack, AddItem, cacheVars
    <3> QED
      BY <1>3, <3>1, <3>2
      DEF PutStore, PruneEnter, PruneDrop, GetRead, cacheVars
  <2> QED
    BY <2>1, <2>2, <2>3, EnoughItemsPreserved
<1>4. ASSUME NEW c \in Callers, PruneCheck(c)
      PROVE  HeadroomInv'
  <2>1. mu' = mu /\ UNCHANGED cacheVars
    BY <1>4 DEF PruneCheck
  <2>2. CASE capacity < Cushion
    BY <2>1, <2>2, EnoughItemsAtCheck
  <2>3. CASE ~(capacity < Cushion)
    <3>1. Pruners' = Pruners
      BY <1>4, <2>3 DEF PruneCheck, Pruners, CallersType
    <3> QED
      BY <2>1, <3>1, EnoughItemsPreserved DEF cacheVars
  <2> QED
    BY <2>2, <2>3
<1>5. ASSUME NEW c \in Callers, PruneTail(c)
      PROVE  HeadroomInv'
  <2>1. c \in Pruners
    BY <1>5 DEF PruneTail, Pruners
  <2>2. order # <<>>
    BY <2>1, TailExists
  <2>3. mu' = mu /\ UNCHANGED cacheVars /\ Pruners' = Pruners
    BY <1>5, <2>2 DEF PruneTail, Pruners, CallersType
  <2> QED
    BY <2>3, EnoughItemsPreserved DEF cacheVars
<1>6. ASSUME NEW c \in Callers, PruneEvict(c)
      PROVE  HeadroomInv'
  <2>1. c \in Pruners /\ Pruners' = Pruners \ {c}
    BY <1>6 DEF PruneEvict, Pruners, CallersType
  <2>2. mu' = mu /\ EvictIfTracked(key[c])
    BY <1>6 DEF PruneEvict
  <2> QED
    BY <2>1, <2>2, EnoughItemsAfterEviction
<1>7. ASSUME NEW c \in Callers, DelEvict(c) \/ DelDrop(c)
      PROVE  FALSE
  BY <1>7 DEF DelEvict, DelDrop, NoDel
<1> QED
  BY <1>1, <1>2, <1>3, <1>4, <1>5, <1>6, <1>7 DEF Next, Work

\* The strengthened invariant behind MutexNeverLeft.
THEOREM HeadroomKept ==
    ASSUME Headroom, "Del" \notin Ops
    PROVE  Spec => []HeadroomInv
<1> DEFINE Inv == CallersType /\ CacheOK /\ NoDel /\ HeadroomInv
<1>1. Init => Inv
  <2> SUFFICES ASSUME Init PROVE NoDel /\ HeadroomInv
    BY InitOK
  <2>1. NoDel /\ MutexFree /\ Pruners = {}
    BY DEF Init, NoDel, MutexFree, Pruners
  <2> QED
    BY <2>1 DEF HeadroomInv, EnoughItems
<1>2. Inv /\ [Next]_vars => Inv'
  <2>1. CacheOK' => CacheType'
    BY DEF CacheOK
  <2> QED
    BY <2>1, NextKeepsCallers, NextKeepsCache, NextKeepsNoDel, NextKeepsHeadroom
<1>3. Inv => HeadroomInv
  OBVIOUS
<1> QED
  BY <1>1, <1>2, <1>3, PTL DEF Spec

\* If n - 1 values of the largest size and the cushion fit into the capacity,
\* n concurrent callers of Put and Get never lock each other out: prune does
\* not take its return with the mutex held.
THEOREM MutexNeverLeft ==
    ASSUME Headroom, "Del" \notin Ops
    PROVE  Spec => []MutexFree
<1>1. HeadroomInv => MutexFree
  BY DEF HeadroomInv
<1> QED
  BY <1>1, HeadroomKept, PTL
=============================================================================
