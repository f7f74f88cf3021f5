--------------------------- MODULE LruOrderProofs ---------------------------
(***************************************************************************)
(* Proofs about the order of use: for one caller, any keys, sizes and      *)
(* capacity, and a store that may fail, the list of the LRU manager is the *)
(* order of the calls, and prune evicts the least recently used key.       *)
(***************************************************************************)
EXTENDS LruOrder, LruProofs

-----------------------------------------------------------------------------
\* Lemmas about what comes before what.

\* Taking a key out of a list keeps the order of the others.
LEMMA RemoveKeepsBefore ==
    ASSUME NEW S, NEW s \in Seq(S), IsInjective(s), NEW e \in S, NEW x, NEW y
    PROVE  /\ Before(RemoveFirst(s, e), x, y) => Before(s, x, y)
           /\ x # e /\ y # e /\ Before(s, x, y) => Before(RemoveFirst(s, e), x, y)
<1> DEFINE r == RemoveFirst(s, e)
<1>1. r \in Seq(S)
  BY RemoveFirstCuts
<1> SUFFICES ASSUME NEW i \in 1 .. Len(s), s[i] = e, Cut(r, s, i)
             PROVE  /\ Before(r, x, y) => Before(s, x, y)
                    /\ x # e /\ y # e /\ Before(s, x, y) => Before(r, x, y)
  BY RemoveFirstCuts
<1> HIDE DEF r
<1>2. /\ DOMAIN s = 1 .. Len(s) /\ DOMAIN r = 1 .. Len(s) - 1 /\ Len(s) \in Nat
      /\ \A j \in 1 .. Len(s) - 1 : r[j] = IF j < i THEN s[j] ELSE s[j + 1]
  BY <1>1 DEF Cut
<1>3. ASSUME Before(r, x, y) PROVE Before(s, x, y)
  <2>1. PICK a \in 1 .. Len(s) - 1, b \in 1 .. Len(s) - 1 : a < b /\ r[a] = x /\ r[b] = y
    BY <1>2, <1>3 DEF Before
  <2> DEFINE up(j) == IF j < i THEN j ELSE j + 1
  <2>2. /\ up(a) \in 1 .. Len(s) /\ up(b) \in 1 .. Len(s) /\ up(a) < up(b)
        /\ s[up(a)] = x /\ s[up(b)] = y
    BY <1>2, <2>1
  <2> QED
    BY <1>2, <2>2 DEF Before
<1>4. ASSUME x # e, y # e, Before(s, x, y) PROVE Before(r, x, y)
  <2>1. PICK a \in 1 .. Len(s), b \in 1 .. Len(s) : a < b /\ s[a] = x /\ s[b] = y
    BY <1>2, <1>4 DEF Before
  <2>2. a # i /\ b # i
    BY <1>4, <2>1
  <2> DEFINE down(j) == IF j < i THEN j ELSE j - 1
  <2>3. ASSUME NEW j \in 1 .. Len(s), j # i
        PROVE  down(j) \in 1 .. Len(s) - 1 /\ r[down(j)] = s[j]
    <3>1. CASE j < i
      BY <1>2, <2>3, <3>1
    <3>2. CASE j > i
      BY <1>2, <2>3, <3>2
    <3> QED
      BY <2>3, <3>1, <3>2
  <2>4. down(a) < down(b)
    BY <2>1, <2>2
  <2> HIDE DEF down
  <2> QED
    BY <1>2, <2>1, <2>2, <2>3, <2>4 DEF Before
<1> QED
  BY <1>3, <1>4

\* A key pushed to the front is before the others, whose order stays.
LEMMA PushFrontBefore ==
    ASSUME NEW S, NEW s \in Seq(S), NEW e \in S, NEW x, NEW y
    PROVE  /\ Before(<<e>> \o s, x, y) => Before(s, x, y) \/ (x = e /\ y \in ToSet(s))
           /\ Before(s, x, y) => Before(<<e>> \o s, x, y)
           /\ y \in ToSet(s) => Before(<<e>> \o s, e, y)
<1> DEFINE r == <<e>> \o s
<1>1. /\ DOMAIN s = 1 .. Len(s) /\ DOMAIN r = 1 .. Len(s) + 1 /\ Len(s) \in Nat
      /\ r[1] = e /\ \A j \in 1 .. Len(s) : r[j + 1] = s[j]
  OBVIOUS
<1>2. \A j \in 2 .. Len(s) + 1 : j - 1 \in 1 .. Len(s) /\ r[j] = s[j - 1]
  BY <1>1
<1> HIDE DEF r
<1>3. ASSUME Before(r, x, y) PROVE Before(s, x, y) \/ (x = e /\ y \in ToSet(s))
  <2>1. PICK a \in 1 .. Len(s) + 1, b \in 1 .. Len(s) + 1 : a < b /\ r[a] = x /\ r[b] = y
    BY <1>1, <1>3 DEF Before
  <2>2. b - 1 \in 1 .. Len(s) /\ y = s[b - 1]
    BY <1>1, <1>2, <2>1
  <2>3. CASE a = 1
    BY <1>1, <2>1, <2>2, <2>3 DEF ToSet
  <2>4. CASE a # 1
    <3>1. a - 1 \in 1 .. Len(s) /\ x = s[a - 1] /\ a - 1 < b - 1
      BY <1>1, <1>2, <2>1, <2>4
    <3> QED
      BY <1>1, <2>2, <3>1 DEF Before
  <2> QED
    BY <2>3, <2>4
<1>4. ASSUME Before(s, x, y) PROVE Before(r, x, y)
  <2>1. PICK a \in 1 .. Len(s), b \in 1 .. Len(s) : a < b /\ s[a] = x /\ s[b] = y
    BY <1>1, <1>4 DEF Before
  <2>2. a + 1 \in DOMAIN r /\ b + 1 \in DOMAIN r /\ a + 1 < b + 1
        /\ r[a + 1] = x /\ r[b + 1] = y
    BY <1>1, <2>1
  <2> QED
    BY <2>2 DEF Before
<1>5. ASSUME y \in ToSet(s) PROVE Before(r, e, y)
  <2>1. PICK b \in 1 .. Len(s) : s[b] = y
    BY <1>1, <1>5 DEF ToSet
  <2>2. 1 \in DOMAIN r /\ b + 1 \in DOMAIN r /\ 1 < b + 1 /\ r[b + 1] = y
    BY <1>1, <2>1
  <2> QED
    BY <1>1, <2>2 DEF Before
<1> QED
  BY <1>3, <1>4, <1>5 DEF r

\* What comes first comes before the rest.
LEMMA FirstBefore ==
    ASSUME NEW S, NEW s \in Seq(S), s # <<>>, NEW y \in ToSet(s), y # s[1]
    PROVE  Before(s, s[1], y)
<1>1. PICK b \in 1 .. Len(s) : s[b] = y
  BY DEF ToSet
<1>2. 1 \in DOMAIN s /\ b \in DOMAIN s /\ 1 < b
  BY <1>1
<1> QED
  BY <1>1, <1>2 DEF Before

\* Both keys are in the list.
LEMMA BeforeInside ==
    ASSUME NEW S, NEW s \in Seq(S), NEW x, NEW y, Before(s, x, y)
    PROVE  x \in ToSet(s) /\ y \in ToSet(s) /\ (IsInjective(s) => x # y)
BY DEF Before, ToSet, IsInjective

-----------------------------------------------------------------------------
\* The inductive invariant.

\* A call that has named its key, which recent has in front, and not yet
\* tracked or promoted it.
Named(c) == pc[c] \in {"put_track", "get_read", "get_track"}

RecentType == recent \in Seq(Keys) /\ IsInjective(recent)

\* The list keeps the order of use but for the key of the call in progress,
\* and that call evicts the last of the list.
OrderInv(c) ==
    /\ RecentType
    /\ DOMAIN items \subseteq ToSet(recent)
    /\ Named(c) => recent # <<>> /\ recent[1] = key[c]
    /\ At(c, "prune_evict") => order # <<>> /\ key[c] = Last(order)
    /\ \A j, k \in Keys :
          Before(order, j, k) => Newer(j, k) \/ (Named(c) /\ key[c] \in {j, k})

\* A Put or a Get is now the latest.
LEMMA UsesKeeps ==
    ASSUME RecentType, NEW c, NEW k \in Keys, Uses(c, k)
    PROVE  /\ RecentType'
           /\ recent' # <<>> /\ recent'[1] = k
           /\ ToSet(recent') = ToSet(recent) \cup {k}
           /\ \A x, y : x # k /\ y # k /\ Newer(x, y) => Newer(x, y)'
<1> DEFINE rest == RemoveFirst(recent, k)
<1>1. recent \in Seq(Keys) /\ IsInjective(recent)
  BY DEF RecentType
<1>2. rest \in Seq(Keys) /\ IsInjective(rest) /\ ToSet(rest) = ToSet(recent) \ {k}
  BY <1>1, RemoveFirstFacts
<1>3. ASSUME NEW x, NEW y, x # k, y # k, Newer(x, y) PROVE Before(rest, x, y)
  BY <1>1, <1>3, RemoveKeepsBefore DEF Newer
<1>4. recent' = <<k>> \o rest
  BY DEF Uses
<1> HIDE DEF rest
<1>5. recent' \in Seq(Keys) /\ IsInjective(recent') /\ ToSet(recent') = ToSet(rest) \cup {k}
  BY <1>2, <1>4, PushFrontFacts
<1>6. recent'[1] = k /\ recent' # <<>>
  BY <1>2, <1>4
<1>7. ASSUME NEW x, NEW y, x # k, y # k, Newer(x, y) PROVE Before(recent', x, y)
  BY <1>2, <1>3, <1>4, <1>7, PushFrontBefore
<1> QED
  BY <1>2, <1>5, <1>6, <1>7 DEF RecentType, Newer

\* The latest key in front of keys that are in order.
LEMMA FrontInOrder ==
    ASSUME RecentType, recent # <<>>, NEW list \in Seq(Keys),
           recent[1] \notin ToSet(list), ToSet(list) \subseteq ToSet(recent),
           \A x, y \in Keys : Before(list, x, y) => Newer(x, y)
    PROVE  \A x, y \in Keys : Before(<<recent[1]>> \o list, x, y) => Newer(x, y)
<1> SUFFICES ASSUME NEW x \in Keys, NEW y \in Keys, Before(<<recent[1]>> \o list, x, y)
             PROVE  Newer(x, y)
  OBVIOUS
<1>1. recent \in Seq(Keys) /\ recent[1] \in Keys
  BY DEF RecentType
<1>2. Before(list, x, y) \/ (x = recent[1] /\ y \in ToSet(list))
  BY <1>1, PushFrontBefore
<1>3. CASE x = recent[1] /\ y \in ToSet(list)
  <2>1. y \in ToSet(recent) /\ y # recent[1]
    BY <1>3
  <2> QED
    BY <1>1, <1>3, <2>1, FirstBefore DEF Newer
<1> QED
  BY <1>2, <1>3

\* The latest key is tracked or promoted.
LEMMA TrackInOrder ==
    ASSUME NEW c \in Callers, CacheOK, OrderInv(c), Named(c), key[c] \in Keys,
           \/ key[c] \in DOMAIN items /\ MoveToFront(key[c])
           \/ key[c] \notin DOMAIN items /\ order' = <<key[c]>> \o order
    PROVE  \A x, y \in Keys : Before(order', x, y) => Newer(x, y)
<1>1. /\ order \in Seq(Keys) /\ IsInjective(order) /\ ToSet(order) = DOMAIN items
      /\ RecentType /\ recent # <<>> /\ recent[1] = key[c] /\ DOMAIN items \subseteq ToSet(recent)
  BY DEF CacheOK, CacheType, ListMatchesItems, OrderInv
<1>2. \A x, y \in Keys : Before(order, x, y) /\ key[c] # x /\ key[c] # y => Newer(x, y)
  BY DEF OrderInv
<1>3. PICK list \in Seq(Keys) :
         /\ order' = <<key[c]>> \o list
         /\ ToSet(list) = ToSet(order) \ {key[c]}
         /\ \A x, y : Before(list, x, y) => Before(order, x, y)
  <2>1. CASE key[c] \in DOMAIN items /\ MoveToFront(key[c])
    <3> DEFINE rest == RemoveFirst(order, key[c])
    <3>1. rest \in Seq(Keys) /\ ToSet(rest) = ToSet(order) \ {key[c]}
      BY <1>1, RemoveFirstFacts
    <3>2. \A x, y : Before(rest, x, y) => Before(order, x, y)
      BY <1>1, RemoveKeepsBefore
    <3>3. order' = <<key[c]>> \o rest
      BY <2>1 DEF MoveToFront
    <3> HIDE DEF rest
    <3> QED
      BY <3>1, <3>2, <3>3
  <2>2. CASE key[c] \notin DOMAIN items /\ order' = <<key[c]>> \o order
    BY <1>1, <2>2
  <2> QED
    BY <2>1, <2>2
<1>4. ASSUME NEW x \in Keys, NEW y \in Keys, Before(list, x, y) PROVE Newer(x, y)
  <2>1. x \in ToSet(list) /\ y \in ToSet(list)
    BY <1>4, BeforeInside
  <2> QED
    BY <1>2, <1>3, <1>4, <2>1
<1>5. recent[1] \notin ToSet(list) /\ ToSet(list) \subseteq ToSet(recent)
  BY <1>1, <1>3
<1> QED
  BY <1>1, <1>3, <1>4, <1>5, FrontInOrder

LEMMA OrderInductive ==
    ASSUME NEW c, Callers = {c}, CallersType, CacheOK, OrderInv(c),
           [OrderNext]_<<vars, recent>>
    PROVE  OrderInv(c)'
<1>1. /\ c \in Callers /\ pc \in [Callers -> Locations] /\ key \in [Callers -> Keys \cup {NoKey}]
      /\ order \in Seq(Keys) /\ IsInjective(order) /\ ToSet(order) = DOMAIN items
      /\ DOMAIN items \subseteq Keys /\ RecentType
  BY DEF CallersType, CacheOK, CacheType, ListMatchesItems, OrderInv
<1>2. ASSUME NEW there, Goto(c, there) PROVE pc'[c] = there
  BY <1>1, <1>2 DEF Goto
<1>3. ASSUME Return(c) PROVE pc'[c] = "idle"
  BY <1>2, <1>3 DEF Return
<1>4. CASE (CallPut(c) \/ CallGet(c)) /\ Uses(c, key'[c])
  <2>1. PICK k \in Keys : key' = [key EXCEPT ![c] = k]
    BY <1>4 DEF CallPut, CallGet, Begin
  <2>2. key'[c] = k /\ k \in Keys
    BY <1>1, <2>1
  <2>3. /\ RecentType' /\ recent' # <<>> /\ recent'[1] = k
        /\ ToSet(recent') = ToSet(recent) \cup {k}
        /\ \A x, y : x # k /\ y # k /\ Newer(x, y) => Newer(x, y)'
    BY <1>1, <1>4, <2>2, UsesKeeps
  <2>4. /\ pc'[c] \in {"put_track", "get_read"} /\ pc[c] = "idle" /\ UNCHANGED <<items, order>>
    BY <1>2, <1>4 DEF CallPut, CallGet, Begin, At, cacheVars
  <2>5. \A x, y \in Keys : Before(order, x, y) => Newer(x, y)
    BY <2>4 DEF OrderInv, Named
  <2>6. \A x, y \in Keys : Before(order', x, y) => Newer(x, y)' \/ k \in {x, y}
    BY <2>3, <2>4, <2>5
  <2>7. DOMAIN items' \subseteq ToSet(recent') /\ Named(c)' /\ ~At(c, "prune_evict")'
    BY <2>3, <2>4 DEF OrderInv, Named, At
  <2> QED
    BY <2>2, <2>3, <2>6, <2>7 DEF OrderInv
<1>5. ASSUME UNCHANGED <<items, order, recent>>, ~At(c, "prune_evict")',
             Named(c) => Named(c)' /\ UNCHANGED key, Named(c)' => Named(c)
      PROVE  OrderInv(c)'
  BY <1>5 DEF OrderInv, RecentType, Newer, Before
<1>6. ASSUME UNCHANGED recent, pc'[c] \notin {"put_track", "get_read", "get_track", "prune_evict"},
             DOMAIN items' \subseteq ToSet(recent),
             \A x, y \in Keys : Before(order', x, y) => Newer(x, y)
      PROVE  OrderInv(c)'
  BY <1>1, <1>6 DEF OrderInv, RecentType, Newer, Named, At
<1>7. CASE CallDel(c) /\ UNCHANGED recent
  <2>1. pc'[c] = "del_evict" /\ pc[c] = "idle" /\ UNCHANGED <<items, order>>
    BY <1>2, <1>7 DEF CallDel, Begin, At, cacheVars
  <2> QED
    BY <1>5, <1>7, <2>1 DEF Named, At
<1>8. CASE PutTrack(c) /\ UNCHANGED recent
  <2>1. pc'[c] = "put_store" /\ Named(c) /\ key[c] \in Keys
    BY <1>2, <1>8 DEF PutTrack, At, Named, CallersType
  <2>2. /\ DOMAIN items' = DOMAIN items \cup {key[c]}
        /\ \/ key[c] \in DOMAIN items /\ MoveToFront(key[c])
           \/ key[c] \notin DOMAIN items /\ order' = <<key[c]>> \o order
    BY <1>8 DEF PutTrack, AddItem
  <2>3. \A x, y \in Keys : Before(order', x, y) => Newer(x, y)
    BY <1>1, <2>1, <2>2, TrackInOrder
  <2>4. key[c] \in ToSet(recent) /\ DOMAIN items \subseteq ToSet(recent)
    BY <1>1, <2>1 DEF OrderInv, RecentType, ToSet
  <2> QED
    BY <1>6, <1>8, <2>1, <2>2, <2>3, <2>4
<1>9. CASE GetTrack(c) /\ UNCHANGED recent
  <2>1. pc'[c] = "idle" /\ Named(c) /\ key[c] \in Keys
    BY <1>3, <1>9 DEF GetTrack, At, Named, CallersType
  <2>2. key[c] \in ToSet(recent) /\ DOMAIN items \subseteq ToSet(recent)
    BY <1>1, <2>1 DEF OrderInv, RecentType, ToSet
  <2>3. CASE key[c] \in DOMAIN items /\ MoveToFront(key[c]) /\ UNCHANGED items
    <3>1. \A x, y \in Keys : Before(order', x, y) => Newer(x, y)
      BY <1>1, <2>1, <2>3, TrackInOrder
    <3> QED
      BY <1>6, <1>9, <2>1, <2>2, <2>3, <3>1
  <2>4. CASE key[c] \notin DOMAIN items /\ AddItem(key[c], size[c])
    <3>1. DOMAIN items' = DOMAIN items \cup {key[c]} /\ order' = <<key[c]>> \o order
      BY <2>4 DEF AddItem
    <3>2. \A x, y \in Keys : Before(order', x, y) => Newer(x, y)
      BY <1>1, <2>1, <2>4, <3>1, TrackInOrder
    <3> QED
      BY <1>6, <1>9, <2>1, <2>2, <3>1, <3>2
  <2>5. CASE key[c] \notin DOMAIN items /\ UNCHANGED cacheVars
    <3>1. ASSUME NEW x \in Keys, NEW y \in Keys, Before(order', x, y) PROVE Newer(x, y)
      <4>1. Before(order, x, y)
        BY <2>5, <3>1 DEF cacheVars
      <4>2. x \in DOMAIN items /\ y \in DOMAIN items
        BY <1>1, <4>1, BeforeInside
      <4> QED
        BY <2>5, <4>1, <4>2 DEF OrderInv
    <3> QED
      BY <1>6, <1>9, <2>1, <2>2, <2>5, <3>1 DEF cacheVars
  <2> QED
    BY <1>9, <2>3, <2>4, <2>5 DEF GetTrack
<1>10. CASE (PruneEvict(c) \/ DelEvict(c)) /\ UNCHANGED recent
  <2>1. /\ pc'[c] \in {"prune_drop", "del_drop"} /\ EvictIfTracked(key[c]) /\ key[c] \in Keys
        /\ pc[c] \in {"prune_evict", "del_evict"}
    BY <1>2, <1>10 DEF PruneEvict, DelEvict, At, CallersType
  <2>2. DOMAIN items' \subseteq DOMAIN items
    BY <2>1 DEF EvictIfTracked, Evict, Restrict, cacheVars
  <2>3. \A x, y : Before(order', x, y) => Before(order, x, y)
    BY <1>1, <2>1, RemoveKeepsBefore DEF EvictIfTracked, Evict, cacheVars
  <2>4. \A x, y \in Keys : Before(order', x, y) => Newer(x, y)
    BY <2>1, <2>3 DEF OrderInv, Named
  <2> QED
    BY <1>6, <1>10, <2>1, <2>2, <2>4 DEF OrderInv
<1>11. CASE PruneTail(c) /\ UNCHANGED recent
  <2>1. UNCHANGED <<items, order>> /\ pc[c] = "prune_tail"
    BY <1>11 DEF PruneTail, At, cacheVars
  <2>2. CASE Return(c)
    BY <1>3, <1>5, <1>11, <2>1, <2>2 DEF Named, At
  <2>3. CASE order # <<>> /\ key' = [key EXCEPT ![c] = Last(order)] /\ Goto(c, "prune_evict")
    <3>1. pc'[c] = "prune_evict" /\ key'[c] = Last(order)
      BY <1>1, <1>2, <2>3
    <3> QED
      BY <1>11, <2>1, <2>3, <3>1 DEF OrderInv, RecentType, Newer, Named, At, Last
  <2> QED
    BY <1>11, <2>2, <2>3 DEF PruneTail
<1>12. CASE /\ PutStore(c) \/ PruneEnter(c) \/ PruneCheck(c) \/ PruneDrop(c) \/ DelDrop(c)
            /\ UNCHANGED recent
  <2>1. /\ UNCHANGED <<items, order>>
        /\ pc[c] \in {"put_store", "prune", "prune_check", "prune_drop", "del_drop"}
    BY <1>12 DEF PutStore, PruneEnter, PruneCheck, PruneDrop, DelDrop, At, cacheVars
  <2>2. pc'[c] \in {"idle", "prune", "prune_check", "prune_tail"}
    BY <1>2, <1>3, <1>12 DEF PutStore, PruneEnter, PruneCheck, PruneDrop, DelDrop
  <2> QED
    BY <1>5, <1>12, <2>1, <2>2 DEF Named, At
<1>13. CASE GetRead(c) /\ UNCHANGED recent
  <2>1. pc[c] = "get_read" /\ pc'[c] = "get_track" /\ UNCHANGED <<items, order, key>>
    BY <1>2, <1>13 DEF GetRead, At, cacheVars
  <2> QED
    BY <1>5, <1>13, <2>1 DEF Named, At
<1>14. CASE UNCHANGED <<vars, recent>>
  BY <1>14 DEF vars, OrderInv, RecentType, Newer, Named, At
<1> QED
  BY <1>4, <1>7, <1>8, <1>9, <1>10, <1>11, <1>12, <1>13, <1>14 DEF OrderNext, Work

LEMMA OrderSpecKeeps ==
    ASSUME NEW caller, Callers = {caller}
    PROVE  OrderSpec => [](CallersType /\ CacheOK /\ OrderInv(caller))
<1>1. OrderInit => CallersType /\ CacheOK /\ OrderInv(caller)
  <2> SUFFICES ASSUME OrderInit PROVE OrderInv(caller)
    BY InitOK DEF OrderInit
  <2>1. recent = <<>> /\ order = <<>> /\ DOMAIN items = {} /\ pc[caller] = "idle"
    BY DEF OrderInit, Init
  <2>2. RecentType /\ \A j, k \in Keys : ~Before(order, j, k)
    BY <2>1 DEF RecentType, IsInjective, Before
  <2> QED
    BY <2>1, <2>2 DEF OrderInv, Named, At
<1>2. CallersType /\ CacheOK /\ OrderInv(caller) /\ [OrderNext]_<<vars, recent>> =>
          (CallersType /\ CacheOK /\ OrderInv(caller))'
  <2>1. [OrderNext]_<<vars, recent>> => [Next]_vars
    BY DEF OrderNext, Next
  <2> QED
    BY <2>1, NextKeepsCallers, NextKeepsCache, OrderInductive
<1> QED
  BY <1>1, <1>2, PTL DEF OrderSpec

\* Between the calls of one caller the list is the order of its Puts and Gets
\* restricted to what is tracked (addItem, MoveToFront and evict of
\* lru_manager.go), for any keys, sizes, capacity and failures of the store.
THEOREM ListIsOrderOfUse ==
    ASSUME NEW caller, Callers = {caller}
    PROVE  OrderSpec => []QuietOrderIsRecency
<1>1. CallersType /\ CacheOK /\ OrderInv(caller) => QuietOrderIsRecency
  <2> SUFFICES ASSUME CacheOK, OrderInv(caller), Quiet PROVE QuietOrderIsRecency
    BY DEF QuietOrderIsRecency
  <2>1. ToSet(order) = DOMAIN items /\ DOMAIN items \subseteq ToSet(recent) /\ ~Named(caller)
    BY DEF CacheOK, ListMatchesItems, OrderInv, Quiet, Named, At
  <2> QED
    BY <2>1 DEF OrderInv, QuietOrderIsRecency
<1> QED
  BY <1>1, OrderSpecKeeps, PTL

\* The key that prune evicts is the tracked one whose latest Put or Get is the
\* oldest (Back of lru_manager.go), whatever the store does.
THEOREM AlwaysEvictsLeastRecent ==
    ASSUME NEW caller, Callers = {caller}
    PROVE  OrderSpec => EvictsLeastRecent
<1>1. CallersType /\ CacheOK /\ OrderInv(caller) /\ [OrderNext]_<<vars, recent>> =>
         [\A c \in Callers : PruneEvict(c) =>
             \A k \in DOMAIN items \ DOMAIN items' :
                 \A j \in DOMAIN items' : Newer(j, k)]_<<vars, recent>>
  <2> SUFFICES ASSUME CallersType, CacheOK, OrderInv(caller), PruneEvict(caller),
                      NEW k \in DOMAIN items \ DOMAIN items', NEW j \in DOMAIN items'
               PROVE  Newer(j, k)
    OBVIOUS
  <2>1. /\ order \in Seq(Keys) /\ IsInjective(order) /\ ToSet(order) = DOMAIN items
        /\ DOMAIN items \subseteq Keys
    BY DEF CacheOK, CacheType, ListMatchesItems
  <2>2. order # <<>> /\ key[caller] = order[Len(order)] /\ ~Named(caller)
    BY DEF OrderInv, PruneEvict, At, Named, Last
  <2>3. DOMAIN items' = DOMAIN items \ {key[caller]}
    BY DEF PruneEvict, EvictIfTracked, Evict, Restrict, cacheVars
  <2>4. PICK i \in 1 .. Len(order) : order[i] = j
    BY <2>1, <2>3 DEF ToSet
  <2>5. i # Len(order) /\ k = order[Len(order)]
    BY <2>2, <2>3, <2>4
  <2>6. i < Len(order) /\ i \in DOMAIN order /\ Len(order) \in DOMAIN order
    BY <2>1, <2>2, <2>4, <2>5
  <2>7. Before(order, j, k)
    BY <2>4, <2>5, <2>6 DEF Before
  <2> QED
    BY <2>1, <2>2, <2>3, <2>7 DEF OrderInv
<1> QED
  BY <1>1, OrderSpecKeeps, PTL DEF OrderSpec, EvictsLeastRecent
-----------------------------------------------------------------------------
\* One caller has the cache of RecencyCache.

LEMMA RoomIsCapacity == CacheOK => Cache!Room = capacity
<1> SUFFICES ASSUME CacheOK PROVE Cache!Room = capacity
  OBVIOUS
<1>1. Cache!Cardinality(Bytes(items)) = Cardinality(Bytes(items))
  BY DEF Cache!Cardinality, Cardinality
<1>2. Cache!Room = Capacity - Cache!Cardinality(Bytes(items))
  BY DEF Cache!Room, Bytes
<1> QED
  BY <1>1, <1>2 DEF CacheOK, Accounting, Used

\* A use makes its key the latest and moves no other.
LEMMA UseMovesOne ==
    ASSUME RecentType, NEW c, NEW k \in Keys, Uses(c, k)
    PROVE  UsedSince' = (UsedSince \cap ((Keys \ {k}) \X (Keys \ {k})))
                            \cup ({k} \X (Keys \ {k}))
<1> DEFINE rest == RemoveFirst(recent, k)
<1>1. recent \in Seq(Keys) /\ IsInjective(recent) /\ recent' = <<k>> \o rest
  BY DEF RecentType, Uses
<1>2. rest \in Seq(Keys) /\ IsInjective(rest) /\ ToSet(rest) = ToSet(recent) \ {k}
  BY <1>1, RemoveFirstFacts
<1>3. \A x, y : /\ Before(rest, x, y) => Newer(x, y)
                /\ x # k /\ y # k /\ Newer(x, y) => Before(rest, x, y)
  BY <1>1, RemoveKeepsBefore DEF Newer
<1> HIDE DEF rest
<1>4. \A x, y : /\ Newer(x, y)' => Before(rest, x, y) \/ (x = k /\ y \in ToSet(rest))
                /\ Before(rest, x, y) => Newer(x, y)'
                /\ y \in ToSet(rest) => Newer(k, y)'
  BY <1>1, <1>2, PushFrontBefore DEF Newer
<1>5. ToSet(recent') = ToSet(recent) \cup {k}
  BY <1>1, UsesKeeps
<1>6. \A x, y : Before(rest, x, y) => x \in ToSet(rest) /\ y \in ToSet(rest)
  BY <1>2, BeforeInside
<1> DEFINE Since(x, y) == Newer(x, y) \/ (x \in ToSet(recent) /\ y \notin ToSet(recent))
<1>7. ASSUME NEW x \in Keys, NEW y \in Keys
      PROVE  Since(x, y)' <=> (Since(x, y) /\ x # k /\ y # k) \/ (x = k /\ y # k)
  <2>1. CASE y = k
    <3>1. y \notin ToSet(rest)
      BY <1>2, <2>1
    <3> QED
      BY <1>4, <1>5, <1>6, <2>1, <3>1
  <2>2. CASE y # k /\ x = k
    BY <1>2, <1>4, <1>5, <2>2
  <2>3. CASE y # k /\ x # k
    BY <1>3, <1>4, <1>5, <2>3
  <2> QED
    BY <2>1, <2>2, <2>3
<1>8. UsedSince = {p \in Keys \X Keys : Since(p[1], p[2])}
  BY DEF UsedSince
<1>9. UsedSince' = {p \in Keys \X Keys : Since(p[1], p[2])'}
  BY DEF UsedSince
<1> HIDE DEF Since
<1> QED
  BY <1>7, <1>8, <1>9

\* The latest key was used since every other.
LEMMA LatestSinceAll ==
    ASSUME RecentType, recent # <<>>
    PROVE  {recent[1]} \X (Keys \ {recent[1]}) \subseteq UsedSince
<1>1. recent \in Seq(Keys) /\ recent[1] \in Keys /\ recent[1] \in ToSet(recent)
  BY DEF RecentType, ToSet
<1>2. ASSUME NEW y \in Keys \ {recent[1]}
      PROVE  Newer(recent[1], y) \/ y \notin ToSet(recent)
  BY <1>1, FirstBefore DEF Newer
<1>3. ASSUME NEW y \in Keys \ {recent[1]} PROVE <<recent[1], y>> \in UsedSince
  BY <1>1, <1>2, <1>3 DEF UsedSince
<1> QED
  BY <1>3

\* Every key in the list was used since its last one.
LEMMA AllSinceLast ==
    ASSUME NEW c, CacheOK, OrderInv(c), ~Named(c), order # <<>>
    PROVE  /\ Last(order) \in DOMAIN items
           /\ (DOMAIN items \ {Last(order)}) \X {Last(order)} \subseteq UsedSince
<1>1. /\ order \in Seq(Keys) /\ ToSet(order) = DOMAIN items /\ DOMAIN items \subseteq Keys
      /\ \A j, k \in Keys : Before(order, j, k) => Newer(j, k)
  BY DEF CacheOK, CacheType, ListMatchesItems, OrderInv
<1>2. Last(order) = order[Len(order)] /\ Len(order) \in 1 .. Len(order)
  BY <1>1 DEF Last
<1>3. Last(order) \in DOMAIN items
  BY <1>1, <1>2 DEF ToSet
<1>4. ASSUME NEW j \in DOMAIN items \ {Last(order)} PROVE <<j, Last(order)>> \in UsedSince
  <2>1. PICK i \in 1 .. Len(order) : order[i] = j
    BY <1>1 DEF ToSet
  <2>2. i < Len(order) /\ i \in DOMAIN order /\ Len(order) \in DOMAIN order
    BY <1>1, <1>2, <2>1
  <2>3. Before(order, j, Last(order))
    BY <1>2, <2>1, <2>2 DEF Before
  <2> QED
    BY <1>1, <1>3, <2>3 DEF UsedSince
<1> QED
  BY <1>3, <1>4

\* What is tracked after addItem and after the overwrite of Put.
LEMMA TrackHolds ==
    ASSUME NEW k, NEW s, CacheOK,
           \/ k \in DOMAIN items /\ items' = [items EXCEPT ![k] = s]
           \/ AddItem(k, s)
    PROVE  items' = [j \in DOMAIN items \cup {k} |-> IF j = k THEN s ELSE items[j]]
<1>1. items \in [DOMAIN items -> Sizes]
  BY DEF CacheOK, CacheType
<1>2. CASE k \in DOMAIN items /\ items' = [items EXCEPT ![k] = s]
  <2>1. DOMAIN items \cup {k} = DOMAIN items
    BY <1>2
  <2> QED
    BY <1>1, <1>2, <2>1
<1> QED
  BY <1>2 DEF AddItem

LEMMA StepKeepsRecencyCache ==
    ASSUME NEW c, Callers = {c}, CallersType, CacheOK, OrderInv(c), ShortInv(c),
           [OrderNext]_<<vars, recent>>
    PROVE  [Cache!Next]_<<items, UsedSince, Pruning>>
<1>1. /\ c \in Callers /\ pc \in [Callers -> Locations] /\ key \in [Callers -> Keys \cup {NoKey}]
      /\ capacity \in Int /\ Cushion \in Nat /\ Cushion <= Capacity
  BY CushionFacts DEF CallersType, CacheOK, CacheType
<1>2. ASSUME NEW there, Goto(c, there) PROVE pc'[c] = there
  BY <1>1, <1>2 DEF Goto
<1>3. ASSUME Return(c) PROVE pc'[c] = "idle"
  BY <1>2, <1>3 DEF Return
<1> DEFINE within == {"prune_check", "prune_tail", "prune_evict", "prune_drop"}
<1>4. (Pruning <=> pc[c] \in within) /\ (Pruning' <=> pc'[c] \in within)
  BY DEF Pruning
<1>5. Pruning \in BOOLEAN /\ Pruning' \in BOOLEAN
  BY DEF Pruning
<1>6. Cache!Room = capacity
  BY RoomIsCapacity
<1>7. ASSUME UNCHANGED recent PROVE UNCHANGED UsedSince
  BY <1>7 DEF UsedSince, Newer
<1>8. ASSUME UNCHANGED <<items, recent>>, pc[c] \in within <=> pc'[c] \in within
      PROVE  UNCHANGED <<items, UsedSince, Pruning>>
  BY <1>4, <1>5, <1>7, <1>8
<1>9. CASE (CallPut(c) \/ CallGet(c)) /\ Uses(c, key'[c])
  <2>1. PICK k \in Keys : key' = [key EXCEPT ![c] = k]
    BY <1>9 DEF CallPut, CallGet, Begin
  <2>2. key'[c] = k
    BY <1>1, <2>1
  <2>3. pc[c] = "idle" /\ pc'[c] \in {"put_track", "get_read"} /\ UNCHANGED items
    BY <1>2, <1>9 DEF CallPut, CallGet, Begin, At, cacheVars
  <2>4. ~Pruning /\ UNCHANGED Pruning
    BY <1>4, <1>5, <2>3
  <2>5. UsedSince' = (UsedSince \cap ((Keys \ {k}) \X (Keys \ {k})))
                         \cup ({k} \X (Keys \ {k}))
    BY <1>9, <2>2, UseMovesOne DEF OrderInv
  <2>6. Cache!Use(k)
    BY <2>3, <2>4, <2>5 DEF Cache!Use, Cache!Others
  <2> QED
    BY <2>6 DEF Cache!Next
<1>10. CASE CallDel(c) /\ UNCHANGED recent
  <2>1. pc[c] = "idle" /\ pc'[c] = "del_evict" /\ UNCHANGED items
    BY <1>2, <1>10 DEF CallDel, Begin, At, cacheVars
  <2> QED
    BY <1>8, <1>10, <2>1
<1>11. ASSUME UNCHANGED recent, Named(c), pc'[c] \notin within,
              key[c] \in Keys, NEW s \in Sizes,
              items' = [j \in DOMAIN items \cup {key[c]} |->
                           IF j = key[c] THEN s ELSE items[j]]
       PROVE  Cache!Next
  <2>1. ~Pruning /\ UNCHANGED <<UsedSince, Pruning>>
    BY <1>4, <1>5, <1>7, <1>11 DEF Named
  <2>2. RecentType /\ recent # <<>> /\ recent[1] = key[c]
    BY <1>11 DEF OrderInv
  <2>3. {key[c]} \X (Keys \ {key[c]}) \subseteq UsedSince
    BY <2>2, LatestSinceAll
  <2>4. Cache!Hold(key[c], s)
    BY <1>11, <2>1, <2>3 DEF Cache!Hold, Cache!Others
  <2> QED
    BY <1>11, <2>4 DEF Cache!Next
<1>12. CASE PutTrack(c) /\ UNCHANGED recent
  <2>1. Named(c) /\ pc'[c] = "put_store" /\ key[c] \in Keys /\ size[c] \in Sizes
    BY <1>1, <1>2, <1>12 DEF PutTrack, At, Named, CallersType
  <2>2. items' = [j \in DOMAIN items \cup {key[c]} |-> IF j = key[c] THEN size[c] ELSE items[j]]
    BY <1>12, TrackHolds DEF PutTrack
  <2> QED
    BY <1>11, <1>12, <2>1, <2>2
<1>13. CASE GetTrack(c) /\ UNCHANGED recent
  <2>1. Named(c) /\ pc'[c] = "idle" /\ key[c] \in Keys /\ size[c] \in Sizes \cup {0}
    BY <1>1, <1>3, <1>13 DEF GetTrack, At, Named, CallersType
  <2>2. CASE size[c] > 0 /\ AddItem(key[c], size[c])
    <3>1. size[c] \in Sizes
      BY <2>1, <2>2
    <3>2. items' = [j \in DOMAIN items \cup {key[c]} |-> IF j = key[c] THEN size[c] ELSE items[j]]
      BY <2>2, TrackHolds
    <3> QED
      BY <1>11, <1>13, <2>1, <3>1, <3>2
  <2>3. CASE UNCHANGED items
    BY <1>8, <1>13, <2>1, <2>3 DEF Named
  <2> QED
    BY <1>13, <2>2, <2>3 DEF GetTrack, cacheVars
<1>14. CASE PruneEnter(c) /\ UNCHANGED recent
  <2>1. pc[c] = "prune" /\ UNCHANGED items
    BY <1>14 DEF PruneEnter, At, cacheVars
  <2>2. CASE Return(c)
    BY <1>3, <1>8, <1>14, <2>1, <2>2
  <2>3. CASE capacity <= 0 /\ Goto(c, "prune_check")
    <3>1. Pruning' = TRUE /\ ~Pruning
      BY <1>2, <1>4, <1>5, <2>1, <2>3
    <3>2. Cache!BeginToShrink
      BY <1>6, <1>7, <1>14, <2>1, <2>3, <3>1 DEF Cache!BeginToShrink
    <3> QED
      BY <3>2 DEF Cache!Next
  <2> QED
    BY <1>14, <2>2, <2>3 DEF PruneEnter
<1>15. CASE PruneCheck(c) /\ UNCHANGED recent
  <2>1. pc[c] = "prune_check" /\ UNCHANGED items
    BY <1>15 DEF PruneCheck, At, cacheVars
  <2>2. CASE Goto(c, "prune_tail")
    BY <1>2, <1>8, <1>15, <2>1, <2>2
  <2>3. CASE capacity >= Cushion /\ Return(c)
    <3>1. Pruning /\ Pruning' = FALSE
      BY <1>3, <1>4, <1>5, <2>1, <2>3
    <3>2. Cache!EndShrinking
      BY <1>6, <1>7, <1>15, <2>1, <2>3, <3>1 DEF Cache!EndShrinking
    <3> QED
      BY <3>2 DEF Cache!Next
  <2> QED
    BY <1>15, <2>2, <2>3 DEF PruneCheck
<1>16. CASE PruneTail(c) /\ UNCHANGED recent
  <2>1. pc[c] = "prune_tail" /\ UNCHANGED items /\ capacity < Cushion
    BY <1>16 DEF PruneTail, At, cacheVars, ShortInv
  <2>2. order # <<>>
    BY <1>1, <2>1, EmptyListMeansFullBudget, CapacityAssumption
  <2>3. pc'[c] = "prune_evict"
    BY <1>2, <1>16, <2>2 DEF PruneTail
  <2> QED
    BY <1>8, <1>16, <2>1, <2>3
<1>17. CASE PruneEvict(c) /\ UNCHANGED recent
  <2>1. pc[c] = "prune_evict" /\ pc'[c] = "prune_drop" /\ EvictIfTracked(key[c])
    BY <1>2, <1>17 DEF PruneEvict, At
  <2>2. Pruning /\ UNCHANGED <<UsedSince, Pruning>>
    BY <1>4, <1>5, <1>7, <1>17, <2>1
  <2>3. Cache!Room < Cushion
    BY <1>6, <2>1 DEF ShortInv
  <2>4. /\ key[c] \in DOMAIN items
        /\ (DOMAIN items \ {key[c]}) \X {key[c]} \subseteq UsedSince
    <3>1. order # <<>> /\ key[c] = Last(order) /\ ~Named(c)
      BY <2>1 DEF OrderInv, At, Named
    <3> QED
      BY <3>1, AllSinceLast
  <2>5. items' = [j \in DOMAIN items \ {key[c]} |-> items[j]]
    BY <2>1, <2>4 DEF EvictIfTracked, Evict, Restrict
  <2>6. Cache!LetGo(key[c])
    BY <2>2, <2>3, <2>4, <2>5 DEF Cache!LetGo, Cache!Drop
  <2> QED
    BY <2>4, <2>6 DEF Cache!Next
<1>18. CASE DelEvict(c) /\ UNCHANGED recent
  <2>1. /\ pc[c] = "del_evict" /\ pc'[c] = "del_drop" /\ EvictIfTracked(key[c])
        /\ key[c] \in Keys
    BY <1>1, <1>2, <1>18 DEF DelEvict, At, CallersType
  <2>2. ~Pruning /\ UNCHANGED <<UsedSince, Pruning>>
    BY <1>4, <1>5, <1>7, <1>18, <2>1
  <2>3. CASE key[c] \in DOMAIN items /\ Evict(key[c])
    <3>1. Cache!Forget(key[c])
      BY <2>2, <2>3 DEF Evict, Restrict, Cache!Forget, Cache!Drop
    <3> QED
      BY <2>1, <3>1 DEF Cache!Next
  <2>4. CASE UNCHANGED cacheVars
    BY <2>2, <2>4 DEF cacheVars
  <2> QED
    BY <2>1, <2>3, <2>4 DEF EvictIfTracked
<1>19. CASE (PutStore(c) \/ PruneDrop(c) \/ GetRead(c) \/ DelDrop(c)) /\ UNCHANGED recent
  <2>1. UNCHANGED items
    BY <1>19 DEF PutStore, PruneDrop, GetRead, DelDrop, cacheVars
  <2>2. pc[c] \in within <=> pc'[c] \in within
    BY <1>2, <1>3, <1>19 DEF PutStore, PruneDrop, GetRead, DelDrop, At
  <2> QED
    BY <1>8, <1>19, <2>1, <2>2
<1>20. CASE UNCHANGED <<vars, recent>>
  BY <1>8, <1>20 DEF vars
<1> HIDE DEF within
<1> QED
  BY <1>9, <1>10, <1>12, <1>13, <1>14, <1>15, <1>16, <1>17, <1>18, <1>19, <1>20
     DEF OrderNext, Work

\* One caller of the LRU manager has the cache that RecencyCache describes: for
\* any keys, sizes, capacity and failures of the store, keys go for want of
\* room only, in the order of their last use, until a tenth is free (Put, Get,
\* Del and prune of lru_manager.go).
THEOREM OneCallerKeepsRecencyCache ==
    ASSUME NEW caller, Callers = {caller}
    PROVE  OrderSpec => KeepsRecencyCache
<1> DEFINE Inv == CallersType /\ CacheOK /\ OrderInv(caller) /\ ShortInv(caller)
<1>1. OrderInit => Cache!Init /\ ShortInv(caller)
  <2> SUFFICES ASSUME OrderInit PROVE Cache!Init /\ ShortInv(caller)
    OBVIOUS
  <2>1. recent = <<>> /\ items = [k \in {} |-> 0] /\ pc[caller] = "idle" /\ mu = Unlocked
    BY DEF OrderInit, Init
  <2>2. UsedSince = {}
    BY <2>1 DEF UsedSince, Newer, Before, ToSet
  <2>3. Pruning = FALSE
    BY <2>1 DEF Pruning
  <2> QED
    BY <2>1, <2>2, <2>3 DEF Cache!Init, ShortInv, MutexFree
<1>2. Inv /\ [OrderNext]_<<vars, recent>> =>
          ShortInv(caller)' /\ [Cache!Next]_<<items, UsedSince, Pruning>>
  <2>1. [OrderNext]_<<vars, recent>> => [Next]_vars
    BY DEF OrderNext, Next
  <2> QED
    BY <2>1, NextKeepsShort, StepKeepsRecencyCache
<1> QED
  BY <1>1, <1>2, OrderSpecKeeps, PTL DEF OrderSpec, KeepsRecencyCache, Cache!Spec
=============================================================================
