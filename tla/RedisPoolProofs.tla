-------------------------- MODULE RedisPoolProofs ---------------------------
(***************************************************************************)
(* Proofs about the pool of redis connections, for every finite set of     *)
(* users and every limit.                                                  *)
(***************************************************************************)
EXTENDS RedisPool, FiniteSetTheorems, TLAPS

PoolInv == PoolTypeOK /\ ConnectionsCounted /\ QueueIsWaiting /\ NoLostWakeup

-----------------------------------------------------------------------------
\* Lemmas about the queue.

\* Signal takes the first waiter, if there is one, off the queue.
LEMMA SignalFacts ==
    ASSUME NEW S, NEW q \in Seq(S), IsInjective(q)
    PROVE  /\ Signal(q) \in Seq(S)
           /\ IsInjective(Signal(q))
           /\ ToSet(Signal(q)) \subseteq ToSet(q)
           /\ q = <<>> => Signal(q) = <<>>
           /\ q # <<>> => /\ q[1] \in ToSet(q)
                          /\ ToSet(Signal(q)) = ToSet(q) \ {q[1]}
<1>1. CASE q = <<>>
  BY <1>1 DEF Signal
<1>2. CASE q # <<>>
  <2> DEFINE r == Tail(q)
  <2>1. Signal(q) = r
    BY <1>2 DEF Signal
  <2>2. /\ r \in Seq(S)
        /\ Len(r) = Len(q) - 1
        /\ Len(q) \in Nat \ {0}
        /\ DOMAIN r = 1 .. Len(q) - 1
        /\ DOMAIN q = 1 .. Len(q)
        /\ \A j \in 1 .. Len(q) - 1 : r[j] = q[j + 1]
    BY <1>2
  <2> HIDE DEF r
  <2>3. IsInjective(r)
    <3>1. \A j, k \in 1 .. Len(q) : q[j] = q[k] => j = k
      BY <2>2 DEF IsInjective
    <3>2. ASSUME NEW j \in 1 .. Len(q) - 1, NEW k \in 1 .. Len(q) - 1, r[j] = r[k]
          PROVE  j = k
      <4>1. j + 1 = k + 1
        BY <3>1, <3>2, <2>2
      <4> QED
        BY <4>1
    <3> QED
      BY <3>2, <2>2 DEF IsInjective
  <2>4. q[1] \in ToSet(q)
    BY <2>2 DEF ToSet
  <2>5. ToSet(r) = ToSet(q) \ {q[1]}
    <3>1. ASSUME NEW j \in 1 .. Len(q) - 1
          PROVE  r[j] \in ToSet(q) \ {q[1]}
      <4>1. j + 1 \in 1 .. Len(q) /\ 1 \in 1 .. Len(q) /\ j + 1 # 1
        BY <2>2
      <4> QED
        BY <4>1, <2>2 DEF IsInjective, ToSet
    <3>2. ASSUME NEW j \in 1 .. Len(q), q[j] # q[1]
          PROVE  q[j] \in ToSet(r)
      <4>1. j - 1 \in 1 .. Len(q) - 1 /\ r[j - 1] = q[j]
        BY <3>2, <2>2
      <4> QED
        BY <4>1, <2>2 DEF ToSet
    <3>3. ToSet(r) = {r[j] : j \in 1 .. Len(q) - 1} /\ ToSet(q) = {q[j] : j \in 1 .. Len(q)}
      BY <2>2 DEF ToSet
    <3> QED
      BY <3>1, <3>2, <3>3
  <2> QED
    BY <2>1, <2>2, <2>3, <2>4, <2>5, <1>2
<1> QED
  BY <1>1, <1>2

\* A user that is not in the queue may be appended to it.
LEMMA AppendFacts ==
    ASSUME NEW S, NEW q \in Seq(S), IsInjective(q), NEW u \in S, u \notin ToSet(q)
    PROVE  /\ Append(q, u) \in Seq(S)
           /\ IsInjective(Append(q, u))
           /\ ToSet(Append(q, u)) = ToSet(q) \cup {u}
<1> DEFINE r == Append(q, u)
<1>1. /\ r \in Seq(S)
      /\ DOMAIN q = 1 .. Len(q)
      /\ DOMAIN r = 1 .. Len(q) + 1
      /\ Len(q) \in Nat
      /\ r[Len(q) + 1] = u
      /\ \A j \in 1 .. Len(q) : r[j] = q[j]
  OBVIOUS
<1> HIDE DEF r
<1>2. IsInjective(r)
  <2>1. \A j \in 1 .. Len(q) : q[j] # u
    BY <1>1 DEF ToSet
  <2> QED
    BY <1>1, <2>1 DEF IsInjective
<1>3. ToSet(r) = ToSet(q) \cup {u}
  BY <1>1 DEF ToSet
<1> QED
  BY <1>1, <1>2, <1>3 DEF r

-----------------------------------------------------------------------------
\* Borrow.

\* The users with a connection and those on their way to one, but for u.
UseBut(u) == InUse \ {u}
WokenBut(u, q) == {w \in Users : at[w] = "waiting" /\ w # u} \ ToSet(q)

\* What get has made sure of when it looks for a connection for u: the count
\* and the queue leave u itself out, and it may use up one wakeup.
Ready(u, n, count, q) ==
    /\ PoolTypeOK
    /\ n \in 0 .. MaxIdle /\ count \in 0 .. MaxActive
    /\ n = idle \/ count < MaxActive
    /\ q \in Seq(Users) /\ IsInjective(q) /\ u \notin ToSet(q)
    /\ \A w \in ToSet(q) : at[w] = "waiting"
    /\ closed => q = <<>>
    /\ count = idle + Cardinality(UseBut(u))
    /\ q # <<>> => idle + (MaxActive - count) <= Cardinality(WokenBut(u, q)) + 1

LEMMA Finiteness ==
    ASSUME NEW u, NEW q
    PROVE  /\ IsFiniteSet(InUse) /\ IsFiniteSet(Woken)
           /\ IsFiniteSet(UseBut(u)) /\ IsFiniteSet(WokenBut(u, q))
           /\ Cardinality(InUse) \in Nat /\ Cardinality(Woken) \in Nat
           /\ Cardinality(UseBut(u)) \in Nat /\ Cardinality(WokenBut(u, q)) \in Nat
<1>1. InUse \subseteq Users /\ Woken \subseteq Users
      /\ UseBut(u) \subseteq Users /\ WokenBut(u, q) \subseteq Users
  BY DEF InUse, Woken, UseBut, WokenBut
<1>2. IsFiniteSet(InUse) /\ IsFiniteSet(Woken)
      /\ IsFiniteSet(UseBut(u)) /\ IsFiniteSet(WokenBut(u, q))
  BY <1>1, UsersAssumption, FS_Subset
<1> QED
  BY <1>2, FS_CardinalityType

\* Whatever Borrow finds for u, the invariant holds after it.
LEMMA BorrowKeeps ==
    ASSUME NEW u \in Users, NEW n, NEW count, NEW q,
           Ready(u, n, count, q), Borrow(u, n, count, q)
    PROVE  PoolInv'
<1> USE PoolAssumption
<1>1. /\ idle \in 0 .. MaxIdle
      /\ at \in [Users -> {"out", "pruning", "testing", "dialing", "using", "waiting"}]
      /\ left \in [Users -> 0 .. MaxIdle]
      /\ n \in 0 .. MaxIdle /\ count \in 0 .. MaxActive
      /\ closed \in BOOLEAN
      /\ q \in Seq(Users)
  BY DEF Ready, PoolTypeOK
<1>2. IsFiniteSet(UseBut(u)) /\ Cardinality(UseBut(u)) \in Nat
      /\ Cardinality(WokenBut(u, q)) \in Nat
  BY Finiteness
<1>3. UNCHANGED closed
  BY DEF Borrow
<1>4. ASSUME NEW there \in {"testing", "dialing"}, NEW rounds \in 0 .. MaxIdle,
             Move(u, there, rounds), queue' = q,
             idle' \in 0 .. MaxIdle, active' \in 0 .. MaxActive,
             idle' + (MaxActive - active') + 1 = idle + (MaxActive - count),
             active' - idle' = count - idle + 1
      PROVE  PoolInv'
  <2>1. /\ at' \in [Users -> {"out", "pruning", "testing", "dialing", "using", "waiting"}]
        /\ left' \in [Users -> 0 .. MaxIdle]
        /\ at'[u] = there
        /\ \A w \in Users \ {u} : at'[w] = at[w]
    BY <1>1, <1>4 DEF Move
  <2>2. InUse' = UseBut(u) \cup {u} /\ u \notin UseBut(u)
    BY <2>1, <1>4 DEF InUse, UseBut
  <2>3. Cardinality(InUse') = Cardinality(UseBut(u)) + 1
    BY <2>2, <1>2, FS_AddElement
  <2>4. Woken' = WokenBut(u, q)
    BY <2>1, <1>4 DEF Woken, WokenBut
  <2>5. PoolTypeOK'
    BY <2>1, <1>1, <1>3, <1>4 DEF PoolTypeOK
  <2>6. ConnectionsCounted'
    <3>1. count = idle + Cardinality(UseBut(u))
      BY DEF Ready
    <3>2. active' \in Int /\ idle' \in Int /\ count \in Int /\ idle \in Int
      BY <1>1, <1>4
    <3>3. active' = idle' + (Cardinality(UseBut(u)) + 1)
      BY <3>1, <3>2, <1>2, <1>4
    <3> QED
      BY <3>3, <2>3 DEF ConnectionsCounted
  <2>7. QueueIsWaiting'
    <3>1. \A i \in DOMAIN q : q[i] \in ToSet(q) /\ q[i] \in Users
      BY <1>1 DEF ToSet
    <3>2. \A i \in DOMAIN q : at'[q[i]] = "waiting"
      BY <3>1, <2>1 DEF Ready
    <3> QED
      BY <3>2, <1>3, <1>4 DEF QueueIsWaiting, Ready
  <2>8. NoLostWakeup'
    <3>1. q # <<>> => idle + (MaxActive - count) <= Cardinality(WokenBut(u, q)) + 1
      BY DEF Ready
    <3>2. active' \in Int /\ idle' \in Int /\ count \in Int /\ idle \in Int
          /\ MaxActive \in Int
      BY <1>1, <1>4
    <3>3. ASSUME q # <<>>
          PROVE  idle' + (MaxActive - active') <= Cardinality(WokenBut(u, q))
      <4>1. /\ idle + (MaxActive - count) <= Cardinality(WokenBut(u, q)) + 1
            /\ idle' + (MaxActive - active') + 1 = idle + (MaxActive - count)
        BY <3>1, <3>3, <1>4
      <4>2. \A a, b, c, d, m, w \in Int :
                 (a + (m - b) + 1 = c + (m - d) /\ c + (m - d) <= w + 1)
                     => a + (m - b) <= w
        OBVIOUS
      <4>3. Cardinality(WokenBut(u, q)) \in Int
        BY <1>2
      <4> QED
        BY <4>1, <4>2, <4>3, <3>2
    <3> QED
      BY <3>3, <2>4, <1>4 DEF NoLostWakeup
  <2> QED
    BY <2>5, <2>6, <2>7, <2>8 DEF PoolInv
<1>5. CASE n > 0 /\ idle > 0 /\ idle' = idle - 1 /\ active' = count
           /\ queue' = q /\ Move(u, "testing", n - 1)
  <2>1. n - 1 \in 0 .. MaxIdle /\ idle' \in 0 .. MaxIdle /\ active' \in 0 .. MaxActive
        /\ idle' + (MaxActive - active') + 1 = idle + (MaxActive - count)
        /\ active' - idle' = count - idle + 1
    BY <1>1, <1>5
  <2> QED
    BY <2>1, <1>4, <1>5
<1>6. CASE ~closed /\ count < MaxActive /\ active' = count + 1 /\ queue' = q
           /\ Move(u, "dialing", 0) /\ idle' = idle
  <2>1. 0 \in 0 .. MaxIdle /\ idle' \in 0 .. MaxIdle /\ active' \in 0 .. MaxActive
        /\ idle' + (MaxActive - active') + 1 = idle + (MaxActive - count)
        /\ active' - idle' = count - idle + 1
    BY <1>1, <1>6
  <2> QED
    BY <2>1, <1>4, <1>6
<1>7. CASE closed /\ active' = count /\ queue' = q /\ Move(u, "out", 0) /\ idle' = idle
  <2>1. /\ at' \in [Users -> {"out", "pruning", "testing", "dialing", "using", "waiting"}]
        /\ left' \in [Users -> 0 .. MaxIdle]
        /\ at'[u] = "out"
        /\ \A w \in Users \ {u} : at'[w] = at[w]
    BY <1>1, <1>7 DEF Move
  <2>2. InUse' = UseBut(u)
    BY <2>1 DEF InUse, UseBut
  <2>3. queue' = <<>>
    BY <1>7 DEF Ready
  <2>4. PoolTypeOK' /\ ConnectionsCounted'
    BY <2>1, <2>2, <1>1, <1>3, <1>7 DEF PoolTypeOK, ConnectionsCounted, Ready
  <2> QED
    BY <2>3, <2>4 DEF PoolInv, QueueIsWaiting, NoLostWakeup, IsInjective
<1>8. CASE ~closed /\ count >= MaxActive /\ (n = 0 \/ idle = 0) /\ active' = count
           /\ queue' = Append(q, u) /\ Move(u, "waiting", 0) /\ idle' = idle
  <2>1. /\ at' \in [Users -> {"out", "pruning", "testing", "dialing", "using", "waiting"}]
        /\ left' \in [Users -> 0 .. MaxIdle]
        /\ at'[u] = "waiting"
        /\ \A w \in Users \ {u} : at'[w] = at[w]
    BY <1>1, <1>8 DEF Move
  <2>2. InUse' = UseBut(u)
    BY <2>1 DEF InUse, UseBut
  <2>3. /\ queue' \in Seq(Users) /\ IsInjective(queue')
        /\ ToSet(queue') = ToSet(q) \cup {u}
    BY <1>1, <1>8, AppendFacts DEF Ready
  <2>4. PoolTypeOK' /\ ConnectionsCounted'
    BY <2>1, <2>2, <2>3, <1>1, <1>3, <1>8 DEF PoolTypeOK, ConnectionsCounted, Ready
  <2>5. QueueIsWaiting'
    <3>1. \A w \in ToSet(queue') : at'[w] = "waiting"
      <4>1. \A w \in ToSet(q) : w \in Users
        BY <1>1 DEF ToSet
      <4> QED
        BY <4>1, <2>1, <2>3 DEF Ready
    <3>2. \A i \in DOMAIN queue' : queue'[i] \in ToSet(queue')
      BY DEF ToSet
    <3> QED
      BY <3>1, <3>2, <2>3, <1>3, <1>8 DEF QueueIsWaiting
  <2>6. NoLostWakeup'
    <3>1. idle = 0
      BY <1>1, <1>8 DEF Ready
    <3>2. Cardinality(Woken') \in Nat
      <4>1. Woken' \subseteq Users
        BY DEF Woken
      <4> QED
        BY <4>1, UsersAssumption, FS_Subset, FS_CardinalityType
    <3> QED
      BY <3>1, <3>2, <1>1, <1>8 DEF NoLostWakeup
  <2> QED
    BY <2>4, <2>5, <2>6 DEF PoolInv
<1> QED
  BY <1>5, <1>6, <1>7, <1>8 DEF Borrow
-----------------------------------------------------------------------------
\* Every other step.

\* A user that is not at a connection may borrow one.
LEMMA GetReady ==
    ASSUME NEW u \in Users, PoolInv, at[u] \in {"out", "pruning"}
    PROVE  Ready(u, idle, active, queue)
<1>1. UseBut(u) = InUse /\ WokenBut(u, queue) = Woken
  BY DEF UseBut, WokenBut, InUse, Woken
<1>2. \A w \in ToSet(queue) : at[w] = "waiting"
  BY DEF PoolInv, QueueIsWaiting, ToSet
<1>3. Cardinality(Woken) \in Nat
  BY Finiteness
<1>4. \A a, b \in Int : a <= b => a <= b + 1
  OBVIOUS
<1>5. queue # <<>> => idle + (MaxActive - active) <= Cardinality(Woken) + 1
  BY <1>3, <1>4, PoolAssumption DEF PoolInv, PoolTypeOK, NoLostWakeup
<1> QED
  BY <1>1, <1>2, <1>5 DEF Ready, PoolInv, PoolTypeOK, ConnectionsCounted, QueueIsWaiting

\* So may one that was woken: its wakeup is the one Borrow may use up.
LEMMA WakeReady ==
    ASSUME NEW u \in Users, PoolInv, at[u] = "waiting", u \notin ToSet(queue)
    PROVE  Ready(u, idle, active, queue)
<1>1. UseBut(u) = InUse /\ WokenBut(u, queue) = Woken \ {u} /\ u \in Woken
  BY DEF UseBut, WokenBut, InUse, Woken
<1>2. \A w \in ToSet(queue) : at[w] = "waiting"
  BY DEF PoolInv, QueueIsWaiting, ToSet
<1>3. IsFiniteSet(Woken) /\ Cardinality(Woken) \in Nat
  BY Finiteness
<1>4. Cardinality(Woken) = Cardinality(WokenBut(u, queue)) + 1
  <2>1. Cardinality(WokenBut(u, queue)) = Cardinality(Woken) - 1
    BY <1>1, <1>3, FS_RemoveElement
  <2> QED
    BY <2>1, <1>3
<1>5. queue # <<>> => idle + (MaxActive - active) <= Cardinality(WokenBut(u, queue)) + 1
  BY <1>4 DEF PoolInv, NoLostWakeup
<1> QED
  BY <1>1, <1>2, <1>5 DEF Ready, PoolInv, PoolTypeOK, ConnectionsCounted, QueueIsWaiting

\* What Signal does to those on their way.
LEMMA SignalWakes ==
    ASSUME NEW u \in Users, PoolInv, at[u] # "waiting"
    PROVE  /\ Signal(queue) \in Seq(Users) /\ IsInjective(Signal(queue))
           /\ \A w \in ToSet(Signal(queue)) : w \in Users /\ w # u /\ at[w] = "waiting"
           /\ queue = <<>> => Signal(queue) = <<>>
           /\ queue # <<>> =>
                Cardinality(WokenBut(u, Signal(queue))) = Cardinality(Woken) + 1
<1>1. queue \in Seq(Users) /\ IsInjective(queue)
  BY DEF PoolInv, PoolTypeOK, QueueIsWaiting
<1>2. \A w \in ToSet(queue) : w \in Users /\ w # u /\ at[w] = "waiting"
  BY <1>1 DEF PoolInv, QueueIsWaiting, ToSet
<1>3. ASSUME queue # <<>>
      PROVE  Cardinality(WokenBut(u, Signal(queue))) = Cardinality(Woken) + 1
  <2>1. queue[1] \in ToSet(queue) /\ ToSet(Signal(queue)) = ToSet(queue) \ {queue[1]}
    BY <1>1, <1>3, SignalFacts
  <2>2. WokenBut(u, Signal(queue)) = Woken \cup {queue[1]} /\ queue[1] \notin Woken
    BY <2>1, <1>2 DEF WokenBut, Woken
  <2>3. IsFiniteSet(Woken)
    BY Finiteness
  <2> QED
    BY <2>2, <2>3, FS_AddElement
<1> QED
  BY <1>1, <1>2, <1>3, SignalFacts

\* A connection that fails its PING makes room, and a wakeup, before the loop
\* goes on.
LEMMA TestFailsReady ==
    ASSUME NEW u \in Users, PoolInv, at[u] = "testing"
    PROVE  Ready(u, left[u], active - 1, Signal(queue))
<1>1. u \in InUse /\ UseBut(u) = InUse \ {u}
  BY DEF InUse, UseBut
<1>2. IsFiniteSet(InUse) /\ Cardinality(InUse) \in Nat
      /\ Cardinality(UseBut(u)) \in Nat /\ Cardinality(Woken) \in Nat
  BY Finiteness
<1>3. Cardinality(InUse) = Cardinality(UseBut(u)) + 1
  <2>1. Cardinality(UseBut(u)) = Cardinality(InUse) - 1
    BY <1>1, <1>2, FS_RemoveElement
  <2> QED
    BY <2>1, <1>2
<1>4. idle \in 0 .. MaxIdle /\ active \in 0 .. MaxActive /\ MaxActive \in Int
      /\ active = idle + Cardinality(InUse)
  BY PoolAssumption DEF PoolInv, PoolTypeOK, ConnectionsCounted
<1>5. active - 1 \in 0 .. MaxActive /\ active - 1 < MaxActive
      /\ active - 1 = idle + Cardinality(UseBut(u))
  BY <1>2, <1>3, <1>4
<1>6. Signal(queue) # <<>> =>
        idle + (MaxActive - (active - 1)) <= Cardinality(WokenBut(u, Signal(queue))) + 1
  <2>1. SUFFICES ASSUME queue # <<>>
                 PROVE  idle + (MaxActive - (active - 1))
                          <= Cardinality(WokenBut(u, Signal(queue))) + 1
    BY SignalWakes
  <2>2. Cardinality(WokenBut(u, Signal(queue))) = Cardinality(Woken) + 1
    BY <2>1, SignalWakes
  <2>3. idle + (MaxActive - active) <= Cardinality(Woken)
    BY <2>1 DEF PoolInv, NoLostWakeup
  <2>4. \A a, m, b, w \in Int : a + (m - b) <= w => a + (m - (b - 1)) <= w + 1 + 1
    OBVIOUS
  <2> QED
    BY <2>2, <2>3, <2>4, <1>2, <1>4
<1>7. left[u] \in 0 .. MaxIdle /\ (closed => Signal(queue) = <<>>)
  BY SignalWakes DEF PoolInv, PoolTypeOK, QueueIsWaiting
<1> QED
  BY <1>5, <1>6, <1>7, SignalWakes DEF Ready, PoolInv

\* A user leaves with a Signal, and the connection it had is idle or gone.
LEMMA LeaveKeeps ==
    ASSUME NEW u \in Users, PoolInv, at[u] # "waiting",
           NEW there \in {"out", "pruning"}, NEW rounds \in 0 .. MaxIdle,
           Move(u, there, rounds), queue' = Signal(queue), UNCHANGED closed,
           idle' \in 0 .. MaxIdle, active' \in 0 .. MaxActive,
           active' = idle' + Cardinality(UseBut(u)),
           idle' - active' <= idle - active + 1
    PROVE  PoolInv'
<1>1. /\ at' \in [Users -> {"out", "pruning", "testing", "dialing", "using", "waiting"}]
      /\ left' \in [Users -> 0 .. MaxIdle]
      /\ at'[u] = there
      /\ \A w \in Users \ {u} : at'[w] = at[w]
  BY DEF PoolInv, PoolTypeOK, Move
<1>2. InUse' = UseBut(u) /\ Woken' = WokenBut(u, queue')
  BY <1>1 DEF InUse, UseBut, Woken, WokenBut
<1>3. PoolTypeOK' /\ ConnectionsCounted'
  BY <1>1, <1>2, SignalWakes DEF PoolInv, PoolTypeOK, ConnectionsCounted
<1>4. QueueIsWaiting'
  <2>1. \A w \in ToSet(queue') : at'[w] = "waiting"
    BY <1>1, SignalWakes
  <2>2. \A i \in DOMAIN queue' : queue'[i] \in ToSet(queue')
    BY DEF ToSet
  <2> QED
    BY <2>1, <2>2, SignalWakes DEF PoolInv, QueueIsWaiting
<1>5. NoLostWakeup'
  <2>1. SUFFICES ASSUME queue # <<>>
                 PROVE  idle' + (MaxActive - active') <= Cardinality(Woken')
    BY SignalWakes DEF NoLostWakeup
  <2>2. Cardinality(Woken') = Cardinality(Woken) + 1
    BY <2>1, <1>2, SignalWakes
  <2>3. idle + (MaxActive - active) <= Cardinality(Woken)
    BY <2>1 DEF PoolInv, NoLostWakeup
  <2>4. \A a, b, c, d, m, w \in Int :
          (a + (m - b) <= w /\ c - d <= a - b + 1) => c + (m - d) <= w + 1
    OBVIOUS
  <2>5. Cardinality(Woken) \in Int
    BY Finiteness
  <2> QED
    BY <2>2, <2>3, <2>4, <2>5, PoolAssumption DEF PoolInv, PoolTypeOK
<1> QED
  BY <1>3, <1>4, <1>5 DEF PoolInv

\* A user that has its connection goes on with it.
LEMMA ProceedKeeps ==
    ASSUME NEW u \in Users, PoolInv, at[u] \in {"testing", "dialing"},
           Move(u, "using", 0), UNCHANGED <<idle, active, closed, queue>>
    PROVE  PoolInv'
<1>1. /\ at' \in [Users -> {"out", "pruning", "testing", "dialing", "using", "waiting"}]
      /\ left' \in [Users -> 0 .. MaxIdle]
      /\ at'[u] = "using"
      /\ \A w \in Users \ {u} : at'[w] = at[w]
  BY PoolAssumption DEF PoolInv, PoolTypeOK, Move
<1>2. InUse' = InUse /\ Woken' = Woken
  BY <1>1 DEF InUse, Woken
<1>3. PoolTypeOK' /\ ConnectionsCounted' /\ NoLostWakeup'
  BY <1>1, <1>2 DEF PoolInv, PoolTypeOK, ConnectionsCounted, NoLostWakeup
<1>4. \A i \in DOMAIN queue : queue[i] \in Users /\ queue[i] # u
  BY DEF PoolInv, PoolTypeOK, QueueIsWaiting
<1>5. QueueIsWaiting'
  BY <1>1, <1>4 DEF PoolInv, QueueIsWaiting
<1> QED
  BY <1>3, <1>5 DEF PoolInv
\* The oldest idle connection is pruned.
LEMMA PruneKeeps ==
    ASSUME NEW u \in Users, PoolInv, at[u] \in {"out", "pruning"},
           NEW n \in 0 .. MaxIdle, Prune(u, n)
    PROVE  PoolInv'
<1>1. UseBut(u) = InUse
  BY DEF UseBut, InUse
<1>2. idle \in 0 .. MaxIdle /\ active \in 0 .. MaxActive /\ MaxIdle \in Int /\ MaxActive \in Int
      /\ active = idle + Cardinality(InUse) /\ Cardinality(InUse) \in Nat
  BY PoolAssumption, Finiteness DEF PoolInv, PoolTypeOK, ConnectionsCounted
<1>3. n > 0 /\ idle > 0 /\ idle' = idle - 1 /\ active' = active - 1
      /\ queue' = Signal(queue) /\ Move(u, "pruning", n - 1) /\ UNCHANGED closed
  BY DEF Prune
<1>4. /\ n - 1 \in 0 .. MaxIdle /\ idle' \in 0 .. MaxIdle /\ active' \in 0 .. MaxActive
      /\ active' = idle' + Cardinality(UseBut(u))
      /\ idle' - active' <= idle - active + 1
  BY <1>1, <1>2, <1>3
<1> QED
  BY <1>3, <1>4, LeaveKeeps

\* A user gives its connection up: it is idle now, or gone.
LEMMA GiveUpKeeps ==
    ASSUME NEW u \in Users, PoolInv, u \in InUse,
           \/ active' = active - 1 /\ idle' = idle
           \/ active' = active /\ idle' = idle + 1 /\ idle < MaxIdle,
           queue' = Signal(queue), Move(u, "out", 0), UNCHANGED closed
    PROVE  PoolInv'
<1>1. UseBut(u) = InUse \ {u} /\ at[u] # "waiting"
  BY DEF UseBut, InUse
<1>2. idle \in 0 .. MaxIdle /\ active \in 0 .. MaxActive /\ MaxIdle \in Int /\ MaxActive \in Int
      /\ active = idle + Cardinality(InUse)
  BY PoolAssumption DEF PoolInv, PoolTypeOK, ConnectionsCounted
<1>3. /\ IsFiniteSet(InUse) /\ Cardinality(InUse) \in Nat
      /\ Cardinality(UseBut(u)) \in Nat
  BY Finiteness
<1>4. Cardinality(UseBut(u)) = Cardinality(InUse) - 1
  BY <1>1, <1>3, FS_RemoveElement
<1>5. /\ 0 \in 0 .. MaxIdle /\ idle' \in 0 .. MaxIdle /\ active' \in 0 .. MaxActive
      /\ active' = idle' + Cardinality(UseBut(u))
      /\ idle' - active' <= idle - active + 1
  BY <1>2, <1>3, <1>4
<1> QED
  BY <1>1, <1>5, LeaveKeeps

\* The pool is closed: the idle connections go, and every waiter wakes up.
LEMMA CloseKeeps ==
    ASSUME PoolInv, ClosePool
    PROVE  PoolInv'
<1>1. InUse' = InUse
  BY DEF ClosePool, InUse
<1>2. idle \in 0 .. MaxIdle /\ active \in 0 .. MaxActive /\ MaxIdle \in Int /\ MaxActive \in Int
      /\ active = idle + Cardinality(InUse) /\ Cardinality(InUse) \in Nat
  BY PoolAssumption, Finiteness DEF PoolInv, PoolTypeOK, ConnectionsCounted
<1>3. idle' \in 0 .. MaxIdle /\ active' \in 0 .. MaxActive
      /\ active' = idle' + Cardinality(InUse)
  BY <1>2 DEF ClosePool
<1>4. queue' = <<>> /\ queue' \in Seq(Users) /\ IsInjective(queue') /\ DOMAIN queue' = {}
  BY DEF ClosePool, IsInjective
<1> QED
  BY <1>1, <1>3, <1>4
  DEF PoolInv, PoolTypeOK, ConnectionsCounted, QueueIsWaiting, NoLostWakeup, ClosePool

\* The invariant holds in a new pool.
LEMMA PoolInitOK == PoolInit => PoolInv
<1> SUFFICES ASSUME PoolInit PROVE PoolInv
  OBVIOUS
<1>1. InUse = {}
  BY DEF PoolInit, InUse
<1>2. Cardinality(InUse) = 0
  BY <1>1, FS_EmptySet
<1>3. queue = <<>> /\ queue \in Seq(Users) /\ IsInjective(queue) /\ DOMAIN queue = {}
  BY DEF PoolInit, IsInjective
<1>4. PoolTypeOK
  <2>1. 0 \in 0 .. MaxIdle /\ 0 \in 0 .. MaxActive
    BY PoolAssumption
  <2> QED
    BY <2>1, <1>3 DEF PoolInit, PoolTypeOK
<1>5. ConnectionsCounted
  BY <1>2 DEF PoolInit, ConnectionsCounted
<1> QED
  BY <1>3, <1>4, <1>5 DEF PoolInv, QueueIsWaiting, NoLostWakeup

\* No step of the pool breaks it.
LEMMA PoolNextKeeps == PoolInv /\ [PoolNext]_poolVars => PoolInv'
<1> SUFFICES ASSUME PoolInv, [PoolNext]_poolVars PROVE PoolInv'
  OBVIOUS
<1>1. idle \in 0 .. MaxIdle /\ \A u \in Users : left[u] \in 0 .. MaxIdle
  BY DEF PoolInv, PoolTypeOK
<1>2. ASSUME NEW u \in Users, Get(u)
      PROVE  PoolInv'
  BY <1>1, <1>2, PruneKeeps, GetReady, BorrowKeeps DEF Get
<1>3. ASSUME NEW u \in Users, PruneOn(u)
      PROVE  PoolInv'
  BY <1>1, <1>3, PruneKeeps, GetReady, BorrowKeeps DEF PruneOn
<1>4. ASSUME NEW u \in Users, TestPasses(u) \/ DialSucceeds(u)
      PROVE  PoolInv'
  BY <1>4, ProceedKeeps DEF TestPasses, DialSucceeds
<1>5. ASSUME NEW u \in Users, TestFails(u)
      PROVE  PoolInv'
  BY <1>5, TestFailsReady, BorrowKeeps DEF TestFails
<1>6. ASSUME NEW u \in Users, DialFails(u)
      PROVE  PoolInv'
  <2>1. u \in InUse
    BY <1>6 DEF DialFails, InUse
  <2> QED
    BY <1>6, <2>1, GiveUpKeeps DEF DialFails
<1>7. ASSUME NEW u \in Users, Wake(u)
      PROVE  PoolInv'
  BY <1>7, WakeReady, BorrowKeeps DEF Wake
<1>8. ASSUME NEW u \in Users, Put(u)
      PROVE  PoolInv'
  <2>1. u \in InUse
    BY <1>8 DEF Put, InUse
  <2> QED
    BY <1>8, <2>1, GiveUpKeeps DEF Put
<1>9. CASE UNCHANGED poolVars
  BY <1>9
  DEF poolVars, PoolInv, PoolTypeOK, ConnectionsCounted, QueueIsWaiting, NoLostWakeup,
      InUse, Woken
<1> QED
  BY <1>2, <1>3, <1>4, <1>5, <1>6, <1>7, <1>8, <1>9, CloseKeeps DEF PoolNext, Advance

-----------------------------------------------------------------------------
\* The pool is a semaphore.

\* A step moves one user at most, so that at most one comes to a connection or
\* leaves it; and whoever comes to one found the limit not reached.
LEMMA StepImplementsLimit ==
    PoolInv /\ PoolInv' /\ [PoolNext]_poolVars => [Limit!Next]_InUse
<1> SUFFICES ASSUME PoolInv, PoolInv', [PoolNext]_poolVars
             PROVE  InUse' = InUse \/ Limit!Next
  OBVIOUS
<1>1. at' = at \/ \E u \in Users : \A w \in Users \ {u} : at'[w] = at[w]
  <2>1. ASSUME NEW u \in Users, NEW there, NEW rounds, Move(u, there, rounds)
        PROVE  \A w \in Users \ {u} : at'[w] = at[w]
    BY <2>1 DEF Move, PoolInv, PoolTypeOK
  <2>2. ASSUME NEW u \in Users, NEW n, NEW count, NEW q, Borrow(u, n, count, q) \/ Prune(u, n)
        PROVE  \A w \in Users \ {u} : at'[w] = at[w]
    BY <2>1, <2>2 DEF Borrow, Prune
  <2> QED
    BY <2>1, <2>2
    DEF PoolNext, Get, Advance, PruneOn, TestPasses, TestFails, DialSucceeds, DialFails,
        Wake, Put, ClosePool, poolVars
<1>2. CASE at' = at
  BY <1>2 DEF InUse
<1>3. ASSUME NEW u \in Users, \A w \in Users \ {u} : at'[w] = at[w]
      PROVE  InUse' = InUse \/ Limit!Next
  <2>1. InUse' = InUse \/ (u \notin InUse /\ InUse' = InUse \cup {u})
                       \/ (u \in InUse /\ InUse' = InUse \ {u})
    BY <1>3 DEF InUse
  <2>2. CASE u \notin InUse /\ InUse' = InUse \cup {u}
    <3>1. IsFiniteSet(InUse) /\ Cardinality(InUse) \in Nat
      BY Finiteness
    <3>2. Cardinality(InUse') = Cardinality(InUse) + 1
      BY <2>2, <3>1, FS_AddElement
    <3>3. idle' \in Nat /\ active' <= MaxActive /\ active' = idle' + Cardinality(InUse')
          /\ active' \in Int
      BY PoolAssumption DEF PoolInv, PoolTypeOK, ConnectionsCounted
    <3>4. Cardinality(InUse) < MaxActive
      BY <3>1, <3>2, <3>3, PoolAssumption
    <3>5. Limit!Cardinality(InUse) = Cardinality(InUse)
      BY DEF Limit!Cardinality, Cardinality
    <3> QED
      BY <2>2, <3>4, <3>5 DEF Limit!Next, Limit!Acquire
  <2>3. CASE u \in InUse /\ InUse' = InUse \ {u}
    BY <2>3 DEF Limit!Next, Limit!Release
  <2> QED
    BY <2>1, <2>2, <2>3
<1> QED
  BY <1>1, <1>2, <1>3

\* A new pool is a semaphore that nobody holds.
LEMMA InitImplementsLimit == PoolInit => Limit!Init
  BY DEF PoolInit, InUse, Limit!Init
=============================================================================
