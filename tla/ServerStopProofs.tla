-------------------------- MODULE ServerStopProofs --------------------------
(***************************************************************************)
(* Proofs about the process: what holds of the pool holds of it inside the *)
(* server, the permission to end ImageMagick is not lost, and a stop that  *)
(* is not forced leaves nobody at work.                                    *)
(***************************************************************************)
EXTENDS ServerStop, RedisPoolProofs

-----------------------------------------------------------------------------
\* The pool inside the server.

\* Every step of the server is one of the pool or leaves the pool alone.
LEMMA NextIsPoolNext == [Next]_vars => [PoolNext]_poolVars
<1> SUFFICES ASSUME [Next]_vars PROVE [PoolNext]_poolVars
  OBVIOUS
<1>1. ASSUME NEW u \in Users, Request(u) \/ Find(u) \/ Save(u)
      PROVE  PoolNext
  BY <1>1 DEF Request, Find, Save, PoolNext
<1>2. ASSUME NEW u \in Users, Load(u) \/ ReadFails(u) \/ SizeFails(u) \/ Release(u)
      PROVE  UNCHANGED poolVars
  BY <1>2 DEF Load, ReadFails, SizeFails, Release, InEngine
<1>3. CASE CloseStores
  BY <1>3 DEF CloseStores, PoolNext
<1>4. CASE Connect \/ Ping
  BY <1>4, HandsAssumption DEF Connect, Ping, PoolNext
<1>5. CASE Finalize \/ Apply \/ Open \/ Signalled \/ TimeIsUp \/ Drained \/ Terminus
  BY <1>5 DEF Finalize, Apply, Open, Signalled, TimeIsUp, Drained, Terminus
<1>6. CASE UNCHANGED vars
  BY <1>6 DEF vars
<1> QED
  BY <1>1, <1>2, <1>3, <1>4, <1>5, <1>6, HandsAssumption
  DEF Next, Running, Work, Start, Stop

\* What holds of the pool at every moment.
THEOREM PoolAlwaysOK == Spec => []PoolInv
<1>1. Init => PoolInv
  BY PoolInitOK DEF Init
<1>2. PoolInv /\ [Next]_vars => PoolInv'
  BY NextIsPoolNext, PoolNextKeeps
<1> QED
  BY <1>1, <1>2, PTL DEF Spec

\* No connection is lost or invented.
THEOREM ConnectionsAlwaysCounted == Spec => []ConnectionsCounted
<1>1. PoolInv => ConnectionsCounted
  BY DEF PoolInv
<1> QED
  BY <1>1, PoolAlwaysOK, PTL

\* Nobody sleeps beside a connection that could be had.
THEOREM WakeupNeverLost == Spec => []NoLostWakeup
<1>1. PoolInv => NoLostWakeup
  BY DEF PoolInv
<1> QED
  BY <1>1, PoolAlwaysOK, PTL

\* The pool, run by the server, implements a semaphore of MaxActive permits.
THEOREM PoolIsSemaphore == Spec => LimitKept
<1>1. Init => Limit!Init
  BY InitImplementsLimit DEF Init
<1>2. PoolInv /\ PoolInv' /\ [Next]_vars => [Limit!Next]_InUse
  BY NextIsPoolNext, StepImplementsLimit
<1> QED
  BY <1>1, <1>2, PoolAlwaysOK, PTL DEF Spec, LimitKept, Limit!Spec

-----------------------------------------------------------------------------
\* Types.

Types ==
    /\ EnvTypeOK
    /\ life \in {"starting", "connecting", "pinging", "opening", "running",
                 "draining", "terminating", "terminated", "exited"}
    /\ forced \in BOOLEAN
    /\ job \in [Holders -> {"idle", "find", "load", "save", "end"}]

LEMMA InitTypes == Init => Types
<1>1. 0 \in 0 .. MaxOrphans /\ 0 \in 0 .. 1
  BY OrphansAssumption
<1> QED
  BY <1>1 DEF Init, EnvInit, Types, EnvTypeOK

LEMMA NextKeepsTypes == Types /\ [Next]_vars => Types'
<1> SUFFICES ASSUME Types, [Next]_vars PROVE Types'
  OBVIOUS
<1> USE OrphansAssumption, HoldersAssumption, HandsAssumption DEF Types
<1>1. ASSUME NEW h \in Hands, CountWand(h) \/ Unset(h) \/ DestroyWand(h) \/ Orphan(h)
                              \/ Settle(h) \/ Collect
      PROVE  EnvTypeOK'
  BY <1>1 DEF EnvTypeOK, Hand, Hands, CountWand, Unset, DestroyWand, Orphan, Settle,
              CheckCounter, Set, Collect
<1>2. ASSUME UNCHANGED envVars
      PROVE  EnvTypeOK'
  BY <1>2 DEF envVars, EnvTypeOK
<1>3. ASSUME NEW u \in Holders, Request(u) \/ Find(u) \/ Save(u)
      PROVE  Types'
  BY <1>2, <1>3 DEF Request, Find, Save, InPool, Job, lifeVars
<1>4. ASSUME NEW u \in Holders, Load(u) \/ ReadFails(u) \/ SizeFails(u) \/ Release(u)
      PROVE  Types'
  <2>1. u \in Hands
    BY DEF Hands
  <2> QED
    BY <1>1, <1>4, <2>1 DEF Load, ReadFails, SizeFails, Release, InEngine, Job, lifeVars
<1>5. CASE Finalize
  <2>1. Finalizer \in Hands
    BY DEF Hands
  <2> QED
    BY <1>1, <1>5, <2>1 DEF Finalize, lifeVars
<1>6. CASE Apply \/ Connect \/ Ping \/ Signalled \/ TimeIsUp \/ Drained \/ CloseStores
  BY <1>2, <1>6 DEF Apply, Connect, Ping, Signalled, TimeIsUp, Drained, CloseStores, Life
<1>7. CASE Open \/ Terminus
  BY <1>7 DEF Open, Initialize, Terminus, TakePermission, Life, EnvTypeOK, envVars
<1>8. CASE UNCHANGED vars
  BY <1>2, <1>8 DEF vars, lifeVars
<1> QED
  BY <1>3, <1>4, <1>5, <1>6, <1>7, <1>8 DEF Next, Running, Work, Start, Stop

\* Every reachable state has its types.
THEOREM ServerTypes == Spec => []TypeOK
<1>1. Spec => []Types
  BY InitTypes, NextKeepsTypes, PTL DEF Spec
<1>2. Types /\ PoolInv => TypeOK
  BY DEF Types, PoolInv, TypeOK
<1> QED
  BY <1>1, <1>2, PoolAlwaysOK, PTL

-----------------------------------------------------------------------------
\* The permission to end ImageMagick.

\* No wand is left exactly when nobody has one and no orphan is left.
LEMMA CounterIsZero ==
    ASSUME Types
    PROVE  Counter = 0 <=> Alive = {} /\ orphans = 0
<1>1. IsFiniteSet(Hands)
  BY HoldersAssumption, FS_AddElement, FS_EmptySet, FS_Singleton, FS_Union DEF Hands
<1>2. Alive \subseteq Hands
  BY DEF Alive
<1>3. IsFiniteSet(Alive) /\ Cardinality(Alive) \in Nat
  BY <1>1, <1>2, FS_Subset, FS_CardinalityType
<1>4. Cardinality(Alive) = 0 <=> Alive = {}
  BY <1>3, FS_EmptySet
<1>5. orphans \in Nat
  BY OrphansAssumption DEF Types, EnvTypeOK
<1> QED
  BY <1>3, <1>4, <1>5 DEF Counter

\* The counter and the channel, each changed on its own, stay in step.
LEMMA NextKeepsPermission ==
    Types /\ Types' /\ PermissionNotLost /\ [Next]_vars => PermissionNotLost'
<1> SUFFICES ASSUME Types, Types', PermissionNotLost, [Next]_vars,
                    life' \in {"running", "draining", "terminating"}, Counter' = 0
             PROVE  canTerminate' = 1 \/ Settling' # {}
  BY DEF PermissionNotLost
<1>1. Alive' = {} /\ orphans' = 0
  <2>1. (Counter = 0 <=> Alive = {} /\ orphans = 0)'
    BY CounterIsZero, PTL
  <2> QED
    BY <2>1
<1>2. wand \in [Hands -> {"none", "counted", "held", "uncounted", "clean"}]
      /\ orphans \in Nat
  BY OrphansAssumption DEF Types, EnvTypeOK
<1>3. (Alive = {} /\ orphans = 0 /\ life \in {"running", "draining", "terminating"}) =>
        canTerminate = 1 \/ Settling # {}
  BY CounterIsZero DEF PermissionNotLost
<1>4. ASSUME UNCHANGED envVars, life \in {"running", "draining", "terminating"}
      PROVE  canTerminate' = 1 \/ Settling' # {}
  BY <1>1, <1>3, <1>4 DEF envVars, Alive, Settling
<1>5. ASSUME NEW h \in Hands, CountWand(h) \/ Unset(h)
      PROVE  FALSE
  BY <1>1, <1>2, <1>5 DEF CountWand, Unset, Hand, Alive
<1>6. ASSUME NEW h \in Hands, DestroyWand(h) \/ Set(h)
      PROVE  canTerminate' = 1 \/ Settling' # {}
  BY <1>2, <1>6 DEF DestroyWand, Set, Hand, Settling
<1>7. ASSUME NEW h \in Hands, CheckCounter(h)
      PROVE  canTerminate' = 1 \/ Settling' # {}
  <2>1. orphans = 0 /\ Alive = {}
    BY <1>1, <1>2, <1>7 DEF CheckCounter, Hand, Alive
  <2>2. Counter = 0
    BY <2>1, CounterIsZero
  <2> QED
    BY <1>2, <1>7, <2>2 DEF CheckCounter, Hand, Settling
<1>8. ASSUME NEW h \in Hands, Orphan(h)
      PROVE  FALSE
  BY <1>1, <1>2, <1>8 DEF Orphan
<1>9. CASE Collect
  <2>1. Finalizer \in Hands
    BY DEF Hands
  <2> QED
    BY <1>2, <1>9, <2>1 DEF Collect, Hand, Settling
<1>10. ASSUME NEW u \in Holders, Running(Work(u)) \/ Running(Request(u))
       PROVE  canTerminate' = 1 \/ Settling' # {}
  <2>1. u \in Hands
    BY HandsAssumption DEF Hands
  <2>2. CASE Request(u) \/ Find(u) \/ Save(u)
    BY <1>4, <2>2 DEF Request, Find, Save, InPool, lifeVars
  <2>3. CASE Load(u) \/ ReadFails(u) \/ SizeFails(u) \/ Release(u)
    BY <1>5, <1>6, <1>7, <1>8, <2>1, <2>3 DEF Load, ReadFails, SizeFails, Release, Settle
  <2> QED
    BY <1>10, <2>2, <2>3 DEF Running, Work
<1>11. CASE Running(Finalize)
  <2>1. Finalizer \in Hands
    BY DEF Hands
  <2> QED
    BY <1>6, <1>7, <1>9, <1>11, <2>1 DEF Running, Finalize, Settle
<1>12. CASE Start \/ Signalled \/ Stop
  BY <1>4, <1>12
  DEF Start, Apply, Connect, Ping, Open, Initialize, Signalled, Stop, TimeIsUp, Drained,
      Terminus, CloseStores, Life
<1>13. CASE UNCHANGED vars
  BY <1>4, <1>13 DEF vars, lifeVars
<1> QED
  BY <1>10, <1>11, <1>12, <1>13 DEF Next

\* Terminate never waits for a permission that nobody is left to give.
THEOREM PermissionAlwaysComes == Spec => []PermissionNotLost
<1>1. Init => PermissionNotLost
  BY DEF Init, EnvInit, PermissionNotLost
<1>2. Spec => []Types
  BY InitTypes, NextKeepsTypes, PTL DEF Spec
<1> QED
  BY <1>1, <1>2, NextKeepsPermission, PTL DEF Spec

-----------------------------------------------------------------------------
\* What a request has in its hands.

\* A request is at the pool only while it finds or saves, and has a wand only
\* from its load to its end; main is there only for the PING of the start.
\* Before the server runs and after an unforced stop all requests are idle.
HandsFull ==
    /\ at[Main] # "out" => life = "pinging"
    /\ \A u \in Holders :
        /\ at[u] # "out" => job[u] \in {"find", "save"}
        /\ wand[u] # "none" => job[u] \in {"load", "save", "end"}
    /\ (life \in {"terminating", "terminated", "exited"} /\ ~forced) => Idle
    /\ life \in {"starting", "connecting", "pinging", "opening"} => Idle

LEMMA NextKeepsHands ==
    Types /\ PoolInv /\ HandsFull /\ [Next]_vars => HandsFull'
<1> SUFFICES ASSUME Types, PoolInv, HandsFull, [Next]_vars PROVE HandsFull'
  OBVIOUS
<1> USE HandsAssumption, HoldersAssumption DEF HandsFull, Idle
<1>1. at \in [Users -> {"out", "pruning", "testing", "dialing", "using", "waiting"}]
      /\ job \in [Holders -> {"idle", "find", "load", "save", "end"}]
      /\ wand \in [Hands -> {"none", "counted", "held", "uncounted", "clean"}]
      /\ Holders \subseteq Hands /\ Holders \subseteq Users /\ Main \in Users
  BY DEF Types, EnvTypeOK, PoolInv, PoolTypeOK, Hands
<1>2. ASSUME NEW u \in Holders, Get(u) \/ Advance(u)
      PROVE  /\ at' = [at EXCEPT ![u] = at'[u]]
             /\ at'[u] \in {"out", "pruning", "testing", "dialing", "using", "waiting"}
  BY <1>1, <1>2
  DEF Get, Advance, PruneOn, TestPasses, TestFails, DialSucceeds, DialFails, Wake, Put,
      Prune, Borrow, Move
<1>3. CASE \E u \in Holders : Running(Request(u))
  BY <1>1, <1>2, <1>3 DEF Running, Request, Job, InPool, envVars, lifeVars
<1>4. ASSUME NEW u \in Holders, Find(u)
      PROVE  HandsFull'
  BY <1>1, <1>2, <1>4 DEF Find, Job, InPool, envVars, lifeVars
<1>5. ASSUME NEW u \in Holders, Save(u)
      PROVE  HandsFull'
  BY <1>1, <1>2, <1>5 DEF Save, Job, InPool, envVars, lifeVars
<1>6. ASSUME NEW u \in Holders, Load(u) \/ ReadFails(u) \/ SizeFails(u)
      PROVE  HandsFull'
  BY <1>1, <1>6
  DEF Load, ReadFails, SizeFails, CountWand, Unset, DestroyWand, Orphan, Hand, Job,
      InEngine, poolVars, lifeVars
<1>7. ASSUME NEW u \in Holders, Release(u)
      PROVE  HandsFull'
  BY <1>1, <1>7
  DEF Release, DestroyWand, Settle, CheckCounter, Set, Hand, Job,
      InEngine, poolVars, lifeVars
<1>8. CASE Finalize
  <2>1. Finalizer \notin Holders
    OBVIOUS
  <2> QED
    BY <1>1, <1>8, <2>1
    DEF Finalize, Collect, Settle, CheckCounter, Set, Hand, poolVars, lifeVars
<1>9. CASE Apply \/ Open \/ Signalled \/ TimeIsUp \/ Drained
  BY <1>9
  DEF Apply, Open, Initialize, Signalled, TimeIsUp, Drained, Life, poolVars, envVars
<1>10. CASE Terminus \/ CloseStores
  BY <1>10 DEF Terminus, TakePermission, CloseStores, ClosePool, Life, poolVars, envVars
<1>11. CASE Connect \/ Ping
  <2>1. Idle /\ UNCHANGED <<forced, wand, job>>
    BY <1>11 DEF Connect, Ping, Life, envVars
  <2>2. at' = [at EXCEPT ![Main] = at'[Main]]
    BY <1>1, <1>11
    DEF Connect, Ping, Get, Advance, PruneOn, TestPasses, TestFails, DialSucceeds,
        DialFails, Wake, Put, Prune, Borrow, Move
  <2>3. \A u \in Holders : at'[u] = at[u]
    BY <1>1, <2>2
  <2>4. at'[Main] # "out" => life' = "pinging"
    BY <1>11 DEF Connect, Ping, Life
  <2> QED
    BY <2>1, <2>3, <2>4
<1>12. CASE UNCHANGED vars
  BY <1>12 DEF vars, poolVars, envVars, lifeVars
<1> QED
  BY <1>3, <1>4, <1>5, <1>6, <1>7, <1>8, <1>9, <1>10, <1>11, <1>12
  DEF Next, Running, Work, Start, Stop

\* When an unforced stop ends ImageMagick and closes the pool, no request has a
\* wand or a connection, or waits for one.
THEOREM StopAlwaysClean == Spec => []StopIsClean
<1>1. Init => HandsFull
  BY HandsAssumption DEF Init, PoolInit, EnvInit, HandsFull, Idle, Hands
<1>2. Spec => []Types
  BY InitTypes, NextKeepsTypes, PTL DEF Spec
<1>3. PoolInv /\ HandsFull => StopIsClean
  <2> SUFFICES ASSUME PoolInv, HandsFull, life \in {"terminated", "exited"}, ~forced
               PROVE  /\ queue = <<>> /\ InUse = {}
                      /\ \A u \in Holders : wand[u] = "none"
    BY DEF StopIsClean
  <2>1. /\ \A u \in Users : at[u] = "out"
        /\ \A u \in Holders : wand[u] = "none"
    BY HandsAssumption DEF HandsFull, Idle
  <2>2. queue = <<>>
    BY <2>1 DEF PoolInv, QueueIsWaiting, PoolTypeOK
  <2> QED
    BY <2>1, <2>2 DEF InUse
<1> QED
  BY <1>1, <1>2, <1>3, NextKeepsHands, PoolAlwaysOK, PTL DEF Spec
-----------------------------------------------------------------------------
\* Nobody waits for nobody.

\* The guards of a step of Work that a request may take: it is at the pool and
\* not asleep, or it is making or destroying its wand.
CanGoOn(u) ==
    \/ job[u] \in {"find", "save"} /\ at[u] # "out" /\ u \notin ToSet(queue)
    \/ job[u] = "load" /\ wand[u] \in {"none", "counted", "held"}
    \/ job[u] = "end" /\ wand[u] \in {"held", "uncounted", "clean"}

\* While a request is at work, some request can go on.
SomebodyGoesOn == life # "exited" /\ ~Idle => \E u \in Holders : CanGoOn(u)

\* The guard of Finalize.
FinalizerReady == orphans > 0 \/ wand[Finalizer] \in {"uncounted", "clean"}

\* While the process is to stop, it goes on, or a request or the finalizer does.
StopGoesOn ==
    life \in {"draining", "terminating"} =>
        \/ life = "draining" /\ Idle
        \/ life = "terminating" /\ canTerminate = 1
        \/ FinalizerReady
        \/ \E u \in Holders : CanGoOn(u)

\* What a request that is somewhere in its handler has in its hands.
JobsFull ==
    /\ closed => life = "exited"
    /\ wand[Finalizer] \in {"none", "uncounted", "clean"}
    /\ \A u \in Holders :
        /\ job[u] \in {"find", "save"} => at[u] # "out"
        /\ job[u] = "load" => wand[u] \in {"none", "counted", "held"}
        /\ job[u] = "save" => wand[u] = "held"
        /\ job[u] = "end" => wand[u] \in {"held", "uncounted", "clean"}

LEMMA NextKeepsJobs ==
    Types /\ PoolInv /\ HandsFull /\ JobsFull /\ [Next]_vars => JobsFull'
<1> SUFFICES ASSUME Types, PoolInv, HandsFull, JobsFull, [Next]_vars PROVE JobsFull'
  OBVIOUS
<1>1. at \in [Users -> {"out", "pruning", "testing", "dialing", "using", "waiting"}]
      /\ job \in [Holders -> {"idle", "find", "load", "save", "end"}]
      /\ wand \in [Hands -> {"none", "counted", "held", "uncounted", "clean"}]
      /\ Holders \subseteq Hands /\ Holders \subseteq Users /\ Main \in Users
      /\ Finalizer \in Hands /\ Finalizer \notin Holders /\ Main \notin Holders
  BY HandsAssumption, HoldersAssumption DEF Types, EnvTypeOK, PoolInv, PoolTypeOK, Hands
<1>2. ASSUME NEW u \in Users, Get(u) \/ Advance(u)
      PROVE  /\ at' = [at EXCEPT ![u] = at'[u]] /\ UNCHANGED closed
             /\ ~closed /\ Get(u) => at'[u] # "out"
             /\ Advance(u) => at[u] # "out"
  BY <1>1, <1>2
  DEF Get, Advance, PruneOn, TestPasses, TestFails, DialSucceeds, DialFails, Wake, Put,
      Prune, Borrow, Move
<1>3. /\ closed => life = "exited"
      /\ wand[Finalizer] \in {"none", "uncounted", "clean"}
      /\ \A u \in Holders :
          /\ job[u] \in {"find", "save"} => at[u] # "out"
          /\ job[u] = "load" => wand[u] \in {"none", "counted", "held"}
          /\ job[u] = "save" => wand[u] = "held"
          /\ job[u] = "end" => wand[u] \in {"held", "uncounted", "clean"}
          /\ wand[u] # "none" => job[u] \in {"load", "save", "end"}
  BY DEF JobsFull, HandsFull
<1>4. ASSUME NEW u \in Holders, Running(Request(u)) PROVE JobsFull'
  <2>1. /\ job' = [job EXCEPT ![u] = "find"] /\ UNCHANGED <<wand, life, closed>>
        /\ at' = [at EXCEPT ![u] = at'[u]] /\ at'[u] # "out"
    BY <1>1, <1>2, <1>3, <1>4
    DEF Running, Request, Job, InPool, envVars, lifeVars
  <2> QED
    BY <1>1, <1>3, <2>1 DEF JobsFull
<1>5. ASSUME NEW u \in Holders, Find(u) PROVE JobsFull'
  <2>1. /\ at' = [at EXCEPT ![u] = at'[u]] /\ UNCHANGED <<wand, life, closed>>
        /\ job[u] = "find" /\ wand[u] = "none"
    BY <1>1, <1>2, <1>3, <1>5 DEF Find, InPool, envVars, lifeVars
  <2>2. CASE at'[u] # "out" /\ UNCHANGED job
    BY <1>1, <1>3, <2>1, <2>2 DEF JobsFull
  <2>3. CASE \E there \in {"idle", "load"} : job' = [job EXCEPT ![u] = there]
    BY <1>1, <1>3, <2>1, <2>3 DEF JobsFull
  <2> QED
    BY <1>5, <2>2, <2>3 DEF Find, Job
<1>6. ASSUME NEW u \in Holders, Save(u) PROVE JobsFull'
  <2>1. /\ at' = [at EXCEPT ![u] = at'[u]] /\ UNCHANGED <<wand, life, closed>>
        /\ wand[u] = "held"
        /\ job' = [job EXCEPT ![u] = IF at'[u] = "out" THEN "end" ELSE "save"]
    BY <1>1, <1>2, <1>3, <1>6 DEF Save, Job, InPool, envVars, lifeVars
  <2> QED
    BY <1>1, <1>3, <2>1 DEF JobsFull
<1>7. ASSUME NEW u \in Holders, Load(u) \/ ReadFails(u) \/ SizeFails(u) \/ Release(u)
      PROVE  JobsFull'
  <2>1. UNCHANGED <<at, closed, life>>
    BY <1>7 DEF Load, ReadFails, SizeFails, Release, InEngine, poolVars, lifeVars
  <2>2. PICK there, w :
           /\ job' = [job EXCEPT ![u] = there] /\ wand' = [wand EXCEPT ![u] = w]
           /\ there \notin {"find", "save"}
           /\ there = "load" => w \in {"none", "counted", "held"}
           /\ there = "end" => w \in {"held", "uncounted", "clean"}
    <3>1. CASE Load(u)
      <4>1. UNCHANGED job /\ job[u] = "load"
            /\ \E w \in {"counted", "held"} : wand' = [wand EXCEPT ![u] = w]
        BY <3>1 DEF Load, CountWand, Unset, Hand
      <4>2. job' = [job EXCEPT ![u] = "load"]
        BY <1>1, <4>1
      <4> QED
        BY <4>1, <4>2
    <3>2. CASE ReadFails(u) \/ SizeFails(u)
      BY <3>2 DEF ReadFails, SizeFails, DestroyWand, Orphan, Hand, Job
    <3>3. CASE job[u] = "end" /\ DestroyWand(u) /\ UNCHANGED job
      <4>1. job' = [job EXCEPT ![u] = "end"]
        BY <1>1, <3>3
      <4> QED
        BY <3>3, <4>1 DEF DestroyWand, Hand
    <3>4. CASE Settle(u) /\ Job(u, IF wand'[u] = "none" THEN "idle" ELSE "end")
      <4>1. \E w \in {"none", "clean"} : wand' = [wand EXCEPT ![u] = w]
        BY <3>4 DEF Settle, CheckCounter, Set, Hand
      <4>2. PICK w \in {"none", "clean"} : wand' = [wand EXCEPT ![u] = w]
        BY <4>1
      <4>3. wand'[u] = w
        BY <1>1, <4>2
      <4>4. /\ w = "none" => job' = [job EXCEPT ![u] = "idle"]
            /\ w = "clean" => job' = [job EXCEPT ![u] = "end"]
        BY <3>4, <4>3 DEF Job
      <4> QED
        BY <4>2, <4>4
    <3> QED
      BY <1>7, <3>1, <3>2, <3>3, <3>4 DEF Release
  <2> QED
    BY <1>1, <1>3, <2>1, <2>2 DEF JobsFull
<1>8. CASE Finalize
  <2>1. UNCHANGED <<at, closed, life, job>>
    BY <1>8 DEF Finalize, poolVars, lifeVars
  <2>2. \E w \in {"none", "uncounted", "clean"} : wand' = [wand EXCEPT ![Finalizer] = w]
    BY <1>8 DEF Finalize, Collect, Settle, CheckCounter, Set, Hand
  <2> QED
    BY <1>1, <1>3, <2>1, <2>2 DEF JobsFull
<1>9. CASE Apply \/ Open \/ Signalled \/ TimeIsUp \/ Drained \/ Terminus
  <2>1. UNCHANGED <<at, closed, job, wand>> /\ (closed => life' = "exited")
    BY <1>3, <1>9 DEF Apply, Open, Initialize, Signalled, TimeIsUp, Drained, Terminus,
                      TakePermission, Life, poolVars, envVars
  <2> QED
    BY <1>1, <1>3, <2>1 DEF JobsFull
<1>10. CASE CloseStores
  <2>1. UNCHANGED <<at, job, wand>> /\ life' = "exited"
    BY <1>10 DEF CloseStores, ClosePool, Life, envVars
  <2> QED
    BY <1>1, <1>3, <2>1 DEF JobsFull
<1>11. CASE Connect \/ Ping
  <2>1. /\ at' = [at EXCEPT ![Main] = at'[Main]] /\ UNCHANGED <<job, wand, closed>>
        /\ ~closed
    BY <1>1, <1>2, <1>3, <1>11 DEF Connect, Ping, Life, envVars
  <2> QED
    BY <1>1, <1>3, <2>1 DEF JobsFull
<1>12. CASE UNCHANGED vars
  BY <1>3, <1>12 DEF vars, poolVars, envVars, lifeVars, JobsFull
<1> QED
  BY <1>4, <1>5, <1>6, <1>7, <1>8, <1>9, <1>10, <1>11, <1>12
  DEF Next, Running, Work, Start, Stop

\* A user sleeps only while another has a connection or was woken for one.
LEMMA SleepersHaveServers ==
    ASSUME PoolInv, queue # <<>>
    PROVE  \E u \in Users \ ToSet(queue) : at[u] \in {"testing", "dialing", "using", "waiting"}
<1>1. /\ active = idle + Cardinality(InUse) /\ idle \in Nat /\ active \in Nat
      /\ idle + (MaxActive - active) <= Cardinality(Woken)
      /\ MaxActive \in Nat \ {0}
  BY PoolAssumption DEF PoolInv, PoolTypeOK, ConnectionsCounted, NoLostWakeup
<1>2. InUse # {} \/ Woken # {}
  <2> SUFFICES ASSUME InUse = {}, Woken = {} PROVE FALSE
    OBVIOUS
  <2>1. Cardinality(InUse) = 0 /\ Cardinality(Woken) = 0
    BY FS_EmptySet
  <2> QED
    BY <1>1, <2>1
<1>3. ASSUME NEW u \in InUse PROVE u \in Users \ ToSet(queue)
  BY <1>3 DEF InUse, PoolInv, QueueIsWaiting, ToSet
<1> QED
  BY <1>2, <1>3 DEF InUse, Woken

LEMMA WorkGoesOn ==
    ASSUME Types, PoolInv, HandsFull, JobsFull
    PROVE  SomebodyGoesOn
<1> SUFFICES ASSUME life # "exited", NEW u \in Holders, job[u] # "idle"
             PROVE  \E v \in Holders : CanGoOn(v)
  BY DEF SomebodyGoesOn, Idle
<1>1. job[u] \in {"find", "load", "save", "end"}
  BY DEF Types
<1>2. CASE u \notin ToSet(queue) \/ job[u] \in {"load", "end"}
  BY <1>1, <1>2 DEF CanGoOn, JobsFull
<1>3. CASE u \in ToSet(queue)
  <2>1. queue # <<>>
    BY <1>3 DEF ToSet
  <2>2. PICK v \in Users \ ToSet(queue) : at[v] \in {"testing", "dialing", "using", "waiting"}
    BY <2>1, SleepersHaveServers
  <2>3. v \in Holders
    <3>1. ~(life = "pinging")
      BY DEF HandsFull, Idle
    <3> QED
      BY <2>2, <3>1, HandsAssumption DEF HandsFull
  <2> QED
    BY <2>2, <2>3 DEF CanGoOn, HandsFull
<1> QED
  BY <1>1, <1>2, <1>3

LEMMA StopsGoOn ==
    ASSUME Types, PoolInv, HandsFull, JobsFull, PermissionNotLost
    PROVE  StopGoesOn
<1> SUFFICES ASSUME life \in {"draining", "terminating"},
                    ~(life = "draining" /\ Idle),
                    ~(life = "terminating" /\ canTerminate = 1),
                    ~FinalizerReady
             PROVE  \E u \in Holders : CanGoOn(u)
  BY DEF StopGoesOn
<1>1. SomebodyGoesOn
  BY WorkGoesOn
<1>2. CASE ~Idle
  BY <1>1, <1>2 DEF SomebodyGoesOn
<1>3. CASE life = "terminating" /\ Idle
  <2>1. \A u \in Holders : wand[u] = "none"
    BY <1>3 DEF HandsFull, Idle
  <2>2. orphans = 0 /\ wand[Finalizer] = "none"
    BY OrphansAssumption DEF FinalizerReady, JobsFull, Types, EnvTypeOK
  <2>3. Alive = {} /\ Settling = {}
    BY <2>1, <2>2 DEF Alive, Settling, Hands
  <2>4. Counter = 0
    BY <2>2, <2>3, CounterIsZero
  <2> QED
    BY <1>3, <2>3, <2>4 DEF PermissionNotLost
<1> QED
  BY <1>2, <1>3

LEMMA SpecFills == Spec => [](Types /\ PoolInv /\ HandsFull /\ JobsFull)
<1>1. Init => Types /\ HandsFull /\ JobsFull
  BY InitTypes, HandsAssumption, HoldersAssumption
  DEF Init, PoolInit, EnvInit, HandsFull, JobsFull, Idle, Hands
<1> QED
  BY <1>1, NextKeepsTypes, NextKeepsHands, NextKeepsJobs, PoolAlwaysOK, PTL DEF Spec

\* The requests never wait for each other in a ring: though they sleep for a
\* connection without a timeout, some with a wand in their hands (db.go:24,
\* bucket.go:189-194), one of them can always go on.
THEOREM WorkAlwaysGoesOn == Spec => []SomebodyGoesOn
BY SpecFills, WorkGoesOn, PTL

\* A stop never waits for nothing: from the signal to the permission of
\* Terminate the process, a request or the finalizer can go on (server.go:65-80,
\* magick_wand_env.go:59-92).
THEOREM StopAlwaysGoesOn == Spec => []StopGoesOn
BY SpecFills, PermissionAlwaysComes, StopsGoOn, PTL
=============================================================================
