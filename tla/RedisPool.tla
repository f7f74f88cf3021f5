----------------------------- MODULE RedisPool ------------------------------
(***************************************************************************)
(* The pool of redis connections (vendor/github.com/garyburd/redigo/redis, *)
(* pool.go) as server/db.go uses it: with a limit, waiting at the limit,   *)
(* an idle timeout and a PING before a connection is used again.           *)
(*                                                                         *)
(* A section of get or put between p.mu.Lock() and the next Unlock, or     *)
(* cond.Wait(), is one step.  The dial and the PING run unlocked between   *)
(* two steps.  Connections are counted, not named.  Which idle connection  *)
(* is stale, fails its PING or is broken when it is put back is left open. *)
(* Closing a connection is not a step: the pool has forgotten it by then.  *)
(***************************************************************************)
EXTENDS Integers, FiniteSets, Sequences, SequencesExt

CONSTANTS
    Users,     \* goroutines that call the methods of DB
    MaxActive, \* connections in use or idle, at most
    MaxIdle    \* idle connections, at most

ASSUME PoolAssumption == MaxActive \in Nat \ {0} /\ MaxIdle \in Nat
ASSUME UsersAssumption == IsFiniteSet(Users)

VARIABLES
    idle,    \* length of p.idle
    active,  \* p.active
    closed,  \* p.closed
    queue,   \* the users asleep in p.cond, first come first
    at,      \* where each user is
    left     \* rounds left of the loop it is in

poolVars == <<idle, active, closed, queue, at, left>>

PoolInit ==
    /\ idle = 0
    /\ active = 0
    /\ closed = FALSE
    /\ queue = <<>>
    /\ at = [u \in Users |-> "out"]
    /\ left = [u \in Users |-> 0]

Move(u, there, rounds) ==
    /\ at' = [at EXCEPT ![u] = there]
    /\ left' = [left EXCEPT ![u] = rounds]

\* cond.Signal, also before there is a cond.
Signal(q) == IF q = <<>> THEN q ELSE Tail(q)

-----------------------------------------------------------------------------
\* get.  Borrow is its second loop with n rounds left, entered with the given
\* active count and queue.

\* Mutant of get: the tests for a closed pool and for the limit are missing.
BorrowBeyondLimit(u, n, count, q) ==
    /\ queue' = q
    /\ \/ /\ n > 0 /\ idle > 0
          /\ idle' = idle - 1
          /\ active' = count
          /\ Move(u, "testing", n - 1)
       \/ /\ n = 0 \/ idle = 0
          /\ active' = count + 1
          /\ Move(u, "dialing", 0)
          /\ UNCHANGED idle
    /\ UNCHANGED closed

Borrow(u, n, count, q) ==
    /\ \/ /\ n > 0 /\ idle > 0
          /\ idle' = idle - 1
          /\ active' = count
          /\ queue' = q
          /\ Move(u, "testing", n - 1)
       \/ /\ n = 0 \/ idle = 0
          /\ \/ closed /\ active' = count /\ queue' = q /\ Move(u, "out", 0)
             \/ /\ ~closed /\ count < MaxActive
                /\ active' = count + 1
                /\ queue' = q
                /\ Move(u, "dialing", 0)
             \/ /\ ~closed /\ count >= MaxActive
                /\ active' = count
                /\ queue' = Append(q, u)
                /\ Move(u, "waiting", 0)
          /\ UNCHANGED idle
    /\ UNCHANGED closed

\* The oldest idle connection is stale: it is forgotten, and closed unlocked.
Prune(u, n) ==
    /\ n > 0 /\ idle > 0
    /\ idle' = idle - 1
    /\ active' = active - 1
    /\ queue' = Signal(queue)
    /\ Move(u, "pruning", n - 1)
    /\ UNCHANGED closed

Get(u) ==
    /\ at[u] = "out"
    /\ Prune(u, idle) \/ Borrow(u, idle, active, queue)

PruneOn(u) ==
    /\ at[u] = "pruning"
    /\ Prune(u, left[u]) \/ Borrow(u, idle, active, queue)

TestPasses(u) ==
    /\ at[u] = "testing"
    /\ Move(u, "using", 0)
    /\ UNCHANGED <<idle, active, closed, queue>>

\* Mutant of get: a connection that fails its PING stays counted.
TestFailsCounted(u) ==
    /\ at[u] = "testing"
    /\ Borrow(u, left[u], active, queue)

\* release, and on with the loop under the same lock.
TestFails(u) ==
    /\ at[u] = "testing"
    /\ Borrow(u, left[u], active - 1, Signal(queue))

DialSucceeds(u) ==
    /\ at[u] = "dialing"
    /\ Move(u, "using", 0)
    /\ UNCHANGED <<idle, active, closed, queue>>

\* Mutant of get: the failed dial is uncounted without a signal.
DialFailsSilently(u) ==
    /\ at[u] = "dialing"
    /\ active' = active - 1
    /\ Move(u, "out", 0)
    /\ UNCHANGED <<idle, closed, queue>>

DialFails(u) ==
    /\ at[u] = "dialing"
    /\ active' = active - 1
    /\ queue' = Signal(queue)
    /\ Move(u, "out", 0)
    /\ UNCHANGED <<idle, closed>>

\* A signalled waiter has the mutex again and starts over.
Wake(u) ==
    /\ at[u] = "waiting" /\ u \notin ToSet(queue)
    /\ Borrow(u, idle, active, queue)

-----------------------------------------------------------------------------
\* put, in the deferred Close of the methods of DB.

\* Mutant of put: only a connection that is closed wakes a waiter.
PutSilently(u) ==
    /\ at[u] = "using"
    /\ \/ /\ ~closed /\ idle < MaxIdle
          /\ idle' = idle + 1
          /\ UNCHANGED <<active, queue>>
       \/ /\ active' = active - 1
          /\ queue' = Signal(queue)
          /\ UNCHANGED idle
    /\ Move(u, "out", 0)
    /\ UNCHANGED closed

\* The connection is kept; or, if it is broken, one too many or put after
\* Close, a connection is closed.
Put(u) ==
    /\ at[u] = "using"
    /\ \/ /\ ~closed /\ idle < MaxIdle
          /\ idle' = idle + 1
          /\ UNCHANGED active
       \/ /\ active' = active - 1
          /\ UNCHANGED idle
    /\ queue' = Signal(queue)
    /\ Move(u, "out", 0)
    /\ UNCHANGED closed

ClosePool ==
    /\ idle' = 0
    /\ active' = active - idle
    /\ closed' = TRUE
    /\ queue' = <<>>
    /\ UNCHANGED <<at, left>>

\* What a user does once it has called.
Advance(u) ==
    \/ PruneOn(u) \/ TestPasses(u) \/ TestFails(u)
    \/ DialSucceeds(u) \/ DialFails(u) \/ Wake(u) \/ Put(u)

PoolNext == (\E u \in Users : Get(u) \/ Advance(u)) \/ ClosePool

PoolSpec == PoolInit /\ [][PoolNext]_poolVars

-----------------------------------------------------------------------------
\* Properties.

\* Every variable of the pool has its type.
PoolTypeOK ==
    /\ idle \in 0 .. MaxIdle
    /\ active \in 0 .. MaxActive
    /\ closed \in BOOLEAN
    /\ queue \in Seq(Users)
    /\ at \in [Users -> {"out", "pruning", "testing", "dialing", "using", "waiting"}]
    /\ left \in [Users -> 0 .. MaxIdle]

\* The users that stand for a connection: the one they test, dial or use.
InUse == {u \in Users : at[u] \in {"testing", "dialing", "using"}}

\* The waiters that were signalled and have not had the mutex since.
Woken == {u \in Users : at[u] = "waiting"} \ ToSet(queue)

\* No path through get, put and Close loses or invents a connection: those
\* that are counted are idle or with a user (p.active, pool.go:191, :206-210).
ConnectionsCounted == active = idle + Cardinality(InUse)

\* The users asleep are waiting, each of them once, and none sleeps in a
\* closed pool.
QueueIsWaiting ==
    /\ IsInjective(queue)
    /\ \A i \in DOMAIN queue : at[queue[i]] = "waiting"
    /\ closed => queue = <<>>

\* No wakeup is lost: while a user sleeps, every connection that could be had
\* has a waiter on its way to it (the Signal of release and of put).
NoLostWakeup ==
    queue # <<>> => idle + (MaxActive - active) <= Cardinality(Woken)

\* The limit, as a promise to the rest of the server: at most MaxActive users
\* are ever at a connection (db.go:24).
Limit == INSTANCE Semaphore WITH Clients <- Users, Permits <- MaxActive, holders <- InUse
LimitKept == Limit!Spec
=============================================================================
