----------------------------- MODULE Throttler ------------------------------
(***************************************************************************)
(* What stands between a connection and a handler of imgry's router:       *)
(* chi's throttler and, inside it, the Timeout middleware                  *)
(* (vendor/github.com/pressly/chi/middleware, server/server.go:95-98).     *)
(*                                                                         *)
(* The two channels of tokens are counters.  A receive from an empty one   *)
(* and a send to a full one wait.  Each deferred send is a step, in the    *)
(* order the deferred functions run; they run when the handler panics,     *)
(* too.  Time is counted in units, up to the timeout of what is timed.  It *)
(* waits for nobody: a goroutine may be scheduled long after its timer has *)
(* fired, and a handler may outlive its context, which imgry's handlers    *)
(* hand to the fetcher only.                                               *)
(***************************************************************************)
EXTENDS Integers, FiniteSets

CONSTANTS
    Requests,        \* connections that may be open at once
    Limit,           \* MaxRequests
    BacklogLimit,    \* BacklogSize
    BacklogTimeout,  \* units a request may wait for a token
    RequestTimeout   \* units until a handler's context expires

\* ThrottleBacklog panics otherwise.
ASSUME LimitAssumption == Limit \in Nat /\ Limit >= 1 /\ BacklogLimit \in Nat
ASSUME TimeoutAssumption ==
    BacklogTimeout \in Nat \ {0} /\ RequestTimeout \in Nat \ {0}
ASSUME RequestsAssumption == IsFiniteSet(Requests)

VARIABLES
    tokens,         \* tokens left in t.tokens
    backlogTokens,  \* tokens left in t.backlogTokens
    pc,             \* where each request is
    gone,           \* the requests whose context was cancelled
    waited,         \* units spent waiting for a token, up to BacklogTimeout
    served,         \* units spent in the handler, up to RequestTimeout
    status          \* the last answer

vars == <<tokens, backlogTokens, pc, gone, waited, served, status>>

Statuses == {"none", "answered", "panicked", "expired", "canceled",
             "timed_out", "capacity_exceeded"}

Init ==
    /\ tokens = Limit
    /\ backlogTokens = Limit + BacklogLimit
    /\ pc = [r \in Requests |-> "idle"]
    /\ gone = {}
    /\ waited = [r \in Requests |-> 0]
    /\ served = [r \in Requests |-> 0]
    /\ status = [r \in Requests |-> "none"]

Move(r, there) == pc' = [pc EXCEPT ![r] = there]
Answer(r, s) == status' = [status EXCEPT ![r] = s]

Arrive(r) ==
    /\ pc[r] = "idle"
    /\ Move(r, "arrived")
    /\ Answer(r, "none")
    /\ gone' = gone \ {r}
    /\ waited' = [waited EXCEPT ![r] = 0]
    /\ served' = [served EXCEPT ![r] = 0]
    /\ UNCHANGED <<tokens, backlogTokens>>

\* The client goes away.
Disconnect(r) ==
    /\ pc[r] \in {"arrived", "waiting", "serving"} /\ r \notin gone
    /\ gone' = gone \cup {r}
    /\ UNCHANGED <<tokens, backlogTokens, pc, waited, served, status>>

-----------------------------------------------------------------------------
\* The first select of ServeHTTP: it takes its default only if neither of the
\* channels is ready.

EnterBacklog(r) ==
    /\ pc[r] = "arrived" /\ backlogTokens > 0
    /\ backlogTokens' = backlogTokens - 1
    /\ Move(r, "waiting")
    /\ UNCHANGED <<tokens, gone, waited, served, status>>

CancelAtDoor(r) ==
    /\ pc[r] = "arrived" /\ r \in gone
    /\ Move(r, "idle")
    /\ Answer(r, "canceled")
    /\ UNCHANGED <<tokens, backlogTokens, gone, waited, served>>

\* Mutant of ServeHTTP: requests beyond the limit are refused at the door.
RejectWithoutToken(r) ==
    /\ pc[r] = "arrived" /\ tokens = 0 /\ r \notin gone
    /\ Move(r, "idle")
    /\ Answer(r, "capacity_exceeded")
    /\ UNCHANGED <<tokens, backlogTokens, gone, waited, served>>

Reject(r) ==
    /\ pc[r] = "arrived" /\ backlogTokens = 0 /\ r \notin gone
    /\ Move(r, "idle")
    /\ Answer(r, "capacity_exceeded")
    /\ UNCHANGED <<tokens, backlogTokens, gone, waited, served>>

-----------------------------------------------------------------------------
\* The second select: any of the ready cases.

\* Mutant of ServeHTTP: the receive does not wait for a token.
TakeTokenUnchecked(r) ==
    /\ pc[r] = "waiting"
    /\ tokens' = tokens - 1
    /\ Move(r, "serving")
    /\ UNCHANGED <<backlogTokens, gone, waited, served, status>>

TakeToken(r) ==
    /\ pc[r] = "waiting" /\ tokens > 0
    /\ tokens' = tokens - 1
    /\ Move(r, "serving")
    /\ UNCHANGED <<backlogTokens, gone, waited, served, status>>

\* Mutant of ServeHTTP: both tokens are sent back from one deferred function.
TimeOutGivesBoth(r) ==
    /\ pc[r] = "waiting" /\ waited[r] = BacklogTimeout
    /\ Move(r, "leaving")
    /\ Answer(r, "timed_out")
    /\ UNCHANGED <<tokens, backlogTokens, gone, waited, served>>

TimeOut(r) ==
    /\ pc[r] = "waiting" /\ waited[r] = BacklogTimeout
    /\ Move(r, "returned")
    /\ Answer(r, "timed_out")
    /\ UNCHANGED <<tokens, backlogTokens, gone, waited, served>>

\* Mutant of ServeHTTP: a cancelled request returns before the defer.
CancelWaitingKeepsToken(r) ==
    /\ pc[r] = "waiting" /\ r \in gone
    /\ Move(r, "idle")
    /\ Answer(r, "canceled")
    /\ UNCHANGED <<tokens, backlogTokens, gone, waited, served>>

CancelWaiting(r) ==
    /\ pc[r] = "waiting" /\ r \in gone
    /\ Move(r, "returned")
    /\ Answer(r, "canceled")
    /\ UNCHANGED <<tokens, backlogTokens, gone, waited, served>>

-----------------------------------------------------------------------------
\* The handler, inside Timeout, and the deferred functions.

\* Mutant of ServeHTTP: the token is sent back after the call in place of in a
\* deferred function, and a panic skips it.
ServeNotDeferred(r) ==
    /\ pc[r] = "serving"
    /\ \/ /\ Move(r, "leaving")
          /\ Answer(r, IF served[r] = RequestTimeout THEN "expired" ELSE "answered")
       \/ Move(r, "returned") /\ Answer(r, "panicked")
    /\ UNCHANGED <<tokens, backlogTokens, gone, waited, served>>

Serve(r) ==
    /\ pc[r] = "serving"
    /\ Move(r, "leaving")
    /\ \/ Answer(r, IF served[r] = RequestTimeout THEN "expired" ELSE "answered")
       \/ Answer(r, "panicked")
    /\ UNCHANGED <<tokens, backlogTokens, gone, waited, served>>

GiveTokenBack(r) ==
    /\ pc[r] = "leaving" /\ tokens < Limit
    /\ tokens' = tokens + 1
    /\ Move(r, "returned")
    /\ UNCHANGED <<backlogTokens, gone, waited, served, status>>

GiveBacklogTokenBack(r) ==
    /\ pc[r] = "returned" /\ backlogTokens < Limit + BacklogLimit
    /\ backlogTokens' = backlogTokens + 1
    /\ Move(r, "idle")
    /\ UNCHANGED <<tokens, gone, waited, served, status>>

-----------------------------------------------------------------------------
In(place) == {r \in Requests : pc[r] = place}

\* A unit of time passes.
Tick ==
    /\ In("waiting") \cup In("serving") # {}
    /\ waited' = [r \in Requests |->
                    IF r \in In("waiting") /\ waited[r] < BacklogTimeout
                      THEN waited[r] + 1 ELSE waited[r]]
    /\ served' = [r \in Requests |->
                    IF r \in In("serving") /\ served[r] < RequestTimeout
                      THEN served[r] + 1 ELSE served[r]]
    /\ UNCHANGED <<tokens, backlogTokens, pc, gone, status>>

Proceed(r) ==
    \/ EnterBacklog(r) \/ CancelAtDoor(r) \/ Reject(r)
    \/ TakeToken(r) \/ TimeOut(r) \/ CancelWaiting(r)
    \/ Serve(r) \/ GiveTokenBack(r) \/ GiveBacklogTokenBack(r)

Next == (\E r \in Requests : Arrive(r) \/ Disconnect(r) \/ Proceed(r)) \/ Tick

Spec == Init /\ [][Next]_vars

\* Every request's goroutine is scheduled; a handler returns in the end.
FairSpec == Spec /\ WF_vars(Tick) /\ \A r \in Requests : WF_vars(Proceed(r))

-----------------------------------------------------------------------------
\* Properties.

Serving == In("serving") \cup In("leaving")
Inside == In("waiting") \cup Serving \cup In("returned")

\* Every variable has its type.
TypeOK ==
    /\ tokens \in 0 .. Limit
    /\ backlogTokens \in 0 .. (Limit + BacklogLimit)
    /\ pc \in [Requests -> {"idle", "arrived", "waiting", "serving", "leaving", "returned"}]
    /\ gone \subseteq Requests
    /\ waited \in [Requests -> 0 .. BacklogTimeout]
    /\ served \in [Requests -> 0 .. RequestTimeout]
    /\ status \in [Requests -> Statuses]

\* No return of ServeHTTP loses or invents a token, whichever of its selects
\* it leaves by and whether the handler panics (throttler.go:79-81, 91-93).
TokensConserved ==
    /\ tokens + Cardinality(Serving) = Limit
    /\ backlogTokens + Cardinality(Inside) = Limit + BacklogLimit

\* The deferred sends never wait: there is room in the channel for a token
\* that is on its way back.
SendsNeverBlock ==
    /\ In("leaving") # {} => tokens < Limit
    /\ In("returned") # {} => backlogTokens < Limit + BacklogLimit

\* A request is refused for want of capacity only while the limit and the
\* backlog are both full (throttler.go:97-99).
RejectedOnlyWhenFull ==
    [][\A r \in Requests : Reject(r) => Cardinality(Inside) = Limit + BacklogLimit]_vars

\* Every request is answered, by a handler or by one of the refusals.
RequestsAnswered == \A r \in Requests : pc[r] = "arrived" ~> pc[r] = "idle"
=============================================================================
