-------------------------- MODULE ThrottlerProofs ---------------------------
(***************************************************************************)
(* Proofs about the throttler, for any number of requests, any limit, any  *)
(* backlog and any timeouts.  The inductive invariant is the conjunction   *)
(* of the types and the conservation of the two kinds of tokens.           *)
(***************************************************************************)
EXTENDS Throttler, FiniteSetTheorems, TLAPS

\* The sets that count the tokens are finite.
LEMMA PlacesFinite ==
    /\ IsFiniteSet(Serving) /\ Cardinality(Serving) \in Nat
    /\ IsFiniteSet(Inside) /\ Cardinality(Inside) \in Nat
<1>1. Serving \subseteq Requests /\ Inside \subseteq Requests
  BY DEF Serving, Inside, In
<1> QED
  BY <1>1, RequestsAssumption, FS_Subset, FS_CardinalityType

\* Adding a new element to a finite set, or taking one of its elements away.
LEMMA CountOne ==
    ASSUME NEW S, NEW r, IsFiniteSet(S)
    PROVE  /\ r \notin S => Cardinality(S \cup {r}) = Cardinality(S) + 1
           /\ r \in S => Cardinality(S \ {r}) = Cardinality(S) - 1
BY FS_AddElement, FS_RemoveElement

\* Where a move leaves the two sets of requests.
LEMMA MoveChanges ==
    ASSUME TypeOK, NEW r \in Requests, NEW there, Move(r, there)
    PROVE  /\ Serving' = IF there \in {"serving", "leaving"}
                           THEN Serving \cup {r} ELSE Serving \ {r}
           /\ Inside' = IF there \in {"waiting", "serving", "leaving", "returned"}
                          THEN Inside \cup {r} ELSE Inside \ {r}
BY DEF TypeOK, Move, Serving, Inside, In

\* The initial state has its types and all its tokens.
LEMMA InitOK == Init => TypeOK /\ TokensConserved
<1> SUFFICES ASSUME Init PROVE TypeOK /\ TokensConserved
  OBVIOUS
<1> USE LimitAssumption, TimeoutAssumption
<1>1. TypeOK
  BY DEF Init, TypeOK, Statuses
<1>2. Serving = {} /\ Inside = {}
  BY DEF Init, Serving, Inside, In
<1>3. TokensConserved
  BY <1>2, FS_EmptySet DEF Init, TokensConserved
<1> QED
  BY <1>1, <1>3

\* Every step keeps the types.
LEMMA NextKeepsTypes == TypeOK /\ [Next]_vars => TypeOK'
<1> SUFFICES ASSUME TypeOK, [Next]_vars PROVE TypeOK'
  OBVIOUS
<1> USE LimitAssumption, TimeoutAssumption
<1>1. ASSUME NEW r \in Requests, Arrive(r) PROVE TypeOK'
  BY <1>1 DEF TypeOK, Arrive, Move, Answer, Statuses
<1>2. ASSUME NEW r \in Requests, Disconnect(r) PROVE TypeOK'
  BY <1>2 DEF TypeOK, Disconnect
<1>3. ASSUME NEW r \in Requests,
             CancelAtDoor(r) \/ Reject(r) \/ TimeOut(r) \/ CancelWaiting(r) \/ Serve(r)
      PROVE  TypeOK'
  BY <1>3 DEF TypeOK, Statuses, Move, Answer, CancelAtDoor, Reject, TimeOut,
              CancelWaiting, Serve
<1>4. ASSUME NEW r \in Requests,
             EnterBacklog(r) \/ TakeToken(r) \/ GiveTokenBack(r) \/ GiveBacklogTokenBack(r)
      PROVE  TypeOK'
  BY <1>4 DEF TypeOK, Move, EnterBacklog, TakeToken, GiveTokenBack, GiveBacklogTokenBack
<1>5. ASSUME Tick PROVE TypeOK'
  <2>1. waited' \in [Requests -> 0 .. BacklogTimeout]
    BY <1>5 DEF TypeOK, Tick, In
  <2>2. served' \in [Requests -> 0 .. RequestTimeout]
    BY <1>5 DEF TypeOK, Tick, In
  <2>3. UNCHANGED <<tokens, backlogTokens, pc, gone, status>>
    BY <1>5 DEF Tick
  <2> QED
    BY <2>1, <2>2, <2>3 DEF TypeOK
<1>6. CASE UNCHANGED vars
  BY <1>6 DEF TypeOK, vars
<1> QED
  BY <1>1, <1>2, <1>3, <1>4, <1>5, <1>6 DEF Next, Proceed

\* Every step keeps the tokens: one that takes a request into a set or out of
\* it takes a token or gives it back.
LEMMA NextKeepsTokens == TypeOK /\ TokensConserved /\ [Next]_vars => TokensConserved'
<1> SUFFICES ASSUME TypeOK, TokensConserved, [Next]_vars PROVE TokensConserved'
  OBVIOUS
<1> USE LimitAssumption, PlacesFinite
<1>0. tokens \in Int /\ backlogTokens \in Int
  BY DEF TypeOK
<1>1. ASSUME UNCHANGED <<tokens, backlogTokens>>, Serving' = Serving, Inside' = Inside
      PROVE  TokensConserved'
  BY <1>1 DEF TokensConserved
<1>2. ASSUME NEW r \in Requests,
             Arrive(r) \/ CancelAtDoor(r) \/ Reject(r)
      PROVE  TokensConserved'
  <2>1. r \notin Serving /\ r \notin Inside
    BY <1>2 DEF Arrive, CancelAtDoor, Reject, Serving, Inside, In
  <2>2. Serving' = Serving \ {r} /\ Inside' = Inside \ {r}
    BY <1>2, MoveChanges DEF Arrive, CancelAtDoor, Reject
  <2>3. Serving' = Serving /\ Inside' = Inside
    BY <2>1, <2>2
  <2> QED
    BY <1>1, <1>2, <2>3 DEF Arrive, CancelAtDoor, Reject
<1>3. ASSUME NEW r \in Requests, TimeOut(r) \/ CancelWaiting(r) PROVE TokensConserved'
  <2>1. r \notin Serving /\ r \in Inside
    BY <1>3 DEF TimeOut, CancelWaiting, Serving, Inside, In
  <2>2. Serving' = Serving \ {r} /\ Inside' = Inside \cup {r}
    BY <1>3, MoveChanges DEF TimeOut, CancelWaiting
  <2>3. Serving' = Serving /\ Inside' = Inside
    BY <2>1, <2>2
  <2> QED
    BY <1>1, <1>3, <2>3 DEF TimeOut, CancelWaiting
<1>4. ASSUME NEW r \in Requests, Serve(r) PROVE TokensConserved'
  <2>1. r \in Serving /\ r \in Inside
    BY <1>4 DEF Serve, Serving, Inside, In
  <2>2. Serving' = Serving \cup {r} /\ Inside' = Inside \cup {r}
    BY <1>4, MoveChanges DEF Serve
  <2>3. Serving' = Serving /\ Inside' = Inside
    BY <2>1, <2>2
  <2> QED
    BY <1>1, <1>4, <2>3 DEF Serve
<1>5. ASSUME NEW r \in Requests, EnterBacklog(r) PROVE TokensConserved'
  <2>1. r \notin Serving /\ r \notin Inside
    BY <1>5 DEF EnterBacklog, Serving, Inside, In
  <2>2. Serving' = Serving \ {r} /\ Inside' = Inside \cup {r}
    BY <1>5, MoveChanges DEF EnterBacklog
  <2>3. Serving' = Serving /\ Cardinality(Inside') = Cardinality(Inside) + 1
    BY <2>1, <2>2, CountOne
  <2> QED
    BY <1>0, <1>5, <2>3 DEF EnterBacklog, TokensConserved
<1>6. ASSUME NEW r \in Requests, TakeToken(r) PROVE TokensConserved'
  <2>1. r \notin Serving /\ r \in Inside
    BY <1>6 DEF TakeToken, Serving, Inside, In
  <2>2. Serving' = Serving \cup {r} /\ Inside' = Inside \cup {r}
    BY <1>6, MoveChanges DEF TakeToken
  <2>3. Inside' = Inside /\ Cardinality(Serving') = Cardinality(Serving) + 1
    BY <2>1, <2>2, CountOne
  <2> QED
    BY <1>0, <1>6, <2>3 DEF TakeToken, TokensConserved
<1>7. ASSUME NEW r \in Requests, GiveTokenBack(r) PROVE TokensConserved'
  <2>1. r \in Serving /\ r \in Inside
    BY <1>7 DEF GiveTokenBack, Serving, Inside, In
  <2>2. Serving' = Serving \ {r} /\ Inside' = Inside \cup {r}
    BY <1>7, MoveChanges DEF GiveTokenBack
  <2>3. Inside' = Inside /\ Cardinality(Serving') = Cardinality(Serving) - 1
    BY <2>1, <2>2, CountOne
  <2> QED
    BY <1>0, <1>7, <2>3 DEF GiveTokenBack, TokensConserved
<1>8. ASSUME NEW r \in Requests, GiveBacklogTokenBack(r) PROVE TokensConserved'
  <2>1. r \notin Serving /\ r \in Inside
    BY <1>8 DEF GiveBacklogTokenBack, Serving, Inside, In
  <2>2. Serving' = Serving \ {r} /\ Inside' = Inside \ {r}
    BY <1>8, MoveChanges DEF GiveBacklogTokenBack
  <2>3. Serving' = Serving /\ Cardinality(Inside') = Cardinality(Inside) - 1
    BY <2>1, <2>2, CountOne
  <2> QED
    BY <1>0, <1>8, <2>3 DEF GiveBacklogTokenBack, TokensConserved
<1>9. ASSUME UNCHANGED <<tokens, backlogTokens, pc>> PROVE TokensConserved'
  <2>1. Serving' = Serving /\ Inside' = Inside
    BY <1>9 DEF Serving, Inside, In
  <2> QED
    BY <1>1, <1>9, <2>1
<1> QED
  BY <1>2, <1>3, <1>4, <1>5, <1>6, <1>7, <1>8, <1>9
    DEF Next, Proceed, Disconnect, Tick, vars

\* Types and tokens together are inductive.
LEMMA SpecKeepsTokens == Spec => [](TypeOK /\ TokensConserved)
BY InitOK, NextKeepsTypes, NextKeepsTokens, PTL DEF Spec

-----------------------------------------------------------------------------
\* Every variable of the throttler keeps its type; neither channel ever holds
\* more tokens than it was made with, nor fewer than none.
THEOREM ThrottlerTypes == Spec => []TypeOK
BY SpecKeepsTokens, PTL

\* Whatever the timeouts, the cancellations and the panics, the tokens in the
\* two channels and the requests that hold them always add up.
THEOREM NoTokenLost == Spec => []TokensConserved
BY SpecKeepsTokens, PTL

\* A deferred send always finds room, so a request never waits on its way out
\* (throttler.go:79-81, 91-93).
THEOREM WayOutIsOpen == Spec => []SendsNeverBlock
<1>1. TypeOK /\ TokensConserved => SendsNeverBlock
  <2> SUFFICES ASSUME TypeOK, TokensConserved PROVE SendsNeverBlock
    OBVIOUS
  <2> USE LimitAssumption, PlacesFinite
  <2>1. In("leaving") # {} => Cardinality(Serving) # 0
    BY FS_EmptySet DEF Serving
  <2>2. In("returned") # {} => Cardinality(Inside) # 0
    BY FS_EmptySet DEF Inside
  <2> QED
    BY <2>1, <2>2 DEF TypeOK, TokensConserved, SendsNeverBlock
<1> QED
  BY <1>1, SpecKeepsTokens, PTL

\* A request is refused for want of capacity only while as many requests as
\* the limit and the backlog allow are inside (throttler.go:97-99).
THEOREM RefusalsAreDue == Spec => RejectedOnlyWhenFull
<1>1. TypeOK /\ TokensConserved /\ [Next]_vars =>
        [\A r \in Requests : Reject(r) => Cardinality(Inside) = Limit + BacklogLimit]_vars
  BY LimitAssumption, PlacesFinite DEF TypeOK, TokensConserved, Reject
<1> QED
  BY <1>1, SpecKeepsTokens, PTL DEF Spec, RejectedOnlyWhenFull

-----------------------------------------------------------------------------
\* What the two channels are for: each is a semaphore.

Slots == INSTANCE Semaphore WITH
    Clients <- Requests, Permits <- Limit, holders <- Serving
Places == INSTANCE Semaphore WITH
    Clients <- Requests, Permits <- Limit + BacklogLimit, holders <- Inside

\* A step moves one request at most, and one that comes to a permit found a
\* token in the channel.
LEMMA StepImplementsSemaphores ==
    /\ TypeOK /\ TokensConserved
    /\ TypeOK' /\ TokensConserved'
    /\ [Next]_vars
    => [Slots!Next]_Serving /\ [Places!Next]_Inside
<1> SUFFICES ASSUME TypeOK, TokensConserved, TypeOK', TokensConserved', [Next]_vars
             PROVE  /\ Serving' = Serving \/ Slots!Next
                    /\ Inside' = Inside \/ Places!Next
  OBVIOUS
<1>1. pc' = pc \/ \E r \in Requests, there \in {"idle", "arrived", "waiting", "serving",
                                              "leaving", "returned"} : Move(r, there)
  BY DEF Next, Proceed, Arrive, Disconnect, EnterBacklog, CancelAtDoor, Reject, TakeToken,
         TimeOut, CancelWaiting, Serve, GiveTokenBack, GiveBacklogTokenBack, Tick, vars
<1>2. CASE pc' = pc
  BY <1>2 DEF Serving, Inside, In
<1>3. ASSUME NEW r \in Requests, NEW there, Move(r, there)
      PROVE  Serving' = Serving \/ Slots!Next
  <2>1. Serving' \in {Serving \cup {r}, Serving \ {r}}
    BY <1>3, MoveChanges
  <2>2. CASE r \notin Serving /\ Serving' = Serving \cup {r}
    <3>1. Cardinality(Serving') = Cardinality(Serving) + 1
      BY <2>2, CountOne, PlacesFinite
    <3>2. tokens' \in Nat /\ tokens' + Cardinality(Serving') = Limit
      BY LimitAssumption DEF TypeOK, TokensConserved
    <3>3. Cardinality(Serving) < Limit
      BY <3>1, <3>2, PlacesFinite, LimitAssumption
    <3>4. Slots!Cardinality(Serving) = Cardinality(Serving)
      BY DEF Slots!Cardinality, Cardinality
    <3> QED
      BY <2>2, <3>3, <3>4 DEF Slots!Next, Slots!Acquire
  <2>3. CASE r \in Serving /\ Serving' = Serving \ {r}
    BY <2>3 DEF Slots!Next, Slots!Release
  <2> QED
    BY <2>1, <2>2, <2>3
<1>4. ASSUME NEW r \in Requests, NEW there, Move(r, there)
      PROVE  Inside' = Inside \/ Places!Next
  <2>1. Inside' \in {Inside \cup {r}, Inside \ {r}}
    BY <1>4, MoveChanges
  <2>2. CASE r \notin Inside /\ Inside' = Inside \cup {r}
    <3>1. Cardinality(Inside') = Cardinality(Inside) + 1
      BY <2>2, CountOne, PlacesFinite
    <3>2. backlogTokens' \in Nat /\ backlogTokens' + Cardinality(Inside') = Limit + BacklogLimit
      BY LimitAssumption DEF TypeOK, TokensConserved
    <3>3. Cardinality(Inside) < Limit + BacklogLimit
      BY <3>1, <3>2, PlacesFinite, LimitAssumption
    <3>4. Places!Cardinality(Inside) = Cardinality(Inside)
      BY DEF Places!Cardinality, Cardinality
    <3> QED
      BY <2>2, <3>3, <3>4 DEF Places!Next, Places!Acquire
  <2>3. CASE r \in Inside /\ Inside' = Inside \ {r}
    BY <2>3 DEF Places!Next, Places!Release
  <2> QED
    BY <2>1, <2>2, <2>3
<1> QED
  BY <1>1, <1>2, <1>3, <1>4

\* The throttler implements a semaphore of Limit permits for its handlers and
\* one of Limit and BacklogLimit together for the requests inside it.
THEOREM ThrottlerIsSemaphore == Spec => Slots!Spec /\ Places!Spec
<1>1. Init => Slots!Init /\ Places!Init
  BY DEF Init, Serving, Inside, In, Slots!Init, Places!Init
<1> QED
  BY <1>1, StepImplementsSemaphores, SpecKeepsTokens, PTL
  DEF Spec, Slots!Spec, Places!Spec

-----------------------------------------------------------------------------
\* Every request comes nearer to its answer.

\* A bound of the steps a request at p has left.
RequestLeft(p) ==
    CASE p = "arrived" -> 5
      [] p = "waiting" -> 4
      [] p = "serving" -> 3
      [] p = "leaving" -> 2
      [] p = "returned" -> 1
      [] p = "idle" -> 0

\* Every step of a request brings it nearer to its answer, and nothing else
\* sets it back once it has arrived: not the others, not its client's leaving,
\* not the time that passes.
RequestsComeNearer ==
    \A r \in Requests :
        /\ Proceed(r) => RequestLeft(pc'[r]) < RequestLeft(pc[r])
        /\ pc[r] # "idle" /\ ~Proceed(r) => RequestLeft(pc'[r]) = RequestLeft(pc[r])

\* A request that waits finds a token, or some handler has it: the tokens of
\* those who were cancelled, timed out or panicked are back.
WaitsOnlyForHolders ==
    In("waiting") # {} /\ tokens = 0 => Cardinality(Serving) = Limit /\ Serving # {}

LEMMA ProceedComesNearer ==
    ASSUME TypeOK, NEW r \in Requests, Proceed(r)
    PROVE  RequestLeft(pc'[r]) < RequestLeft(pc[r])
<1>1. \/ pc[r] = "arrived" /\ pc'[r] \in {"waiting", "idle"}
      \/ pc[r] = "waiting" /\ pc'[r] \in {"serving", "returned"}
      \/ pc[r] = "serving" /\ pc'[r] = "leaving"
      \/ pc[r] = "leaving" /\ pc'[r] = "returned"
      \/ pc[r] = "returned" /\ pc'[r] = "idle"
  BY DEF TypeOK, Proceed, Move, EnterBacklog, CancelAtDoor, Reject, TakeToken, TimeOut,
         CancelWaiting, Serve, GiveTokenBack, GiveBacklogTokenBack
<1> QED
  BY <1>1 DEF RequestLeft

LEMMA OthersLeaveIt ==
    ASSUME TypeOK, Next, NEW r \in Requests, ~Proceed(r), pc[r] # "idle"
    PROVE  pc'[r] = pc[r]
<1>1. CASE Tick
  BY <1>1 DEF Tick
<1>2. ASSUME NEW q \in Requests, Arrive(q) \/ Disconnect(q) \/ Proceed(q)
      PROVE  pc'[r] = pc[r]
  <2>1. CASE q # r
    BY <1>2, <2>1
    DEF TypeOK, Proceed, Move, Arrive, Disconnect, EnterBacklog, CancelAtDoor, Reject,
        TakeToken, TimeOut, CancelWaiting, Serve, GiveTokenBack, GiveBacklogTokenBack
  <2>2. CASE q = r
    BY <1>2, <2>2 DEF Arrive, Disconnect
  <2> QED
    BY <2>1, <2>2
<1> QED
  BY <1>1, <1>2 DEF Next

\* What RequestsAnswered needs of the steps, whatever the time a handler takes:
\* a request that has arrived is answered after at most five steps of its own,
\* nothing sets it back, and the only step it may have to wait for is another
\* handler's return (throttler.go:70-101).
THEOREM ArrivedComeNearer ==
    Spec => []WaitsOnlyForHolders /\ [][RequestsComeNearer]_vars
<1>1. TypeOK /\ TokensConserved => WaitsOnlyForHolders
  <2> SUFFICES ASSUME TypeOK, TokensConserved, tokens = 0
               PROVE  Cardinality(Serving) = Limit /\ Serving # {}
    BY DEF WaitsOnlyForHolders
  <2>1. Cardinality(Serving) = Limit
    BY PlacesFinite, LimitAssumption DEF TokensConserved
  <2> QED
    BY <2>1, FS_EmptySet, LimitAssumption
<1>2. TypeOK /\ [Next]_vars => [RequestsComeNearer]_vars
  BY ProceedComesNearer, OthersLeaveIt DEF RequestsComeNearer
<1> QED
  BY <1>1, <1>2, SpecKeepsTokens, PTL DEF Spec
=============================================================================
