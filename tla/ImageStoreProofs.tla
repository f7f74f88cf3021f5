-------------------------- MODULE ImageStoreProofs --------------------------
(***************************************************************************)
(* Proofs about the image requests over the chain of stores, for any       *)
(* number of requests, versions and background goroutines: the types, that *)
(* an image the index names is never out of reach, when an answer is of    *)
(* one image, that a deleted image is gone, and that a fetch heals what is *)
(* broken.                                                                 *)
(***************************************************************************)
EXTENDS ImageHistory, ImageCoherence, FiniteSetTheorems, TLAPS

\* The types of the chain and of the index, without the bound of goroutines.
ChainTypes ==
    /\ mem \in [StoreKeys -> Blobs \cup {NoBlob}]
    /\ low \in [StoreKeys -> Blobs \cup {NoBlob}]
    /\ IsABag(bg) /\ BagToSet(bg) \subseteq Tasks
    /\ origin \in Versions
    /\ idx \in [StoreKeys -> Versions \cup {NoImage}]

RequestTypes ==
    /\ pc \in [Requests -> Steps]
    /\ kind \in [Requests -> Kinds \cup {"none"}]
    /\ got \in [Requests -> Versions \cup {NoImage}]
    /\ data \in [Requests -> Blobs \cup {NoBlob}]
    /\ reply \in [Requests -> [status : Statuses, meta : Versions \cup {NoImage},
                               data : Blobs \cup {NoBlob}]]

Types == ChainTypes /\ RequestTypes

-----------------------------------------------------------------------------
\* The bag of goroutines.

\* One goroutine more.
LEMMA BagGains ==
    ASSUME NEW B, IsABag(B), NEW t
    PROVE  /\ IsABag(B (+) SetToBag({t}))
           /\ BagToSet(B (+) SetToBag({t})) = BagToSet(B) \cup {t}
BY DEF IsABag, BagToSet, SetToBag, (+)

\* One goroutine less, of which there may have been several alike.
LEMMA BagLoses ==
    ASSUME NEW B, IsABag(B), NEW t \in BagToSet(B)
    PROVE  /\ IsABag(B (-) SetToBag({t}))
           /\ BagToSet(B (-) SetToBag({t})) \subseteq BagToSet(B)
           /\ BagToSet(B) \ {t} \subseteq BagToSet(B (-) SetToBag({t}))
BY DEF IsABag, BagToSet, SetToBag, (-)

LEMMA SpawnAdds ==
    ASSUME ChainTypes, NEW op \in {"put_low", "del_low", "fill"},
           NEW k \in StoreKeys, NEW b \in Blobs \cup {NoBlob}, Spawn(op, k, b)
    PROVE  /\ IsABag(bg') /\ BagToSet(bg') \subseteq Tasks
           /\ BagToSet(bg') = BagToSet(bg) \cup {[op |-> op, key |-> k, blob |-> b]}
<1> DEFINE t == [op |-> op, key |-> k, blob |-> b]
<1>1. bg' = bg (+) SetToBag({t})
  BY DEF Spawn
<1>2. t \in Tasks
  BY DEF Tasks
<1> HIDE DEF t
<1>3. IsABag(bg) /\ BagToSet(bg) \subseteq Tasks
  BY DEF ChainTypes
<1>4. IsABag(bg (+) SetToBag({t})) /\ BagToSet(bg (+) SetToBag({t})) = BagToSet(bg) \cup {t}
  BY <1>3, BagGains
<1>5. IsABag(bg') /\ BagToSet(bg') \subseteq Tasks /\ BagToSet(bg') = BagToSet(bg) \cup {t}
  BY <1>1, <1>2, <1>3, <1>4
<1> QED
  BY <1>5 DEF t

-----------------------------------------------------------------------------
\* The locals of a request.

\* Where a request holds image data.
HoldSteps ==
    {<<"add", "put">>, <<"add", "hset">>,
     <<"make", "resize">>, <<"make", "put">>, <<"make", "hset">>,
     <<"variant", "hget">>, <<"variant", "mem">>, <<"variant", "low">>}

Held == \A r \in Requests : pc[r] \in HoldSteps => data[r] # NoBlob

LEMMA StepFacts ==
    /\ Idle \in Steps \ HoldSteps
    /\ {<<"add", "download">>, <<"delete", "db">>, <<"delete", "store">>} \subseteq Steps \ HoldSteps
    /\ \A phase \in {"probe", "original"}, step \in {"hget", "mem", "low"} :
          <<phase, step>> \in Steps \ HoldSteps
    /\ \A step \in {"hget", "mem", "low"} : <<"variant", step>> \in Steps \cap HoldSteps
    /\ \A step \in {"put", "hset"} : <<"add", step>> \in Steps \cap HoldSteps
    /\ \A step \in {"resize", "put", "hset"} : <<"make", step>> \in Steps \cap HoldSteps
BY DEF Idle, Steps, Phases, HoldSteps

\* A move of one request.
LEMMA MoveKeeps ==
    ASSUME RequestTypes, Held, NEW r \in Requests, NEW there \in Steps,
           NEW d \in Blobs \cup {NoBlob}, NEW g \in Versions \cup {NoImage},
           pc' = Set(pc, r, there), data' = Set(data, r, d), got' = Set(got, r, g),
           kind' \in [Requests -> Kinds \cup {"none"}],
           reply' \in [Requests -> [status : Statuses, meta : Versions \cup {NoImage},
                                    data : Blobs \cup {NoBlob}]],
           there \in HoldSteps => d # NoBlob
    PROVE  RequestTypes' /\ Held'
<1>1. RequestTypes'
  BY DEF RequestTypes, Set
<1>2. ASSUME NEW q \in Requests, pc'[q] \in HoldSteps
      PROVE  data'[q] # NoBlob
  <2>1. CASE q = r
    BY <1>2, <2>1 DEF RequestTypes, Set
  <2>2. CASE q # r
    BY <1>2, <2>2 DEF RequestTypes, Set, Held
  <2> QED
    BY <2>1, <2>2
<1> QED
  BY <1>1, <1>2 DEF Held

\* A move on, with or without new locals.
LEMMA GotoKeeps ==
    ASSUME RequestTypes, Held, NEW r \in Requests, NEW phase, NEW step,
           <<phase, step>> \in Steps, Goto(r, phase, step), UNCHANGED <<kind, reply>>,
           NEW d \in Blobs \cup {NoBlob}, NEW g \in Versions \cup {NoImage},
           data' = Set(data, r, d) \/ (UNCHANGED data /\ d = data[r]),
           got' = Set(got, r, g) \/ UNCHANGED got,
           <<phase, step>> \in HoldSteps => d # NoBlob
    PROVE  RequestTypes' /\ Held'
<1>1. data' = Set(data, r, d)
  BY DEF RequestTypes, Set
<1>2. \E h \in Versions \cup {NoImage} : got' = Set(got, r, h)
  <2>1. CASE UNCHANGED got
    <3>1. got[r] \in Versions \cup {NoImage} /\ got' = Set(got, r, got[r])
      BY <2>1 DEF RequestTypes, Set
    <3> QED
      BY <3>1
  <2> QED
    BY <2>1
<1>3. pc' = Set(pc, r, <<phase, step>>)
  BY DEF Goto, Set
<1>4. /\ kind' \in [Requests -> Kinds \cup {"none"}]
      /\ reply' \in [Requests -> [status : Statuses, meta : Versions \cup {NoImage},
                                  data : Blobs \cup {NoBlob}]]
  BY DEF RequestTypes
<1> QED
  BY <1>1, <1>2, <1>3, <1>4, MoveKeeps

\* An answer.
LEMMA AnswerKeeps ==
    ASSUME RequestTypes, Held, NEW r \in Requests, NEW status \in Statuses,
           NEW m \in Versions \cup {NoImage}, NEW d \in Blobs \cup {NoBlob},
           Answer(r, status, m, d)
    PROVE  RequestTypes' /\ Held'
<1>1. /\ pc' = Set(pc, r, Idle) /\ data' = Set(data, r, NoBlob) /\ got' = Set(got, r, NoImage)
      /\ kind' = kind /\ reply' = Set(reply, r, [status |-> status, meta |-> m, data |-> d])
  BY DEF Answer
<1>2. /\ kind' \in [Requests -> Kinds \cup {"none"}]
      /\ reply' \in [Requests -> [status : Statuses, meta : Versions \cup {NoImage},
                                  data : Blobs \cup {NoBlob}]]
  BY <1>1 DEF RequestTypes, Set
<1> QED
  BY <1>1, <1>2, StepFacts, MoveKeeps

LEMMA RefuseKeeps ==
    ASSUME RequestTypes, Held, NEW r \in Requests, NEW status \in Statuses, Refuse(r, status)
    PROVE  RequestTypes' /\ Held'
BY AnswerKeeps DEF Refuse

LEMMA FoundKeeps ==
    ASSUME Types, Held, NEW r \in Requests, NEW phase \in Phases, NEW step \in {"mem", "low"},
           At(r, phase, step), NEW b \in Blobs, Found(r, phase, b)
    PROVE  RequestTypes' /\ Held'
<1>1. b # NoBlob /\ b \in Blobs \cup {NoBlob} /\ NoImage \in Versions \cup {NoImage}
  BY BlobsAssumption
<1>2. data[r] \in Blobs \cup {NoBlob} /\ got[r] \in Versions \cup {NoImage} /\ RequestTypes
  BY DEF Types, RequestTypes
<1>3. CASE phase = "probe"
  <2>1. /\ Goto(r, "original", "hget") /\ got' = Set(got, r, NoImage)
        /\ UNCHANGED <<kind, data, reply>>
    BY <1>3 DEF Found
  <2>2. <<"original", "hget">> \in Steps \ HoldSteps
    BY StepFacts
  <2> QED
    BY <1>1, <1>2, <2>1, <2>2, GotoKeeps
<1>4. CASE phase = "original"
  <2>1. /\ Goto(r, "variant", "hget") /\ got' = Set(got, r, NoImage)
        /\ data' = Set(data, r, b) /\ UNCHANGED <<kind, reply>>
    BY <1>4 DEF Found
  <2>2. <<"variant", "hget">> \in Steps
    BY StepFacts
  <2> QED
    BY <1>1, <1>2, <2>1, <2>2, GotoKeeps
<1>5. CASE phase = "variant"
  <2>1. Answer(r, "ok", got[r], b)
    BY <1>5 DEF Found
  <2> QED
    BY <1>1, <1>2, <2>1, AnswerKeeps DEF Statuses
<1> QED
  BY <1>3, <1>4, <1>5 DEF Phases

LEMMA MissingKeeps ==
    ASSUME Types, Held, NEW r \in Requests, NEW phase \in Phases,
           NEW step \in {"hget", "mem", "low"},
           At(r, phase, step), Missing(r, phase)
    PROVE  RequestTypes' /\ Held'
<1>1. data[r] \in Blobs \cup {NoBlob} /\ NoImage \in Versions \cup {NoImage} /\ RequestTypes
  BY DEF Types, RequestTypes
<1>2. CASE phase = "probe"
  <2>1. /\ Goto(r, "add", "download") /\ got' = Set(got, r, NoImage)
        /\ UNCHANGED <<kind, data, reply>>
    BY <1>2 DEF Missing
  <2>2. <<"add", "download">> \in Steps \ HoldSteps
    BY StepFacts
  <2> QED
    BY <1>1, <2>1, <2>2, GotoKeeps
<1>3. CASE phase = "original"
  BY <1>1, <1>3, RefuseKeeps DEF Missing, Statuses
<1>4. CASE phase = "variant"
  <2>1. /\ Goto(r, "make", "resize") /\ got' = Set(got, r, NoImage)
        /\ UNCHANGED <<kind, data, reply>>
    BY <1>4 DEF Missing
  <2>2. <<"make", "resize">> \in Steps /\ pc[r] \in HoldSteps
    BY <1>4, StepFacts DEF At
  <2>3. data[r] # NoBlob
    BY <2>2 DEF Held
  <2> QED
    BY <1>1, <2>1, <2>2, <2>3, GotoKeeps
<1> QED
  BY <1>2, <1>3, <1>4 DEF Phases

LEMMA HandlerKeepsLocals ==
    ASSUME Types, Held, NEW r \in Requests, Begin(r) \/ Handle(r)
    PROVE  RequestTypes' /\ Held'
<1>1. /\ RequestTypes /\ data[r] \in Blobs \cup {NoBlob} /\ got[r] \in Versions \cup {NoImage}
      /\ NoImage \in Versions \cup {NoImage} /\ NoBlob \in Blobs \cup {NoBlob}
      /\ origin \in Blobs /\ \A b \in Blobs : b # NoBlob /\ b \in Versions
  BY VersionAssumption, BlobsAssumption DEF Types, RequestTypes, ChainTypes
<1>2. CASE Begin(r)
  <2>1. PICK h \in Kinds :
           /\ kind' = Set(kind, r, h)
           /\ \/ Goto(r, "probe", "hget") \/ Goto(r, "original", "hget")
              \/ Goto(r, "add", "download") \/ Goto(r, "delete", "db")
    BY <1>2 DEF Begin
  <2>2. \E there \in Steps \ HoldSteps : pc' = Set(pc, r, there)
    BY <2>1, StepFacts DEF Goto, Set
  <2>3. data' = Set(data, r, data[r]) /\ got' = Set(got, r, got[r])
    BY <1>1, <1>2 DEF Begin, RequestTypes, Set
  <2>4. NoReply \in [status : Statuses, meta : Versions \cup {NoImage},
                     data : Blobs \cup {NoBlob}]
    BY DEF NoReply, Statuses
  <2>5. /\ kind' \in [Requests -> Kinds \cup {"none"}]
        /\ reply' \in [Requests -> [status : Statuses, meta : Versions \cup {NoImage},
                                    data : Blobs \cup {NoBlob}]]
    BY <1>1, <1>2, <2>1, <2>4 DEF Begin, RequestTypes, Set
  <2> QED
    BY <1>1, <2>2, <2>3, <2>5, MoveKeeps
<1>3. ASSUME NEW phase \in Phases, HGet(r, phase) PROVE RequestTypes' /\ Held'
  <2>1. CASE Missing(r, phase)
    BY <1>3, <2>1, MissingKeeps DEF HGet
  <2>2. CASE Refuse(r, "error")
    BY <1>1, <2>2, RefuseKeeps DEF Statuses
  <2>3. CASE /\ got' = Set(got, r, idx[KeyOf(phase)])
             /\ Goto(r, phase, "mem")
             /\ UNCHANGED <<kind, data, reply>>
    <3>1. idx[KeyOf(phase)] \in Versions \cup {NoImage}
      BY VersionAssumption DEF Types, ChainTypes, KeyOf
    <3>2. <<phase, "mem">> \in Steps
      BY StepFacts DEF Phases
    <3>3. <<phase, "mem">> \in HoldSteps => data[r] # NoBlob
      <4>1. CASE phase = "variant"
        BY <1>3, <4>1, StepFacts DEF HGet, At, Held
      <4>2. CASE phase # "variant"
        BY <4>2, StepFacts DEF Phases
      <4> QED
        BY <4>1, <4>2
    <3> QED
      BY <1>1, <2>3, <3>1, <3>2, <3>3, GotoKeeps
  <2> QED
    BY <1>3, <2>1, <2>2, <2>3 DEF HGet
<1>4. ASSUME NEW phase \in Phases, MemGet(r, phase) PROVE RequestTypes' /\ Held'
  <2>1. mem[KeyOf(phase)] \in Blobs \cup {NoBlob} /\ At(r, phase, "mem")
    BY <1>4, VersionAssumption DEF Types, ChainTypes, KeyOf, MemGet
  <2>2. CASE mem[KeyOf(phase)] # NoBlob /\ Found(r, phase, mem[KeyOf(phase)])
    BY <2>1, <2>2, FoundKeeps
  <2>3. CASE Goto(r, phase, "low") /\ UNCHANGED <<kind, got, data, reply>>
    <3>1. <<phase, "low">> \in Steps
      BY StepFacts DEF Phases
    <3>2. <<phase, "low">> \in HoldSteps => data[r] # NoBlob
      <4>1. CASE phase = "variant"
        BY <2>1, <4>1, StepFacts DEF At, Held
      <4>2. CASE phase # "variant"
        BY <4>2, StepFacts DEF Phases
      <4> QED
        BY <4>1, <4>2
    <3> QED
      BY <1>1, <2>3, <3>1, <3>2, GotoKeeps
  <2> QED
    BY <1>4, <2>2, <2>3 DEF MemGet
<1>5. ASSUME NEW phase \in Phases, LowGet(r, phase) PROVE RequestTypes' /\ Held'
  <2>1. low[KeyOf(phase)] \in Blobs \cup {NoBlob} /\ At(r, phase, "low")
    BY <1>5, VersionAssumption DEF Types, ChainTypes, KeyOf, LowGet
  <2>2. CASE low[KeyOf(phase)] # NoBlob /\ Found(r, phase, low[KeyOf(phase)])
    BY <2>1, <2>2, FoundKeeps
  <2>3. CASE Missing(r, phase)
    BY <2>1, <2>3, MissingKeeps
  <2>4. CASE Refuse(r, "error")
    BY <1>1, <2>4, RefuseKeeps DEF Statuses
  <2> QED
    BY <1>5, <2>2, <2>3, <2>4 DEF LowGet
<1>6. CASE Download(r)
  <2>1. CASE data' = Set(data, r, origin) /\ Goto(r, "add", "put") /\ UNCHANGED <<kind, got, reply>>
    BY <1>1, <2>1, StepFacts, GotoKeeps
  <2>2. CASE Refuse(r, "invalid")
    BY <1>1, <2>2, RefuseKeeps DEF Statuses
  <2> QED
    BY <1>6, <2>1, <2>2 DEF Download
<1>7. CASE PutOriginal(r)
  <2>1. data[r] # NoBlob
    BY <1>7, StepFacts DEF PutOriginal, At, Held
  <2> QED
    BY <1>1, <1>7, <2>1, StepFacts, GotoKeeps DEF PutOriginal
<1>8. CASE HSetOriginal(r)
  <2>1. data[r] # NoBlob
    BY <1>8, StepFacts DEF HSetOriginal, At, Held
  <2>2. CASE Refuse(r, "error")
    BY <1>1, <2>2, RefuseKeeps DEF Statuses
  <2>3. CASE /\ Goto(r, "original", "hget") /\ data' = Set(data, r, NoBlob)
             /\ UNCHANGED <<kind, got, reply>>
    BY <1>1, <2>3, StepFacts, GotoKeeps
  <2>4. CASE Answer(r, "ok", data[r], data[r])
    BY <1>1, <2>1, <2>4, AnswerKeeps DEF Statuses
  <2> QED
    BY <1>8, <2>2, <2>3, <2>4 DEF HSetOriginal, Added
<1>9. CASE Resize(r) \/ PutVariant(r)
  <2>1. data[r] # NoBlob
    BY <1>9, StepFacts DEF Resize, PutVariant, At, Held
  <2>2. CASE Refuse(r, "error") \/ Refuse(r, "invalid")
    BY <1>1, <2>2, RefuseKeeps DEF Statuses
  <2>3. ASSUME NEW step \in {"put", "hset"}, Goto(r, "make", step),
               UNCHANGED <<kind, got, data, reply>>
        PROVE  RequestTypes' /\ Held'
    BY <1>1, <2>1, <2>3, StepFacts, GotoKeeps
  <2> QED
    BY <1>9, <2>2, <2>3 DEF Resize, PutVariant
<1>10. CASE HSetVariant(r)
  <2>1. data[r] # NoBlob
    BY <1>10, StepFacts DEF HSetVariant, At, Held
  <2>2. CASE Refuse(r, "error")
    BY <1>1, <2>2, RefuseKeeps DEF Statuses
  <2>3. CASE Answer(r, "ok", data[r], data[r])
    BY <1>1, <2>1, <2>3, AnswerKeeps DEF Statuses
  <2> QED
    BY <1>10, <2>2, <2>3 DEF HSetVariant
<1>11. CASE DelIndex(r)
  <2>1. CASE Refuse(r, "error")
    BY <1>1, <2>1, RefuseKeeps DEF Statuses
  <2>2. CASE Goto(r, "delete", "store") /\ UNCHANGED <<kind, got, data, reply>>
    BY <1>1, <2>2, StepFacts, GotoKeeps
  <2> QED
    BY <1>11, <2>1, <2>2 DEF DelIndex
<1>12. CASE DelBlob(r)
  BY <1>1, <1>12, RefuseKeeps DEF DelBlob, Statuses
<1> QED
  BY <1>2, <1>3, <1>4, <1>5, <1>6, <1>7, <1>8, <1>9, <1>10, <1>11, <1>12 DEF Handle, Serve

-----------------------------------------------------------------------------
\* What the steps do to the chain.

Puts == \E k \in StoreKeys, b \in Blobs : ChainPut(k, b)
Fills == \E k \in StoreKeys : low[k] # NoBlob /\ FillFromLow(k)
Deletes == \E k \in StoreKeys : ChainDel(k)

\* A step of a handler leaves the chain alone or makes one call of it.
LEMMA HandlerCalls ==
    ASSUME Types, Held, NEW r \in Requests, Begin(r) \/ Handle(r)
    PROVE  /\ UNCHANGED chainVars \/ Puts \/ Fills \/ (Deletes /\ At(r, "delete", "store"))
           /\ UNCHANGED origin
<1>1. Original \in StoreKeys /\ Variant \in StoreKeys /\ \A p \in Phases : KeyOf(p) \in StoreKeys
  BY VersionAssumption DEF KeyOf
<1>2. CASE \/ Begin(r) \/ Download(r) \/ HSetOriginal(r) \/ Resize(r) \/ HSetVariant(r)
           \/ DelIndex(r) \/ \E phase \in Phases : HGet(r, phase) \/ MemGet(r, phase)
  BY <1>2 DEF Begin, Download, HSetOriginal, Resize, HSetVariant, DelIndex, HGet, MemGet
<1>3. ASSUME NEW phase \in Phases, LowGet(r, phase)
      PROVE  (UNCHANGED chainVars \/ Fills) /\ UNCHANGED origin
  BY <1>1, <1>3 DEF LowGet, Fills
<1>4. CASE PutOriginal(r) \/ PutVariant(r)
  <2>1. data[r] # NoBlob /\ data[r] \in Blobs
    BY <1>4, StepFacts DEF PutOriginal, PutVariant, At, Held, Types, RequestTypes
  <2> QED
    BY <1>1, <1>4, <2>1 DEF PutOriginal, PutVariant, Puts
<1>5. CASE DelBlob(r)
  BY <1>1, <1>5 DEF DelBlob, Deletes
<1> QED
  BY <1>2, <1>3, <1>4, <1>5 DEF Handle, Serve

\* What the calls and the goroutines leave behind.
LEMMA CallKeepsTypes ==
    ASSUME ChainTypes, Puts \/ Fills \/ Deletes
    PROVE  /\ mem' \in [StoreKeys -> Blobs \cup {NoBlob}]
           /\ UNCHANGED low
           /\ IsABag(bg') /\ BagToSet(bg') \subseteq Tasks
<1>1. CASE Puts
  <2>1. PICK k \in StoreKeys, b \in Blobs : ChainPut(k, b)
    BY <1>1 DEF Puts
  <2>2. IsABag(bg') /\ BagToSet(bg') \subseteq Tasks
    BY <2>1, SpawnAdds DEF ChainPut
  <2> QED
    BY <2>1, <2>2 DEF ChainPut, ChainTypes
<1>2. CASE Fills
  <2>1. PICK k \in StoreKeys : FillFromLow(k)
    BY <1>2 DEF Fills
  <2>2. low[k] \in Blobs \cup {NoBlob}
    BY DEF ChainTypes
  <2>3. IsABag(bg') /\ BagToSet(bg') \subseteq Tasks
    BY <2>1, <2>2, SpawnAdds DEF FillFromLow
  <2> QED
    BY <2>1, <2>3 DEF FillFromLow, ChainTypes
<1>3. CASE Deletes
  <2>1. PICK k \in StoreKeys : ChainDel(k)
    BY <1>3 DEF Deletes
  <2>2. NoBlob \in Blobs \cup {NoBlob}
    OBVIOUS
  <2>3. IsABag(bg') /\ BagToSet(bg') \subseteq Tasks
    BY <2>1, <2>2, SpawnAdds DEF ChainDel
  <2> QED
    BY <2>1, <2>3 DEF ChainDel, ChainTypes
<1> QED
  BY <1>1, <1>2, <1>3

LEMMA BackgroundKeepsTypes ==
    ASSUME ChainTypes, NEW t \in BagToSet(bg), Background(t)
    PROVE  ChainTypes'
<1>1. t \in Tasks /\ t.key \in StoreKeys /\ t.blob \in Blobs \cup {NoBlob}
  BY DEF ChainTypes, Tasks
<1>2. bg' = bg (-) SetToBag({t}) /\ UNCHANGED <<origin, idx>>
  BY DEF Background, RunTask
<1>3. IsABag(bg') /\ BagToSet(bg') \subseteq Tasks
  BY <1>2, BagLoses DEF ChainTypes
<1>4. /\ mem' \in [StoreKeys -> Blobs \cup {NoBlob}]
      /\ low' \in [StoreKeys -> Blobs \cup {NoBlob}]
  BY <1>1 DEF Background, RunTask, Apply, ChainTypes
<1> QED
  BY <1>2, <1>3, <1>4 DEF ChainTypes

LEMMA HandlerKeepsIndex ==
    ASSUME Types, Held, NEW r \in Requests, Begin(r) \/ Handle(r)
    PROVE  idx' \in [StoreKeys -> Versions \cup {NoImage}]
<1>1. idx \in [StoreKeys -> Versions \cup {NoImage}]
  BY DEF Types, ChainTypes
<1>2. CASE HSetOriginal(r) \/ HSetVariant(r)
  <2>1. data[r] # NoBlob /\ data[r] \in Versions
    BY <1>2, StepFacts, VersionAssumption
    DEF HSetOriginal, HSetVariant, At, Held, Types, RequestTypes
  <2> QED
    BY <1>1, <1>2, <2>1 DEF HSetOriginal, HSetVariant, Set
<1>3. CASE DelIndex(r)
  BY <1>1, <1>3 DEF DelIndex, Set
<1>4. CASE \/ Begin(r) \/ Download(r) \/ Resize(r) \/ PutOriginal(r) \/ PutVariant(r) \/ DelBlob(r)
           \/ \E phase \in Phases : HGet(r, phase) \/ MemGet(r, phase) \/ LowGet(r, phase)
  BY <1>1, <1>4
  DEF Begin, Download, Resize, PutOriginal, PutVariant, DelBlob, HGet, MemGet, LowGet
<1> QED
  BY <1>2, <1>3, <1>4 DEF Handle, Serve

LEMMA TypesInductive == Types /\ Held /\ [Next]_vars => (Types /\ Held)'
<1> SUFFICES ASSUME Types, Held, [Next]_vars PROVE (Types /\ Held)'
  OBVIOUS
<1>1. ASSUME NEW r \in Requests, Begin(r) \/ Handle(r) PROVE (Types /\ Held)'
  <2>1. RequestTypes' /\ Held' /\ idx' \in [StoreKeys -> Versions \cup {NoImage}]
    BY <1>1, HandlerKeepsLocals, HandlerKeepsIndex
  <2>2. UNCHANGED origin /\ (UNCHANGED chainVars \/ Puts \/ Fills \/ Deletes)
    BY <1>1, HandlerCalls
  <2>3. CASE UNCHANGED chainVars
    BY <2>1, <2>2, <2>3 DEF Types, ChainTypes, chainVars
  <2>4. CASE Puts \/ Fills \/ Deletes
    BY <2>1, <2>2, <2>4, CallKeepsTypes DEF Types, ChainTypes
  <2> QED
    BY <2>2, <2>3, <2>4
<1>2. ASSUME NEW t \in BagToSet(bg), Background(t) PROVE (Types /\ Held)'
  <2>1. ChainTypes' /\ UNCHANGED reqVars
    BY <1>2, BackgroundKeepsTypes DEF Types, Background
  <2> QED
    BY <2>1 DEF Types, RequestTypes, Held, reqVars
<1>3. CASE OriginChanges
  <2>1. origin' \in Versions
    BY <1>3, VersionAssumption DEF OriginChanges, Versions, Types, ChainTypes
  <2> QED
    BY <1>3, <2>1 DEF OriginChanges, Types, ChainTypes, RequestTypes, Held, chainVars, reqVars
<1>4. CASE EvictBlob
  BY <1>4 DEF EvictBlob, Evict, Types, ChainTypes, RequestTypes, Held, reqVars
<1>5. CASE UNCHANGED vars
  BY <1>5 DEF vars, chainVars, reqVars, Types, ChainTypes, RequestTypes, Held
<1> QED
  BY <1>1, <1>2, <1>3, <1>4, <1>5 DEF Next

LEMMA TypesInitially == Init => Types /\ Held
<1> SUFFICES ASSUME Init PROVE Types /\ Held
  OBVIOUS
<1>1. 1 \in Versions
  BY VersionAssumption DEF Versions
<1>2. IsABag(EmptyBag) /\ BagToSet(EmptyBag) = {}
  BY DEF EmptyBag, IsABag, BagToSet, SetToBag
<1>3. ChainTypes
  BY <1>1, <1>2 DEF Init, ChainInit, ChainTypes
<1>4. NoReply \in [status : Statuses, meta : Versions \cup {NoImage}, data : Blobs \cup {NoBlob}]
  BY DEF NoReply, Statuses
<1>5. RequestTypes /\ Held
  BY <1>4, StepFacts DEF Init, RequestTypes, Held
<1> QED
  BY <1>3, <1>5 DEF Types

\* Every variable has its type, whatever the faults, and a request that is to
\* save an image or to size one has it in its hands (bucket.go).
THEOREM StoreTypes == Spec => [](Types /\ Held)
BY TypesInitially, TypesInductive, PTL DEF Spec

-----------------------------------------------------------------------------
\* The number of goroutines.

Copies(B) == UNION {{t} \X (1 .. B[t]) : t \in DOMAIN B}

TasksBounded == IsFiniteSet(Goroutines) /\ Cardinality(Goroutines) <= MaxTasks

LEMMA CopiesGain ==
    ASSUME NEW B, IsABag(B), NEW t
    PROVE  \E n : Copies(B (+) SetToBag({t})) \subseteq Copies(B) \cup {<<t, n>>}
<1> DEFINE n == IF t \in DOMAIN B THEN B[t] + 1 ELSE 1
<1> DEFINE C == B (+) SetToBag({t})
<1>1. DOMAIN C = DOMAIN B \cup {t} /\ C[t] = n
      /\ \A u \in DOMAIN B : u # t => C[u] = B[u]
  BY DEF IsABag, BagToSet, SetToBag, (+), BagIn
<1> HIDE DEF C
<1>2. ASSUME NEW u \in DOMAIN C, NEW i \in 1 .. C[u]
      PROVE  <<u, i>> \in Copies(B) \cup {<<t, n>>}
  <2>1. CASE u # t
    BY <1>1, <1>2, <2>1 DEF Copies
  <2>2. CASE u = t /\ t \in DOMAIN B
    <3>1. B[t] \in Nat /\ i \in 1 .. B[t] + 1
      BY <1>1, <1>2, <2>2 DEF IsABag
    <3> QED
      BY <2>2, <3>1 DEF Copies
  <2>3. CASE u = t /\ t \notin DOMAIN B
    BY <1>1, <1>2, <2>3
  <2> QED
    BY <2>1, <2>2, <2>3
<1>3. Copies(C) \subseteq Copies(B) \cup {<<t, n>>}
  BY <1>2 DEF Copies
<1> QED
  BY <1>3 DEF C

LEMMA CopiesLose ==
    ASSUME NEW B, IsABag(B), NEW t \in BagToSet(B)
    PROVE  Copies(B (-) SetToBag({t})) \subseteq Copies(B)
<1> DEFINE C == B (-) SetToBag({t})
<1>1. DOMAIN C \subseteq DOMAIN B /\ \A u \in DOMAIN C : C[u] \in Nat /\ C[u] <= B[u]
  BY DEF IsABag, BagToSet, SetToBag, (-), BagIn
<1>2. \A u \in DOMAIN B : B[u] \in Nat
  BY DEF IsABag
<1> HIDE DEF C
<1>3. \A u \in DOMAIN C : 1 .. C[u] \subseteq 1 .. B[u]
  BY <1>1, <1>2
<1>4. Copies(C) \subseteq Copies(B)
  BY <1>1, <1>3 DEF Copies
<1> QED
  BY <1>4 DEF C

LEMMA AtMostOneMore ==
    ASSUME NEW G, IsFiniteSet(G), NEW e
    PROVE  /\ IsFiniteSet(G \cup {e})
           /\ Cardinality(G \cup {e}) <= Cardinality(G) + 1
           /\ Cardinality(G) \in Nat
<1>1. Cardinality(G) \in Nat
  BY FS_CardinalityType
<1>2. CASE e \in G
  <2>1. ASSUME NEW H, H = G PROVE IsFiniteSet(H) /\ Cardinality(H) <= Cardinality(G) + 1
    BY <1>1, <2>1
  <2>2. G \cup {e} = G
    BY <1>2
  <2> QED
    BY <1>1, <2>1, <2>2, Zenon
<1>3. CASE e \notin G
  BY <1>1, <1>3, FS_AddElement
<1> QED
  BY <1>2, <1>3

LEMMA SpawnCounts ==
    ASSUME ChainTypes, TasksBounded, NEW op, NEW k, NEW b, Spawn(op, k, b)
    PROVE  TasksBounded'
<1> DEFINE t == [op |-> op, key |-> k, blob |-> b]
<1>1. /\ Cardinality(Goroutines) < MaxTasks /\ IsFiniteSet(Goroutines)
      /\ bg' = bg (+) SetToBag({t}) /\ IsABag(bg) /\ MaxTasks \in Nat
  BY TasksAssumption DEF Spawn, TasksBounded, ChainTypes
<1> HIDE DEF t
<1>2. PICK n : Copies(bg (+) SetToBag({t})) \subseteq Copies(bg) \cup {<<t, n>>}
  BY <1>1, CopiesGain
<1>3. Goroutines' \subseteq Goroutines \cup {<<t, n>>}
  BY <1>1, <1>2 DEF Goroutines, Copies
<1>4. /\ IsFiniteSet(Goroutines \cup {<<t, n>>})
      /\ Cardinality(Goroutines \cup {<<t, n>>}) <= Cardinality(Goroutines) + 1
      /\ Cardinality(Goroutines) \in Nat
  BY <1>1, AtMostOneMore
<1>5. /\ IsFiniteSet(Goroutines')
      /\ Cardinality(Goroutines') <= Cardinality(Goroutines \cup {<<t, n>>})
      /\ Cardinality(Goroutines') \in Nat
      /\ Cardinality(Goroutines \cup {<<t, n>>}) \in Nat
  BY <1>3, <1>4, FS_Subset, FS_CardinalityType
<1> QED
  BY <1>1, <1>4, <1>5 DEF TasksBounded

LEMMA TasksInductive ==
    ASSUME Types, Held, TasksBounded, [Next]_vars
    PROVE  TasksBounded'
<1>1. ASSUME UNCHANGED bg PROVE TasksBounded'
  BY <1>1 DEF TasksBounded, Goroutines
<1>2. ASSUME NEW r \in Requests, Begin(r) \/ Handle(r) PROVE TasksBounded'
  <2>1. UNCHANGED chainVars \/ Puts \/ Fills \/ Deletes
    BY <1>2, HandlerCalls
  <2>2. CASE UNCHANGED chainVars
    BY <1>1, <2>2 DEF chainVars
  <2>3. CASE Puts
    BY <2>3, SpawnCounts DEF Puts, ChainPut, Types
  <2>4. CASE Fills
    BY <2>4, SpawnCounts DEF Fills, FillFromLow, Types
  <2>5. CASE Deletes
    BY <2>5, SpawnCounts DEF Deletes, ChainDel, Types
  <2> QED
    BY <2>1, <2>2, <2>3, <2>4, <2>5
<1>3. ASSUME NEW t \in BagToSet(bg), Background(t) PROVE TasksBounded'
  <2>1. bg' = bg (-) SetToBag({t}) /\ IsABag(bg)
    BY <1>3 DEF Background, RunTask, Types, ChainTypes
  <2>2. Copies(bg') \subseteq Copies(bg)
    BY <2>1, CopiesLose
  <2>3. Goroutines' \subseteq Goroutines
    BY <2>2 DEF Goroutines, Copies
  <2>4. /\ IsFiniteSet(Goroutines') /\ Cardinality(Goroutines') \in Nat
        /\ Cardinality(Goroutines') <= Cardinality(Goroutines)
        /\ Cardinality(Goroutines) \in Nat
    BY <2>3, FS_Subset, FS_CardinalityType DEF TasksBounded
  <2> QED
    BY <2>4, TasksAssumption DEF TasksBounded
<1>4. CASE OriginChanges \/ EvictBlob \/ UNCHANGED vars
  BY <1>1, <1>4 DEF OriginChanges, EvictBlob, Evict, vars, chainVars
<1> QED
  BY <1>2, <1>3, <1>4 DEF Next

\* Every variable of the image requests has its type, and no more goroutines
\* are alive than the model allows (bucket.go, chain.go).
THEOREM ImageStoreTypes == Spec => []TypeOK
<1> DEFINE Inv == Types /\ Held /\ TasksBounded
<1>1. Init => Inv
  <2> SUFFICES ASSUME Init PROVE TasksBounded
    BY TypesInitially
  <2>1. Goroutines = {}
    BY DEF Init, ChainInit, EmptyBag, SetToBag, Goroutines
  <2> QED
    BY <2>1, FS_EmptySet, TasksAssumption DEF TasksBounded
<1>2. Inv /\ [Next]_vars => Inv'
  BY TypesInductive, TasksInductive
<1>3. Inv => TypeOK
  BY DEF Types, ChainTypes, RequestTypes, TasksBounded, TypeOK, ChainTypeOK
<1> QED
  BY <1>1, <1>2, <1>3, PTL DEF Spec

-----------------------------------------------------------------------------
\* An image the index names is never out of reach, as long as nobody deletes,
\* the low store neither fails nor evicts, and the process lives.

NothingLost ==
    /\ "delete" \notin Kinds
    /\ LowMayFail = FALSE
    /\ MayEvict => LowIsS3

Durable(k) == low[k] # NoBlob \/ Pending("put_low", k)

\* The goroutines have images to write, and nothing to delete.
Tidy == \A t \in BagToSet(bg) : t.op # "del_low" /\ t.blob # NoBlob

\* A request that is to write an entry has put the image.
Written(r) ==
    /\ ~At(r, "delete", "db") /\ ~At(r, "delete", "store")
    /\ At(r, "add", "hset") => Durable(Original)
    /\ At(r, "make", "hset") => Durable(Variant)

ReachInv ==
    /\ Tidy
    /\ \A r \in Requests : Written(r)
    /\ \A k \in StoreKeys : idx[k] # NoImage => Durable(k)

\* No step of a handler unless it is the end of a delete, no goroutine and no
\* eviction takes away what is or will be in the low store.
LEMMA CallKeepsDurable ==
    ASSUME ChainTypes, Tidy, UNCHANGED chainVars \/ Puts \/ Fills
    PROVE  Tidy' /\ \A k \in StoreKeys : Durable(k) => Durable(k)'
<1>1. CASE UNCHANGED chainVars
  BY <1>1 DEF chainVars, Tidy, Durable, Pending
<1>2. ASSUME NEW op \in {"put_low", "fill"}, NEW k \in StoreKeys, NEW b \in Blobs,
             Spawn(op, k, b), UNCHANGED low
      PROVE  Tidy' /\ \A j \in StoreKeys : Durable(j) => Durable(j)'
  <2> DEFINE t == [op |-> op, key |-> k, blob |-> b]
  <2>1. BagToSet(bg') = BagToSet(bg) \cup {t}
    BY <1>2, SpawnAdds
  <2>2. t.op # "del_low" /\ t.blob # NoBlob
    BY BlobsAssumption
  <2> HIDE DEF t
  <2> QED
    BY <1>2, <2>1, <2>2 DEF Tidy, Durable, Pending
<1>3. CASE Puts
  BY <1>2, <1>3 DEF Puts, ChainPut
<1>4. CASE Fills
  <2>1. PICK k \in StoreKeys : low[k] # NoBlob /\ FillFromLow(k)
    BY <1>4 DEF Fills
  <2>2. low[k] \in Blobs
    BY <2>1 DEF ChainTypes
  <2> QED
    BY <1>2, <2>1, <2>2 DEF FillFromLow
<1> QED
  BY <1>1, <1>3, <1>4

LEMMA BackgroundKeepsDurable ==
    ASSUME NothingLost, ChainTypes, Tidy, NEW t \in BagToSet(bg), Background(t)
    PROVE  Tidy' /\ \A k \in StoreKeys : Durable(k) => Durable(k)'
<1>1. bg' = bg (-) SetToBag({t}) /\ Apply(t)
  BY DEF Background, RunTask, NothingLost
<1>2. BagToSet(bg') \subseteq BagToSet(bg) /\ BagToSet(bg) \ {t} \subseteq BagToSet(bg')
  BY <1>1, BagLoses DEF ChainTypes
<1>3. ASSUME NEW k \in StoreKeys, Durable(k) PROVE Durable(k)'
  <2>1. CASE t.op = "put_low" /\ t.key = k
    <3>1. low' = [low EXCEPT ![k] = t.blob] /\ t.blob # NoBlob
      BY <1>1, <2>1 DEF Apply, Tidy
    <3> QED
      BY <3>1 DEF ChainTypes, Durable
  <2>2. CASE ~(t.op = "put_low" /\ t.key = k)
    <3>1. low'[k] = low[k]
      BY <1>1, <2>2 DEF Apply, Tidy, ChainTypes
    <3>2. Pending("put_low", k) => Pending("put_low", k)'
      BY <1>2, <2>2 DEF Pending
    <3> QED
      BY <1>3, <3>1, <3>2 DEF Durable
  <2> QED
    BY <2>1, <2>2
<1> QED
  BY <1>2, <1>3 DEF Tidy

\* A put makes its image durable.
LEMMA PutIsDurable ==
    ASSUME ChainTypes, NEW k \in StoreKeys, NEW b \in Blobs, ChainPut(k, b)
    PROVE  Durable(k)'
<1>1. [op |-> "put_low", key |-> k, blob |-> b] \in BagToSet(bg')
  BY SpawnAdds DEF ChainPut
<1> QED
  BY <1>1 DEF Durable, Pending

\* A request comes to the writing of an entry by a put, and to a delete not at all.
LEMMA HandlerWritten ==
    ASSUME NothingLost, Types, Held, ReachInv, NEW r \in Requests, Begin(r) \/ Handle(r),
           \A k \in StoreKeys : Durable(k) => Durable(k)'
    PROVE  \A q \in Requests : Written(q)'
<1>1. Original \in StoreKeys /\ Variant \in StoreKeys
  BY VersionAssumption
<1>2. pc \in [Requests -> Steps] /\ Written(r)
  BY DEF Types, RequestTypes, ReachInv
<1>3. PICK there :
         /\ pc' = Set(pc, r, there)
         /\ there \notin {<<"delete", "db">>, <<"delete", "store">>}
         /\ there = <<"add", "hset">> => PutOriginal(r)
         /\ there = <<"make", "hset">> => PutVariant(r)
  <2>1. CASE Begin(r)
    <3>1. \/ Goto(r, "probe", "hget") \/ Goto(r, "original", "hget")
          \/ Goto(r, "add", "download")
      BY <2>1 DEF Begin, NothingLost
    <3>2. \E place \in {<<"probe", "hget">>, <<"original", "hget">>, <<"add", "download">>} :
              pc' = Set(pc, r, place)
      BY <3>1 DEF Goto, Set
    <3> QED
      BY <3>2
  <2>2. ASSUME NEW status, NEW m, NEW d, Answer(r, status, m, d)
        PROVE  pc' = Set(pc, r, Idle) /\ Idle = <<"idle", "idle">>
    BY <2>2 DEF Answer, Idle
  <2>3. ASSUME NEW phase \in Phases, HGet(r, phase) \/ MemGet(r, phase) \/ LowGet(r, phase)
        PROVE  \E place \in {Idle, <<"original", "hget">>, <<"variant", "hget">>,
                             <<"add", "download">>, <<"make", "resize">>,
                             <<phase, "mem">>, <<phase, "low">>} : pc' = Set(pc, r, place)
    BY <2>2, <2>3 DEF HGet, MemGet, LowGet, Found, Missing, Refuse, Goto, Set
  <2>4. CASE \E phase \in Phases : HGet(r, phase) \/ MemGet(r, phase) \/ LowGet(r, phase)
    BY <2>3, <2>4 DEF Idle, Phases
  <2>5. CASE Download(r) \/ Resize(r)
    <3>1. \E place \in {Idle, <<"add", "put">>, <<"make", "put">>} : pc' = Set(pc, r, place)
      BY <2>2, <2>5 DEF Download, Resize, Refuse, Goto, Set
    <3> QED
      BY <3>1 DEF Idle
  <2>6. CASE PutOriginal(r) \/ PutVariant(r)
    BY <2>6 DEF PutOriginal, PutVariant, Goto, Set
  <2>7. CASE HSetOriginal(r) \/ HSetVariant(r)
    <3>1. \E place \in {Idle, <<"original", "hget">>} : pc' = Set(pc, r, place)
      BY <2>2, <2>7 DEF HSetOriginal, HSetVariant, Added, Refuse, Goto, Set
    <3> QED
      BY <3>1 DEF Idle
  <2>8. CASE DelIndex(r) \/ DelBlob(r)
    BY <1>2, <2>8 DEF DelIndex, DelBlob, Written
  <2> QED
    BY <2>1, <2>4, <2>5, <2>6, <2>7, <2>8 DEF Handle, Serve
<1>4. PutOriginal(r) => Durable(Original)'
  <2>1. PutOriginal(r) => data[r] \in Blobs
    BY StepFacts DEF PutOriginal, At, Held, Types, RequestTypes
  <2> QED
    BY <1>1, <2>1, PutIsDurable DEF PutOriginal, Types
<1>5. PutVariant(r) => Durable(Variant)'
  <2>1. PutVariant(r) => data[r] \in Blobs
    BY StepFacts DEF PutVariant, At, Held, Types, RequestTypes
  <2> QED
    BY <1>1, <2>1, PutIsDurable DEF PutVariant, Types
<1>6. Written(r)'
  <2>1. pc'[r] = there
    BY <1>2, <1>3 DEF Set
  <2> QED
    BY <1>3, <1>4, <1>5, <2>1 DEF Written, At
<1>7. ASSUME NEW q \in Requests, q # r PROVE Written(q)'
  <2>1. pc'[q] = pc[q] /\ Written(q)
    BY <1>2, <1>3, <1>7 DEF Set, ReachInv
  <2>2. /\ Durable(Original) => Durable(Original)'
        /\ Durable(Variant) => Durable(Variant)'
    BY <1>1
  <2> QED
    BY <2>1, <2>2 DEF Written, At
<1> QED
  BY <1>6, <1>7

LEMMA ReachInductive ==
    ASSUME NothingLost, Types, Held, ReachInv, [Next]_vars
    PROVE  ReachInv'
<1> USE DEF Types
<1>1. ASSUME NEW r \in Requests, Begin(r) \/ Handle(r) PROVE ReachInv'
  <2>1. UNCHANGED chainVars \/ Puts \/ Fills
    BY <1>1, HandlerCalls DEF ReachInv, Written
  <2>2. Tidy' /\ \A k \in StoreKeys : Durable(k) => Durable(k)'
    BY <2>1, CallKeepsDurable DEF ReachInv
  <2>3. \A q \in Requests : Written(q)'
    BY <1>1, <2>2, HandlerWritten
  <2>4. ASSUME NEW k \in StoreKeys, idx'[k] # NoImage PROVE idx[k] # NoImage \/ Durable(k)
    <3>1. CASE HSetOriginal(r)
      BY <1>1, <2>4, <3>1 DEF HSetOriginal, ReachInv, Written, Set, ChainTypes
    <3>2. CASE HSetVariant(r)
      BY <1>1, <2>4, <3>2 DEF HSetVariant, ReachInv, Written, Set, ChainTypes
    <3>3. CASE DelIndex(r)
      BY <1>1, <3>3 DEF DelIndex, ReachInv, Written
    <3>4. CASE \/ Begin(r) \/ Download(r) \/ Resize(r) \/ PutOriginal(r) \/ PutVariant(r)
               \/ DelBlob(r)
               \/ \E phase \in Phases : HGet(r, phase) \/ MemGet(r, phase) \/ LowGet(r, phase)
      BY <2>4, <3>4
      DEF Begin, Download, Resize, PutOriginal, PutVariant, DelBlob, HGet, MemGet, LowGet
    <3> QED
      BY <1>1, <3>1, <3>2, <3>3, <3>4 DEF Handle, Serve
  <2> QED
    BY <2>2, <2>3, <2>4 DEF ReachInv
<1>2. ASSUME UNCHANGED <<idx, pc>>, Tidy', \A k \in StoreKeys : Durable(k) => Durable(k)'
      PROVE  ReachInv'
  BY <1>2, VersionAssumption DEF ReachInv, Written, At
<1>3. ASSUME NEW t \in BagToSet(bg), Background(t) PROVE ReachInv'
  <2>1. Tidy' /\ \A k \in StoreKeys : Durable(k) => Durable(k)'
    BY <1>3, BackgroundKeepsDurable DEF ReachInv
  <2> QED
    BY <1>2, <1>3, <2>1 DEF Background, reqVars
<1>4. CASE EvictBlob
  <2>1. UNCHANGED <<low, bg, idx, pc>>
    BY <1>4 DEF EvictBlob, Evict, NothingLost, reqVars
  <2> QED
    BY <1>2, <2>1 DEF ReachInv, Tidy, Durable, Pending
<1>5. CASE OriginChanges \/ UNCHANGED vars
  <2>1. UNCHANGED <<low, bg, idx, pc>>
    BY <1>5 DEF OriginChanges, vars, chainVars, reqVars
  <2> QED
    BY <1>2, <2>1 DEF ReachInv, Tidy, Durable, Pending
<1> QED
  BY <1>1, <1>3, <1>4, <1>5 DEF Next

LEMMA ReachInitially == Init => Types /\ Held /\ ReachInv
<1> SUFFICES ASSUME Init PROVE ReachInv
  BY TypesInitially
<1>1. BagToSet(bg) = {} /\ \A r \in Requests : pc[r] = <<"idle", "idle">>
  BY DEF Init, ChainInit, EmptyBag, BagToSet, SetToBag, Idle
<1> QED
  BY <1>1 DEF Init, ReachInv, Tidy, Written, At

\* An image the index names is in memory, in the low store or on its way there,
\* whatever the requests, the redis and origin faults and the evictions from
\* memory; DbSaveImage stores the blob before the entry (bucket.go:189-194).
THEOREM IndexedAlwaysReachable ==
    ASSUME NothingLost
    PROVE  Spec => []IndexedIsReachable
<1> DEFINE Inv == Types /\ Held /\ ReachInv
<1>1. Init => Inv
  BY ReachInitially
<1>2. Inv /\ [Next]_vars => Inv'
  BY TypesInductive, ReachInductive
<1>3. Inv => IndexedIsReachable
  BY DEF ReachInv, Durable, IndexedIsReachable
<1> QED
  BY <1>1, <1>2, <1>3, PTL DEF Spec

\* Nothing in either store is lost but by an eviction, a delete or a restart.
LEMMA StoresKeep ==
    ASSUME ChainTypes, Tidy,
           \/ UNCHANGED chainVars \/ Puts \/ Fills
           \/ \E t \in BagToSet(bg) : Background(t)
    PROVE  /\ Tidy'
           /\ \A k \in StoreKeys : mem[k] # NoBlob => mem'[k] # NoBlob
           /\ \A k \in StoreKeys : low[k] # NoBlob => low'[k] # NoBlob
<1>1. CASE UNCHANGED chainVars \/ Puts \/ Fills
  <2>1. Tidy'
    BY <1>1, CallKeepsDurable
  <2>2. UNCHANGED <<mem, low>> \/ \E k \in StoreKeys, b \in Blobs :
            mem' = [mem EXCEPT ![k] = b] /\ UNCHANGED low
    BY <1>1 DEF chainVars, Puts, Fills, ChainPut, FillFromLow
  <2> QED
    BY <2>1, <2>2, BlobsAssumption DEF ChainTypes
<1>2. ASSUME NEW t \in BagToSet(bg), Background(t)
      PROVE  /\ Tidy'
             /\ \A k \in StoreKeys : mem[k] # NoBlob => mem'[k] # NoBlob
             /\ \A k \in StoreKeys : low[k] # NoBlob => low'[k] # NoBlob
  <2>1. t.blob # NoBlob /\ bg' = bg (-) SetToBag({t})
        /\ (UNCHANGED <<mem, low>> \/ Apply(t))
    BY <1>2 DEF Tidy, Background, RunTask
  <2>2. BagToSet(bg') \subseteq BagToSet(bg)
    BY <2>1, BagLoses DEF ChainTypes
  <2>3. Tidy'
    BY <2>2 DEF Tidy
  <2> QED
    BY <2>1, <2>3 DEF Apply, ChainTypes
<1> QED
  BY <1>1, <1>2

\* What the index names is persisted, or the write that persists it is waiting
\* for its goroutine.
PersistedOrOnItsWay == \A k \in StoreKeys : idx[k] # NoImage => Durable(k)

\* What is persisted stays persisted, whatever is put over it.
PersistedStays == \A k \in StoreKeys : low[k] # NoBlob => low'[k] # NoBlob

\* A write that waits is not given up but for the value being persisted.
WritesAreMade ==
    \A k \in StoreKeys : Pending("put_low", k) => Pending("put_low", k)' \/ low'[k] # NoBlob

LEMMA StepPersists ==
    ASSUME NothingLost, Types, Held, ReachInv, [Next]_vars
    PROVE  PersistedStays /\ WritesAreMade
<1> USE DEF Types
<1>1. ASSUME UNCHANGED low, Tidy', \A k \in StoreKeys : Durable(k) => Durable(k)'
      PROVE  PersistedStays /\ WritesAreMade
  BY <1>1 DEF PersistedStays, WritesAreMade, Durable
<1>2. ASSUME NEW r \in Requests, Begin(r) \/ Handle(r)
      PROVE  PersistedStays /\ WritesAreMade
  <2>1. UNCHANGED chainVars \/ Puts \/ Fills
    BY <1>2, HandlerCalls DEF ReachInv, Written
  <2>2. Tidy' /\ \A k \in StoreKeys : Durable(k) => Durable(k)'
    BY <2>1, CallKeepsDurable DEF ReachInv
  <2>3. UNCHANGED low
    BY <2>1 DEF chainVars, Puts, Fills, ChainPut, FillFromLow
  <2> QED
    BY <1>1, <2>2, <2>3
<1>3. ASSUME NEW t \in BagToSet(bg), Background(t)
      PROVE  PersistedStays /\ WritesAreMade
  <2>1. \A k \in StoreKeys : Durable(k) => Durable(k)'
    BY <1>3, BackgroundKeepsDurable DEF ReachInv
  <2>2. \A k \in StoreKeys : low[k] # NoBlob => low'[k] # NoBlob
    BY <1>3, StoresKeep DEF ReachInv
  <2> QED
    BY <2>1, <2>2 DEF PersistedStays, WritesAreMade, Durable
<1>4. CASE EvictBlob \/ OriginChanges \/ UNCHANGED vars
  <2>1. UNCHANGED <<low, bg>>
    BY <1>4
    DEF EvictBlob, Evict, NothingLost, OriginChanges, vars, chainVars
  <2> QED
    BY <2>1 DEF PersistedStays, WritesAreMade, Pending
<1> QED
  BY <1>2, <1>3, <1>4 DEF Next

\* What EventuallyPersisted needs of the steps: an entry of the index has its
\* value in the low store or a goroutine that will write it, that goroutine is
\* lost only by writing, and what is written stays (chain.go:87, bucket.go:189-194).
THEOREM IndexedComesToBePersisted ==
    ASSUME NothingLost
    PROVE  Spec => []PersistedOrOnItsWay /\ [][PersistedStays /\ WritesAreMade]_vars
<1> DEFINE Inv == Types /\ Held /\ ReachInv
<1>1. Init => Inv
  BY ReachInitially
<1>2. Inv /\ [Next]_vars => Inv'
  BY TypesInductive, ReachInductive
<1>3. Inv => PersistedOrOnItsWay
  BY DEF ReachInv, PersistedOrOnItsWay
<1>4. Inv /\ [Next]_vars => [PersistedStays /\ WritesAreMade]_vars
  BY StepPersists
<1> QED
  BY <1>1, <1>2, <1>3, <1>4, PTL DEF Spec

-----------------------------------------------------------------------------
\* A restart, which ImageHistory and ImageCoherence add.
LEMMA CrashKeepsTypes == Types /\ Crash => (Types /\ Held)'
<1> SUFFICES ASSUME Types, Crash PROVE (Types /\ Held)'
  OBVIOUS
<1>1. IsABag(EmptyBag) /\ BagToSet(EmptyBag) = {}
  BY DEF EmptyBag, IsABag, BagToSet, SetToBag
<1>2. ChainTypes'
  BY <1>1 DEF Crash, Restart, Types, ChainTypes
<1>3. NoReply \in [status : Statuses, meta : Versions \cup {NoImage}, data : Blobs \cup {NoBlob}]
  BY DEF NoReply, Statuses
<1>4. RequestTypes' /\ Held'
  BY <1>3, StepFacts DEF Crash, RequestTypes, Held
<1> QED
  BY <1>2, <1>4 DEF Types

-----------------------------------------------------------------------------
\* The metadata and the data of an answer are of one image.

\* Until something tears them apart, all there is of the variant is of one
\* image v: what is stored and on its way to a store, what is read, what is
\* saved, and the entry, if no save is about to write it.
AllOf(v) ==
    /\ \A q \in Requests : (SavingSize(q) => data[q] = v) /\ (Reading(q) => got[q] = v)
    /\ mem[Variant] \in {NoBlob, v}
    /\ \A t \in BagToSet(bg) : t.key = Variant => t.blob = v
    /\ low[Variant] \in {NoBlob, v} \/ Pending("put_low", Variant)
    /\ idx[Variant] \in {NoImage, v} \/ \E q \in Requests : SavingSize(q)

\* A handler's step moves its own request only.
LEMMA HandlerMovesOne ==
    ASSUME Types, NEW r \in Requests, Begin(r) \/ Handle(r), NEW q \in Requests \ {r}
    PROVE  pc'[q] = pc[q] /\ data'[q] = data[q] /\ got'[q] = got[q] /\ reply'[q] = reply[q]
<1>1. /\ pc \in [Requests -> Steps] /\ got \in [Requests -> Versions \cup {NoImage}]
      /\ data \in [Requests -> Blobs \cup {NoBlob}]
      /\ reply \in [Requests -> [status : Statuses, meta : Versions \cup {NoImage},
                                 data : Blobs \cup {NoBlob}]]
  BY DEF Types, RequestTypes
<1>2. CASE Begin(r)
  BY <1>1, <1>2 DEF Begin, Goto, Set
<1>3. CASE \E phase \in Phases : HGet(r, phase) \/ MemGet(r, phase) \/ LowGet(r, phase)
  <2>1. PICK phase \in Phases : HGet(r, phase) \/ MemGet(r, phase) \/ LowGet(r, phase)
    BY <1>3
  <2>2. ASSUME NEW b, Found(r, phase, b)
        PROVE  pc'[q] = pc[q] /\ data'[q] = data[q] /\ got'[q] = got[q] /\ reply'[q] = reply[q]
    BY <1>1, <2>2 DEF Found, Answer, Goto, Set
  <2>3. ASSUME Missing(r, phase)
        PROVE  pc'[q] = pc[q] /\ data'[q] = data[q] /\ got'[q] = got[q] /\ reply'[q] = reply[q]
    BY <1>1, <2>3 DEF Missing, Refuse, Answer, Goto, Set
  <2>4. ASSUME Refuse(r, "error")
        PROVE  pc'[q] = pc[q] /\ data'[q] = data[q] /\ got'[q] = got[q] /\ reply'[q] = reply[q]
    BY <1>1, <2>4 DEF Refuse, Answer, Set
  <2>5. CASE HGet(r, phase)
    BY <1>1, <2>3, <2>4, <2>5 DEF HGet, Goto, Set
  <2>6. CASE MemGet(r, phase)
    BY <1>1, <2>2, <2>6 DEF MemGet, Goto, Set
  <2>7. CASE LowGet(r, phase)
    BY <2>2, <2>3, <2>4, <2>7 DEF LowGet
  <2> QED
    BY <2>1, <2>5, <2>6, <2>7
<1>4. CASE Download(r) \/ PutOriginal(r) \/ HSetOriginal(r) \/ Resize(r)
  BY <1>1, <1>4
  DEF Download, PutOriginal, HSetOriginal, Resize, Added, Refuse, Answer, Goto, Set
<1>5. CASE PutVariant(r) \/ HSetVariant(r) \/ DelIndex(r) \/ DelBlob(r)
  BY <1>1, <1>5 DEF PutVariant, HSetVariant, DelIndex, DelBlob, Refuse, Answer, Goto, Set
<1> QED
  BY <1>2, <1>3, <1>4, <1>5 DEF Handle, Serve

\* A step of a request that is not about to save an entry, that leaves what is
\* kept of the variant alone, and that reads, if anything, the image it is of.
LEMMA AllOfMove ==
    ASSUME Types, NEW v, AllOf(v), NEW r \in Requests, Begin(r) \/ Handle(r),
           ~SavingSize(r), ~SavingSize(r)', Reading(r)' => got'[r] = v,
           mem'[Variant] = mem[Variant], UNCHANGED low, idx'[Variant] = idx[Variant],
           BagToSet(bg) \subseteq BagToSet(bg'),
           \A t \in BagToSet(bg') \ BagToSet(bg) : t.key = Variant => t.blob = v
    PROVE  AllOf(v)'
<1>1. ASSUME NEW q \in Requests
      PROVE  /\ (SavingSize(q) => data[q] = v)' /\ (Reading(q) => got[q] = v)'
             /\ SavingSize(q) => SavingSize(q)'
  <2>1. CASE q = r
    BY <2>1
  <2>2. CASE q # r
    BY <2>2, HandlerMovesOne DEF AllOf, SavingSize, Reading, At
  <2> QED
    BY <2>1, <2>2
<1>2. Pending("put_low", Variant) => Pending("put_low", Variant)'
  BY DEF Pending
<1>3. \A t \in BagToSet(bg') : t.key = Variant => t.blob = v
  BY DEF AllOf
<1> QED
  BY <1>1, <1>2, <1>3 DEF AllOf

\* The places where a request has neither read the variant's entry nor stored
\* its data.
Away ==
    {Idle, <<"add", "download">>, <<"add", "put">>, <<"add", "hset">>,
     <<"make", "resize">>, <<"make", "put">>, <<"variant", "hget">>,
     <<"delete", "db">>, <<"delete", "store">>}
    \cup ({"probe", "original"} \X {"hget", "mem", "low"})

LEMMA AllOfAway ==
    ASSUME Types, NEW v, AllOf(v), NEW r \in Requests, Begin(r) \/ Handle(r),
           ~SavingSize(r), pc'[r] \in Away,
           mem'[Variant] = mem[Variant], UNCHANGED low, idx'[Variant] = idx[Variant],
           BagToSet(bg) \subseteq BagToSet(bg'),
           \A t \in BagToSet(bg') \ BagToSet(bg) : t.key = Variant => t.blob = v
    PROVE  AllOf(v)'
<1>1. ~SavingSize(r)' /\ ~Reading(r)'
  BY DEF SavingSize, Reading, At, Away, Idle
<1> QED
  BY <1>1, AllOfMove

\* The low store is not behind: what it holds is of the image, too.
LEMMA LowIsOf ==
    ASSUME NEW v, AllOf(v), ~Unwritten
    PROVE  low[Variant] \in {NoBlob, v}
BY DEF AllOf, Unwritten, Pending

\* No entry is behind: what it describes is the image.
LEMMA IndexIsOf ==
    ASSUME NEW v, AllOf(v), \A q \in Requests : ~Unindexed(q)
    PROVE  idx[Variant] \in {NoImage, v}
BY DEF AllOf, Unindexed

\* Where the ways out of a lookup lead.
LEMMA LookupLeads ==
    ASSUME Types, NEW r \in Requests, NEW phase \in Phases
    PROVE  /\ \A status : Refuse(r, status) => pc'[r] \in Away
           /\ Missing(r, phase) => pc'[r] \in Away
           /\ \A b : Found(r, phase, b) => pc'[r] \in Away
<1>1. pc \in [Requests -> Steps]
  BY DEF Types, RequestTypes
<1>2. ASSUME NEW status, NEW m, NEW d, Answer(r, status, m, d) PROVE pc'[r] \in Away
  BY <1>1, <1>2 DEF Answer, Set, Away
<1>3. ASSUME NEW status, Refuse(r, status) PROVE pc'[r] \in Away
  BY <1>2, <1>3 DEF Refuse
<1>4. ASSUME Missing(r, phase) PROVE pc'[r] \in Away
  BY <1>1, <1>3, <1>4 DEF Missing, Goto, Away
<1>5. ASSUME NEW b, Found(r, phase, b) PROVE pc'[r] \in Away
  BY <1>1, <1>2, <1>5 DEF Found, Goto, Away
<1> QED
  BY <1>3, <1>4, <1>5

LEMMA LookupKeepsAllOf ==
    ASSUME Types, Held, NEW v \in Blobs, AllOf(v), NEW r \in Requests, ~Tears(r),
           NEW phase \in Phases, HGet(r, phase) \/ MemGet(r, phase) \/ LowGet(r, phase)
    PROVE  AllOf(v)'
<1>1. /\ pc \in [Requests -> Steps] /\ got \in [Requests -> Versions \cup {NoImage}]
      /\ Handle(r) /\ ~SavingSize(r)
      /\ KeyOf(phase) = (IF phase = "variant" THEN Variant ELSE Original)
      /\ Original # Variant /\ Original \in StoreKeys /\ Variant \in StoreKeys
  BY VersionAssumption
  DEF Types, RequestTypes, Handle, Serve, HGet, MemGet, LowGet, SavingSize, At, Phases, KeyOf,
      Original, Variant
<1>2. ASSUME UNCHANGED <<mem, low, idx, bg>>, pc'[r] \in Away PROVE AllOf(v)'
  BY <1>1, <1>2, AllOfAway
<1>3. CASE HGet(r, phase)
  <2>1. UNCHANGED <<mem, low, idx, bg>> /\ At(r, phase, "hget")
    BY <1>3 DEF HGet, chainVars
  <2>2. CASE Missing(r, phase) \/ Refuse(r, "error")
    BY <1>2, <2>1, <2>2, LookupLeads
  <2>3. CASE /\ idx[KeyOf(phase)] # NoImage /\ got' = Set(got, r, idx[KeyOf(phase)])
             /\ Goto(r, phase, "mem")
    <3>1. pc'[r] = <<phase, "mem">> /\ got'[r] = idx[KeyOf(phase)]
      BY <1>1, <2>3 DEF Goto, Set
    <3>2. CASE phase # "variant"
      BY <1>2, <2>1, <3>1, <3>2 DEF Away, Phases
    <3>3. CASE phase = "variant"
      <4>1. \A q \in Requests : ~Unindexed(q)
        BY <2>1, <3>1, <3>3 DEF Tears, At
      <4>2. got'[r] = v
        BY <1>1, <2>3, <3>1, <3>3, <4>1, IndexIsOf
      <4>3. ~SavingSize(r)'
        BY <3>1, <3>3 DEF SavingSize, At
      <4> QED
        BY <1>1, <2>1, <4>2, <4>3, AllOfMove
    <3> QED
      BY <3>2, <3>3
  <2> QED
    BY <1>3, <2>2, <2>3 DEF HGet
<1>4. CASE MemGet(r, phase)
  <2>1. UNCHANGED <<mem, low, idx, bg>> /\ At(r, phase, "mem")
    BY <1>4 DEF MemGet, chainVars
  <2>2. CASE Found(r, phase, mem[KeyOf(phase)])
    BY <1>2, <2>1, <2>2, LookupLeads
  <2>3. CASE Goto(r, phase, "low") /\ UNCHANGED <<kind, got, data, reply>>
    <3>1. pc'[r] = <<phase, "low">> /\ got'[r] = got[r]
      BY <1>1, <2>3 DEF Goto
    <3>2. CASE phase # "variant"
      BY <1>2, <2>1, <3>1, <3>2 DEF Away, Phases
    <3>3. CASE phase = "variant"
      <4>1. got'[r] = v
        BY <2>1, <3>1, <3>3 DEF AllOf, Reading
      <4>2. ~SavingSize(r)'
        BY <3>1, <3>3 DEF SavingSize, At
      <4> QED
        BY <1>1, <2>1, <4>1, <4>2, AllOfMove
    <3> QED
      BY <3>2, <3>3
  <2> QED
    BY <1>4, <2>2, <2>3 DEF MemGet
<1>5. CASE LowGet(r, phase)
  <2>1. At(r, phase, "low") /\ UNCHANGED idx
    BY <1>5 DEF LowGet
  <2>2. CASE UNCHANGED chainVars /\ (Missing(r, phase) \/ Refuse(r, "error"))
    BY <1>2, <2>1, <2>2, LookupLeads DEF chainVars
  <2>3. CASE /\ low[KeyOf(phase)] # NoBlob /\ Found(r, phase, low[KeyOf(phase)])
             /\ FillFromLow(KeyOf(phase))
    <3>1. low[KeyOf(phase)] \in Blobs \cup {NoBlob} /\ KeyOf(phase) \in StoreKeys /\ ChainTypes
      BY <1>1 DEF Types, ChainTypes
    <3>2. /\ UNCHANGED <<mem, low>>
          /\ BagToSet(bg') = BagToSet(bg)
                \cup {[op |-> "fill", key |-> KeyOf(phase), blob |-> low[KeyOf(phase)]]}
      BY <2>3, <3>1, SpawnAdds DEF FillFromLow
    <3>3. pc'[r] \in Away
      BY <2>3, LookupLeads
    <3>4. phase = "variant" => low[Variant] = v
      <4>1. SUFFICES ASSUME phase = "variant" PROVE low[Variant] = v
        OBVIOUS
      <4>2. Answer(r, "ok", got[r], low[Variant])
        BY <1>1, <2>3, <4>1 DEF Found
      <4>3. reply \in [Requests -> [status : Statuses, meta : Versions \cup {NoImage},
                                   data : Blobs \cup {NoBlob}]]
        BY DEF Types, RequestTypes
      <4>4. reply'[r].status = "ok"
        BY <4>2, <4>3 DEF Answer, Set
      <4>5. ~Unwritten
        BY <2>1, <4>1, <4>4 DEF Tears
      <4> QED
        BY <1>1, <2>3, <4>1, <4>5, LowIsOf
    <3>5. \A t \in BagToSet(bg') \ BagToSet(bg) : t.key = Variant => t.blob = v
      BY <1>1, <3>2, <3>4
    <3> QED
      BY <1>1, <2>1, <3>2, <3>3, <3>5, AllOfAway
  <2> QED
    BY <1>5, <2>2, <2>3 DEF LowGet
<1> QED
  BY <1>3, <1>4, <1>5

LEMMA HandlerKeepsAllOf ==
    ASSUME Types, Held, NEW v \in Blobs, AllOf(v), NEW r \in Requests, Handle(r),
           ~At(r, "make", "put"), ~Tears(r)
    PROVE  AllOf(v)'
<1>1. /\ pc \in [Requests -> Steps]
      /\ data \in [Requests -> Blobs \cup {NoBlob}]
      /\ mem \in [StoreKeys -> Blobs \cup {NoBlob}]
      /\ idx \in [StoreKeys -> Versions \cup {NoImage}]
      /\ Original # Variant /\ Original \in StoreKeys /\ Variant \in StoreKeys /\ ChainTypes
  BY VersionAssumption DEF Types, RequestTypes, ChainTypes, Original, Variant
<1>2. ASSUME NEW status, NEW m, NEW d, Answer(r, status, m, d)
      PROVE  pc'[r] = Idle /\ reply'[r].status = status
  BY <1>1, <1>2 DEF Answer, Set, Types, RequestTypes
<1>3. ASSUME NEW status, Refuse(r, status)
      PROVE  pc'[r] = Idle /\ reply'[r].status = status
  BY <1>2, <1>3 DEF Refuse
<1>4. ASSUME NEW phase, NEW step, Goto(r, phase, step) PROVE pc'[r] = <<phase, step>>
  BY <1>1, <1>4 DEF Goto
<1>5. CASE \E phase \in Phases : HGet(r, phase) \/ MemGet(r, phase) \/ LowGet(r, phase)
  BY <1>5, LookupKeepsAllOf
<1>6. CASE Download(r) \/ Resize(r) \/ HSetOriginal(r) \/ DelIndex(r)
  <2>1. ~SavingSize(r) /\ UNCHANGED <<mem, low, bg>>
    BY <1>6 DEF Download, Resize, HSetOriginal, DelIndex, SavingSize, At, chainVars
  <2>2. idx'[Variant] = idx[Variant]
    BY <1>1, <1>6 DEF Download, Resize, HSetOriginal, DelIndex, Set
  <2>3. pc'[r] \in Away
    <3>1. CASE Download(r)
      BY <1>3, <1>4, <3>1 DEF Download, Away
    <3>2. CASE Resize(r)
      BY <1>3, <1>4, <3>2 DEF Resize, Away
    <3>3. CASE HSetOriginal(r)
      BY <1>2, <1>3, <1>4, <3>3 DEF HSetOriginal, Added, Away
    <3>4. CASE DelIndex(r)
      BY <1>3, <1>4, <3>4 DEF DelIndex, Away
    <3> QED
      BY <1>6, <3>1, <3>2, <3>3, <3>4
  <2> QED
    BY <2>1, <2>2, <2>3, AllOfAway
<1>7. CASE PutOriginal(r)
  <2>1. data[r] \in Blobs \cup {NoBlob} /\ ~SavingSize(r)
    BY <1>1, <1>7 DEF PutOriginal, SavingSize, At
  <2>2. /\ mem'[Variant] = mem[Variant] /\ UNCHANGED <<low, idx>>
        /\ BagToSet(bg') = BagToSet(bg)
              \cup {[op |-> "put_low", key |-> Original, blob |-> data[r]]}
    BY <1>1, <1>7, <2>1, SpawnAdds DEF PutOriginal, ChainPut
  <2>3. pc'[r] \in Away
    BY <1>4, <1>7 DEF PutOriginal, Away
  <2> QED
    BY <1>1, <2>1, <2>2, <2>3, AllOfAway
<1>8. CASE DelBlob(r)
  <2>1. /\ mem'[Variant] = mem[Variant] /\ UNCHANGED <<low, idx>> /\ ~SavingSize(r)
        /\ BagToSet(bg') = BagToSet(bg)
              \cup {[op |-> "del_low", key |-> Original, blob |-> NoBlob]}
    BY <1>1, <1>8, SpawnAdds DEF DelBlob, ChainDel, SavingSize, At
  <2>2. pc'[r] \in Away
    BY <1>3, <1>8 DEF DelBlob, Away
  <2> QED
    BY <1>1, <2>1, <2>2, AllOfAway
<1>9. CASE HSetVariant(r)
  <2>1. SavingSize(r) /\ data[r] = v /\ UNCHANGED <<mem, low, bg>>
    BY <1>9 DEF HSetVariant, SavingSize, At, chainVars, AllOf
  <2>2. pc'[r] = Idle /\ idx'[Variant] \in {NoImage, v}
    <3>1. CASE idx' = Set(idx, Variant, data[r]) /\ Answer(r, "ok", data[r], data[r])
      BY <1>1, <1>2, <2>1, <3>1 DEF Set
    <3>2. CASE Refuse(r, "error") /\ UNCHANGED idx
      <4>1. pc'[r] = Idle /\ reply'[r].status # "ok"
        BY <1>3, <3>2
      <4>2. ~Unindexed(r)
        BY <2>1, <4>1 DEF Tears, SavingSize
      <4> QED
        BY <2>1, <3>2, <4>1, <4>2 DEF Unindexed
    <3> QED
      BY <1>9, <3>1, <3>2 DEF HSetVariant
  <2>3. ASSUME NEW q \in Requests
        PROVE  (SavingSize(q) => data[q] = v)' /\ (Reading(q) => got[q] = v)'
    <3>1. CASE q = r
      BY <2>2, <3>1 DEF SavingSize, Reading, At, Idle
    <3>2. CASE q # r
      BY <3>2, HandlerMovesOne DEF AllOf, SavingSize, Reading, At
    <3> QED
      BY <3>1, <3>2
  <2>4. Pending("put_low", Variant) => Pending("put_low", Variant)'
    BY <2>1 DEF Pending
  <2> QED
    BY <2>1, <2>2, <2>3, <2>4 DEF AllOf
<1>10. ~PutVariant(r)
  BY DEF PutVariant
<1> QED
  BY <1>5, <1>6, <1>7, <1>8, <1>9, <1>10 DEF Handle, Serve

\* A save that meets nothing of another image leaves all of its own.
LEMMA SaveMends ==
    ASSUME Types, Held, NEW r \in Requests, PutVariant(r), ~Crossed(r),
           NEW v, v = data[r]
    PROVE  v \in Blobs /\ AllOf(v)'
<1>1. /\ pc \in [Requests -> Steps] /\ data[r] \in Blobs
      /\ mem \in [StoreKeys -> Blobs \cup {NoBlob}]
      /\ Variant \in StoreKeys /\ ChainTypes /\ Handle(r)
  BY VersionAssumption, StepFacts
  DEF Types, RequestTypes, ChainTypes, PutVariant, At, Held, Handle, Serve
<1>2. /\ mem'[Variant] = data[r]
      /\ BagToSet(bg') = BagToSet(bg)
            \cup {[op |-> "put_low", key |-> Variant, blob |-> data[r]]}
  BY <1>1, SpawnAdds DEF PutVariant, ChainPut
<1>3. pc'[r] = <<"make", "hset">> /\ UNCHANGED <<data, got>>
  BY <1>1 DEF PutVariant, Goto
<1>4. SavingSize(r)' /\ Pending("put_low", Variant)'
  <2>1. SavingSize(r)'
    BY <1>3 DEF SavingSize, At
  <2>2. PICK t \in BagToSet(bg') : t = [op |-> "put_low", key |-> Variant, blob |-> data[r]]
    BY <1>2
  <2>3. t.op = "put_low" /\ t.key = Variant
    BY <2>2
  <2>4. Pending("put_low", Variant)'
    BY <2>3 DEF Pending
  <2> QED
    BY <2>1, <2>4
<1>5. ASSUME NEW q \in Requests
      PROVE  (SavingSize(q) => data[q] = v)' /\ (Reading(q) => got[q] = v)'
  <2>1. CASE q = r
    BY <1>3, <2>1 DEF SavingSize, Reading, At
  <2>2. CASE q # r
    BY <1>1, <1>3, <2>2, HandlerMovesOne DEF Crossed, SavingSize, Reading, At
  <2> QED
    BY <2>1, <2>2
<1>6. \A t \in BagToSet(bg') : t.key = Variant => t.blob = v
  BY <1>2 DEF Crossed
<1> QED
  BY <1>1, <1>2, <1>3, <1>4, <1>5, <1>6 DEF AllOf

LEMMA WorldKeepsAllOf ==
    ASSUME Types, NEW v, AllOf(v),
           \/ OriginChanges \/ EvictBlob \/ UNCHANGED vars
           \/ \E t \in BagToSet(bg) : Background(t) /\ ~LosesWrite(t)
    PROVE  AllOf(v)'
<1>1. /\ mem \in [StoreKeys -> Blobs \cup {NoBlob}]
      /\ low \in [StoreKeys -> Blobs \cup {NoBlob}]
      /\ Variant \in StoreKeys /\ IsABag(bg)
  BY VersionAssumption DEF Types, ChainTypes
<1>2. ASSUME UNCHANGED <<idx, reqVars>>, mem'[Variant] \in {NoBlob, v},
             BagToSet(bg') \subseteq BagToSet(bg),
             low'[Variant] \in {NoBlob, v} \/ Pending("put_low", Variant)'
      PROVE  AllOf(v)'
  BY <1>2 DEF AllOf, SavingSize, Reading, At, reqVars
<1>3. CASE OriginChanges \/ UNCHANGED vars
  <2>1. UNCHANGED <<idx, mem, low, bg, reqVars>>
    BY <1>3 DEF OriginChanges, vars, chainVars
  <2> QED
    BY <1>2, <2>1 DEF AllOf, Pending
<1>4. CASE EvictBlob
  <2>1. /\ UNCHANGED <<idx, bg, reqVars>>
        /\ mem'[Variant] \in {NoBlob, mem[Variant]} /\ low'[Variant] \in {NoBlob, low[Variant]}
    BY <1>1, <1>4 DEF EvictBlob, Evict
  <2> QED
    BY <1>2, <2>1 DEF AllOf, Pending
<1>5. ASSUME NEW t \in BagToSet(bg), Background(t), ~LosesWrite(t) PROVE AllOf(v)'
  <2>1. /\ UNCHANGED <<idx, reqVars>> /\ BagToSet(bg') \subseteq BagToSet(bg)
        /\ BagToSet(bg) \ {t} \subseteq BagToSet(bg')
    BY <1>1, <1>5, BagLoses DEF Background, RunTask
  <2>2. ~(t.op = "put_low" /\ t.key = Variant) =>
            (Pending("put_low", Variant) => Pending("put_low", Variant)')
    BY <2>1 DEF Pending
  <2>3. CASE t.key # Variant
    <3>1. mem'[Variant] = mem[Variant] /\ low'[Variant] = low[Variant]
      BY <1>1, <1>5, <2>3 DEF Background, RunTask, Apply
    <3> QED
      BY <1>2, <2>1, <2>2, <2>3, <3>1 DEF AllOf
  <2>4. CASE t.key = Variant
    <3>1. t.blob = v
      BY <2>4 DEF AllOf
    <3>2. /\ mem'[Variant] \in {mem[Variant], v}
          /\ low'[Variant] \in {low[Variant], v}
      BY <1>1, <1>5, <2>4, <3>1 DEF Background, RunTask, Apply
    <3>3. t.op = "put_low" => low'[Variant] \in {NoBlob, v}
      BY <1>5, <2>4, <3>1 DEF LosesWrite
    <3> QED
      BY <1>2, <2>1, <2>2, <3>2, <3>3 DEF AllOf
  <2> QED
    BY <2>3, <2>4
<1> QED
  BY <1>3, <1>4, <1>5

\* A restart that loses nothing half done leaves one image at most.
LEMMA CrashMends ==
    ASSUME Types, Crash, torn \/ (\E v \in Blobs : AllOf(v)), ~CrashTears
    PROVE  \E v \in Blobs : AllOf(v)'
<1>1. /\ Variant \in StoreKeys /\ Blobs = Versions /\ 1 \in Versions
      /\ idx[Variant] \in Versions \cup {NoImage}
  BY VersionAssumption DEF Types, ChainTypes, Versions
<1>2. /\ mem'[Variant] = NoBlob /\ BagToSet(bg') = {} /\ UNCHANGED idx
      /\ low'[Variant] = (IF LowIsS3 THEN low[Variant] ELSE NoBlob)
      /\ \A q \in Requests : pc'[q] = <<"idle", "idle">>
  BY <1>1 DEF Crash, Restart, EmptyBag, BagToSet, SetToBag, Idle
<1>3. \A q \in Requests : ~SavingSize(q)' /\ ~Reading(q)'
  BY <1>2 DEF SavingSize, Reading, At
<1>4. ASSUME NEW v \in Blobs, low'[Variant] \in {NoBlob, v}, idx[Variant] \in {NoImage, v}
      PROVE  AllOf(v)'
  BY <1>2, <1>3, <1>4 DEF AllOf
<1>5. CASE LowIsS3
  <2>1. PICK v \in Blobs : AllOf(v)
    BY <1>5 DEF CrashTears
  <2>2. low[Variant] \in {NoBlob, v} /\ idx[Variant] \in {NoImage, v}
    BY <1>5, <2>1, LowIsOf, IndexIsOf DEF CrashTears
  <2> QED
    BY <1>2, <1>4, <1>5, <2>2
<1>6. CASE ~LowIsS3
  <2>1. PICK v \in Blobs : idx[Variant] \in {NoImage, v}
    BY <1>1
  <2> QED
    BY <1>2, <1>4, <1>6, <2>1
<1> QED
  BY <1>5, <1>6

CoherenceInv == Types /\ Held /\ (torn \/ \E v \in Blobs : AllOf(v))

LEMMA CoherenceKeepsTypes ==
    Types /\ Held /\ [CoherenceNext]_<<vars, torn>> => (Types /\ Held)'
<1>1. CoherenceNext => [Next]_vars \/ Crash
  BY DEF CoherenceNext, Next, Handle, Serve
<1> QED
  BY <1>1, TypesInductive, CrashKeepsTypes

LEMMA CoherenceInductive ==
    ASSUME CoherenceInv, [CoherenceNext]_<<vars, torn>>
    PROVE  CoherenceInv'
<1>1. Types /\ Held /\ (Types /\ Held)' /\ (torn \/ \E v \in Blobs : AllOf(v))
  BY CoherenceKeepsTypes DEF CoherenceInv
<1> SUFFICES ASSUME ~torn' PROVE \E v \in Blobs : AllOf(v)'
  BY <1>1 DEF CoherenceInv
<1>2. ASSUME NEW r \in Requests, PutVariant(r), torn' = Crossed(r)
      PROVE  \E v \in Blobs : AllOf(v)'
  <2>1. PICK v : v = data[r]
    OBVIOUS
  <2> QED
    BY <1>1, <1>2, <2>1, SaveMends
<1>3. CASE Crash /\ torn' = CrashTears
  BY <1>1, <1>3, CrashMends
<1>4. ASSUME NEW v \in Blobs, AllOf(v),
             \/ \E r \in Requests :
                  \/ Begin(r)
                  \/ Handle(r) /\ ~At(r, "make", "put") /\ ~Tears(r)
             \/ \E t \in BagToSet(bg) : Background(t) /\ ~LosesWrite(t)
             \/ OriginChanges \/ EvictBlob \/ UNCHANGED vars
      PROVE  AllOf(v)'
  <2>1. ASSUME NEW r \in Requests, Begin(r) PROVE AllOf(v)'
    <3>1. /\ ~SavingSize(r) /\ UNCHANGED <<mem, low, idx, bg>>
      BY <2>1 DEF Begin, SavingSize, At, Idle, chainVars
    <3>2. pc'[r] \in Away
      BY <1>1, <2>1 DEF Begin, Goto, Away, Types, RequestTypes
    <3> QED
      BY <1>1, <1>4, <2>1, <3>1, <3>2, AllOfAway
  <2>2. ASSUME NEW r \in Requests, Handle(r), ~At(r, "make", "put"), ~Tears(r)
        PROVE  AllOf(v)'
    BY <1>1, <1>4, <2>2, HandlerKeepsAllOf
  <2> QED
    BY <1>1, <1>4, <2>1, <2>2, WorldKeepsAllOf
<1>5. CASE UNCHANGED <<vars, torn>>
  <2>1. PICK v \in Blobs : AllOf(v)
    BY <1>1, <1>5
  <2> QED
    BY <1>4, <1>5, <2>1
<1>6. ASSUME CoherenceNext,
             ~ \E r \in Requests : PutVariant(r) /\ torn' = Crossed(r),
             ~ (Crash /\ torn' = CrashTears)
      PROVE  \E v \in Blobs : AllOf(v)'
  <2>1. /\ ~torn
        /\ \/ \E r \in Requests :
                 \/ Begin(r)
                 \/ Handle(r) /\ ~At(r, "make", "put") /\ ~Tears(r)
           \/ \E t \in BagToSet(bg) : Background(t) /\ ~LosesWrite(t)
           \/ OriginChanges \/ EvictBlob
    <3>1. ASSUME NEW r \in Requests, Handle(r), torn' = (torn \/ Tears(r))
          PROVE  ~torn /\ ~Tears(r)
      BY <3>1
    <3>2. ASSUME NEW t \in BagToSet(bg), Background(t), torn' = (torn \/ LosesWrite(t))
          PROVE  ~torn /\ ~LosesWrite(t)
      BY <3>2
    <3>3. UNCHANGED torn => ~torn
      OBVIOUS
    <3>4. CASE \E r \in Requests : PutVariant(r) /\ torn' = Crossed(r)
      BY <1>6, <3>4
    <3>5. CASE Crash /\ torn' = CrashTears
      BY <1>6, <3>5
    <3>6. \/ \E r \in Requests :
               \/ Begin(r) /\ UNCHANGED torn
               \/ PutVariant(r) /\ torn' = Crossed(r)
               \/ Handle(r) /\ ~At(r, "make", "put") /\ torn' = (torn \/ Tears(r))
          \/ \E t \in BagToSet(bg) : Background(t) /\ torn' = (torn \/ LosesWrite(t))
          \/ (OriginChanges \/ EvictBlob) /\ UNCHANGED torn
          \/ Crash /\ torn' = CrashTears
      BY <1>6 DEF CoherenceNext
    <3> QED
      BY <3>1, <3>2, <3>3, <3>4, <3>5, <3>6
  <2>2. PICK v \in Blobs : AllOf(v)
    BY <1>1, <2>1
  <2> QED
    BY <1>4, <2>1, <2>2
<1> QED
  BY <1>2, <1>3, <1>5, <1>6

\* A lookup that answers while all is of one image answers with that image.
LEMMA LookupAnswers ==
    ASSUME Types, Held, NEW v \in Blobs, AllOf(v), NEW r \in Requests, ~Tears(r),
           NEW phase \in Phases, HGet(r, phase) \/ MemGet(r, phase) \/ LowGet(r, phase),
           reply'[r] # reply[r], reply'[r].status = "ok"
    PROVE  reply'[r].meta = reply'[r].data
<1>1. /\ reply \in [Requests -> [status : Statuses, meta : Versions \cup {NoImage},
                                 data : Blobs \cup {NoBlob}]]
      /\ KeyOf(phase) = (IF phase = "variant" THEN Variant ELSE Original)
  BY DEF Types, RequestTypes, KeyOf
<1>2. ASSUME NEW status, NEW m, NEW d, Answer(r, status, m, d)
      PROVE  reply'[r].status = status /\ reply'[r].meta = m /\ reply'[r].data = d
  BY <1>1, <1>2 DEF Answer, Set
<1>3. ~Refuse(r, "error") /\ ~Refuse(r, "missing")
  BY <1>2 DEF Refuse
<1>4. ~Missing(r, phase)
  BY <1>3 DEF Missing
<1>5. ~HGet(r, phase)
  BY <1>3, <1>4 DEF HGet
<1>6. ASSUME NEW b, Found(r, phase, b) PROVE phase = "variant" /\ Answer(r, "ok", got[r], b)
  BY <1>6 DEF Found
<1>7. CASE MemGet(r, phase)
  <2>1. Found(r, phase, mem[KeyOf(phase)]) /\ mem[KeyOf(phase)] # NoBlob /\ At(r, phase, "mem")
    BY <1>7 DEF MemGet
  <2>2. phase = "variant" /\ Answer(r, "ok", got[r], mem[Variant]) /\ mem[Variant] # NoBlob
    BY <1>1, <1>6, <2>1
  <2>3. got[r] = v /\ mem[Variant] = v
    BY <2>1, <2>2 DEF AllOf, Reading
  <2> QED
    BY <1>2, <2>2, <2>3
<1>8. CASE LowGet(r, phase)
  <2>1. Found(r, phase, low[KeyOf(phase)]) /\ low[KeyOf(phase)] # NoBlob /\ At(r, phase, "low")
    BY <1>3, <1>4, <1>8 DEF LowGet
  <2>2. phase = "variant" /\ Answer(r, "ok", got[r], low[Variant]) /\ low[Variant] # NoBlob
    BY <1>1, <1>6, <2>1
  <2>3. ~Unwritten
    BY <2>1, <2>2 DEF Tears
  <2>4. got[r] = v /\ low[Variant] = v
    BY <2>1, <2>2, <2>3, LowIsOf DEF AllOf, Reading
  <2> QED
    BY <1>2, <2>2, <2>4
<1> QED
  BY <1>5, <1>7, <1>8

LEMMA CoherenceAnswers ==
    ASSUME CoherenceInv, [CoherenceNext]_<<vars, torn>>, NEW r \in Requests,
           reply'[r] # reply[r], reply'[r].status = "ok", ~torn'
    PROVE  reply'[r].meta = reply'[r].data
<1>1. /\ Types /\ Held /\ (torn \/ \E v \in Blobs : AllOf(v))
      /\ reply \in [Requests -> [status : Statuses, meta : Versions \cup {NoImage},
                                 data : Blobs \cup {NoBlob}]]
  BY DEF CoherenceInv, Types, RequestTypes
<1>2. ASSUME NEW status, NEW m, NEW d, Answer(r, status, m, d)
      PROVE  reply'[r].status = status /\ reply'[r].meta = m /\ reply'[r].data = d
  BY <1>1, <1>2 DEF Answer, Set
<1>3. ~Begin(r) /\ ~Crash
  BY <1>1 DEF Begin, Crash, NoReply, Set
<1>4. \A q \in Requests \ {r} : ~Begin(q) /\ ~Handle(q)
  BY <1>1, HandlerMovesOne
<1>5. ~(OriginChanges \/ EvictBlob \/ UNCHANGED vars) /\ \A t \in BagToSet(bg) : ~Background(t)
  BY DEF OriginChanges, EvictBlob, Background, vars, reqVars
<1>6. ~PutVariant(r)
  BY DEF PutVariant
<1>7. Handle(r) /\ ~torn /\ ~Tears(r)
  <2>1. CoherenceNext
    BY <1>5 DEF vars
  <2>2. ~Crash /\ ~(OriginChanges \/ EvictBlob) /\ \A t \in BagToSet(bg) : ~Background(t)
    BY <1>3, <1>5
  <2>3. PICK q \in Requests :
           \/ Begin(q) /\ UNCHANGED torn
           \/ PutVariant(q) /\ torn' = Crossed(q)
           \/ Handle(q) /\ ~At(q, "make", "put") /\ torn' = (torn \/ Tears(q))
    BY <2>1, <2>2 DEF CoherenceNext
  <2>4. q = r
    BY <1>4, <2>3 DEF Handle, Serve
  <2> QED
    BY <1>3, <1>6, <2>3, <2>4
<1>8. PICK v \in Blobs : AllOf(v)
  BY <1>1, <1>7
<1>9. CASE \E phase \in Phases : HGet(r, phase) \/ MemGet(r, phase) \/ LowGet(r, phase)
  BY <1>1, <1>7, <1>8, <1>9, LookupAnswers
<1>10. CASE Download(r) \/ PutOriginal(r) \/ Resize(r) \/ DelIndex(r) \/ DelBlob(r)
  <2>1. UNCHANGED reply \/ \E status \in {"invalid", "error", "deleted"} : Refuse(r, status)
    BY <1>10 DEF Download, PutOriginal, Resize, DelIndex, DelBlob
  <2>2. PICK status \in {"invalid", "error", "deleted"} : Refuse(r, status)
    BY <2>1
  <2>3. reply'[r].status = status
    BY <1>2, <2>2 DEF Refuse
  <2> QED
    BY <2>3
<1>11. CASE HSetOriginal(r) \/ HSetVariant(r)
  <2>1. UNCHANGED reply \/ Refuse(r, "error") \/ Answer(r, "ok", data[r], data[r])
    BY <1>11 DEF HSetOriginal, HSetVariant, Added
  <2> QED
    BY <1>2, <2>1 DEF Refuse
<1> QED
  BY <1>6, <1>7, <1>9, <1>10, <1>11 DEF Handle, Serve

\* For any number of requests, images at the origin, evictions, restarts and
\* failures, the metadata and the data of an answer are of one image, unless two
\* images of the variant crossed or a write of one was lost since it was last
\* saved undisturbed (bucket.go:145-198, chainstore.go:69-157).
THEOREM AnswersAlwaysCoherent == CoherenceSpec => AnswersCoherent
<1>1. CoherenceInit => CoherenceInv
  <2> SUFFICES ASSUME CoherenceInit PROVE \E v \in Blobs : AllOf(v)
    BY TypesInitially DEF CoherenceInit, CoherenceInv
  <2>1. 1 \in Blobs /\ Variant \in StoreKeys
    BY VersionAssumption DEF Versions
  <2>2. /\ BagToSet(bg) = {} /\ mem[Variant] = NoBlob /\ low[Variant] = NoBlob
        /\ idx[Variant] = NoImage /\ \A q \in Requests : pc[q] = <<"idle", "idle">>
    BY <2>1 DEF CoherenceInit, Init, ChainInit, EmptyBag, BagToSet, SetToBag, Idle
  <2>3. AllOf(1)
    BY <2>2 DEF AllOf, SavingSize, Reading, At
  <2> QED
    BY <2>1, <2>3
<1>2. CoherenceInv /\ [CoherenceNext]_<<vars, torn>> => CoherenceInv'
  BY CoherenceInductive
<1>3. CoherenceInv /\ [CoherenceNext]_<<vars, torn>> =>
        [\A r \in Requests :
            reply'[r] # reply[r] /\ reply'[r].status = "ok" /\ ~torn' =>
                reply'[r].meta = reply'[r].data]_<<vars, torn>>
  BY CoherenceAnswers
<1> QED
  BY <1>1, <1>2, <1>3, PTL DEF CoherenceSpec, AnswersCoherent

-----------------------------------------------------------------------------
\* The history: restarts, too.

LEMMA HistoryKeepsTypes ==
    Types /\ Held /\ [HistoryNext]_<<vars, historyVars>> => (Types /\ Held)'
<1>1. HistoryNext => [Next]_vars \/ Crash
  BY DEF HistoryNext, Next
<1> QED
  BY <1>1, TypesInductive, CrashKeepsTypes

\* While an image is deleted it is not indexed and nobody is about to save it;
\* a request that began since has found nothing.
BlindSteps ==
    {Idle, <<"probe", "hget">>, <<"original", "hget">>, <<"add", "download">>,
     <<"delete", "db">>, <<"delete", "store">>}

DeletedInv ==
    /\ deleted => idx[Original] = NoImage /\ Saving = {}
    /\ blind # {} => deleted
    /\ \A r \in blind : r \in Requests /\ pc[r] \in BlindSteps /\ reply[r].status # "ok"

\* What a step of a handler does to the entry of the original.
LEMMA HandlerIndexesOriginal ==
    ASSUME Types, NEW r \in Requests, Handle(r)
    PROVE  \/ idx'[Original] = idx[Original]
           \/ At(r, "add", "hset")
           \/ idx'[Original] = NoImage
<1>1. Original # Variant /\ idx \in [StoreKeys -> Versions \cup {NoImage}] /\ Original \in StoreKeys
  BY VersionAssumption DEF Types, ChainTypes, Original, Variant
<1>2. CASE HSetOriginal(r)
  BY <1>2 DEF HSetOriginal
<1>3. CASE HSetVariant(r)
  BY <1>1, <1>3 DEF HSetVariant, Set
<1>4. CASE DelIndex(r)
  BY <1>1, <1>4 DEF DelIndex, Set
<1>5. CASE \/ Download(r) \/ Resize(r) \/ PutOriginal(r) \/ PutVariant(r) \/ DelBlob(r)
           \/ \E phase \in Phases : HGet(r, phase) \/ MemGet(r, phase) \/ LowGet(r, phase)
  BY <1>5 DEF Download, Resize, PutOriginal, PutVariant, DelBlob, HGet, MemGet, LowGet
<1> QED
  BY <1>2, <1>3, <1>4, <1>5 DEF Handle, Serve

\* Only one request moves, and it comes to saving by a download.
LEMMA HandlerMoves ==
    ASSUME Types, NEW r \in Requests, Handle(r)
    PROVE  /\ \A q \in Requests \ {r} : pc'[q] = pc[q] /\ reply'[q] = reply[q] /\ kind'[q] = kind[q]
           /\ kind'[r] = kind[r]
           /\ pc'[r] = <<"add", "put">> => Download(r)
           /\ pc'[r] = <<"add", "hset">> => At(r, "add", "put")
<1>1. /\ pc \in [Requests -> Steps] /\ kind \in [Requests -> Kinds \cup {"none"}]
      /\ reply \in [Requests -> [status : Statuses, meta : Versions \cup {NoImage},
                                 data : Blobs \cup {NoBlob}]]
  BY DEF Types, RequestTypes
<1>2. ASSUME NEW there, pc' = Set(pc, r, there), UNCHANGED kind,
             UNCHANGED reply \/ (\E answer : reply' = Set(reply, r, answer)),
             there = <<"add", "put">> => Download(r),
             there = <<"add", "hset">> => At(r, "add", "put")
      PROVE  /\ \A q \in Requests \ {r} :
                  pc'[q] = pc[q] /\ reply'[q] = reply[q] /\ kind'[q] = kind[q]
             /\ kind'[r] = kind[r]
             /\ pc'[r] = <<"add", "put">> => Download(r)
             /\ pc'[r] = <<"add", "hset">> => At(r, "add", "put")
  BY <1>1, <1>2 DEF Set
<1>3. ASSUME NEW status, NEW m, NEW d, Answer(r, status, m, d)
      PROVE  /\ pc' = Set(pc, r, Idle) /\ UNCHANGED kind
             /\ \E answer : reply' = Set(reply, r, answer)
             /\ Idle = <<"idle", "idle">>
  BY <1>3 DEF Answer, Idle
<1>4. ASSUME NEW phase \in Phases, HGet(r, phase) \/ MemGet(r, phase) \/ LowGet(r, phase)
      PROVE  /\ \E place \in {Idle, <<"original", "hget">>, <<"variant", "hget">>,
                              <<"add", "download">>, <<"make", "resize">>,
                              <<phase, "mem">>, <<phase, "low">>} : pc' = Set(pc, r, place)
             /\ UNCHANGED kind
             /\ UNCHANGED reply \/ (\E answer : reply' = Set(reply, r, answer))
  BY <1>3, <1>4 DEF HGet, MemGet, LowGet, Found, Missing, Refuse, Goto, Set
<1>5. CASE \E phase \in Phases : HGet(r, phase) \/ MemGet(r, phase) \/ LowGet(r, phase)
  <2>1. PICK phase \in Phases : HGet(r, phase) \/ MemGet(r, phase) \/ LowGet(r, phase)
    BY <1>5
  <2>2. PICK place \in {Idle, <<"original", "hget">>, <<"variant", "hget">>,
                       <<"add", "download">>, <<"make", "resize">>,
                       <<phase, "mem">>, <<phase, "low">>} : pc' = Set(pc, r, place)
    BY <1>4, <2>1
  <2>3. place # <<"add", "put">> /\ place # <<"add", "hset">>
    BY DEF Idle, Phases
  <2> QED
    BY <1>2, <1>4, <2>1, <2>2, <2>3
<1>6. CASE Download(r) \/ Resize(r) \/ DelIndex(r) \/ DelBlob(r) \/ HSetOriginal(r) \/ HSetVariant(r)
  <2>1. /\ \E place \in {Idle, <<"add", "put">>, <<"make", "put">>, <<"delete", "store">>,
                          <<"original", "hget">>} :
               pc' = Set(pc, r, place) /\ (place = <<"add", "put">> => Download(r))
        /\ UNCHANGED kind
        /\ UNCHANGED reply \/ (\E answer : reply' = Set(reply, r, answer))
    BY <1>3, <1>6
    DEF Download, Resize, DelIndex, DelBlob, HSetOriginal, HSetVariant, Added, Refuse, Goto, Set
  <2> QED
    BY <1>2, <2>1 DEF Idle
<1>7. CASE PutOriginal(r) \/ PutVariant(r)
  <2>1. \E place \in {<<"add", "hset">>, <<"make", "hset">>} :
           pc' = Set(pc, r, place) /\ (place = <<"add", "hset">> => At(r, "add", "put"))
    BY <1>7 DEF PutOriginal, PutVariant, Goto, Set
  <2>2. UNCHANGED <<kind, reply>>
    BY <1>7 DEF PutOriginal, PutVariant
  <2> QED
    BY <1>2, <2>1, <2>2
<1> QED
  BY <1>5, <1>6, <1>7 DEF Handle, Serve

\* A request that finds no entry gets no further.
LEMMA BlindStaysBlind ==
    ASSUME Types, NEW r \in Requests, Handle(r), ~Download(r),
           pc[r] \in BlindSteps, idx[Original] = NoImage, reply[r].status # "ok"
    PROVE  pc'[r] \in BlindSteps /\ reply'[r].status # "ok"
<1>1. /\ pc \in [Requests -> Steps]
      /\ reply \in [Requests -> [status : Statuses, meta : Versions \cup {NoImage},
                                 data : Blobs \cup {NoBlob}]]
  BY DEF Types, RequestTypes
<1>2. ASSUME NEW status, status # "ok", Refuse(r, status)
      PROVE  pc'[r] = Idle /\ reply'[r].status # "ok"
  BY <1>1, <1>2 DEF Refuse, Answer, Set
<1>3. Idle \in BlindSteps
  BY DEF BlindSteps
<1>4. ASSUME NEW phase \in Phases, HGet(r, phase)
      PROVE  pc'[r] \in BlindSteps /\ reply'[r].status # "ok"
  <2>1. phase \in {"probe", "original"}
    BY <1>4 DEF HGet, At, BlindSteps, Idle, Phases
  <2>2. Missing(r, phase) \/ Refuse(r, "error")
    BY <1>4, <2>1 DEF HGet, KeyOf
  <2>3. CASE phase = "probe" /\ Missing(r, phase)
    BY <1>1, <2>3 DEF Missing, Goto, BlindSteps
  <2>4. CASE phase = "original" /\ Missing(r, phase)
    BY <1>2, <1>3, <2>4 DEF Missing
  <2> QED
    BY <1>2, <1>3, <2>1, <2>2, <2>3, <2>4
<1>5. CASE DelIndex(r) \/ DelBlob(r)
  <2>1. CASE Refuse(r, "error") \/ Refuse(r, "deleted")
    BY <1>2, <1>3, <2>1
  <2>2. CASE Goto(r, "delete", "store") /\ UNCHANGED reply
    BY <1>1, <2>2 DEF Goto, BlindSteps
  <2> QED
    BY <1>5, <2>1, <2>2 DEF DelIndex, DelBlob
<1>6. CASE \/ \E phase \in Phases : MemGet(r, phase) \/ LowGet(r, phase)
           \/ PutOriginal(r) \/ HSetOriginal(r) \/ Resize(r) \/ PutVariant(r) \/ HSetVariant(r)
  BY <1>6
  DEF MemGet, LowGet, PutOriginal, HSetOriginal, Resize, PutVariant, HSetVariant, At,
      BlindSteps, Idle, Phases
<1> QED
  BY <1>4, <1>5, <1>6 DEF Handle, Serve

LEMMA DeletedInductive ==
    ASSUME Types, Held, DeletedInv, [HistoryNext]_<<vars, historyVars>>
    PROVE  DeletedInv'
<1> USE DEF Types
<1>1. pc \in [Requests -> Steps] /\ kind \in [Requests -> Kinds \cup {"none"}]
  BY DEF RequestTypes
<1>2. ASSUME NEW r \in Requests, Begin(r),
             blind' = (IF deleted THEN blind \cup {r} ELSE blind \ {r}), UNCHANGED deleted
      PROVE  DeletedInv'
  <2>1. PICK there \in BlindSteps : pc' = Set(pc, r, there)
    BY <1>2 DEF Begin, Goto, Set, BlindSteps
  <2>2. pc'[r] = there /\ \A q \in Requests \ {r} : pc'[q] = pc[q]
    BY <1>1, <2>1 DEF Set
  <2>3. there # <<"add", "put">> /\ there # <<"add", "hset">>
    BY DEF BlindSteps, Idle
  <2>4. Saving' \subseteq Saving /\ UNCHANGED idx
    BY <1>2, <2>2, <2>3 DEF Saving, Begin
  <2>5. reply'[r].status # "ok" /\ \A q \in Requests \ {r} : reply'[q] = reply[q]
    BY <1>2 DEF Begin, Set, NoReply, RequestTypes
  <2>6. ASSUME NEW q \in blind'
        PROVE  q \in Requests /\ pc'[q] \in BlindSteps /\ reply'[q].status # "ok"
    <3>1. CASE q = r
      BY <2>2, <2>5, <3>1
    <3>2. CASE q # r
      BY <1>2, <2>2, <2>5, <3>2 DEF DeletedInv
    <3> QED
      BY <3>1, <3>2
  <2>7. deleted' => idx'[Original] = NoImage /\ Saving' = {}
    BY <1>2, <2>4 DEF DeletedInv
  <2>8. blind' # {} => deleted'
    BY <1>2 DEF DeletedInv
  <2> QED
    BY <2>6, <2>7, <2>8 DEF DeletedInv
<1>3. ASSUME NEW r \in Requests, Handle(r), Recorded(r) PROVE DeletedInv'
  <2>1. CASE Download(r) /\ deleted' = FALSE /\ blind' = {}
    BY <2>1 DEF DeletedInv
  <2>2. CASE /\ UNCHANGED blind /\ pc[r] # <<"add", "download">>
             /\ \/ UNCHANGED deleted
                \/ DelIndex(r) /\ NoFault(r) /\ Saving = {} /\ deleted' = TRUE
    <3>1. ~Download(r)
      BY <2>2 DEF Download, At
    <3>2. Saving = {} => Saving' = {}
      <4> SUFFICES ASSUME Saving = {}, NEW q \in Saving' PROVE FALSE
        OBVIOUS
      <4>1. q \in Requests /\ pc'[q] \in {<<"add", "put">>, <<"add", "hset">>}
        BY DEF Saving
      <4>2. pc[q] \notin {<<"add", "put">>, <<"add", "hset">>} /\ ~At(r, "add", "put")
        BY <4>1 DEF Saving, At
      <4> QED
        BY <1>3, <3>1, <4>1, <4>2, HandlerMoves
    <3>3. (deleted /\ UNCHANGED deleted) => idx'[Original] = NoImage
      <4>1. deleted => ~At(r, "add", "hset") /\ idx[Original] = NoImage
        BY DEF DeletedInv, Saving, At
      <4> QED
        BY <1>3, <4>1, HandlerIndexesOriginal
    <3>4. (DelIndex(r) /\ NoFault(r)) => idx'[Original] = NoImage
      <4>1. ~(Refuse(r, "error") /\ NoFault(r))
        BY DEF Refuse, Answer, Set, NoFault, RequestTypes
      <4>2. Original \in StoreKeys
        BY VersionAssumption
      <4> QED
        BY <4>1, <4>2 DEF DelIndex, Set, ChainTypes
    <3>5. deleted' => idx'[Original] = NoImage /\ Saving' = {}
      BY <2>2, <3>2, <3>3, <3>4 DEF DeletedInv
    <3>6. ASSUME NEW q \in blind
          PROVE  q \in Requests /\ pc'[q] \in BlindSteps /\ reply'[q].status # "ok"
      <4>1. q \in Requests /\ pc[q] \in BlindSteps /\ reply[q].status # "ok"
            /\ idx[Original] = NoImage
        BY DEF DeletedInv
      <4>2. CASE q = r
        BY <1>3, <3>1, <4>1, <4>2, BlindStaysBlind
      <4>3. CASE q # r
        BY <1>3, <4>1, <4>3, HandlerMoves
      <4> QED
        BY <4>2, <4>3
    <3>7. blind' # {} => deleted'
      BY <2>2 DEF DeletedInv
    <3> QED
      BY <2>2, <3>5, <3>6, <3>7 DEF DeletedInv
  <2> QED
    <3>1. DelIndex(r) => pc[r] # <<"add", "download">>
      BY DEF DelIndex, At
    <3>2. \/ Download(r) /\ deleted' = FALSE /\ blind' = {}
          \/ DelIndex(r) /\ NoFault(r) /\ Saving = {} /\ deleted' = TRUE /\ UNCHANGED blind
          \/ pc[r] # <<"add", "download">> /\ UNCHANGED <<deleted, blind>>
      BY <1>3 DEF Recorded
    <3> QED
      BY <2>1, <2>2, <3>1, <3>2
<1>4. ASSUME NEW t \in BagToSet(bg), Background(t), UNCHANGED historyVars PROVE DeletedInv'
  BY <1>4 DEF Background, reqVars, historyVars, DeletedInv, Saving
<1>5. CASE EvictBlob /\ UNCHANGED <<deleted, blind>>
  BY <1>5 DEF EvictBlob, reqVars, DeletedInv, Saving
<1>6. CASE Crash /\ blind' = {} /\ UNCHANGED deleted
  BY <1>6 DEF Crash, DeletedInv, Saving, Idle
<1>7. CASE UNCHANGED <<vars, historyVars>>
  BY <1>7 DEF vars, reqVars, historyVars, DeletedInv, Saving
<1> QED
  BY <1>2, <1>3, <1>4, <1>5, <1>6, <1>7 DEF HistoryNext

\* A deleted image is not served to a request that begins after the delete
\* until the image is downloaded again (bucket.go:202).
THEOREM DeletedNeverServed == HistorySpec => []DeletedNotServed
<1> DEFINE Inv == Types /\ Held /\ DeletedInv
<1>1. HistoryInit => Inv
  BY TypesInitially DEF HistoryInit, DeletedInv
<1>2. Inv /\ [HistoryNext]_<<vars, historyVars>> => Inv'
  BY HistoryKeepsTypes, DeletedInductive
<1>3. Inv => DeletedNotServed
  BY DEF DeletedInv, DeletedNotServed
<1> QED
  BY <1>1, <1>2, <1>3, PTL DEF HistorySpec

-----------------------------------------------------------------------------
\* A fetch that runs alone and meets no fault.

\* What it may rely on where it is, whatever it found when it began.
FetchInv(r) ==
    /\ \A q \in Requests \ {r} : pc[q] = Idle
    /\ Tidy
    /\ ~At(r, "delete", "db") /\ ~At(r, "delete", "store")
    /\ pc[r] \in {<<"probe", "mem">>, <<"probe", "low">>} => idx[Original] # NoImage
    /\ pc[r] \in {<<"original", "hget">>, <<"original", "mem">>} =>
          idx[Original] # NoImage /\ (mem[Original] # NoBlob \/ low[Original] # NoBlob)
    /\ At(r, "original", "low") => low[Original] # NoBlob
    /\ At(r, "add", "hset") => mem[Original] # NoBlob
    /\ pc[r] = Idle => reply[r].status = "ok" /\ reply[r].data # NoBlob

CleanInv == \A r \in clean : r \in Requests /\ (kind[r] = "fetch" => FetchInv(r))

LEMMA FetchGoesOn ==
    ASSUME ~(LowMayFail /\ LowIsS3), Types, Held, NEW r \in Requests, kind[r] = "fetch",
           FetchInv(r), Handle(r), NoFault(r)
    PROVE  FetchInv(r)'
<1>1. /\ pc \in [Requests -> Steps] /\ data[r] \in Blobs \cup {NoBlob}
      /\ reply \in [Requests -> [status : Statuses, meta : Versions \cup {NoImage},
                                 data : Blobs \cup {NoBlob}]]
      /\ mem \in [StoreKeys -> Blobs \cup {NoBlob}] /\ low \in [StoreKeys -> Blobs \cup {NoBlob}]
      /\ idx \in [StoreKeys -> Versions \cup {NoImage}]
      /\ Original \in StoreKeys /\ Original # Variant
  BY VersionAssumption DEF Types, RequestTypes, ChainTypes, Original, Variant
<1>2. UNCHANGED chainVars \/ Puts \/ Fills
  BY HandlerCalls DEF FetchInv
<1>3. /\ Tidy'
      /\ mem[Original] # NoBlob => mem'[Original] # NoBlob
      /\ low[Original] # NoBlob => low'[Original] # NoBlob
  BY <1>1, <1>2, StoresKeep DEF Types, FetchInv
<1>4. \A q \in Requests \ {r} : pc'[q] = Idle
  BY HandlerMoves DEF FetchInv
<1>5. ~Refuse(r, "error") /\ ~Refuse(r, "invalid")
  BY <1>1 DEF Refuse, Answer, Set, NoFault
<1>6. ASSUME NEW there, pc'[r] = there,
             there \in {<<"variant", "hget">>, <<"variant", "mem">>, <<"variant", "low">>,
                        <<"add", "download">>, <<"add", "put">>,
                        <<"make", "resize">>, <<"make", "put">>, <<"make", "hset">>}
      PROVE  FetchInv(r)'
  BY <1>3, <1>4, <1>6 DEF FetchInv, At, Idle
<1>7. ASSUME NEW m, NEW d, d # NoBlob, Answer(r, "ok", m, d)
      PROVE  FetchInv(r)'
  <2>1. pc'[r] = Idle /\ reply'[r].status = "ok" /\ reply'[r].data # NoBlob
    BY <1>1, <1>7 DEF Answer, Set
  <2> QED
    BY <1>3, <1>4, <2>1 DEF FetchInv, At, Idle
<1>8. ASSUME NEW there, Set(pc, r, there) = pc' PROVE pc'[r] = there
  BY <1>1, <1>8 DEF Set
<1>9. ASSUME NEW phase, NEW step, Goto(r, phase, step) PROVE pc'[r] = <<phase, step>>
  BY <1>1, <1>9 DEF Goto
<1>10. ASSUME NEW phase \in Phases, NEW b, b # NoBlob, Found(r, phase, b),
              phase = "probe" =>
                 /\ idx'[Original] # NoImage
                 /\ mem'[Original] # NoBlob \/ low'[Original] # NoBlob
       PROVE  FetchInv(r)'
  <2>1. CASE phase = "probe"
    <3>1. pc'[r] = <<"original", "hget">>
      BY <1>9, <1>10, <2>1 DEF Found
    <3> QED
      BY <1>3, <1>4, <1>10, <2>1, <3>1 DEF FetchInv, At, Idle
  <2>2. CASE phase = "original"
    <3>1. pc'[r] = <<"variant", "hget">>
      BY <1>9, <1>10, <2>2 DEF Found
    <3> QED
      BY <1>6, <3>1
  <2>3. CASE phase = "variant"
    BY <1>7, <1>10, <2>3 DEF Found
  <2> QED
    BY <2>1, <2>2, <2>3 DEF Phases
<1>11. ASSUME NEW phase \in Phases, phase # "original", Missing(r, phase)
       PROVE  FetchInv(r)'
  <2>1. \E step \in {<<"add", "download">>, <<"make", "resize">>} : pc'[r] = step
    BY <1>9, <1>11 DEF Missing, Phases
  <2> QED
    BY <1>6, <2>1
<1>12. ASSUME NEW phase \in Phases, HGet(r, phase) PROVE FetchInv(r)'
  <2>1. UNCHANGED <<idx, mem, low>> /\ At(r, phase, "hget")
    BY <1>12 DEF HGet, chainVars
  <2>2. CASE idx[KeyOf(phase)] # NoImage /\ Goto(r, phase, "mem")
    <3>1. pc'[r] = <<phase, "mem">>
      BY <1>9, <2>2
    <3>2. CASE phase = "variant"
      BY <1>6, <3>1, <3>2
    <3>3. CASE phase = "probe"
      BY <1>3, <1>4, <2>1, <2>2, <3>1, <3>3 DEF FetchInv, At, Idle, KeyOf
    <3>4. CASE phase = "original"
      BY <1>3, <1>4, <2>1, <2>2, <3>1, <3>4 DEF FetchInv, At, Idle, KeyOf
    <3> QED
      BY <3>2, <3>3, <3>4 DEF Phases
  <2>3. CASE idx[KeyOf(phase)] = NoImage /\ Missing(r, phase)
    <3>1. phase # "original"
      BY <2>1, <2>3 DEF FetchInv, At, KeyOf
    <3> QED
      BY <1>11, <2>3, <3>1
  <2> QED
    BY <1>5, <1>12, <2>2, <2>3 DEF HGet
<1>13. ASSUME NEW phase \in Phases, MemGet(r, phase) PROVE FetchInv(r)'
  <2>1. UNCHANGED <<idx, mem, low>> /\ At(r, phase, "mem")
    BY <1>13 DEF MemGet, chainVars
  <2>2. phase = "probe" => idx[Original] # NoImage
    BY <2>1 DEF FetchInv, At
  <2>3. CASE mem[KeyOf(phase)] # NoBlob /\ Found(r, phase, mem[KeyOf(phase)])
    BY <1>10, <2>1, <2>2, <2>3 DEF KeyOf
  <2>4. CASE mem[KeyOf(phase)] = NoBlob /\ Goto(r, phase, "low")
    <3>1. pc'[r] = <<phase, "low">>
      BY <1>9, <2>4
    <3>2. CASE phase = "variant"
      BY <1>6, <3>1, <3>2
    <3>3. CASE phase = "probe"
      BY <1>3, <1>4, <2>1, <2>2, <3>1, <3>3 DEF FetchInv, At, Idle
    <3>4. CASE phase = "original"
      <4>1. low[Original] # NoBlob
        BY <2>1, <2>4, <3>4 DEF FetchInv, At, KeyOf
      <4> QED
        BY <1>3, <1>4, <3>1, <3>4, <4>1 DEF FetchInv, At, Idle
    <3> QED
      BY <3>2, <3>3, <3>4 DEF Phases
  <2> QED
    BY <1>13, <2>3, <2>4 DEF MemGet
<1>14. ASSUME NEW phase \in Phases, LowGet(r, phase) PROVE FetchInv(r)'
  <2>1. UNCHANGED idx /\ At(r, phase, "low")
    BY <1>14 DEF LowGet
  <2>2. phase = "probe" => idx[Original] # NoImage
    BY <2>1 DEF FetchInv, At
  <2>3. CASE low[KeyOf(phase)] # NoBlob /\ Found(r, phase, low[KeyOf(phase)])
    BY <1>3, <1>10, <2>1, <2>2, <2>3 DEF KeyOf
  <2>4. CASE low[KeyOf(phase)] = NoBlob /\ Missing(r, phase)
    <3>1. phase # "original"
      BY <2>1, <2>4 DEF FetchInv, At, KeyOf
    <3> QED
      BY <1>11, <2>4, <3>1
  <2> QED
    BY <1>5, <1>14, <2>3, <2>4 DEF LowGet
<1>15. CASE Download(r) \/ Resize(r) \/ PutVariant(r)
  <2>1. \E step \in {<<"add", "put">>, <<"make", "put">>, <<"make", "hset">>} : pc'[r] = step
    BY <1>5, <1>9, <1>15 DEF Download, Resize, PutVariant
  <2> QED
    BY <1>6, <2>1
<1>16. CASE PutOriginal(r)
  <2>1. pc'[r] = <<"add", "hset">>
    BY <1>9, <1>16 DEF PutOriginal
  <2>2. data[r] # NoBlob
    BY <1>16, StepFacts DEF PutOriginal, At, Held
  <2>3. mem'[Original] # NoBlob
    BY <1>1, <1>16, <2>2 DEF PutOriginal, ChainPut
  <2> QED
    BY <1>3, <1>4, <2>1, <2>3 DEF FetchInv, At, Idle
<1>17. CASE HSetOriginal(r)
  <2>1. idx' = Set(idx, Original, data[r]) /\ Goto(r, "original", "hget") /\ At(r, "add", "hset")
    BY <1>5, <1>17 DEF HSetOriginal, Added
  <2>2. data[r] \in Versions /\ mem[Original] # NoBlob
    BY <1>1, <2>1, StepFacts, VersionAssumption DEF At, Held, FetchInv
  <2>3. idx'[Original] # NoImage
    BY <1>1, <2>1, <2>2, NoImageAssumption DEF Set
  <2> QED
    BY <1>3, <1>4, <1>9, <2>1, <2>2, <2>3 DEF FetchInv, At, Idle
<1>18. CASE HSetVariant(r)
  <2>1. data[r] # NoBlob
    BY <1>18, StepFacts DEF HSetVariant, At, Held
  <2> QED
    BY <1>5, <1>7, <1>18, <2>1 DEF HSetVariant
<1>19. ~DelIndex(r) /\ ~DelBlob(r)
  BY DEF DelIndex, DelBlob, FetchInv
<1> QED
  BY <1>12, <1>13, <1>14, <1>15, <1>16, <1>17, <1>18, <1>19 DEF Handle, Serve

LEMMA CleanInductive ==
    ASSUME ~(LowMayFail /\ LowIsS3), Types, Held, CleanInv,
           [HistoryNext]_<<vars, historyVars>>
    PROVE  CleanInv'
<1>1. /\ pc \in [Requests -> Steps] /\ kind \in [Requests -> Kinds \cup {"none"}]
      /\ Original \in StoreKeys
  BY VersionAssumption DEF Types, RequestTypes
<1>2. ASSUME NEW r \in Requests, Begin(r), clean' = (IF Alone(r) THEN {r} ELSE {})
      PROVE  CleanInv'
  <2> SUFFICES ASSUME Alone(r), kind'[r] = "fetch" PROVE FetchInv(r)'
    BY <1>2 DEF CleanInv
  <2>1. pc'[r] = <<"probe", "hget">> /\ \A q \in Requests \ {r} : pc'[q] = pc[q]
    BY <1>1, <1>2 DEF Begin, Goto, Set
  <2>2. Tidy'
    BY <1>2 DEF Begin, Alone, chainVars, Tidy, EmptyBag, BagToSet, SetToBag
  <2> QED
    BY <2>1, <2>2 DEF FetchInv, Alone, At, Idle
<1>3. ASSUME NEW r \in Requests, Handle(r), Recorded(r) PROVE CleanInv'
  <2> SUFFICES ASSUME NEW q \in clean', kind'[q] = "fetch" PROVE q \in Requests /\ FetchInv(q)'
    BY <1>3 DEF CleanInv, Recorded
  <2>1. NoFault(r) /\ q \in clean /\ q \in Requests
    BY <1>3 DEF Recorded, CleanInv
  <2>2. kind[q] = "fetch"
    BY <1>3, <2>1, HandlerMoves
  <2>3. FetchInv(q)
    BY <2>1, <2>2 DEF CleanInv
  <2>4. pc[r] # Idle
    BY <1>3
    DEF Handle, Serve, HGet, MemGet, LowGet, Download, PutOriginal, HSetOriginal, Resize,
        PutVariant, HSetVariant, DelIndex, DelBlob, At, Idle, Phases
  <2>5. q = r
    BY <2>3, <2>4 DEF FetchInv
  <2> QED
    BY <1>3, <2>1, <2>2, <2>3, <2>5, FetchGoesOn
<1>4. ASSUME NEW t \in BagToSet(bg), Background(t), UNCHANGED historyVars PROVE CleanInv'
  <2> SUFFICES ASSUME NEW q \in clean, kind[q] = "fetch" PROVE FetchInv(q)'
    BY <1>4 DEF CleanInv, Background, reqVars, historyVars
  <2>1. FetchInv(q) /\ UNCHANGED <<pc, reply, idx>>
    BY <1>4 DEF CleanInv, Background, reqVars
  <2>2. /\ Tidy'
        /\ mem[Original] # NoBlob => mem'[Original] # NoBlob
        /\ low[Original] # NoBlob => low'[Original] # NoBlob
    BY <1>1, <1>4, <2>1, StoresKeep DEF FetchInv, Types
  <2> QED
    BY <2>1, <2>2 DEF FetchInv, At
<1>5. CASE clean' = {}
  BY <1>5 DEF CleanInv
<1>6. CASE UNCHANGED <<vars, historyVars>>
  BY <1>6 DEF vars, chainVars, reqVars, historyVars, CleanInv, FetchInv, Tidy, At
<1> QED
  BY <1>2, <1>3, <1>4, <1>5, <1>6 DEF HistoryNext

\* Whatever state restarts, evictions, failures and interrupted requests left
\* behind, a fetch that runs undisturbed answers with the image, unless the
\* low store may take a failure of the network for a missing value.
THEOREM CleanFetchAlwaysSucceeds ==
    ASSUME ~(LowMayFail /\ LowIsS3)
    PROVE  HistorySpec => []CleanFetchSucceeds
<1> DEFINE Inv == Types /\ Held /\ CleanInv
<1>1. HistoryInit => Inv
  BY TypesInitially DEF HistoryInit, CleanInv
<1>2. Inv /\ [HistoryNext]_<<vars, historyVars>> => Inv'
  BY HistoryKeepsTypes, CleanInductive
<1>3. Inv => CleanFetchSucceeds
  BY DEF CleanInv, FetchInv, CleanFetchSucceeds
<1> QED
  BY <1>1, <1>2, <1>3, PTL DEF HistorySpec
=============================================================================
