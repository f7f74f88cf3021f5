----------------------------- MODULE ImageStore -----------------------------
(***************************************************************************)
(* The image requests of imgry (server/handlers.go, server/bucket.go) on   *)
(* one image URL of one bucket: the redis index, the chain of stores, the  *)
(* origin the image is downloaded from.                                    *)
(*                                                                         *)
(* A request is a slot that runs one handler at a time.  Each call to      *)
(* redis, to a store or to the origin is a step of its own; nothing is     *)
(* locked between two of them.                                             *)
(*                                                                         *)
(* An image is abstracted to the version of the origin's image it was made *)
(* from.  Two store keys matter: the original's, and the one hashed from   *)
(* the sizing that the requests ask for.  A request without a size has a   *)
(* variant of its own, too: GetImageSize always looks for one.             *)
(***************************************************************************)
EXTENDS Chainstore

CONSTANTS
    Requests,     \* concurrent requests past the throttler
    MaxVersion,   \* bound: how often the image at the origin changes, plus one
    Kinds,        \* the handlers that are called
    Faults,       \* what may fail: "db", "origin", "engine"
    MayEvict,     \* whether a store with a budget is short
    NoImage       \* no index entry, no metadata

Versions == 1 .. MaxVersion
Original == "original"
Variant == "variant"

ASSUME VersionAssumption ==
    /\ MaxVersion \in Nat \ {0}
    /\ Blobs = Versions
    /\ StoreKeys = {Original, Variant}
ASSUME KindsAssumption == Kinds \subseteq {"fetch", "get", "add", "delete"}
ASSUME FaultsAssumption == Faults \subseteq {"db", "origin", "engine"}
ASSUME MayAssumption == MayEvict \in BOOLEAN
ASSUME NoImageAssumption == NoImage \notin Versions

VARIABLES
    origin,  \* the version the origin serves now
    idx,     \* redis: store key -> version the metadata describes
    pc,      \* <<phase, step>> of each request
    kind,    \* the handler it runs
    got,     \* the metadata of the last HGet
    data,    \* the image data it holds
    reply    \* how the last handler of the slot answered

reqVars == <<pc, kind, got, data, reply>>
vars == <<origin, idx, chainVars, reqVars>>

Idle == <<"idle", "idle">>
Phases == {"probe", "original", "variant"}
Steps == {Idle, <<"add", "download">>, <<"add", "put">>, <<"add", "hset">>,
          <<"make", "resize">>, <<"make", "put">>, <<"make", "hset">>,
          <<"delete", "db">>, <<"delete", "store">>}
         \cup (Phases \X {"hget", "mem", "low"})
NoReply == [status |-> "none", meta |-> NoImage, data |-> NoBlob]
Statuses == {"none", "ok", "deleted", "missing", "invalid", "error"}

Init ==
    /\ ChainInit
    /\ origin = 1
    /\ idx = [k \in StoreKeys |-> NoImage]
    /\ pc = [r \in Requests |-> Idle]
    /\ kind = [r \in Requests |-> "none"]
    /\ got = [r \in Requests |-> NoImage]
    /\ data = [r \in Requests |-> NoBlob]
    /\ reply = [r \in Requests |-> NoReply]

-----------------------------------------------------------------------------
\* Control of one request.

At(r, phase, step) == pc[r] = <<phase, step>>
Goto(r, phase, step) == pc' = [pc EXCEPT ![r] = <<phase, step>>]
Set(f, r, v) == [f EXCEPT ![r] = v]

\* The handler answers and forgets its locals.
Answer(r, status, m, d) ==
    /\ reply' = Set(reply, r, [status |-> status, meta |-> m, data |-> d])
    /\ pc' = Set(pc, r, Idle)
    /\ got' = Set(got, r, NoImage)
    /\ data' = Set(data, r, NoBlob)
    /\ UNCHANGED kind

\* An answer without an image.
Refuse(r, status) == Answer(r, status, NoImage, NoBlob)

Begin(r) ==
    /\ pc[r] = Idle
    /\ \E h \in Kinds :
        /\ kind' = Set(kind, r, h)
        /\ \/ h = "fetch"  /\ Goto(r, "probe", "hget")
           \/ h = "get"    /\ Goto(r, "original", "hget")
           \/ h = "add"    /\ Goto(r, "add", "download")
           \/ h = "delete" /\ Goto(r, "delete", "db")
    /\ reply' = Set(reply, r, NoReply)
    /\ UNCHANGED <<origin, idx, chainVars, got, data>>

-----------------------------------------------------------------------------
\* DbFindImage, called in three phases: BucketFetchItem probes the original,
\* GetImageSize finds the original and then the variant.

KeyOf(phase) == IF phase = "variant" THEN Variant ELSE Original

Found(r, phase, blob) ==
    \/ /\ phase = "probe"
       /\ Goto(r, "original", "hget")
       /\ got' = Set(got, r, NoImage)
       /\ UNCHANGED <<kind, data, reply>>
    \/ /\ phase = "original"
       /\ Goto(r, "variant", "hget")
       /\ data' = Set(data, r, blob)
       /\ got' = Set(got, r, NoImage)
       /\ UNCHANGED <<kind, reply>>
    \/ /\ phase = "variant"
       /\ Answer(r, "ok", got[r], blob)

\* ErrImageNotFound: fetch downloads, a missing variant is made, and a missing
\* original is the end of GetImageSize.
Missing(r, phase) ==
    \/ /\ phase = "probe"
       /\ Goto(r, "add", "download")
       /\ got' = Set(got, r, NoImage)
       /\ UNCHANGED <<kind, data, reply>>
    \/ /\ phase = "original"
       /\ Refuse(r, "missing")
    \/ /\ phase = "variant"
       /\ Goto(r, "make", "resize")
       /\ got' = Set(got, r, NoImage)
       /\ UNCHANGED <<kind, data, reply>>

HGet(r, phase) ==
    /\ At(r, phase, "hget")
    /\ LET m == idx[KeyOf(phase)] IN
        \/ /\ m # NoImage
           /\ got' = Set(got, r, m)
           /\ Goto(r, phase, "mem")
           /\ UNCHANGED <<kind, data, reply>>
        \/ m = NoImage /\ Missing(r, phase)
        \/ "db" \in Faults /\ Refuse(r, "error")
    /\ UNCHANGED <<origin, idx, chainVars>>

MemGet(r, phase) ==
    /\ At(r, phase, "mem")
    /\ LET b == mem[KeyOf(phase)] IN
        \/ b # NoBlob /\ Found(r, phase, b)
        \/ /\ b = NoBlob
           /\ Goto(r, phase, "low")
           /\ UNCHANGED <<kind, got, data, reply>>
    /\ UNCHANGED <<origin, idx, chainVars>>

\* Mutant of Chain.Get and of len(data) == 0 in DbFindImage: an index entry is
\* taken for an image.
LowGetTrustsIndex(r, phase) ==
    /\ At(r, phase, "low")
    /\ LET b == low[KeyOf(phase)] IN
        \/ b # NoBlob /\ Found(r, phase, b) /\ FillFromLow(KeyOf(phase))
        \/ b = NoBlob /\ phase # "original" /\ Found(r, phase, b) /\ UNCHANGED chainVars
        \/ b = NoBlob /\ phase = "original" /\ Missing(r, phase) /\ UNCHANGED chainVars
    /\ UNCHANGED <<origin, idx>>

\* The s3 store reports a network failure as a value that is not there.
LowGet(r, phase) ==
    /\ At(r, phase, "low")
    /\ LET b == low[KeyOf(phase)] IN
        \/ b # NoBlob /\ Found(r, phase, b) /\ FillFromLow(KeyOf(phase))
        \/ b = NoBlob /\ Missing(r, phase) /\ UNCHANGED chainVars
        \/ LowMayFail /\ LowIsS3 /\ Missing(r, phase) /\ UNCHANGED chainVars
        \/ LowMayFail /\ Refuse(r, "error") /\ UNCHANGED chainVars
    /\ UNCHANGED <<origin, idx>>

-----------------------------------------------------------------------------
\* AddImagesFromUrls with one URL, and AddImage.

\* Mutant of AddImage: the test for no data is missing.
DownloadUnchecked(r) ==
    /\ At(r, "add", "download")
    /\ \/ data' = Set(data, r, origin)
       \/ Faults \cap {"origin", "engine"} # {} /\ data' = Set(data, r, NoBlob)
    /\ Goto(r, "add", "put")
    /\ UNCHANGED <<origin, idx, chainVars, kind, got, reply>>

\* A download that fails is no image data, like one that is not an image.
Download(r) ==
    /\ At(r, "add", "download")
    /\ \/ /\ data' = Set(data, r, origin)
          /\ Goto(r, "add", "put")
          /\ UNCHANGED <<kind, got, reply>>
       \/ Faults \cap {"origin", "engine"} # {} /\ Refuse(r, "invalid")
    /\ UNCHANGED <<origin, idx, chainVars>>

\* After AddImagesFromUrls fetch goes on with BucketGetItem.
Added(r) ==
    \/ /\ kind[r] = "fetch"
       /\ Goto(r, "original", "hget")
       /\ data' = Set(data, r, NoBlob)
       /\ UNCHANGED <<kind, got, reply>>
    \/ /\ kind[r] = "add"
       /\ Answer(r, "ok", data[r], data[r])

\* DbSaveImage: the blob goes to the chain first, then the metadata to redis.
PutOriginal(r) ==
    /\ At(r, "add", "put")
    /\ ChainPut(Original, data[r])
    /\ Goto(r, "add", "hset")
    /\ UNCHANGED <<origin, idx, kind, got, data, reply>>

HSetOriginal(r) ==
    /\ At(r, "add", "hset")
    /\ \/ idx' = Set(idx, Original, data[r]) /\ Added(r)
       \/ "db" \in Faults /\ Refuse(r, "error") /\ UNCHANGED idx
    /\ UNCHANGED <<origin, chainVars>>

-----------------------------------------------------------------------------
\* GetImageSize builds the variant from the original's data and saves it.

Resize(r) ==
    /\ At(r, "make", "resize")
    /\ \/ Goto(r, "make", "put") /\ UNCHANGED <<kind, got, data, reply>>
       \/ "engine" \in Faults /\ \E s \in {"error", "invalid"} : Refuse(r, s)
    /\ UNCHANGED <<origin, idx, chainVars>>

\* Mutant of DbSaveImage: the metadata is saved before the blob.
PutVariantAfterHSet(r) ==
    /\ At(r, "make", "put")
    /\ idx' = Set(idx, Variant, data[r])
    /\ Goto(r, "make", "hset")
    /\ UNCHANGED <<origin, chainVars, kind, got, data, reply>>

PutVariant(r) ==
    /\ At(r, "make", "put")
    /\ ChainPut(Variant, data[r])
    /\ Goto(r, "make", "hset")
    /\ UNCHANGED <<origin, idx, kind, got, data, reply>>

HSetVariant(r) ==
    /\ At(r, "make", "hset")
    /\ \/ idx' = Set(idx, Variant, data[r]) /\ Answer(r, "ok", data[r], data[r])
       \/ "db" \in Faults /\ Refuse(r, "error") /\ UNCHANGED idx
    /\ UNCHANGED <<origin, chainVars>>

-----------------------------------------------------------------------------
\* BucketDeleteItem and DbDelImage: the original's entry, then its blob.

\* Mutant of DbDelImage: the index entry stays.
DelIndexForgets(r) ==
    /\ At(r, "delete", "db")
    /\ Goto(r, "delete", "store")
    /\ UNCHANGED <<origin, idx, chainVars, kind, got, data, reply>>

DelIndex(r) ==
    /\ At(r, "delete", "db")
    /\ \/ /\ idx' = Set(idx, Original, NoImage)
          /\ Goto(r, "delete", "store")
          /\ UNCHANGED <<kind, got, data, reply>>
       \/ "db" \in Faults /\ Refuse(r, "error") /\ UNCHANGED idx
    /\ UNCHANGED <<origin, chainVars>>

DelBlob(r) ==
    /\ At(r, "delete", "store")
    /\ ChainDel(Original)
    /\ Refuse(r, "deleted")
    /\ UNCHANGED <<origin, idx>>

-----------------------------------------------------------------------------
\* The rest of the world.

OriginChanges ==
    /\ origin < MaxVersion
    /\ origin' = origin + 1
    /\ UNCHANGED <<idx, chainVars, reqVars>>

Background(t) == RunTask(t) /\ UNCHANGED <<origin, idx, reqVars>>

EvictBlob == MayEvict /\ Evict /\ UNCHANGED <<origin, idx, reqVars>>

\* The process dies: its requests are gone, redis keeps the index.
Crash ==
    /\ Restart
    /\ pc' = [r \in Requests |-> Idle]
    /\ kind' = [r \in Requests |-> "none"]
    /\ got' = [r \in Requests |-> NoImage]
    /\ data' = [r \in Requests |-> NoBlob]
    /\ reply' = [r \in Requests |-> NoReply]
    /\ UNCHANGED <<origin, idx>>

\* The steps of a handler once it has been called.
Serve(r) ==
    \/ \E phase \in Phases : HGet(r, phase) \/ MemGet(r, phase) \/ LowGet(r, phase)
    \/ Download(r) \/ PutOriginal(r) \/ HSetOriginal(r)
    \/ Resize(r) \/ PutVariant(r) \/ HSetVariant(r)

Handle(r) == Serve(r) \/ DelIndex(r) \/ DelBlob(r)

\* One life of the process; ImageHistory and ImageCoherence add its end.
Next ==
    \/ \E r \in Requests : Begin(r) \/ Handle(r)
    \/ \E t \in BagToSet(bg) : Background(t)
    \/ OriginChanges \/ EvictBlob

Spec == Init /\ [][Next]_vars

\* While nobody deletes and the origin keeps its image.
ServingNext ==
    \/ \E r \in Requests : Begin(r) \/ Serve(r)
    \/ \E t \in BagToSet(bg) : Background(t)
    \/ EvictBlob

\* Goroutines and handlers that can run are eventually run.
FairServingSpec ==
    /\ Init /\ [][ServingNext]_vars
    /\ \A t \in Tasks : WF_vars(Background(t))
    /\ \A r \in Requests : WF_vars(Handle(r))

-----------------------------------------------------------------------------
\* Properties.

\* Every variable has its type.
TypeOK ==
    /\ ChainTypeOK
    /\ origin \in Versions
    /\ idx \in [StoreKeys -> Versions \cup {NoImage}]
    /\ pc \in [Requests -> Steps]
    /\ kind \in [Requests -> Kinds \cup {"none"}]
    /\ got \in [Requests -> Versions \cup {NoImage}]
    /\ data \in [Requests -> Blobs \cup {NoBlob}]
    /\ reply \in [Requests -> [status : Statuses, meta : Versions \cup {NoImage},
                               data : Blobs \cup {NoBlob}]]

\* An image the index names can be had: its blob is in memory, in the low
\* store, or on its way there.  DbSaveImage stores the blob before the entry
\* (bucket.go:189-194); this is for a run without deletes, lost writes and
\* restarts.
IndexedIsReachable ==
    \A k \in StoreKeys :
        idx[k] # NoImage => mem[k] # NoBlob \/ low[k] # NoBlob \/ Pending("put_low", k)

\* What the index names is persisted in the end: the background write of
\* Chain.Put is always made (README.md:55).
EventuallyPersisted ==
    \A k \in StoreKeys : idx[k] # NoImage ~> low[k] # NoBlob
=============================================================================
