----------------------------- MODULE Chainstore -----------------------------
(***************************************************************************)
(* The store chain of vendor/github.com/pressly/chainstore as GetChainstore *)
(* of server/config.go builds it: New(memory, Async(nil, low)), where low   *)
(* is the S3 store if its keys are configured and the bolt store if not.    *)
(*                                                                         *)
(* A Put or a Del reaches the memory store in the caller and the low store *)
(* in a goroutine; a Get that finds the value in the low store puts it     *)
(* back into memory in another one.  The bag bg holds those goroutines.    *)
(* Nothing orders them, and their errors go to a nil callback.             *)
(*                                                                         *)
(* What the LRU managers of the memory and the bolt store do is one action *)
(* here, Evict: it may drop any value at any time (LruManager says when).  *)
(***************************************************************************)
EXTENDS Naturals, FiniteSets, Bags

CONSTANTS
    StoreKeys,    \* keys of the store
    Blobs,        \* values of the store
    NoBlob,       \* what Get returns for a key it does not find
    MaxTasks,     \* bound: background goroutines alive at once
    LowMayFail,   \* whether the low store may return an error
    LowIsS3       \* whether the low store is S3, and not bolt

ASSUME BlobsAssumption == NoBlob \notin Blobs
ASSUME LowAssumption == LowMayFail \in BOOLEAN /\ LowIsS3 \in BOOLEAN
ASSUME TasksAssumption == MaxTasks \in Nat \ {0}

VARIABLES
    mem,  \* memory store
    low,  \* bolt or S3
    bg    \* bag of background goroutines

chainVars == <<mem, low, bg>>

Tasks == [op : {"put_low", "del_low", "fill"}, key : StoreKeys, blob : Blobs \cup {NoBlob}]

\* The background goroutines, several alike told apart by a number.
Goroutines == UNION {{t} \X (1 .. bg[t]) : t \in DOMAIN bg}

ChainTypeOK ==
    /\ mem \in [StoreKeys -> Blobs \cup {NoBlob}]
    /\ low \in [StoreKeys -> Blobs \cup {NoBlob}]
    /\ IsABag(bg) /\ BagToSet(bg) \subseteq Tasks
    /\ Cardinality(Goroutines) <= MaxTasks

ChainInit ==
    /\ mem = [k \in StoreKeys |-> NoBlob]
    /\ low = [k \in StoreKeys |-> NoBlob]
    /\ bg = EmptyBag

Spawn(op, k, b) ==
    /\ Cardinality(Goroutines) < MaxTasks
    /\ bg' = bg (+) SetToBag({[op |-> op, key |-> k, blob |-> b]})

Pending(op, k) == \E t \in BagToSet(bg) : t.op = op /\ t.key = k

-----------------------------------------------------------------------------
\* The client's side, one operator for each step of a call.

\* Mutant of Put: the write does not go down the chain.
ChainPutMemOnly(k, b) ==
    /\ mem' = [mem EXCEPT ![k] = b]
    /\ UNCHANGED <<low, bg>>

\* Mutant of Put: memory keeps a value that it has.
ChainPutKeepsOld(k, b) ==
    /\ mem' = [mem EXCEPT ![k] = IF @ = NoBlob THEN b ELSE @]
    /\ Spawn("put_low", k, b)
    /\ UNCHANGED low

\* Put stores in memory and starts the write to the low store.
ChainPut(k, b) ==
    /\ mem' = [mem EXCEPT ![k] = b]
    /\ Spawn("put_low", k, b)
    /\ UNCHANGED low

\* Get that finds the value in the low store starts the write-back.
FillFromLow(k) ==
    /\ Spawn("fill", k, low[k])
    /\ UNCHANGED <<mem, low>>

\* Del drops the value from memory and starts the delete in the low store.
ChainDel(k) ==
    /\ mem' = [mem EXCEPT ![k] = NoBlob]
    /\ Spawn("del_low", k, NoBlob)
    /\ UNCHANGED low

-----------------------------------------------------------------------------
\* The goroutines' side.

Apply(t) ==
    \/ /\ t.op = "fill"
       /\ mem' = [mem EXCEPT ![t.key] = t.blob]
       /\ UNCHANGED low
    \/ /\ t.op \in {"put_low", "del_low"}
       /\ low' = [low EXCEPT ![t.key] = t.blob]
       /\ UNCHANGED mem

\* A goroutine writes and ends; an error of the low store ends it as well.
RunTask(t) ==
    /\ t \in BagToSet(bg)
    /\ bg' = bg (-) SetToBag({t})
    /\ \/ Apply(t)
       \/ LowMayFail /\ t.op # "fill" /\ UNCHANGED <<mem, low>>

\* An LRU manager drops a value; S3 has none.
Evict ==
    \E k \in StoreKeys :
        \/ /\ mem[k] # NoBlob
           /\ mem' = [mem EXCEPT ![k] = NoBlob]
           /\ UNCHANGED <<low, bg>>
        \/ /\ low[k] # NoBlob /\ ~LowIsS3
           /\ low' = [low EXCEPT ![k] = NoBlob]
           /\ UNCHANGED <<mem, bg>>

\* The process dies and GetChainstore runs again: memory and goroutines are
\* gone, and the walk over the cache path removes the bolt file.
Restart ==
    /\ mem' = [k \in StoreKeys |-> NoBlob]
    /\ bg' = EmptyBag
    /\ low' = IF LowIsS3 THEN low ELSE [k \in StoreKeys |-> NoBlob]
=============================================================================
