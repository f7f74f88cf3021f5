--------------------------- MODULE ImageCoherence ---------------------------
(***************************************************************************)
(* Is an answer of one image?  The metadata comes from redis and the data  *)
(* from the chain (bucket.go:158 and :166), and DbSaveImage writes them    *)
(* one after the other: requests that resize different versions of the     *)
(* original, goroutines that write late, evictions, failures and restarts  *)
(* may leave the two apart.                                                *)
(*                                                                         *)
(* torn records that one of the events below has happened since the last   *)
(* save of the variant that met nothing of another image.  They are told   *)
(* by what they do when they happen, not by what the stores hold then.     *)
(***************************************************************************)
EXTENDS ImageStore

VARIABLE torn

CoherenceInit == Init /\ torn = FALSE

\* Requests that hold the variant's metadata and have yet to read its data, and
\* requests that stored the variant's data and have yet to save its metadata.
Reading(r) == At(r, "variant", "mem") \/ At(r, "variant", "low")
SavingSize(r) == At(r, "make", "hset")

\* The variant's entry describes another image than r has stored.
Unindexed(r) == SavingSize(r) /\ idx[Variant] \notin {NoImage, data[r]}

\* The low store holds another image than a write behind is bringing it.
Unwritten ==
    \E t \in BagToSet(bg) :
        t.op = "put_low" /\ t.key = Variant /\ low[Variant] \notin {NoBlob, t.blob}

\* What r is about to store meets another image of the variant: in the hands of
\* a goroutine, of a request that reads it or of one that saves it.
Crossed(r) ==
    \/ \E t \in BagToSet(bg) : t.key = Variant /\ t.blob # data[r]
    \/ \E q \in Requests \ {r} :
          \/ Reading(q) /\ got[q] # data[r]
          \/ SavingSize(q) /\ data[q] # data[r]

\* A step of r reads the entry before a save has come to it, reads the low store
\* before a write behind has, or gives up a save half way.
Tears(r) ==
    \/ At(r, "variant", "hget") /\ At(r, "variant", "mem")' /\ \E q \in Requests : Unindexed(q)
    \/ At(r, "variant", "low") /\ reply'[r].status = "ok" /\ Unwritten
    \/ At(r, "make", "hset") /\ reply'[r].status # "ok" /\ Unindexed(r)

\* The write behind is lost, and the low store keeps another image.
LosesWrite(t) ==
    t.op = "put_low" /\ t.key = Variant /\ low'[Variant] \notin {NoBlob, t.blob}

\* A restart empties bolt; S3 keeps what it holds.
CrashTears == LowIsS3 /\ (torn \/ Unwritten \/ \E q \in Requests : Unindexed(q))

CoherenceNext ==
    \/ \E r \in Requests :
        \/ Begin(r) /\ UNCHANGED torn
        \/ PutVariant(r) /\ torn' = Crossed(r)
        \/ Handle(r) /\ ~At(r, "make", "put") /\ torn' = (torn \/ Tears(r))
    \/ \E t \in BagToSet(bg) : Background(t) /\ torn' = (torn \/ LosesWrite(t))
    \/ (OriginChanges \/ EvictBlob) /\ UNCHANGED torn
    \/ Crash /\ torn' = CrashTears

CoherenceSpec == CoherenceInit /\ [][CoherenceNext]_<<vars, torn>>

\* The metadata and the data of an answer are of one image, with any evictions,
\* misses, restarts, deletes and changes at the origin, except after one of the
\* events that torn names (DbFindImage and DbSaveImage, bucket.go:145-198): two
\* images of the variant under way at once, or a write of one of them lost.
AnswersCoherent ==
    [][\A r \in Requests :
          reply'[r] # reply[r] /\ reply'[r].status = "ok" /\ ~torn' =>
              reply'[r].meta = reply'[r].data]_<<vars, torn>>
=============================================================================
