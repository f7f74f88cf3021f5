---------------------------- MODULE ImageHistory ----------------------------
(***************************************************************************)
(* Two questions about a request that need to know what went before it.    *)
(*                                                                         *)
(* Repair: restarts, evictions, failures and interrupted requests leave    *)
(* the index and the stores at odds; does the next fetch repair them?      *)
(* clean marks the requests that began with nothing else going on and met  *)
(* no fault, eviction or other request since.                              *)
(*                                                                         *)
(* Deletion: a delete takes effect with the index entry; only a request    *)
(* that had downloaded the image before and saves it afterwards can undo   *)
(* it, so deleted is about the deletes made while nobody was saving, and   *)
(* blind holds the requests that began after one.                          *)
(*                                                                         *)
(* No step of a handler depends on which version of the image it holds, so *)
(* the origin does not change here.                                        *)
(***************************************************************************)
EXTENDS ImageStore

VARIABLES
    clean,    \* the requests that run alone and undisturbed
    deleted,  \* the entry was deleted and nothing was downloaded since
    blind     \* the requests that began in that state, and no download since

historyVars == <<clean, deleted, blind>>

HistoryInit == Init /\ clean = {} /\ deleted = FALSE /\ blind = {}

Alone(r) == bg = EmptyBag /\ \A q \in Requests \ {r} : pc[q] = Idle

\* Requests that have downloaded the image and not yet saved it.
Saving == {r \in Requests : pc[r] \in {<<"add", "put">>, <<"add", "hset">>}}

\* The steps of a handler that are not an answer to a fault.
NoFault(r) == reply'[r].status \in {"none", "ok", "deleted", "missing"}

Recorded(r) ==
    /\ clean' = IF NoFault(r) THEN clean ELSE {}
    /\ \/ Download(r) /\ deleted' = FALSE /\ blind' = {}
       \/ DelIndex(r) /\ NoFault(r) /\ Saving = {} /\ deleted' = TRUE /\ UNCHANGED blind
       \/ /\ pc[r] # <<"add", "download">>
          /\ ~ (pc[r] = <<"delete", "db">> /\ NoFault(r) /\ Saving = {})
          /\ UNCHANGED <<deleted, blind>>

HistoryNext ==
    \/ \E r \in Requests :
        \/ /\ Begin(r)
           /\ clean' = IF Alone(r) THEN {r} ELSE {}
           /\ blind' = IF deleted THEN blind \cup {r} ELSE blind \ {r}
           /\ UNCHANGED deleted
        \/ Handle(r) /\ Recorded(r)
    \/ (\E t \in BagToSet(bg) : Background(t)) /\ UNCHANGED historyVars
    \/ EvictBlob /\ clean' = {} /\ UNCHANGED <<deleted, blind>>
    \/ Crash /\ clean' = {} /\ blind' = {} /\ UNCHANGED deleted

HistorySpec == HistoryInit /\ [][HistoryNext]_<<vars, historyVars>>

\* Whatever state the index and the stores were left in, a fetch that runs
\* undisturbed answers with the image: an entry without a blob is refetched
\* (bucket.go:171-173, handlers.go:74-83), a blob without an entry is saved over.
CleanFetchSucceeds ==
    \A r \in clean :
        kind[r] = "fetch" /\ pc[r] = Idle =>
            reply[r].status = "ok" /\ reply[r].data # NoBlob

\* A deleted image is not served: a request that begins after the delete finds
\* nothing until the image is downloaded again, though its variants stay in
\* the stores and late goroutines may bring the original's blob back
\* (DbDelImage deletes the index entry synchronously, bucket.go:202).
DeletedNotServed ==
    \A r \in blind : reply[r].status # "ok"
=============================================================================
