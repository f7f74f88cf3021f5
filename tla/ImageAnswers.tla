---------------------------- MODULE ImageAnswers ----------------------------
(***************************************************************************)
(* Refusals that are not what they are said to be: those that follow a     *)
(* failed download.                                                        *)
(***************************************************************************)
EXTENDS ImageStore

VARIABLE transient  \* requests refused because a download failed

AnswersInit == Init /\ transient = {}

AnswersNext ==
    \/ \E r \in Requests :
        \/ /\ Begin(r)
           /\ transient' = transient \ {r}
        \/ /\ Handle(r)
           /\ transient' = IF Download(r) /\ reply'[r].status = "invalid"
                             THEN transient \cup {r} ELSE transient
    \/ (\E t \in BagToSet(bg) : Background(t)) /\ UNCHANGED transient
    \/ (OriginChanges \/ EvictBlob) /\ UNCHANGED transient

AnswersSpec == AnswersInit /\ [][AnswersNext]_<<vars, transient>>

\* cacheErrors has the surrogate keep a refusal for five minutes if it is
\* ErrInvalidImageData or ErrInvalidURL ("For invalid inputs", util.go:72).
Cached(r) == pc[r] = Idle /\ reply[r].status = "invalid"

\* A refusal that is kept is about the image, not about a download that failed.
OnlyInvalidInputCached == \A r \in transient : ~Cached(r)
=============================================================================
