----------------------------- MODULE ImageWork ------------------------------
(***************************************************************************)
(* The handlers that have images in their hands: BucketAddItems with       *)
(* several URLs, GetImageInfo and BucketImageUpload (server/handlers.go),  *)
(* and the making of a size in GetImageSize (server/bucket.go).  They      *)
(* share nothing, so one request is followed from its start to its end,    *)
(* with the goroutines that download for it.                               *)
(*                                                                         *)
(* err is the last error a handler has seen: "invalid" stands for          *)
(* ErrInvalidImageData, the others for where they come from.               *)
(***************************************************************************)
EXTENDS Fetching, EngineImage

ASSUME ImagesAssumption == Images = Urls

VARIABLES
    kind,    \* which handler it is
    urls,    \* how many URLs it was given
    asked,   \* what the sizing asks for and the original is
    pc,      \* where the handler is
    i,       \* the image its loop is at
    saved,   \* the images that are saved
    unsaved, \* those that redis or the stores failed to save
    err,     \* the error the handler has
    answer   \* what it has answered

workVars == <<kind, urls, asked, pc, i, saved, unsaved, err, answer>>

vars == <<fetchVars, wandVars, workVars>>

Init ==
    /\ FetchInit /\ WandInit
    /\ kind = "none" /\ urls = 0 /\ asked = {}
    /\ pc = "start" /\ i = 1
    /\ saved = {} /\ unsaved = {}
    /\ err = "none" /\ answer = "none"

-----------------------------------------------------------------------------
\* How a handler ends.

\* Mutant of the answer to BucketAddItems: it is ApiError for any number of
\* URLs.
RefusalAlwaysByApiError(e) == IF e = "invalid" THEN "refused_cached" ELSE "refused"

\* ApiError and ImageError mark ErrInvalidImageData as cacheable; the answer
\* for several URLs and that of an upload do not.
Refusal(e) ==
    IF e = "invalid" /\ urls <= 1 /\ kind # "upload" THEN "refused_cached" ELSE "refused"

Reply(e) ==
    /\ pc' = "over"
    /\ err' = e
    /\ answer' = IF e = "none" THEN "ok" ELSE Refusal(e)
    /\ UNCHANGED <<kind, urls, asked, i, saved, unsaved>>

\* A nil pointer is dereferenced, and Recoverer answers.
Panic ==
    /\ pc' = "over"
    /\ answer' = "panic"
    /\ UNCHANGED <<kind, urls, asked, i, saved, unsaved, err>>

GoTo(there, image, e) ==
    /\ pc' = there /\ i' = image /\ err' = e
    /\ UNCHANGED <<kind, urls, asked, answer>>

Quietly == UNCHANGED <<saved, unsaved>>

-----------------------------------------------------------------------------
\* Downloads: AddImagesFromUrls and GetImageInfo.

AskUrls ==
    /\ pc = "start"
    /\ \E k \in {"add", "info"}, n \in Urls :
        /\ k = "info" => n = 1
        /\ kind' = k /\ urls' = n
        /\ StartFetches(n)
    /\ pc' = "fetching"
    /\ UNCHANGED <<asked, i, saved, unsaved, err, answer>>
    /\ UNCHANGED wandVars

\* What Fetcher.Get and GetImageInfo of the engine come to: a wand may not be
\* verified, and PingImageBlob reads a header only, which junk may have.
Informed(r) ==
    IF r.err THEN {"fetch"}
    ELSE IF r.data = "empty" THEN {"invalid"}
    ELSE {"engine", "none"} \cup (IF r.data = "junk" THEN {"invalid"} ELSE {})

\* The wand that pings is destroyed whatever comes of it.
Inform ==
    /\ pc = "fetching" /\ kind = "info" /\ Joined(urls)
    /\ \E e \in Informed(resp[1]) : Reply(e)
    /\ UNCHANGED <<fetchVars, wandVars>>

Join ==
    /\ pc = "fetching" /\ kind = "add" /\ Joined(urls)
    /\ GoTo("building", 1, err) /\ Quietly
    /\ UNCHANGED <<fetchVars, wandVars>>

Good(r) == r.status = 200 /\ r.data = "image"

\* r.URL is nil for a URL that did not parse; the images before it are released.
BuildPanics ==
    /\ pc = "building" /\ ~resp[i].url
    /\ ReleaseAll(1 .. (i - 1)) /\ Panic
    /\ UNCHANGED fetchVars

Build ==
    /\ pc = "building" /\ resp[i].url
    /\ LoadBlob(i, IF resp[i].status = 200 THEN resp[i].data ELSE "empty")
    /\ IF i < urls THEN GoTo("building", i + 1, err) ELSE GoTo("adding", 1, err)
    /\ Quietly
    /\ UNCHANGED fetchVars

\* Mutant of AddImages: the loop ends at the first error.
AddUntilError(e) ==
    IF i < urls /\ e = "none" THEN GoTo("adding", i + 1, e) ELSE GoTo("releasing", i, e)

\* Mutant of AddImages: one round too many.
AddNextBeyond(e) ==
    IF i <= urls THEN GoTo("adding", i + 1, e) ELSE GoTo("releasing", i, e)

\* AddImages goes on with the next image, and keeps the last error only.
AddNext(e) ==
    IF i < urls THEN GoTo("adding", i + 1, e) ELSE GoTo("releasing", i, e)

\* IsValidImage, and the blob that sync leaves in Data is not empty.
Valid(j) == mw[j] # "none" /\ resp[j].data # "blobless"

\* AddImage.
Add ==
    /\ pc = "adding"
    /\ \/ ~Valid(i) /\ AddNext("invalid") /\ Quietly
       \/ /\ Valid(i)
          /\ AddNext("none")
          /\ saved' = saved \cup {i}
          /\ UNCHANGED unsaved
       \/ /\ Valid(i)
          /\ AddNext("save")
          /\ unsaved' = unsaved \cup {i}
          /\ UNCHANGED saved
    /\ UNCHANGED <<fetchVars, wandVars>>

-----------------------------------------------------------------------------
\* One image: BucketImageUpload, and MakeSize for GetImageSize.

Loads == {"upload", "size"}

\* The file of the form cannot be read or decoded; or it, or the data of the
\* original, goes to LoadImage, which fails on what is no image.  An original
\* was stored with a blob; an upload without one fails in s3Upload, as Store may.
AskImage ==
    /\ pc = "start"
    /\ \E k \in Loads, a \in SUBSET {"animation", "flatten", "canvas", "nothing"},
          b \in Bodies \ {"blobless"} :
        /\ k = "upload" => a = {}
        /\ kind' = k /\ asked' = a /\ urls' = 1
        /\ LoadBlob(1, b)
        /\ pc' = IF b # "image" THEN "failing" ELSE IF k = "size" THEN "sizing" ELSE "storing"
    /\ UNCHANGED <<fetchVars, i, saved, unsaved, err, answer>>

AskForm ==
    /\ pc = "start"
    /\ kind' = "upload" /\ urls' = 1
    /\ pc' = "over" /\ err' = "form" /\ answer' = "refused"
    /\ UNCHANGED <<fetchVars, wandVars, asked, i, saved, unsaved>>

LoadFails ==
    /\ pc = "failing"
    /\ Reply("invalid")
    /\ UNCHANGED <<fetchVars, wandVars>>

\* sizeFrames: a sizing without size and crop box leaves the image alone.
Size ==
    /\ pc = "sizing"
    /\ \/ /\ "nothing" \in asked
          /\ GoTo("encoding", 1, err)
          /\ UNCHANGED wandVars
       \/ /\ "nothing" \notin asked
          /\ Prepare(1, asked)
          /\ GoTo("drawing", 1, err)
    /\ Quietly
    /\ UNCHANGED fetchVars

\* SizeIt fails and MakeSize returns nil: there is no image to release.
Draw ==
    /\ pc = "drawing"
    /\ \/ FrameFails(1) /\ Reply("engine")
       \/ FramesDone(1, asked) /\ GoTo("encoding", 1, err) /\ Quietly
    /\ UNCHANGED fetchVars

\* The rest of SizeIt, with the format and the quality that may be refused.
Encode ==
    /\ pc = "encoding"
    /\ \/ Reply("engine")
       \/ GoTo("storing", 1, err) /\ Quietly
    /\ UNCHANGED <<fetchVars, wandVars>>

\* DbSaveImage or s3Upload.
Store ==
    /\ pc = "storing"
    /\ \/ saved' = {1} /\ UNCHANGED unsaved /\ GoTo("releasing", 1, "none")
       \/ unsaved' = {1} /\ UNCHANGED saved /\ GoTo("releasing", 1, "save")
    /\ UNCHANGED <<fetchVars, wandVars>>

-----------------------------------------------------------------------------
\* The deferred Release of every image, and the answer.
Release ==
    /\ pc = "releasing"
    /\ ReleaseAll(1 .. urls)
    /\ Reply(err)
    /\ UNCHANGED fetchVars

Handle ==
    \/ AskUrls \/ Inform \/ Join \/ BuildPanics \/ Build \/ Add
    \/ AskImage \/ AskForm \/ LoadFails \/ Size \/ Draw \/ Encode \/ Store
    \/ Release

Download(u) == Fetch(u) /\ UNCHANGED <<wandVars, workVars>>

Next == Handle \/ \E u \in Urls : Download(u)

Spec == Init /\ [][Next]_vars

\* Goroutines run; a download ends, with its context at the latest.
FairSpec == Spec /\ WF_vars(Handle) /\ \A u \in Urls : WF_vars(Download(u))

-----------------------------------------------------------------------------
\* Properties.

\* Every variable has its type.
TypeOK ==
    /\ FetchTypeOK /\ WandTypeOK
    /\ kind \in {"none", "add", "info"} \cup Loads
    /\ urls \in 0 .. MaxUrls
    /\ asked \subseteq {"animation", "flatten", "canvas", "nothing"}
    /\ pc \in {"start", "fetching", "building", "adding", "failing", "sizing",
               "drawing", "encoding", "storing", "releasing", "over"}
    /\ i \in Urls
    /\ saved \subseteq Urls /\ unsaved \subseteq Urls
    /\ err \in {"none", "invalid", "fetch", "save", "engine", "form"}
    /\ answer \in {"none", "ok", "refused", "refused_cached", "panic"}

\* Each URL of /add stands for itself: when the handler has answered, the URLs
\* that led to an image are those that were tried to save, whatever became of
\* the others (GetAll, AddImages); only a URL that does not parse spoils them.
UrlsIndependent ==
    (pc = "over" /\ kind = "add") =>
        LET led == {u \in 1 .. urls : Good(resp[u])}
        IN saved \cup unsaved =
              IF \A u \in 1 .. urls : resp[u].url THEN led ELSE {}

\* A refusal that a surrogate may keep for five minutes is of a request for
\* one image, of which nothing was saved ("for an array of urls, we shouldn't
\* cache the entire response", handlers.go:261).
KeptRefusalIsOfOne ==
    answer = "refused_cached" =>
        /\ urls = 1 /\ saved = {}
        /\ kind = "add" => ~Good(resp[1])

\* Image works on a wand that exists; and whatever way a request ends, no wand
\* is left that anybody could still destroy.  Left to the garbage collector
\* are the wands an animation is coalesced from and the one of a failed SizeIt
\* (imagick.go:260, 351; image.go:159).
WandsReturned ==
    /\ \A im \in Images : mw[im] # "none" => mw[im] \in wands[im]
    /\ pc = "over" =>
        \A im \in Images :
            wands[im] \subseteq
                (IF err = "engine" THEN {mw[im]} ELSE {}) \cup
                (IF Coalesces(asked) THEN {"source", "coalesced"} ELSE {})

\* Every request is answered: GetAll comes back whatever the URLs are.
RequestAnswered == <>(pc = "over")
=============================================================================
