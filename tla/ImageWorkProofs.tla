-------------------------- MODULE ImageWorkProofs ---------------------------
(***************************************************************************)
(* Proofs about the handlers that have images in their hands: the URLs of  *)
(* a request do not disturb each other, a refusal that is kept is of one   *)
(* image of which nothing was saved, and the wands are destroyed.          *)
(***************************************************************************)
EXTENDS ImageWork, FiniteSets, FiniteSetTheorems, TLAPS

\* The goroutines that have not called wg.Done.
Working == {u \in Urls : fetch[u] # "none"}

\* The WaitGroup counts them, and they work only while the handler waits.
FetchInv ==
    /\ wg = Cardinality(Working)
    /\ pc # "fetching" => Working = {}

\* What has been loaded of the images the handler was given.
Loaded ==
    IF pc \in {"start", "fetching", "failing"} THEN {}
    ELSE IF pc = "building" THEN 1 .. (i - 1)
    ELSE 1 .. urls

\* What the collector will find: only an animation leaves something behind.
Left == IF Coalesces(asked) THEN {"source", "coalesced"} ELSE {}

\* The wands of an image between two frames.
Drawing(im) ==
    /\ canvas = ("canvas" \in asked)
    /\ mw[im] = (IF Coalesces(asked) THEN "coalesced" ELSE "source")
    /\ wands[im] = {"source", mw[im]} \cup
                   (IF canvas THEN {"canvas", "background"} ELSE {})

WandInv ==
    /\ \A im \in Images : mw[im] # "none" => mw[im] \in wands[im]
    /\ \A im \in Images \ Loaded : wands[im] = {} /\ mw[im] = "none"
    /\ pc = "sizing" => wands[1] = {"source"} /\ mw[1] = "source"
    /\ IF pc = "drawing"
         THEN Drawing(1)
         ELSE canvas = FALSE /\ \A im \in Images : wands[im] \subseteq {mw[im]} \cup Left
    /\ (pc = "over" /\ err # "engine") => \A im \in Images : mw[im] = "none"

\* Which handler may be where, and with what error.
PlaceInv ==
    /\ pc # "start" => urls \in Urls
    /\ kind \in {"info"} \cup Loads => urls = 1
    /\ kind = "add" => pc \in {"fetching", "building", "adding", "releasing", "over"}
    /\ kind = "info" => pc \in {"fetching", "over"}
    /\ pc \in {"building", "adding"} => kind = "add"
    /\ pc \in {"sizing", "drawing", "encoding", "storing"} => kind \in Loads
    /\ pc = "failing" => kind \in Loads
    /\ pc = "releasing" => kind \in {"add"} \cup Loads
    /\ pc = "fetching" => kind \in {"add", "info"}
    /\ pc \in {"building", "adding"} => i <= urls
    /\ pc \in {"start", "fetching", "failing", "sizing", "drawing", "encoding", "storing"} => i = 1
    /\ (kind \in Loads /\ pc = "releasing") => err \in {"none", "save"}
    /\ pc # "over" => answer = "none"

\* What has been saved and tried to save, and that it is what led to an image.
Led(n) == {u \in 1 .. n : Good(resp[u])}

SavedInv ==
    /\ pc \notin {"adding", "releasing", "over"} => saved = {} /\ unsaved = {} /\ err = "none"
    /\ pc = "building" => \A u \in 1 .. (i - 1) : resp[u].url /\ (Valid(u) <=> Good(resp[u]))
    /\ pc = "adding" =>
        /\ \A u \in 1 .. urls : resp[u].url /\ (Valid(u) <=> Good(resp[u]))
        /\ saved \cup unsaved = Led(i - 1)
    /\ (pc = "releasing" /\ kind = "add") =>
        /\ \A u \in 1 .. urls : resp[u].url
        /\ saved \cup unsaved = Led(urls)
        /\ err = "invalid" => ~Good(resp[urls])

WorkInv == TypeOK /\ FetchInv /\ WandInv /\ PlaceInv /\ SavedInv

-----------------------------------------------------------------------------
\* Downloads.

LEMMA UrlFacts ==
    /\ IsFiniteSet(Urls) /\ 1 \in Urls
    /\ \A S \in SUBSET Urls : IsFiniteSet(S) /\ Cardinality(S) \in 0 .. MaxUrls
<1>1. IsFiniteSet(Urls) /\ Cardinality(Urls) = MaxUrls /\ 1 \in Urls
  BY UrlsAssumption, FS_Interval DEF Urls
<1>2. ASSUME NEW S \in SUBSET Urls
      PROVE  IsFiniteSet(S) /\ Cardinality(S) \in 0 .. MaxUrls
  BY <1>1, FS_Subset, FS_CardinalityType, UrlsAssumption
<1> QED
  BY <1>1, <1>2

\* One goroutine less is one less to wait for.
LEMMA FinishCounts ==
    ASSUME TypeOK, FetchInv, NEW u \in Urls, fetch[u] # "none", Finish(u)
    PROVE  wg' = Cardinality(Working') /\ wg' \in 0 .. MaxUrls
<1>1. Working' = Working \ {u} /\ u \in Working
  BY DEF Working, Finish, TypeOK, FetchTypeOK
<1>2. IsFiniteSet(Working) /\ Working' \in SUBSET Urls
  BY UrlFacts DEF Working
<1>3. Cardinality(Working') = Cardinality(Working) - 1
  BY <1>1, <1>2, FS_RemoveElement
<1> QED
  BY <1>2, <1>3, UrlFacts DEF FetchInv, Finish

LEMMA ProceedCounts ==
    ASSUME TypeOK, FetchInv, NEW u \in Urls, fetch[u] # "none",
           NEW to \in {"asking", "reading"}, Proceed(u, to)
    PROVE  wg' = Cardinality(Working')
<1>1. Working' = Working
  BY DEF Working, Proceed, TypeOK, FetchTypeOK
<1> QED
  BY <1>1 DEF FetchInv, Proceed

\* A download keeps the count, and runs only while the handler waits.
LEMMA DownloadKeeps ==
    ASSUME WorkInv, NEW u \in Urls, Download(u)
    PROVE  WorkInv'
<1> USE DEF WorkInv
<1>1. pc = "fetching" /\ fetch[u] # "none" /\ UNCHANGED <<wandVars, workVars>>
  <2>1. fetch[u] # "none" /\ UNCHANGED <<wandVars, workVars>>
    BY DEF Download, Fetch, Parse, Do, ReadAll
  <2> QED
    BY <2>1 DEF FetchInv, Working
<1>2. resp' \in [Urls -> [url : BOOLEAN, err : BOOLEAN,
                         status : Statuses \cup {0}, data : Bodies]]
  <2> DEFINE Responses == [url : BOOLEAN, err : BOOLEAN,
                           status : Statuses \cup {0}, data : Bodies]
  <2>1. resp[u] \in Responses
    BY DEF TypeOK, FetchTypeOK
  <2>2. \A field \in {"url", "err"} : [resp[u] EXCEPT ![field] = TRUE] \in Responses
    BY <2>1
  <2>3. \A s \in Statuses : [resp[u] EXCEPT !["status"] = s] \in Responses
    BY <2>1
  <2>4. \A b \in Bodies : [resp[u] EXCEPT !["data"] = b] \in Responses
    BY <2>1
  <2>5. \E r \in Responses : resp' = [resp EXCEPT ![u] = r]
    BY <2>2, <2>3, <2>4 DEF Download, Fetch, Parse, Do, ReadAll, Fill
  <2> QED
    BY <2>5 DEF TypeOK, FetchTypeOK
<1>3. Finish(u) \/ \E to \in {"asking", "reading"} : Proceed(u, to)
  BY DEF Download, Fetch, Parse, Do, ReadAll
<1>4. wg' = Cardinality(Working') /\ wg' \in 0 .. MaxUrls
  BY <1>1, <1>3, FinishCounts, ProceedCounts DEF Proceed, TypeOK, FetchTypeOK
<1>5. fetch' \in [Urls -> {"none", "parsing", "asking", "reading"}]
  BY <1>3 DEF Finish, Proceed, TypeOK, FetchTypeOK
<1>6. TypeOK'
  BY <1>1, <1>2, <1>4, <1>5
  DEF TypeOK, FetchTypeOK, WandTypeOK, wandVars, workVars
<1>7. FetchInv' /\ WandInv' /\ PlaceInv'
  BY <1>1, <1>4
  DEF FetchInv, WandInv, PlaceInv, Loaded, Left, Drawing, wandVars, workVars
<1>8. SavedInv'
  BY <1>1 DEF SavedInv, workVars
<1> QED
  BY <1>6, <1>7, <1>8

-----------------------------------------------------------------------------
\* The handlers.

LEMMA HandleKeepsFetches ==
    ASSUME WorkInv, Handle
    PROVE  FetchInv' /\ FetchTypeOK'
<1> USE DEF WorkInv
<1>1. CASE AskUrls
  <2>1. PICK n \in Urls : StartFetches(n)
    BY <1>1 DEF AskUrls
  <2>2. Working' = 1 .. n /\ n \in 1 .. MaxUrls
    BY <2>1, UrlsAssumption DEF StartFetches, Working, Urls
  <2>3. Cardinality(Working') = n
    BY <2>2, FS_Interval
  <2>4. FetchTypeOK'
    BY <2>1, <2>2, UrlsAssumption
    DEF StartFetches, FetchTypeOK, NoResponse, Bodies
  <2> QED
    BY <1>1, <2>1, <2>3, <2>4 DEF AskUrls, FetchInv, StartFetches
<1>2. CASE Inform \/ Join
  <2>1. wg = 0 /\ UNCHANGED fetchVars
    BY <1>2 DEF Inform, Join, Joined
  <2>2. Working = {}
    BY <2>1, UrlFacts, FS_EmptySet DEF FetchInv, Working
  <2> QED
    BY <2>1, <2>2 DEF FetchInv, fetchVars, TypeOK, FetchTypeOK, Working
<1>3. CASE \/ BuildPanics \/ Build \/ Add \/ AskImage \/ AskForm \/ LoadFails
           \/ Size \/ Draw \/ Encode \/ Store \/ Release
  <2>1. UNCHANGED fetchVars /\ pc # "fetching"
    BY <1>3
    DEF BuildPanics, Build, Add, AskImage, AskForm, LoadFails, Size, Draw, Encode,
        Store, Release, fetchVars
  <2> QED
    BY <2>1 DEF FetchInv, fetchVars, TypeOK, FetchTypeOK, Working
<1> QED
  BY <1>1, <1>2, <1>3 DEF Handle

\* Where the handlers are and the types of what they keep.
Places ==
    /\ kind \in {"none", "add", "info"} \cup Loads
    /\ urls \in 0 .. MaxUrls
    /\ asked \subseteq {"animation", "flatten", "canvas", "nothing"}
    /\ pc \in {"start", "fetching", "building", "adding", "failing", "sizing",
               "drawing", "encoding", "storing", "releasing", "over"}
    /\ i \in Urls
    /\ saved \subseteq Urls /\ unsaved \subseteq Urls
    /\ err \in {"none", "invalid", "fetch", "save", "engine", "form"}
    /\ answer \in {"none", "ok", "refused", "refused_cached", "panic"}

LEMMA HandleKeepsPlaces ==
    ASSUME WorkInv, Handle
    PROVE  PlaceInv' /\ Places'
<1> USE DEF Loads
<1>1. Places /\ PlaceInv
  BY DEF WorkInv, TypeOK, Places
<1>2. /\ 1 \in Urls /\ Urls \subseteq 0 .. MaxUrls
      /\ urls \in Nat /\ i \in Nat
      /\ \A n \in Urls : n \in Nat /\ 1 <= n
      /\ (i < urls => i + 1 \in Urls /\ i + 1 <= urls)
  BY <1>1, UrlsAssumption DEF Urls, Places
<1>3. ASSUME NEW e \in {"none", "invalid", "fetch", "save", "engine", "form"},
             Reply(e), pc # "start"
      PROVE  PlaceInv' /\ Places'
  BY <1>1, <1>2, <1>3 DEF Reply, Refusal, PlaceInv, Places
<1>4. CASE AskUrls
  BY <1>1, <1>2, <1>4 DEF AskUrls, PlaceInv, Places
<1>5. CASE Inform
  <2>1. PICK e \in {"none", "invalid", "fetch", "engine"} : Reply(e)
    BY <1>5 DEF Inform, Informed
  <2> QED
    BY <1>3, <1>5, <2>1 DEF Inform
<1>6. CASE Join
  BY <1>1, <1>2, <1>6 DEF Join, GoTo, Quietly, PlaceInv, Places
<1>7. CASE BuildPanics
  BY <1>1, <1>2, <1>7 DEF BuildPanics, Panic, PlaceInv, Places
<1>8. CASE Build
  <2>1. kind = "add" /\ urls \in Urls /\ 1 <= urls /\ answer = "none"
    BY <1>1, <1>2, <1>8 DEF Build, PlaceInv
  <2>2. CASE i < urls
    BY <1>1, <1>2, <1>8, <2>1, <2>2 DEF Build, GoTo, Quietly, PlaceInv, Places
  <2>3. CASE ~(i < urls)
    <3>1. GoTo("adding", 1, err) /\ Quietly
      BY <1>8, <2>3 DEF Build
    <3> QED
      BY <1>1, <1>2, <2>1, <3>1 DEF GoTo, Quietly, PlaceInv, Places
  <2> QED
    BY <2>2, <2>3
<1>9. CASE Add
  <2>1. PICK e \in {"invalid", "none", "save"} : AddNext(e)
    BY <1>9 DEF Add
  <2>2. saved' \subseteq Urls /\ unsaved' \subseteq Urls
    BY <1>1, <1>9 DEF Add, Quietly, Places
  <2>3. kind = "add" /\ urls \in Urls /\ i <= urls /\ answer = "none"
    BY <1>1, <1>9 DEF Add, PlaceInv
  <2>4. CASE i < urls
    BY <1>1, <1>2, <2>1, <2>2, <2>3, <2>4 DEF AddNext, GoTo, PlaceInv, Places
  <2>5. CASE ~(i < urls)
    BY <1>1, <1>2, <2>1, <2>2, <2>3, <2>5 DEF AddNext, GoTo, PlaceInv, Places
  <2> QED
    BY <2>4, <2>5
<1>10. CASE AskImage
  BY <1>1, <1>2, <1>10 DEF AskImage, PlaceInv, Places
<1>11. CASE AskForm
  BY <1>1, <1>2, <1>11 DEF AskForm, PlaceInv, Places
<1>12. CASE LoadFails \/ Release
  BY <1>1, <1>3, <1>12 DEF LoadFails, Release, Places
<1>13. CASE Size
  BY <1>1, <1>2, <1>13 DEF Size, GoTo, Quietly, PlaceInv, Places
<1>14. CASE Draw
  BY <1>1, <1>2, <1>3, <1>14 DEF Draw, GoTo, Quietly, PlaceInv, Places
<1>15. CASE Encode
  BY <1>1, <1>2, <1>3, <1>15 DEF Encode, GoTo, Quietly, PlaceInv, Places
<1>16. CASE Store
  BY <1>1, <1>2, <1>16 DEF Store, GoTo, PlaceInv, Places
<1> QED
  BY <1>4, <1>5, <1>6, <1>7, <1>8, <1>9, <1>10, <1>11, <1>12, <1>13, <1>14, <1>15, <1>16
  DEF Handle

\* Who owns a wand after each step of a handler.
LEMMA HandleKeepsWands ==
    ASSUME WorkInv, Handle
    PROVE  WandInv' /\ WandTypeOK'
<1>1. WandInv /\ WandTypeOK /\ PlaceInv /\ Places /\ PlaceInv' /\ Places'
  BY HandleKeepsPlaces DEF WorkInv, TypeOK, Places
<1>2. 1 \in Images /\ Images = 1 .. MaxUrls /\ i \in Images /\ urls \in Nat
  BY <1>1, UrlsAssumption, ImagesAssumption DEF Urls, Places
<1>3. canvas \in BOOLEAN /\ wands \in [Images -> SUBSET Wands]
      /\ mw \in [Images -> Wands \cup {"none"}] /\ "none" \notin Wands
  BY <1>1 DEF WandTypeOK, Wands
<1>4. ASSUME UNCHANGED <<wandVars, asked>>, Loaded \subseteq Loaded',
             pc # "drawing", pc' \notin {"sizing", "drawing"},
             pc' = "over" => err' = "engine" \/ \A im \in Images : mw[im] = "none"
      PROVE  WandInv' /\ WandTypeOK'
  BY <1>1, <1>4 DEF WandInv, WandTypeOK, Left, wandVars
<1>5. CASE AskUrls \/ Inform \/ Join \/ Add \/ AskForm \/ LoadFails \/ Encode \/ Store
  <2>1. UNCHANGED <<wandVars, asked>> /\ pc # "drawing" /\ pc' \notin {"sizing", "drawing"}
    BY <1>5
    DEF AskUrls, Inform, Join, Add, AddNext, AskForm, LoadFails, Encode, Store, Reply, GoTo
  <2>2. Loaded \subseteq Loaded'
    BY <1>1, <1>5
    DEF AskUrls, Inform, Join, Add, AddNext, AskForm, LoadFails, Encode, Store, Reply,
        GoTo, Loaded
  <2>3. pc' = "over" => err' = "engine" \/ \A im \in Images : mw[im] = "none"
    BY <1>1, <1>5
    DEF AskUrls, Inform, Join, Add, AddNext, AskForm, LoadFails, Encode, Store, Reply,
        GoTo, Loaded, WandInv
  <2> QED
    BY <1>4, <2>1, <2>2, <2>3
<1>6. CASE BuildPanics
  <2>1. \A im \in Images \ (1 .. (i - 1)) : wands[im] = {} /\ mw[im] = "none"
    BY <1>1, <1>6 DEF BuildPanics, WandInv, Loaded
  <2>2. pc' = "over" /\ ReleaseAll(1 .. (i - 1)) /\ UNCHANGED asked
    BY <1>6 DEF BuildPanics, Panic
  <2>3. \A im \in Images : mw'[im] = "none" /\ wands'[im] \subseteq Left'
    BY <1>1, <1>3, <1>6, <2>1, <2>2
    DEF ReleaseAll, BuildPanics, WandInv, Left
  <2>4. \A im \in Images \ (1 .. urls) : wands'[im] = {}
    BY <1>1, <1>2, <1>6, <2>1, <2>2 DEF ReleaseAll, BuildPanics, PlaceInv
  <2>5. WandTypeOK' /\ canvas' = FALSE
    BY <1>1, <1>3, <1>6, <2>2 DEF ReleaseAll, BuildPanics, WandTypeOK, WandInv
  <2> QED
    BY <2>2, <2>3, <2>4, <2>5, <1>6 DEF WandInv, Loaded, BuildPanics, Panic
<1>7. CASE Build
  <2>1. /\ UNCHANGED <<asked, canvas, urls>> /\ pc = "building" /\ i <= urls
        /\ pc' \in {"building", "adding"} /\ kind = "add"
    BY <1>1, <1>7 DEF Build, GoTo, LoadBlob, PlaceInv
  <2>2. Loaded = 1 .. (i - 1) /\ wands[i] = {} /\ mw[i] = "none"
    BY <1>1, <1>2, <2>1 DEF Loaded, WandInv
  <2>3. Loaded' = 1 .. i
    <3>1. CASE i < urls
      BY <1>2, <1>7, <2>1, <3>1 DEF Build, GoTo, Loaded
    <3>2. CASE ~(i < urls)
      <4>1. urls = i
        BY <1>2, <2>1, <3>2
      <4>2. pc' = "adding"
        BY <1>7, <3>2 DEF Build, GoTo
      <4> QED
        BY <2>1, <4>1, <4>2 DEF Loaded
    <3> QED
      BY <3>1, <3>2
  <2>4. \/ UNCHANGED <<wands, mw>>
        \/ Own(i, {"source"}, "source")
    BY <1>7 DEF Build, LoadBlob
  <2>5. \A im \in Images : im # i => wands'[im] = wands[im] /\ mw'[im] = mw[im]
    BY <1>3, <2>4 DEF Own
  <2>6. \/ wands'[i] = {} /\ mw'[i] = "none"
        \/ wands'[i] = {"source"} /\ mw'[i] = "source"
    BY <1>2, <1>3, <2>2, <2>4 DEF Own
  <2>7. \A im \in Images \ Loaded' : wands'[im] = {} /\ mw'[im] = "none"
    <3>1. Images \ Loaded' \subseteq Images \ Loaded /\ i \in Loaded'
      BY <1>2, <2>2, <2>3
    <3> QED
      BY <1>1, <2>5, <3>1 DEF WandInv
  <2>8. /\ \A im \in Images : mw'[im] # "none" => mw'[im] \in wands'[im]
        /\ \A im \in Images : wands'[im] \subseteq {mw'[im]} \cup Left'
        /\ canvas' = FALSE
    BY <1>1, <2>1, <2>5, <2>6 DEF WandInv, Left
  <2>9. WandTypeOK'
    BY <1>1, <1>2, <1>3, <2>1, <2>4 DEF WandTypeOK, Own, Wands
  <2> QED
    BY <2>1, <2>7, <2>8, <2>9 DEF WandInv
<1>8. CASE AskImage
  <2>1. \A im \in Images : wands[im] = {} /\ mw[im] = "none"
    BY <1>1, <1>8 DEF AskImage, WandInv, Loaded
  <2>2. /\ canvas = FALSE /\ canvas' = FALSE /\ urls' = 1
        /\ pc' \in {"failing", "sizing", "storing"}
        /\ \/ pc' = "failing" /\ UNCHANGED <<wands, mw>>
           \/ pc' # "failing" /\ Own(1, {"source"}, "source")
    BY <1>1, <1>8 DEF AskImage, LoadBlob, Bodies, WandInv
  <2>3. \A im \in Images : im # 1 => wands'[im] = {} /\ mw'[im] = "none"
    BY <1>3, <2>1, <2>2 DEF Own
  <2>4. \/ pc' = "failing" /\ wands'[1] = {} /\ mw'[1] = "none"
        \/ pc' # "failing" /\ wands'[1] = {"source"} /\ mw'[1] = "source"
    BY <1>2, <1>3, <2>1, <2>2 DEF Own
  <2>5. pc' # "failing" => 1 \in Loaded'
    BY <2>2 DEF Loaded
  <2>6. WandTypeOK'
    <3>1. {"source"} \in SUBSET Wands /\ "source" \in Wands
      BY DEF Wands
    <3>2. wands' \in [Images -> SUBSET Wands] /\ mw' \in [Images -> Wands \cup {"none"}]
      BY <1>2, <1>3, <2>2, <3>1 DEF Own
    <3> QED
      BY <2>2, <3>2 DEF WandTypeOK
  <2> QED
    BY <2>2, <2>3, <2>4, <2>5, <2>6 DEF WandInv
<1>9. CASE Size
  <2>1. /\ pc = "sizing" /\ urls = 1 /\ Loaded = 1 .. urls /\ canvas = FALSE
        /\ wands[1] = {"source"} /\ mw[1] = "source"
        /\ UNCHANGED <<asked, urls>>
    BY <1>1, <1>9 DEF Size, GoTo, PlaceInv, WandInv, Loaded
  <2>2. \A im \in Images : im # 1 => wands[im] = {} /\ mw[im] = "none"
    BY <1>1, <1>2, <2>1 DEF WandInv
  <2>3. CASE "nothing" \in asked
    BY <1>4, <1>9, <2>1, <2>3 DEF Size, GoTo, Loaded
  <2>4. CASE "nothing" \notin asked
    <3>1. Prepare(1, asked) /\ pc' = "drawing"
      BY <1>9, <2>4 DEF Size, GoTo
    <3>2. \A im \in Images : im # 1 => wands'[im] = {} /\ mw'[im] = "none"
      BY <1>3, <2>2, <3>1 DEF Prepare, Own
    <3>3. Drawing(1)'
      BY <1>2, <1>3, <2>1, <3>1 DEF Prepare, Own, Drawing, Coalesces
    <3>4. mw'[1] \in wands'[1]
      BY <3>3 DEF Drawing
    <3>5. WandTypeOK'
      BY <1>1, <1>2, <1>3, <2>1, <3>1 DEF Prepare, Own, WandTypeOK, Wands
    <3>6. 1 \in Loaded'
      BY <2>1, <3>1 DEF Loaded
    <3> QED
      BY <3>1, <3>2, <3>3, <3>4, <3>5, <3>6 DEF WandInv
  <2> QED
    BY <2>3, <2>4
<1>10. CASE Draw
  <2>1. /\ pc = "drawing" /\ urls = 1 /\ Drawing(1) /\ Loaded = 1 .. urls
        /\ UNCHANGED <<asked, urls>>
    BY <1>1, <1>10 DEF Draw, Reply, GoTo, PlaceInv, WandInv, Loaded
  <2>2. \A im \in Images : im # 1 => wands[im] = {} /\ mw[im] = "none"
    BY <1>1, <1>2, <2>1 DEF WandInv
  <2>3. /\ pc' \in {"over", "encoding"} /\ (pc' = "over" => err' = "engine")
        /\ FrameFails(1) \/ FramesDone(1, asked)
    BY <1>10 DEF Draw, Reply, GoTo
  <2>4. PICK those \in SUBSET Wands, one \in Wands : Deferred(1, those, one) /\
            one \in those /\
            those \subseteq {one, "canvas", "background"} \cup Left
    <3>1. mw[1] = (IF Coalesces(asked) THEN "coalesced" ELSE "source")
          /\ wands[1] = {"source", mw[1]} \cup
                         (IF canvas THEN {"canvas", "background"} ELSE {})
      BY <2>1 DEF Drawing
    <3>2. CASE FrameFails(1)
      <4>1. wands[1] \subseteq {mw[1], "canvas", "background"} \cup Left
        BY <3>1 DEF Left
      <4>2. wands[1] \in SUBSET Wands /\ mw[1] \in Wands /\ mw[1] \in wands[1]
        BY <3>1 DEF Wands
      <4> QED
        BY <3>2, <4>1, <4>2 DEF FrameFails
    <3>3. CASE FramesDone(1, asked)
      <4> DEFINE drawn == IF canvas THEN "canvas" ELSE mw[1]
      <4> DEFINE kept == IF canvas THEN wands[1] \ {mw[1]} ELSE wands[1]
      <4> DEFINE last == IF Coalesces(asked) THEN "deconstructed" ELSE drawn
      <4>1. Deferred(1, kept \cup {last}, last)
        BY <3>3 DEF FramesDone
      <4>2. kept \cup {last} \in SUBSET Wands /\ last \in Wands
        BY <3>1 DEF Wands
      <4>3. kept \cup {last} \subseteq {last, "canvas", "background"} \cup Left
        BY <3>1 DEF Left
      <4> QED
        BY <4>1, <4>2, <4>3
    <3> QED
      BY <2>3, <3>2, <3>3
  <2>5. /\ wands'[1] = those \ ({"background"} \cup ({"canvas"} \ {one}))
        /\ mw'[1] = one /\ canvas' = FALSE
        /\ \A im \in Images : im # 1 => wands'[im] = {} /\ mw'[im] = "none"
    BY <1>2, <1>3, <2>2, <2>4 DEF Deferred, Own
  <2>6. one # "background"
    <3>1. mw[1] # "background"
      BY <2>1 DEF Drawing
    <3> QED
      BY <2>3, <2>4, <2>5, <3>1, <1>2, <1>3 DEF FrameFails, FramesDone, Deferred, Own
  <2>7. mw'[1] \in wands'[1] /\ wands'[1] \subseteq {mw'[1]} \cup Left'
    BY <2>1, <2>4, <2>5, <2>6 DEF Left
  <2>8. WandTypeOK'
    BY <1>1, <1>2, <1>3, <2>4 DEF Deferred, Own, WandTypeOK
  <2>9. 1 \in Loaded'
    BY <2>1, <2>3 DEF Loaded
  <2> QED
    BY <2>3, <2>5, <2>7, <2>8, <2>9 DEF WandInv
<1>11. CASE Release
  <2>1. \A im \in Images \ (1 .. urls) : wands[im] = {} /\ mw[im] = "none"
    BY <1>1, <1>11 DEF Release, WandInv, Loaded
  <2>2. pc' = "over" /\ ReleaseAll(1 .. urls) /\ UNCHANGED <<asked, urls>>
    BY <1>11 DEF Release, Reply
  <2>3. \A im \in Images : mw'[im] = "none" /\ wands'[im] \subseteq Left'
    BY <1>1, <1>3, <1>11, <2>1, <2>2 DEF ReleaseAll, Release, WandInv, Left
  <2>4. \A im \in Images \ (1 .. urls) : wands'[im] = {}
    BY <2>1, <2>2 DEF ReleaseAll
  <2>5. WandTypeOK' /\ canvas' = FALSE
    BY <1>1, <1>3, <1>11, <2>2 DEF ReleaseAll, Release, WandTypeOK, WandInv
  <2> QED
    BY <2>2, <2>3, <2>4, <2>5 DEF WandInv, Loaded
<1> QED
  BY <1>5, <1>6, <1>7, <1>8, <1>9, <1>10, <1>11 DEF Handle

\* What has been tried to save, after each step of a handler.
LEMMA HandleKeepsSaved ==
    ASSUME WorkInv, Handle
    PROVE  SavedInv'
<1>1. WandInv /\ PlaceInv /\ Places /\ SavedInv /\ FetchInv
  BY DEF WorkInv, TypeOK, Places
<1>2. /\ 1 \in Urls /\ Images = Urls /\ Urls = 1 .. MaxUrls /\ i \in Nat /\ urls \in Nat
      /\ i \in Urls /\ 1 <= i
  BY <1>1, UrlsAssumption, ImagesAssumption DEF Urls, Places
<1>3. mw \in [Images -> Wands \cup {"none"}] /\ "none" \notin Wands
  BY DEF WorkInv, TypeOK, WandTypeOK, Wands
<1>4. CASE AskUrls \/ AskImage \/ Size
  BY <1>1, <1>4
  DEF AskUrls, AskImage, Size, GoTo, Quietly, SavedInv
<1>5. CASE \/ Inform \/ BuildPanics \/ AskForm \/ LoadFails \/ Release
           \/ (Draw /\ pc' = "over") \/ (Encode /\ pc' = "over")
  <2>1. pc' = "over"
    BY <1>5 DEF Inform, BuildPanics, AskForm, LoadFails, Release, Reply, Panic
  <2> QED
    BY <2>1 DEF SavedInv
<1>6. CASE (Draw \/ Encode) /\ pc' # "over"
  BY <1>1, <1>6 DEF Draw, Encode, Reply, GoTo, Quietly, SavedInv
<1>7. CASE Join
  <2>1. pc' = "building" /\ i' = 1 /\ UNCHANGED <<saved, unsaved, err>> /\ pc = "fetching"
    BY <1>7 DEF Join, GoTo, Quietly
  <2> QED
    BY <1>1, <2>1 DEF SavedInv
<1>8. CASE Build
  <2>1. /\ pc = "building" /\ resp[i].url /\ i <= urls /\ kind = "add"
        /\ UNCHANGED <<resp, saved, unsaved, err, urls, kind>>
    BY <1>1, <1>8 DEF Build, GoTo, Quietly, PlaceInv, fetchVars
  <2>2. mw[i] = "none"
    BY <1>1, <1>2, <2>1 DEF WandInv, Loaded
  <2>3. (mw'[i] # "none" /\ resp[i].data # "blobless") <=> Good(resp[i])
    <3> DEFINE data == IF resp[i].status = 200 THEN resp[i].data ELSE "empty"
    <3>1. LoadBlob(i, data)
      BY <1>8 DEF Build
    <3>2. /\ data = "image" <=> Good(resp[i])
          /\ data = "blobless" => resp[i].data = "blobless"
          /\ Good(resp[i]) => resp[i].data = "image"
      BY DEF Good
    <3>3. CASE data \in {"image", "blobless"}
      <4>1. mw' = [mw EXCEPT ![i] = "source"]
        BY <3>1, <3>3 DEF LoadBlob, Own
      <4>2. mw'[i] = "source"
        BY <1>2, <1>3, <4>1
      <4> HIDE DEF data
      <4> QED
        BY <3>2, <3>3, <4>2
    <3>4. CASE data \notin {"image", "blobless"}
      BY <2>2, <3>1, <3>2, <3>4 DEF LoadBlob
    <3> QED
      BY <3>3, <3>4
  <2>4. \A u \in Images : u # i => mw'[u] = mw[u]
    BY <1>3, <1>8 DEF Build, LoadBlob, Own
  <2>5. \A u \in 1 .. i : (resp[u].url /\ (Valid(u) <=> Good(resp[u])))'
    <3>1. \A u \in 1 .. i : u \in Images /\ (u # i => u \in 1 .. (i - 1))
      BY <1>2, UrlsAssumption
    <3>2. \A u \in 1 .. (i - 1) : resp[u].url /\ (Valid(u) <=> Good(resp[u]))
      BY <1>1, <2>1 DEF SavedInv
    <3>3. ASSUME NEW u \in 1 .. i, u # i
          PROVE  (resp[u].url /\ (Valid(u) <=> Good(resp[u])))'
      <4>1. mw'[u] = mw[u] /\ resp' = resp
        BY <2>1, <2>4, <3>1, <3>3
      <4>2. resp[u].url /\ (Valid(u) <=> Good(resp[u]))
        BY <3>1, <3>2, <3>3
      <4> QED
        BY <4>1, <4>2 DEF Valid, Good
    <3>4. resp[i].url /\ ((mw'[i] # "none" /\ resp[i].data # "blobless") <=> Good(resp[i]))
      BY <2>1, <2>3
    <3>5. ASSUME NEW u \in 1 .. i, u = i
          PROVE  (resp[u].url /\ (Valid(u) <=> Good(resp[u])))'
      BY <2>1, <3>4, <3>5 DEF Valid, Good
    <3> QED
      BY <3>3, <3>5
  <2>6. CASE i < urls
    <3>1. pc' = "building" /\ i' - 1 = i
      BY <1>2, <1>8, <2>6 DEF Build, GoTo
    <3> QED
      BY <1>1, <2>1, <2>5, <3>1 DEF SavedInv
  <2>7. CASE ~(i < urls)
    <3>1. pc' = "adding" /\ i' = 1 /\ urls' = i
      BY <1>2, <1>8, <2>1, <2>7 DEF Build, GoTo
    <3>2. Led(i - 1)' = {}
      BY <3>1 DEF Led
    <3>3. saved' = {} /\ unsaved' = {}
      BY <1>1, <2>1 DEF SavedInv
    <3> QED
      BY <2>5, <3>1, <3>2, <3>3 DEF SavedInv
  <2> QED
    BY <2>6, <2>7
<1>9. CASE Add
  <2>1. /\ pc = "adding" /\ i <= urls /\ kind = "add"
        /\ UNCHANGED <<resp, mw, urls, kind>>
    BY <1>1, <1>9 DEF Add, AddNext, GoTo, PlaceInv, fetchVars, wandVars
  <2>2. /\ \A u \in 1 .. urls : resp[u].url /\ (Valid(u) <=> Good(resp[u]))
        /\ saved \cup unsaved = Led(i - 1)
    BY <1>1, <2>1 DEF SavedInv
  <2>3. PICK e \in {"invalid", "none", "save"} :
           /\ AddNext(e)
           /\ e = "invalid" <=> ~Valid(i)
           /\ saved' \cup unsaved' =
                 saved \cup unsaved \cup (IF Valid(i) THEN {i} ELSE {})
    BY <1>9 DEF Add, Quietly
  <2>4. Led(i) = Led(i - 1) \cup (IF Valid(i) THEN {i} ELSE {})
    <3>1. 1 .. i = (1 .. (i - 1)) \cup {i} /\ i \in 1 .. urls
      BY <1>2, <2>1
    <3>2. Valid(i) <=> Good(resp[i])
      BY <2>2, <3>1
    <3> QED
      BY <3>1, <3>2 DEF Led
  <2>5. saved' \cup unsaved' = Led(i)
    BY <2>2, <2>3, <2>4
  <2>6. CASE i < urls
    <3>1. pc' = "adding" /\ i' - 1 = i
      BY <1>2, <2>3, <2>6 DEF AddNext, GoTo
    <3> QED
      BY <2>1, <2>2, <2>5, <3>1 DEF SavedInv, Led, Valid
  <2>7. CASE ~(i < urls)
    <3>1. pc' = "releasing" /\ err' = e /\ i = urls
      BY <1>2, <2>1, <2>3, <2>7 DEF AddNext, GoTo
    <3>2. err' = "invalid" => ~Good(resp[urls])
      BY <1>2, <2>2, <2>3, <3>1
    <3> QED
      BY <2>1, <2>2, <2>5, <3>1, <3>2 DEF SavedInv, Led, Valid
  <2> QED
    BY <2>6, <2>7
<1>10. CASE Store
  <2>1. pc' = "releasing" /\ kind' # "add"
    BY <1>1, <1>10 DEF Store, GoTo, PlaceInv, Loads
  <2> QED
    BY <2>1 DEF SavedInv
<1> QED
  BY <1>4, <1>5, <1>6, <1>7, <1>8, <1>9, <1>10 DEF Handle

-----------------------------------------------------------------------------
\* The invariant, and what follows from it.

LEMMA WorkInvHolds == Spec => []WorkInv
<1>1. Init => WorkInv
  <2> SUFFICES ASSUME Init PROVE WorkInv
    OBVIOUS
  <2>1. 1 \in Urls /\ 0 \in 0 .. MaxUrls
    BY UrlsAssumption DEF Urls
  <2>2. TypeOK
    BY <2>1
    DEF Init, FetchInit, WandInit, NoResponse, Bodies, TypeOK, FetchTypeOK, WandTypeOK
  <2>3. Working = {} /\ Cardinality({}) = 0
    BY FS_EmptySet DEF Working, Init, FetchInit
  <2>4. FetchInv /\ PlaceInv
    BY <2>3 DEF FetchInv, PlaceInv, Init, FetchInit, Loads
  <2>5. WandInv /\ SavedInv
    BY DEF WandInv, SavedInv, Init, WandInit, Left
  <2> QED
    BY <2>2, <2>4, <2>5 DEF WorkInv
<1>2. WorkInv /\ [Next]_vars => WorkInv'
  <2> SUFFICES ASSUME WorkInv, [Next]_vars PROVE WorkInv'
    OBVIOUS
  <2>1. CASE Handle
    BY <2>1, HandleKeepsFetches, HandleKeepsPlaces, HandleKeepsWands, HandleKeepsSaved
    DEF WorkInv, TypeOK, Places
  <2>2. CASE \E u \in Urls : Download(u)
    BY <2>2, DownloadKeeps
  <2>3. CASE UNCHANGED vars
    BY <2>3
    DEF vars, fetchVars, wandVars, workVars, WorkInv, TypeOK, FetchTypeOK, WandTypeOK,
        FetchInv, Working, WandInv, Loaded, Left, Drawing, PlaceInv, SavedInv, Led, Valid
  <2> QED
    BY <2>1, <2>2, <2>3 DEF Next
<1> QED
  BY <1>1, <1>2, PTL DEF Spec

\* Every variable of the handlers with images has its type.
THEOREM ImageWorkTypes == Spec => []TypeOK
<1>1. WorkInv => TypeOK
  BY DEF WorkInv
<1> QED
  BY <1>1, WorkInvHolds, PTL

\* Image works on a wand that exists, and whatever way a request ends, no wand
\* is left that anybody could destroy (imagick.go, image.go).
THEOREM WandsAlwaysReturned == Spec => []WandsReturned
<1>1. WorkInv => WandsReturned
  <2> SUFFICES ASSUME WorkInv PROVE WandsReturned
    OBVIOUS
  <2>1. \A im \in Images : mw[im] # "none" => mw[im] \in wands[im]
    BY DEF WorkInv, WandInv
  <2>2. pc = "over" =>
          \A im \in Images :
              /\ wands[im] \subseteq {mw[im]} \cup Left
              /\ err # "engine" => mw[im] = "none"
    BY DEF WorkInv, WandInv
  <2>3. \A im \in Images : "none" \notin wands[im]
    BY DEF WorkInv, TypeOK, WandTypeOK, Wands
  <2> QED
    BY <2>1, <2>2, <2>3 DEF WandsReturned, Left
<1> QED
  BY <1>1, WorkInvHolds, PTL

\* The answer of a request, as the step that gives it leaves it.
LEMMA HandleAnswers ==
    ASSUME WorkInv, Handle
    PROVE  (UrlsIndependent /\ KeptRefusalIsOfOne)'
<1>1. PlaceInv /\ PlaceInv' /\ Places /\ Places' /\ SavedInv
  BY HandleKeepsPlaces DEF WorkInv, TypeOK, Places
<1>2. CASE pc' # "over"
  BY <1>1, <1>2 DEF PlaceInv, UrlsIndependent, KeptRefusalIsOfOne
<1>3. CASE Inform \/ LoadFails
  <2>1. kind # "add" /\ urls = 1 /\ saved = {} /\ UNCHANGED <<kind, urls, saved>>
    BY <1>1, <1>3 DEF Inform, LoadFails, Reply, PlaceInv, SavedInv, Loads
  <2> QED
    BY <2>1 DEF UrlsIndependent, KeptRefusalIsOfOne
<1>4. CASE BuildPanics
  <2>1. /\ answer' = "panic" /\ ~resp[i].url /\ UNCHANGED <<resp, urls, saved, unsaved>>
        /\ saved = {} /\ unsaved = {} /\ i <= urls
    BY <1>1, <1>4 DEF BuildPanics, Panic, PlaceInv, SavedInv, fetchVars
  <2>2. i \in 1 .. urls
    BY <1>1, <2>1, UrlsAssumption DEF Places, Urls
  <2> QED
    BY <2>1, <2>2 DEF UrlsIndependent, KeptRefusalIsOfOne
<1>5. CASE AskForm
  BY <1>5 DEF AskForm, UrlsIndependent, KeptRefusalIsOfOne
<1>6. CASE (Draw \/ Encode) /\ pc' = "over"
  <2>1. kind \in Loads /\ UNCHANGED kind /\ answer' = "refused"
    BY <1>1, <1>6 DEF Draw, Encode, GoTo, Reply, Refusal, PlaceInv
  <2> QED
    BY <2>1 DEF UrlsIndependent, KeptRefusalIsOfOne, Loads
<1>7. CASE Release
  <2>1. pc = "releasing" /\ Reply(err) /\ UNCHANGED <<resp, urls, kind, saved, unsaved>>
    BY <1>7 DEF Release, Reply, fetchVars
  <2>2. urls \in Nat /\ 1 <= urls
    BY <1>1, <2>1, UrlsAssumption DEF PlaceInv, Urls
  <2>3. CASE kind = "add"
    <3>1. /\ \A u \in 1 .. urls : resp[u].url
          /\ saved \cup unsaved = Led(urls)
          /\ err = "invalid" => ~Good(resp[urls])
      BY <1>1, <2>1, <2>3 DEF SavedInv
    <3>2. UrlsIndependent'
      BY <2>1, <3>1 DEF UrlsIndependent, Led, Good
    <3>3. KeptRefusalIsOfOne'
      <4> SUFFICES ASSUME answer' = "refused_cached"
                   PROVE  urls = 1 /\ saved = {} /\ ~Good(resp[1])
        BY <2>1 DEF KeptRefusalIsOfOne, Good
      <4>1. err = "invalid" /\ urls <= 1
        BY <2>1 DEF Reply, Refusal
      <4>2. urls = 1
        BY <2>2, <4>1
      <4>3. ~Good(resp[1])
        BY <3>1, <4>1, <4>2
      <4>4. Led(1) = {}
        BY <4>3 DEF Led
      <4> QED
        BY <3>1, <4>2, <4>3, <4>4
    <3> QED
      BY <3>2, <3>3
  <2>4. CASE kind # "add"
    <3>1. kind \in Loads /\ err \in {"none", "save"}
      BY <1>1, <2>1, <2>4 DEF PlaceInv, Places, Loads
    <3>2. answer' # "refused_cached"
      BY <2>1, <3>1 DEF Reply, Refusal
    <3> QED
      BY <2>1, <2>4, <3>2 DEF UrlsIndependent, KeptRefusalIsOfOne
  <2> QED
    BY <2>3, <2>4
<1>8. CASE (AskUrls \/ Join \/ Build \/ Add \/ AskImage \/ Size \/ Store) /\ pc' = "over"
  <2>1. FALSE
    BY <1>8 DEF AskUrls, Join, Build, Add, AddNext, AskImage, Size, Store, GoTo
  <2> QED
    BY <2>1
<1> QED
  BY <1>2, <1>3, <1>4, <1>5, <1>6, <1>7, <1>8 DEF Handle

LEMMA AnswersHold == Spec => [](UrlsIndependent /\ KeptRefusalIsOfOne)
<1> DEFINE AnswerInv == UrlsIndependent /\ KeptRefusalIsOfOne
<1>1. Init => AnswerInv
  BY DEF Init, UrlsIndependent, KeptRefusalIsOfOne
<1>2. WorkInv /\ AnswerInv /\ [Next]_vars => AnswerInv'
  <2> SUFFICES ASSUME WorkInv, AnswerInv, [Next]_vars PROVE AnswerInv'
    OBVIOUS
  <2>1. CASE Handle
    BY <2>1, HandleAnswers
  <2>2. ASSUME NEW u \in Urls, Download(u) PROVE AnswerInv'
    <3>1. fetch[u] # "none" /\ UNCHANGED workVars
      BY <2>2 DEF Download, Fetch, Parse, Do, ReadAll
    <3>2. pc = "fetching" /\ answer = "none"
      BY <3>1 DEF WorkInv, FetchInv, Working, PlaceInv
    <3> QED
      BY <3>1, <3>2 DEF workVars, UrlsIndependent, KeptRefusalIsOfOne
  <2>3. CASE UNCHANGED vars
    BY <2>3 DEF vars, fetchVars, workVars, UrlsIndependent, KeptRefusalIsOfOne, Good
  <2> QED
    BY <2>1, <2>2, <2>3 DEF Next
<1> QED
  BY <1>1, <1>2, WorkInvHolds, PTL DEF Spec

\* Of several URLs each stands for itself: those that led to an image are the
\* ones tried to save, unless a URL that does not parse spoils them (GetAll,
\* BuildPanics, AddImages).
THEOREM UrlsStandAlone == Spec => []UrlsIndependent
BY AnswersHold, PTL

\* A refusal that a surrogate may keep is of one image of which nothing was
\* saved (handlers.go:261).
THEOREM RefusalKeptForOneOnly == Spec => []KeptRefusalIsOfOne
BY AnswersHold, PTL

-----------------------------------------------------------------------------
\* Every step of a request brings it nearer to its answer, so that a request of
\* MaxUrls URLs is answered within 5 * MaxUrls + 20 steps of its goroutines.

In(f, places) == {u \in Urls : f[u] \in places}

\* The steps the downloads have left: three for one that is to parse its URL.
FetchLeft(f) ==
    Cardinality(In(f, {"parsing"})) + Cardinality(In(f, {"parsing", "asking"}))
    + Cardinality(In(f, {"parsing", "asking", "reading"}))

\* A bound of the steps the handler has left, with the downloads it will start.
HandlerLeft(p, n, j) ==
    CASE p = "start" -> 5 * MaxUrls + 20
      [] p = "fetching" -> 2 * MaxUrls + 19
      [] p = "building" -> MaxUrls + 10 + (n - j)
      [] p = "adding" -> 9 + (n - j)
      [] p = "sizing" -> 6
      [] p = "drawing" -> 5
      [] p = "encoding" -> 4
      [] p = "storing" -> 3
      [] p \in {"releasing", "failing"} -> 2
      [] p = "over" -> 0

StepsLeft == FetchLeft(fetch) + HandlerLeft(pc, urls, i)

ComesNearer == StepsLeft \in Nat /\ StepsLeft' < StepsLeft

\* GetAll never waits for nobody: the WaitGroup is above zero only while a
\* goroutine works that will lower it.
NeverWaitsForNobody == wg # 0 => \E u \in Urls : fetch[u] # "none"

LEMMA InCounts ==
    ASSUME NEW places
    PROVE  IsFiniteSet(In(fetch, places)) /\ Cardinality(In(fetch, places)) \in 0 .. MaxUrls
<1>1. In(fetch, places) \in SUBSET Urls
  BY DEF In
<1> QED
  BY <1>1, UrlFacts

LEMMA FetchLeftBound == FetchLeft(fetch) \in Nat /\ FetchLeft(fetch) <= 3 * MaxUrls
<1>1. /\ Cardinality(In(fetch, {"parsing"})) \in 0 .. MaxUrls
      /\ Cardinality(In(fetch, {"parsing", "asking"})) \in 0 .. MaxUrls
      /\ Cardinality(In(fetch, {"parsing", "asking", "reading"})) \in 0 .. MaxUrls
  BY InCounts
<1> QED
  BY <1>1, UrlsAssumption DEF FetchLeft

LEMMA FetchLeftPrimed == FetchLeft(fetch') \in Nat
<1>1. ASSUME NEW places PROVE Cardinality(In(fetch', places)) \in Nat
  <2>1. In(fetch', places) \in SUBSET Urls
    BY DEF In
  <2> QED
    BY <2>1, UrlFacts
<1>2. /\ Cardinality(In(fetch', {"parsing"})) \in Nat
      /\ Cardinality(In(fetch', {"parsing", "asking"})) \in Nat
      /\ Cardinality(In(fetch', {"parsing", "asking", "reading"})) \in Nat
  BY <1>1
<1> QED
  BY <1>2 DEF FetchLeft

\* A goroutine that leaves a place is missing there.
LEMMA LeavesPlace ==
    ASSUME TypeOK, NEW u \in Urls, NEW places, fetch[u] \in places, NEW to,
           fetch' = [fetch EXCEPT ![u] = to], to \notin places
    PROVE  Cardinality(In(fetch', places)) = Cardinality(In(fetch, places)) - 1
<1>1. In(fetch', places) = In(fetch, places) \ {u} /\ u \in In(fetch, places)
  BY DEF In, TypeOK, FetchTypeOK
<1> QED
  BY <1>1, InCounts, FS_RemoveElement

LEMMA StaysInPlace ==
    ASSUME TypeOK, NEW u \in Urls, NEW places, NEW to,
           fetch' = [fetch EXCEPT ![u] = to], fetch[u] \in places <=> to \in places
    PROVE  Cardinality(In(fetch', places)) = Cardinality(In(fetch, places))
<1>1. In(fetch', places) = In(fetch, places)
  BY DEF In, TypeOK, FetchTypeOK
<1> QED
  BY <1>1

LEMMA DownloadComesNearer ==
    ASSUME WorkInv, NEW u \in Urls, Download(u)
    PROVE  FetchLeft(fetch') < FetchLeft(fetch)
<1> DEFINE A == {"parsing"}
           B == {"parsing", "asking"}
           C == {"parsing", "asking", "reading"}
           Count(f, places) == Cardinality(In(f, places))
<1>1. TypeOK
  BY DEF WorkInv
<1>2. /\ Count(fetch, A) \in Nat /\ Count(fetch, B) \in Nat
      /\ Count(fetch, C) \in Nat
  BY InCounts
<1>3. \E to \in {"none", "asking", "reading"} :
          /\ fetch' = [fetch EXCEPT ![u] = to]
          /\ \/ fetch[u] = "parsing" /\ to \in {"none", "asking"}
             \/ fetch[u] = "asking" /\ to \in {"none", "reading"}
             \/ fetch[u] = "reading" /\ to = "none"
  BY DEF Download, Fetch, Parse, Do, ReadAll, Finish, Proceed
<1>4. PICK to \in {"none", "asking", "reading"} :
          /\ fetch' = [fetch EXCEPT ![u] = to]
          /\ \/ fetch[u] = "parsing" /\ to \in {"none", "asking"}
             \/ fetch[u] = "asking" /\ to \in {"none", "reading"}
             \/ fetch[u] = "reading" /\ to = "none"
  BY <1>3
<1>5. ASSUME NEW places, fetch[u] \in places => to \notin places,
             fetch[u] \notin places => to \notin places
      PROVE  Cardinality(In(fetch', places)) =
                Cardinality(In(fetch, places)) - (IF fetch[u] \in places THEN 1 ELSE 0)
  <2>1. CASE fetch[u] \in places
    BY <1>1, <1>4, <1>5, <2>1, LeavesPlace
  <2>2. CASE fetch[u] \notin places
    <3>1. Cardinality(In(fetch', places)) = Cardinality(In(fetch, places))
      BY <1>1, <1>4, <1>5, <2>2, StaysInPlace
    <3> QED
      BY <2>2, <3>1, InCounts
  <2> QED
    BY <2>1, <2>2
<1>6. FetchLeft(fetch) = Count(fetch, A) + Count(fetch, B) + Count(fetch, C)
      /\ FetchLeft(fetch') = Count(fetch', A) + Count(fetch', B) + Count(fetch', C)
  BY DEF FetchLeft
<1>7. CASE to = "none"
  <2>1. /\ Count(fetch', A) = Count(fetch, A) - (IF fetch[u] \in A THEN 1 ELSE 0)
        /\ Count(fetch', B) = Count(fetch, B) - (IF fetch[u] \in B THEN 1 ELSE 0)
        /\ Count(fetch', C) = Count(fetch, C) - (IF fetch[u] \in C THEN 1 ELSE 0)
    BY <1>5, <1>7
  <2>2. fetch[u] \in C
    BY <1>4
  <2> HIDE DEF A, B, C
  <2> QED
    BY <1>2, <1>6, <2>1, <2>2
<1>8. CASE to = "asking"
  <2>1. Count(fetch', A) = Count(fetch, A) - 1
    BY <1>1, <1>4, <1>8, LeavesPlace
  <2>2. /\ Count(fetch', B) = Count(fetch, B)
        /\ Count(fetch', C) = Count(fetch, C)
    BY <1>1, <1>4, <1>8, StaysInPlace
  <2> QED
    BY <1>2, <1>6, <2>1, <2>2
<1>9. CASE to = "reading"
  <2>1. Count(fetch', B) = Count(fetch, B) - 1
    BY <1>1, <1>4, <1>9, LeavesPlace
  <2>2. /\ Count(fetch', A) = Count(fetch, A)
        /\ Count(fetch', C) = Count(fetch, C)
    BY <1>1, <1>4, <1>9, StaysInPlace
  <2> QED
    BY <1>2, <1>6, <2>1, <2>2
<1> QED
  BY <1>7, <1>8, <1>9

LEMMA SumDrops ==
    ASSUME NEW a \in Int, NEW b \in Int, NEW c \in Int, NEW d \in Int,
           a <= c, b < d \/ (a < c /\ b <= d)
    PROVE  a + b < c + d
OBVIOUS

\* The handler comes nearer by more than the downloads it starts.
LEMMA HandlerComesNearer ==
    ASSUME WorkInv, Handle
    PROVE  FetchLeft(fetch') + HandlerLeft(pc', urls', i')
             < FetchLeft(fetch) + HandlerLeft(pc, urls, i)
<1> DEFINE now == HandlerLeft(pc, urls, i)
           next == HandlerLeft(pc', urls', i')
<1>1. PlaceInv /\ Places /\ PlaceInv' /\ Places'
  BY HandleKeepsPlaces DEF WorkInv, TypeOK, Places
<1>2. /\ MaxUrls \in Nat /\ 1 <= MaxUrls /\ i \in Nat /\ urls \in Nat
      /\ urls <= MaxUrls /\ i' \in Nat /\ urls' \in Nat /\ urls' <= MaxUrls
      /\ FetchLeft(fetch) \in Nat
  BY <1>1, UrlsAssumption, FetchLeftBound DEF Places, Urls
<1>3. CASE AskUrls
  <2>1. pc = "start" /\ pc' = "fetching"
    BY <1>3 DEF AskUrls
  <2>2. now = 5 * MaxUrls + 20 /\ next = 2 * MaxUrls + 19
    BY <2>1 DEF HandlerLeft
  <2>3. FetchLeft(fetch') \in Nat /\ FetchLeft(fetch') <= 3 * MaxUrls
    <3>1. PICK n \in Urls : StartFetches(n)
      BY <1>3 DEF AskUrls
    <3>2. In(fetch', {"parsing"}) = 1 .. n /\ In(fetch', {"parsing", "asking"}) = 1 .. n
          /\ In(fetch', {"parsing", "asking", "reading"}) = 1 .. n /\ n \in 1 .. MaxUrls
      BY <3>1, UrlsAssumption DEF StartFetches, In, Urls
    <3>3. Cardinality(1 .. n) = n
      BY <3>2, FS_Interval
    <3>4. FetchLeft(fetch') = n + n + n
      BY <3>2, <3>3 DEF FetchLeft
    <3> QED
      BY <1>2, <3>2, <3>4
  <2>4. 3 * MaxUrls + (2 * MaxUrls + 19) < 5 * MaxUrls + 20
    BY <1>2
  <2>5. FetchLeft(fetch') + next <= 3 * MaxUrls + (2 * MaxUrls + 19)
    BY <1>2, <2>2, <2>3
  <2>6. 5 * MaxUrls + 20 <= FetchLeft(fetch) + now
    BY <1>2, <2>2
  <2> QED
    BY <1>2, <2>2, <2>3, <2>4, <2>5, <2>6
<1>4. ASSUME ~AskUrls PROVE FetchLeft(fetch') = FetchLeft(fetch)
  <2>1. UNCHANGED fetchVars
    BY <1>4
    DEF Handle, Inform, Join, BuildPanics, Build, Add, AskImage, AskForm, LoadFails,
        Size, Draw, Encode, Store, Release, fetchVars
  <2> QED
    BY <2>1 DEF FetchLeft, In, fetchVars
<1>5. ASSUME ~AskUrls, next < now, now \in Int, next \in Int
      PROVE  FetchLeft(fetch') + next < FetchLeft(fetch) + now
  BY <1>2, <1>4, <1>5, SumDrops
<1>7. CASE pc = "start" /\ ~AskUrls
  <2>1. pc' \in {"failing", "sizing", "storing", "over"}
    BY <1>7
    DEF Handle, Inform, Join, BuildPanics, Build, Add, AskImage, AskForm, LoadFails,
        Size, Draw, Encode, Store, Release
  <2>2. now = 5 * MaxUrls + 20 /\ next \in 0 .. 6
    BY <1>7, <2>1 DEF HandlerLeft
  <2> QED
    BY <1>2, <1>5, <1>7, <2>2
<1>8. CASE Inform \/ Join
  <2>1. pc = "fetching" /\ ~AskUrls
    BY <1>8 DEF Inform, Join, AskUrls
  <2>2. pc' = "over" \/ (pc' = "building" /\ i' = 1)
    BY <1>8 DEF Inform, Join, Reply, GoTo
  <2>3. now = 2 * MaxUrls + 19
    BY <2>1 DEF HandlerLeft
  <2>4. next = 0 \/ next = MaxUrls + 10 + (urls' - 1)
    BY <2>2 DEF HandlerLeft
  <2> QED
    BY <1>2, <1>5, <2>1, <2>3, <2>4
<1>9. CASE BuildPanics \/ Build
  <2>1. pc = "building" /\ ~AskUrls /\ i <= urls /\ UNCHANGED urls
    BY <1>1, <1>9 DEF BuildPanics, Build, Panic, GoTo, AskUrls, PlaceInv
  <2>2. \/ pc' = "over"
        \/ pc' = "building" /\ i' = i + 1 /\ i < urls
        \/ pc' = "adding" /\ i' = 1
    BY <1>9 DEF BuildPanics, Build, Panic, GoTo
  <2>3. now = MaxUrls + 10 + (urls - i)
    BY <2>1 DEF HandlerLeft
  <2>4. \/ next = 0
        \/ next = MaxUrls + 10 + (urls - (i + 1)) /\ i < urls
        \/ next = 9 + (urls - 1)
    BY <2>1, <2>2 DEF HandlerLeft
  <2> QED
    BY <1>2, <1>5, <2>1, <2>3, <2>4
<1>10. CASE Add
  <2>1. pc = "adding" /\ ~AskUrls /\ i <= urls /\ UNCHANGED urls
    BY <1>1, <1>10 DEF Add, AddNext, GoTo, AskUrls, PlaceInv
  <2>2. \/ pc' = "adding" /\ i' = i + 1 /\ i < urls
        \/ pc' = "releasing"
    BY <1>10 DEF Add, AddNext, GoTo
  <2>3. now = 9 + (urls - i)
    BY <2>1 DEF HandlerLeft
  <2>4. \/ next = 9 + (urls - (i + 1)) /\ i < urls
        \/ next = 2
    BY <2>1, <2>2 DEF HandlerLeft
  <2> QED
    BY <1>2, <1>5, <2>1, <2>3, <2>4
<1>11. CASE LoadFails \/ Size \/ Draw \/ Encode \/ Store \/ Release
  <2>1. \/ pc = "failing" /\ pc' = "over"
        \/ pc = "sizing" /\ pc' \in {"encoding", "drawing"}
        \/ pc = "drawing" /\ pc' \in {"over", "encoding"}
        \/ pc = "encoding" /\ pc' \in {"over", "storing"}
        \/ pc = "storing" /\ pc' = "releasing"
        \/ pc = "releasing" /\ pc' = "over"
    BY <1>11 DEF LoadFails, Size, Draw, Encode, Store, Release, Reply, GoTo
  <2>2. ~AskUrls
    BY <2>1 DEF AskUrls
  <2>3. next < now /\ now \in 0 .. 6 /\ next \in 0 .. 6
    BY <2>1 DEF HandlerLeft
  <2> QED
    BY <1>5, <2>2, <2>3
<1>12. CASE AskImage \/ AskForm
  <2>1. pc = "start" /\ ~AskUrls
    <3>1. pc = "start" /\ pc' # "fetching"
      BY <1>12 DEF AskImage, AskForm
    <3> QED
      BY <3>1 DEF AskUrls
  <2> QED
    BY <1>7, <2>1
<1> QED
  BY <1>3, <1>8, <1>9, <1>10, <1>11, <1>12 DEF Handle

LEMMA HandlerLeftType ==
    ASSUME WorkInv
    PROVE  HandlerLeft(pc, urls, i) \in Nat
<1>1. PlaceInv /\ Places
  BY DEF WorkInv, TypeOK, Places
<1>2. MaxUrls \in Nat /\ i \in Nat /\ urls \in Nat
  BY <1>1, UrlsAssumption DEF Places, Urls
<1>3. CASE pc \in {"building", "adding"}
  <2>1. i <= urls
    BY <1>1, <1>3 DEF PlaceInv
  <2>2. \/ HandlerLeft(pc, urls, i) = MaxUrls + 10 + (urls - i)
        \/ HandlerLeft(pc, urls, i) = 9 + (urls - i)
    BY <1>3 DEF HandlerLeft
  <2> QED
    BY <1>2, <2>1, <2>2
<1>4. CASE pc \notin {"building", "adding"}
  BY <1>1, <1>2, <1>4 DEF Places, HandlerLeft
<1> QED
  BY <1>3, <1>4

\* What RequestAnswered needs of the steps: none of a handler or of a download
\* is for nothing, and GetAll waits for goroutines that work (fetcher.go:107-176).
THEOREM RequestsComeNearer == Spec => []NeverWaitsForNobody /\ [][ComesNearer]_vars
<1>1. WorkInv => NeverWaitsForNobody
  <2> SUFFICES ASSUME WorkInv, Working = {} PROVE wg = 0
    BY DEF NeverWaitsForNobody, Working
  <2>1. wg = Cardinality({})
    BY DEF WorkInv, FetchInv
  <2> QED
    BY <2>1, FS_EmptySet
<1>2. WorkInv /\ [Next]_vars => [ComesNearer]_vars
  <2> SUFFICES ASSUME WorkInv, Next PROVE ComesNearer
    OBVIOUS
  <2>1. StepsLeft \in Nat /\ FetchLeft(fetch) \in Nat /\ HandlerLeft(pc, urls, i) \in Nat
    BY FetchLeftBound, HandlerLeftType DEF StepsLeft
  <2>2. CASE Handle
    <3>1. FetchLeft(fetch') + HandlerLeft(pc', urls', i')
          < FetchLeft(fetch) + HandlerLeft(pc, urls, i)
      BY <2>2, HandlerComesNearer
    <3> QED
      BY <2>1, <3>1 DEF ComesNearer, StepsLeft
  <2>3. ASSUME NEW u \in Urls, Download(u) PROVE ComesNearer
    <3>1. HandlerLeft(pc', urls', i') = HandlerLeft(pc, urls, i)
      BY <2>3 DEF Download, workVars, HandlerLeft
    <3>2. FetchLeft(fetch') < FetchLeft(fetch)
      BY <2>3, DownloadComesNearer
    <3>3. FetchLeft(fetch') \in Nat
      BY FetchLeftPrimed
    <3> QED
      BY <2>1, <3>1, <3>2, <3>3 DEF ComesNearer, StepsLeft
  <2> QED
    BY <2>2, <2>3 DEF Next
<1> QED
  BY <1>1, <1>2, WorkInvHolds, PTL DEF Spec
=============================================================================
