# imgry, modelled and checked

A TLA+ development kept beside imgry, the image proxy of this repository. It
models the parts of the server that carry its logic: the LRU manager and the
chain of stores, the image requests on the redis index and the stores, the
request throttler, the sizing of images with the keys it is saved under, the
downloads and the wands a handler has in its hands, and the process with its pool
of redis connections from start to stop. TLC checks the models on small
instances; TLAPS proves most of their safety for every value of the constants.

Paths below are relative to the repository; `chainstore/`, `chi/`, `redigo/` and
`goji/` stand for `vendor/github.com/pressly/chainstore`,
`vendor/github.com/pressly/chi`, `vendor/github.com/garyburd/redigo/redis` and
`vendor/github.com/zenazn/goji`; `magick_wand*.go` are in
`vendor/gopkg.in/gographics/imagick.v3/imagick`.

## The system

A request passes the throttler and the timeout (`server/server.go`), reaches a
handler (`server/handlers.go`) and works on one bucket (`server/bucket.go`). A
bucket keeps for each image, and for each size made of it, an entry in redis
(metadata) and a blob in a chain of stores: memory first, then S3 or, without
S3 keys, bolt. A missing image is downloaded (`server/fetcher.go`), a missing
size is made with ImageMagick (`server/image.go`, `imagick/`).

| Component | State | Operations | Talks to | What is hard | What must hold |
|---|---|---|---|---|---|
| LRU manager, `chainstore/lrumgr` | map, list, bytes left, mutex | Put, Get, Del, prune | the store it wraps, outside its mutex | races between tracking and storing; prune picks a victim, unlocks, deletes | map, list and count agree; the budget is restored; the mutex is released |
| Store chain, `chainstore/chainstore.go` | the stores, background goroutines | Put, Get, Del | memory store, S3 or bolt | unordered goroutines, dropped errors, write-back after delete | what is indexed is somewhere; it is persisted in the end |
| Image requests, `server/bucket.go`, `server/handlers.go` | redis index | fetch, get, add, delete | redis, chain, fetcher, engine | two stores, no lock, no transaction, restart wipes one of them | an answer is of one image; a delete is a delete; what is broken heals |
| Throttler and timeout, `chi/middleware` | two channels of tokens | ServeHTTP | the handler | five ways out, panics, cancellation | no token is lost; a refusal is due |
| Fetcher, `server/fetcher.go` | the responses, a WaitGroup | Get, GetAll | origins | one goroutine per URL, errors in the responses | the caller comes back; URLs do not disturb each other |
| Redis pool, `server/db.go`, `redigo/pool.go` | idle list, active count, waiters | get, put, Close | redis | 80 requests share 64 connections and wait without a timeout; a test, a dial or a put may fail | the limit holds; no connection and no wakeup is lost |
| Sizing, `sizing.go` | the sizing of a request, changed as it is used | CalcResizeRect, granularize, ToQuery | engine, index keys | rounding, zero as "not given", two decimals in keys | the asked size is filled or kept to; a saved size is found again |
| Image engine, `imagick/` | MagickWands | LoadBlob, SizeIt, Release | ImageMagick | error paths, replaced wands | every wand is destroyed once |
| ImageMagick's environment, `magick_wand_env.go` | a counter, a channel | Initialize, Terminate, the count of every wand | the engine, the garbage collector | counter and channel are changed without a lock | the permission to terminate is not lost |
| Process, `cmd/imgry-server`, `server/server.go`, `goji/graceful` | listeners, app | start, stop | all | a forced stop with requests at work | a stop ends; one that was not forced leaves nobody at work |

## The modules

| Module | Models | Kind |
|---|---|---|
| `LruManager` | `lru_manager.go`, one action per locked section and per unlocked access | component |
| `LruHeadroom` | the condition under which the mutex cannot be left locked, and its inductive invariant | extends LruManager |
| `LruOrder` | a history of use beside the manager; implements `RecencyCache` | extends LruManager |
| `RecencyCache` | what one client is promised: keys go for want of room only, the least recently used first | abstract specification |
| `LruProofs` | proofs about `LruManager` and `LruHeadroom` | TLAPS |
| `LruOrderProofs` | proofs about `LruOrder` and its refinement | TLAPS, over LruProofs |
| `Chainstore` | the chain `GetChainstore` builds, with its goroutines as a bag | component |
| `ImageStore` | the handlers on one image URL, over `Chainstore` | composition |
| `ImageHistory` | crashes, and which images were deleted or fetched undisturbed | extends ImageStore |
| `ImageCoherence` | crashes, and the events after which the metadata and the data of a size may part | extends ImageStore |
| `ImageAnswers` | what the answers and refusals were due to | extends ImageStore |
| `ImageStoreProofs` | proofs about `ImageStore`, `ImageHistory` and `ImageCoherence` | TLAPS |
| `Throttler`, `ThrottlerProofs` | the throttler with the timeout inside it, and proofs | component, TLAPS |
| `Sizing` | the geometry of `sizing.go` and of `sizeFrames`, no state | operators |
| `SizedRequests` | `GetImageSize` with its mutable sizing and the index of sizes | component over Sizing |
| `SizingProofs` | proofs about these two | TLAPS |
| `Semaphore` | what a limit promises: so many permits, so many holders | abstract specification |
| `RedisPool` | `redigo/pool.go` as `db.go` configures it, one action per locked section; implements `Semaphore` | component |
| `MagickEnv` | the counter of wands and `canTerminate`, one action per access | component |
| `ServerStop` | the process from start to exit with the requests at work, over the two | composition |
| `RedisPoolProofs`, `ServerStopProofs` | proofs about these | TLAPS |
| `Fetching` | `GetAll`: a goroutine per URL and the WaitGroup | component |
| `EngineImage` | which wands an image owns, through `sizeFrames` | component |
| `ImageWork` | the handlers of `/add`, `/info`, upload and MakeSize, over the two | composition |
| `ImageWorkProofs` | proofs about the three | TLAPS |
| `MC*` | the constants that a cfg cannot write | instances |

`ImageStore` composes the handlers with `Chainstore` (EXTENDS: they share the
stores' variables); `ServerStop` composes `RedisPool` and `MagickEnv`, and
`ImageWork` composes `Fetching` and `EngineImage`, in the same way. `ServerStop`
has the interleaving of many requests and one wand each, `ImageWork` one request
and all the wands it touches. `LruManager` is the detail of what `Chainstore` abstracts to
`Evict`. `SizedRequests` is the detail of what `ImageStore` abstracts to the one
key `variant`.

### LruManager

`Callers` are the goroutines inside the manager. A section between `m.Lock()`
and `m.Unlock()` is one action that needs the mutex free; the wrapped store's
calls and the two unlocked reads of `m.capacity` in prune are actions of their
own. `mu` is still a variable because one return of prune leaves the mutex
locked (`PruneTail`). `items`, `order` and `capacity` are the map, the list and
the bytes left; `store` is the length of what the wrapped store holds. Put is
`CallPut`, `PutTrack`, `PutStore` and then prune: `PruneEnter`, `PruneCheck`,
`PruneTail`, and the body of Del as `PruneEvict` and `PruneDrop`. An unlocked
read of `m.capacity` that races a write is taken to return a value the variable
has had, which is what an aligned 64-bit load does. Contexts are never done:
imgry passes `context.Background()` (`bucket.go:166, 189, 207`). If a context
could be done, prune would spin, as its Del would return at once.

`LruOrder` records the calls beside the manager: `recent` lists the keys by
their latest Put or Get. `RecencyCache` knows neither list nor mutex, only which
keys are held, who was used since whom, and whether the budget is being made
good. One caller of the manager implements it with `held <- items`,
`since <- UsedSince` and `shrinking <- Pruning`: that the victim is the least
recently used key, that nothing is evicted unless the budget was used up, and
that evicting goes on until the cushion is free and no further are its three
guards. Two callers do not: a victim may be used again between prune's choice of
it and its eviction.

### Chainstore and ImageStore

`mem`, `low` and `bg` are the memory store, the store below it and the bag of
background goroutines (`put_low`, `del_low`, `fill`). Any goroutine may run next
and a write to the low store may be lost, since its error goes to a nil
callback. `LowIsS3` says which low store is configured: S3 survives a restart
and reports a network failure as a missing value; bolt sits under an LRU manager
and is wiped at start. Eviction is abstracted to one action that drops any
value, because the LRU manager may drop any of them (a value may be larger than
the budget).

`ImageStore` has one URL, with its origin changing, and two store keys: the
original's and that of one sizing. A request without a size is a request for a
sizing, too (`GetImageSize` always asks for one). A blob is the version of the
origin's image it was made from. The dimensions are taken not to change with
the version, so that all requests agree on the key of the sizing. A request is a
slot with a program counter; `HGet`, `MemGet` and `LowGet` are DbFindImage in
its three uses (probe, original, variant), and the other actions follow the
calls of AddImagesFromUrls, DbSaveImage, GetImageSize and DbDelImage in their
order. The index calls are atomic since redis runs one command at a time.

### Throttler

`tokens` and `backlogTokens` count what is left in the two channels. A select is
one action per case; the default case needs both channels of the select not
ready. The deferred sends are the actions `GiveTokenBack` and
`GiveBacklogTokenBack`, which run after a panic, too. Time passes in units
(`Tick`), and a timer may fire from the moment its time is up. Nothing bounds the
time of a handler: imgry's handlers pass their context to the fetcher only, so
that one may be served long after its context expired.

### Sizing and SizedRequests

A sizing is a record of what `SetFromQuery` parsed. Lengths are whole pixels,
ratios are fractions compared by cross-multiplication, focal points and crop
boxes are thousandths of the image: one decimal more than `FloatPoint.ToString`
prints, so that two sizings can share a key. Floats differ from the fractions in
two places. A value half way between two pixels may round either way; the model
rounds it up. A product such as `w * (c / w)` may be a hair below the whole
number `c` before `int()` cuts it; `Truncated` returns both values.

`Sized` is the set of results of one frame; it is empty when the engine returns
an error, which it does for an image without pixels. `SizedRequests` runs one
request at a time: `Ask` parses the query and calculates the sizing ahead of
time, `Find` looks its key up, `Make` calls the engine, which calculates the
sizing once more, `Save` hashes the sizing again, `Drop` loses a saved size.

Two behaviours the model shows and no document speaks of. `cover` and `balance`
with one length only (`s=x500`) resize by the other side, of length 0, when the
rounded ratio falls on that side: nothing is resized and the original is cropped
from its corner (`sizing.go:154-175`; `sizing_test.go:276-285` asserts only the
origin of that crop). And a length under half the granularity becomes 0, which
further on means "not given": `s=4x4` is the original.

### RedisPool, MagickEnv and ServerStop

`Users` are the goroutines that call the methods of DB: the requests and, for the
first PING, main. `at[u]` says where in `get` a user is, `queue` who sleeps in
`p.cond`, and `active` and `idle` are the two counts. `Borrow` is the second loop
of `get`; it is entered with the counts that `release` left, since the code does
both under one lock. Which idle connection is stale, fails its PING, cannot be
dialled or comes back broken is left open. `Signal` takes the first of the queue
off it; a signalled user starts over when it gets the mutex (`Wake`), and another
may come before it.

In `MagickEnv` a wand is counted (`CountWand`) and the channel emptied (`Unset`)
in two steps, and uncounted, looked at and the channel filled in three
(`DestroyWand`, `CheckCounter`, `Set`), because nothing locks them. A wand that
nobody can reach is an orphan until the collector finds it; `MaxOrphans` bounds
them.

`ServerStop` starts as `main` does: `Apply`, `Connect` and `Ping` (GetDB sends a
PING through the new pool), `Open`. A failure of any ends the process. A request
(`Find`, `Load`, `Save`, `Release`) has a wand while it waits for a connection to
save with. A signal closes the listeners (`Signalled`), the timer of `sigLoop`
forces the stop (`TimeIsUp`), and Shutdown runs once nobody is at work or the
stop is forced (`Drained`, `Terminus`, `CloseStores`).

### Fetching, EngineImage and ImageWork

`resp[u]` is the FetcherResponse of a URL, `fetch[u]` where its goroutine is and
`wg` the WaitGroup. What an origin sends is nothing, junk, an image, or an image of
which ImageMagick makes an empty blob (`AddImage` refuses it although it was
loaded), with a status. `wands[im]` are the wands of an image that exist and `mw[im]` is the one
it works on: `Prepare`, `FrameFails` and `FramesDone` are `sizeFrames` before,
in and after its loop, with its deferred function. `ImageWork` follows one
request: requests share no wand and no response, so the interleaving that matters
is that of its own downloads. The saving of an image is one step that succeeds or
fails; `ImageStore` has its detail.

## What the runs check

| Run | Instance | Properties |
|---|---|---|
| `lru_concurrent` | 2 callers, 3 keys, sizes 5 and 12, capacity 10, all methods, failing store | `ListMatchesItems`, `Accounting`, `OverrunOnlyByLateGet`, `LostSightOnlyByLatePut` |
| `lru_headroom` | 3 callers, 3 keys, size 4, capacity 10, Put and Get | `TypeOK`, `MutexFree` |
| `lru_sequential` | 1 caller, 3 keys, sizes 3, 6, 11, all methods, fair | `QuietTracksStore`, `QuietOrderIsRecency`, `KeepsRecencyCache`, `CallsReturn` |
| `image_persisted` | 2 requests, fetch, get, add; redis, origin and engine faults, evictions, S3, fair | `TypeOK`, `IndexedIsReachable`, `EventuallyPersisted` |
| `image_coherent` | 2 requests, 2 versions, get and add; evictions, write-backs, crashes, lost writes, S3 with failing reads | `AnswersCoherent` |
| `image_history` | 2 requests, fetch, get, delete; crashes, lost writes, evictions, redis faults, bolt | `CleanFetchSucceeds`, `DeletedNotServed` |
| `throttler` | 3 requests, limit 1, backlog 1, panics, disconnects, fair | `TypeOK`, `TokensConserved`, `RejectedOnlyWhenFull`, `RequestsAnswered` |
| `sized_requests` | 3 originals, 290 queries, 1 size saved at once | `TypeOK`, `CoverFills`, `ContainFits`, `FittedOnCanvas`, `FoundIsOwn`, `SavedIsFound` |
| `server_stop` | main and 3 requests, 2 connections of which 1 may stay idle, 1 orphan, fair | `TypeOK`, `ConnectionsCounted`, `NoLostWakeup`, `PermissionNotLost`, `StopIsClean`, `LimitKept`, `StopEnds` |
| `image_work` | 1 request of any handler, up to 3 URLs, statuses 200 and 404, fair | `TypeOK`, `UrlsIndependent`, `KeptRefusalIsOfOne`, `WandsReturned`, `RequestAnswered` |

The bounds.

- LRU manager: capacity 10 is the least `Open` allows and has a cushion of 1; the
  sizes are chosen so that one, two and three items fit or do not, and so that
  one value alone exceeds the budget. Two callers are enough for a prune to race
  any other call; the mutex needs three, so that two of them may empty the list
  under the third.
- Images: one URL is enough because requests on different keys share nothing but
  evictions, which are free to occur anyway. Two requests give every race between
  two handlers. `MaxTasks`, two or three background goroutines, lets a write, a
  delete and a write-back of one key be pending together; a handler that would
  start one more waits until one has ended, which leaves out only behaviours with
  more of them at once. `MaxVersion` is 1 in `image_history` and
  `image_persisted`: their properties ask whether there is an image, never which,
  and no step looks at the version it moves. In `image_history` bolt may drop a
  value like memory does; S3 drops none. `image_coherent` has two versions, the
  fewest that can be mixed up, on S3, whose failed reads look like missing values
  and which keeps what a crash left. It has no redis faults, to keep it short; with
  them (`Faults = {"db"}`, 5.6 million states) it passes, too, and so it does on
  bolt.
- Throttler: one slot and one place in the backlog with three requests has every
  queue empty, in use and full.
- Sizing: lengths are 0 and below, at and above half a granularity of 10; the
  originals are a wide one, a tall one and one so flat that a side rounds to 0;
  the focal points lie at the edges, and so close to the defaults that they print
  alike. One saved size at a time is enough, since a request looks at one key.
  Crop boxes are whole hundredths: two that print alike may differ by a pixel in
  the size of the answer, which `FoundIsOwn` does not allow for.

- The process: two connections and three requests have a connection in use, one
  idle or stale, and a request asleep, with a second user that may take the
  connection the waiter was woken for. `MaxIdle` below `MaxActive` lets a put be
  one too many, which imgry's 64 and 64 do not: it is one more way out of `put`.
  One orphan beside three wands lets the counter reach zero by the collector as
  well as by a request; a request whose wand would be a second orphan waits with
  losing it, which a stop outlasts.
- Downloads: three URLs have a first, a last and one between them, so that an
  error may be followed by a success and the other way round.

Deadlock is checked in every run but three: in `lru_concurrent` the mutex may
really be left locked, in `server_stop` the process exits, and in `image_work`
the request is over.

Fairness. `CallsReturn` assumes that a goroutine that can run is run (weak
fairness of `Work`); nobody has to call. `EventuallyPersisted` assumes it of the
background goroutines and the handlers: a goroutine started by `go fn()` is never
dropped by the scheduler while the process lives. It is checked without restarts,
lost writes and deletes, which do lose it (`ServingNext`; `Next` with the deletes
and the origin's changes is in `image_history` and `image_coherent`). `RequestsAnswered` assumes it of the
request goroutines and of the clock, and that a handler returns; no request has
to arrive or to disconnect. `StopEnds` assumes that a goroutine that can run is
run, so that a dial and a PING end and a signalled waiter gets the mutex, and that
the collector finds every orphan: Go forces a collection every two minutes. The
signal, the failures and a request of a user are not assumed.
`RequestAnswered` of `image_work` assumes that a download ends, which the
request's timeout sees to.

### Where the code does not do what it says

| Run | Property | What happens |
|---|---|---|
| `lru_lock_leak` | `LockReleased` | `lru_manager.go:164-168`: prune returns with the mutex locked if the list was emptied since its loop test; every later call blocks |
| `image_cached_failure` | `OnlyInvalidInputCached` | a failed download is refused as invalid data and cached (`bucket.go:63`, `util.go:72`) |

Divergences without a run of their own:

- Put of the LRU manager tracks a value, unlocks and then stores it
  (`lru_manager.go:85-90`). A prune of another Put in between evicts the key and
  deletes what is not there yet, and the value stays in the store untracked.
- A delete removes the original only (`bucket.go:198-210`, with a TODO); the next
  fetch of the URL downloads the new image and answers with the old size.
- `magick_wand_env.go:63-64` guarantees that C.MagickWandTerminus runs after all
  objects are destroyed. In `ServerStop` it may not: a late `Set` may fill the
  channel after another request's `Unset`, while that request's wand, or the
  orphan it becomes, lives on; and a forced stop may come between `CountWand` and
  `Unset`.
- A forced stop is not bounded by its 30 s: Shutdown calls Terminate first, which
  waits for the wands of requests that wait for a connection or a download.
- `image.go:57-58` asks for Release after MakeSize, but when SizeIt fails MakeSize
  returns nil and its wand is left to the collector, as are the wands that
  CoalesceImages and DeconstructImages replace (`imagick.go:260, 351`).
- `Initialize` of the engine has a value receiver (`imagick.go:36-41`), so tmpDir
  is lost and the sweep in Terminate does nothing.
- `server.go:65-66` says that Close denies new requests; it only logs. graceful
  closes the listeners.
- `/info` does not look at the status of the download: an image sent with a 404
  is described like any other (`handlers.go:140-148`).
- `Get` of the LRU manager tracks an item that may have been evicted since its
  read, and nothing prunes after it, so that the budget may stay overrun until the
  next Put. `PutLeavesRoom` says that this is the only way.
- Two requests that make the same size of different images at once, or a write of
  one that is lost or late, may leave the metadata of one image with the data of
  the other (`bucket.go:189-194`): the exceptions of `AnswersCoherent`.
- An image whose blob is evicted before its background write has run is
  downloaded again, though `README.md:53-54` says it is stored.
- The wait in the backlog comes on top of what `config.go:116` calls the overall
  time, since the timeout starts inside the throttler (`server.go:98`).
- `README.md:52` promises memory, disk and S3, but with S3 keys
  `config.go:231-232` leaves the disk store out of the chain.

## What is proved

`LruProofs`, for any finite sets of callers and keys, any sizes and any capacity
of at least 10:

- `TypeCorrect`, `ListAlwaysMatches`, `BudgetNeverDrifts`. The inductive
  invariant is the conjunction of the three: the bytes given back by an eviction
  are those of the item only because the list and the map hold the same keys.
  `Bytes` turns the sum of the sizes into the cardinality of a set, so that the
  facts about finite sets do the arithmetic.
- `PutLeavesRoom`: for any number of callers of any methods,
  `OverrunOnlyByLateGet`. A caller that leaves prune has seen room, and what uses
  it up later is a Put, which has yet to prune, or a Get that tracks a key that
  was evicted, or not yet tracked, when it came back from the store.
- `ValuesStayInSight`: for any number of callers, `LostSightOnlyByLatePut`. An
  eviction takes the key out of the map and leaves its caller at the step that
  drops the value (`EvictionKeepsSight`), and no other step touches either.
- `HeadroomKept` and `MutexNeverLeft`: if `Headroom` holds and nobody calls Del,
  prune never meets an empty list. `MutexFree` alone is not inductive; the
  missing part is `EnoughItems`: while some caller is about to evict, the items
  left, with one more for each caller that is not, still overrun the budget.
  What imgry's configuration gives depends on how many goroutines are inside the
  memory store's manager. For the 80 requests alone, each of which is in it at
  most once, images may be a little over a megabyte (90 of 100 MB over 79). Every
  Get that finds its value further down starts a goroutine that puts it
  (`chainstore.go:114-123`), and nothing bounds those: with one of them for each
  request it is about 0.6 MB (90 over 159). Larger images can lose the condition.
  So can a delete: its handler calls Del, which the theorem excludes.
- `OneCallerTracksStore`: for one caller and a store that does not fail,
  `QuietTracksStore`. `SyncInv` allows a difference for one key only, from the step
  that tracks or evicts it to the step that stores or drops it.
- `OneCallerKeepsBudget`: for one caller and a store that does not fail,
  `OverBudgetOnlyDuringPut` with Get, too. What a Get reads is tracked already
  (`SyncInv`), so it charges nothing.
- `OneCallerComesNearer`: for one caller the mutex is free at every step of a call
  and each step lowers `CallLeft`, which for a Put with n tracked keys begins at
  4n + 12. A round of prune is four steps and evicts one key, which is still
  tracked when it is evicted (`TailInv`). This is `CallsReturn` without the
  fairness. For two callers it is false: a round may find its key gone.

`LruOrderProofs`, for one caller, any keys, sizes and capacity, and a store that
may fail:

- `ListIsOrderOfUse`: `QuietOrderIsRecency`. Within a call the list may be one use
  behind `recent`, for the key the call names; `OrderInv` says where. The lemmas
  say what taking a key out of a list and pushing one to its front do to who is
  before whom (`RemoveKeepsBefore`, `PushFrontBefore`).
- `AlwaysEvictsLeastRecent`: the key prune evicts is older in use than all that
  stay. (No run checks it by itself, since `KeepsRecencyCache` implies it.)
- `OneCallerKeepsRecencyCache`: every step of the manager is one of `RecencyCache`
  or changes nothing of it. Besides `OrderInv` it takes `ShortInv`, since a key
  goes only while the cushion is missing, and that `capacity` is the room left of
  what is charged.

`ThrottlerProofs`, for any finite set of requests, any limit, backlog and
timeouts: `ThrottlerTypes`, `NoTokenLost`, `WayOutIsOpen`, `RefusalsAreDue`. The
inductive invariant is types and conservation together; the other two follow
from it, since a request on its way out holds a token that is not in its channel.
`ThrottlerIsSemaphore` says what the channels are for: the handlers hold a
`Semaphore` of `Limit` permits, the requests inside one of `Limit + BacklogLimit`.
`ArrivedComeNearer` is `RequestsAnswered` without the fairness and without the
clock: each step of a request lowers its `RequestLeft`, which nothing raises and
which is at most 5; and a request that cannot step waits for a token that
another holds (`WaitsOnlyForHolders`).
How long the others keep it is up to the handlers, and bounded for a request in
the backlog by its timer.

`SizingProofs`, for any originals, any queries with any granularity and focal
point, and any number of saved sizes:

- `GranularizeNearest` and `GranularizeSettles`: rounding is to the nearest
  multiple and does nothing the second time. The crop takes `sz.Size` as it is and
  the resize rounds it again, so the second fact is what makes them agree.
- `SizingTypes`, `CoverAlwaysFills`, `ContainAlwaysFits`, `FittedAlwaysOnCanvas`,
  `SavedUnderItsKey`. The
  inductive invariant `SizingInv` says that a request works on the sizing
  calculated from its query (`AheadSettles`: calculating it again changes
  nothing) and that whatever is saved keeps to its key (`Kept`). The arithmetic is
  in two lemmas: a whole number on one side of a fraction is on the same side of
  the fraction rounded (`RoundAtLeast`, `RoundAtMost`). Assumed: lengths of
  originals are positive, and a crop box leaves at least a pixel each way
  (`BoxesAssumption`).
- `FoundAlwaysOwn`: two sizings under one key differ in their focal point only, by
  less than a hundredth (`OneKeyAlike`, `PrintedAlike`), and nothing but the origin of
  a crop looks at it (`AlikeResized`, `OffsetsClose`). `MadeInv` says that what is
  saved was made by a query of its key. Assumed (`PlainQueriesOnly`): crop boxes in
  whole hundredths, and crops with both lengths. With one length, a focal point
  at the very edge may leave no pixel, which is an error, where one that prints
  alike leaves one column.

`RedisPoolProofs` and `ServerStopProofs`, for any finite set of requests, any
limit of at least one connection, any number kept idle and any bound of orphans:

- `ConnectionsAlwaysCounted`, `WakeupNeverLost`. The inductive invariant `PoolInv`
  is types, the count, who sleeps, and no lost wakeup together. `GetReady` is the
  heart of it: a user that finds nothing idle and the limit reached may go to
  sleep, because then nothing could be had; a step that makes a connection
  available (`SignalWakes`) wakes one waiter for it; and a waiter that wakes
  up (`WakeReady`) either uses what it was woken for or there was nothing left.
- `PoolIsSemaphore`: the users that test, dial or use a connection are the holders
  of a semaphore of `MaxActive` permits. A step that makes one more user a holder
  takes an idle connection or raises `active`, and the count bounds the holders.
- `PermissionAlwaysComes`: `PermissionNotLost` is inductive with the types. The
  last wand to be uncounted leaves its holder settling, and a holder that settles
  sees a counter of zero or another wand whose holder will settle in turn.
- `StopAlwaysClean`: from `HandsFull`, which ties the place of a request in the
  pool and the state of its wand to what it is doing.
- `WorkAlwaysGoesOn`: requests that sleep for a connection, some with a wand in
  their hands, never wait for each other in a ring; while any is at work, one can
  go on. A sleeper is owed a connection by a user that has one (`NoLostWakeup`),
  and `JobsFull` says that whoever is in the pool or holds a wand has a next step.
- `StopAlwaysGoesOn`: from the signal to the permission of Terminate, the process,
  a request or the finalizer has a step to take. The two are what `StopEnds`
  rests on; that the steps are taken in the end is fairness, which the run has.
- `ServerTypes`. Assumed: main is not a request, the finalizer's goroutine is
  neither (`HandsAssumption`, `HoldersAssumption`).

`ImageWorkProofs`, for any number of URLs and any status codes:

- `ImageWorkTypes`, `WandsAlwaysReturned`, `UrlsStandAlone`, `RefusalKeptForOneOnly`.
  The inductive invariant `WorkInv` has a part for each thing a handler keeps
  track of: `FetchInv` (the WaitGroup counts the goroutines at work, so that none
  writes a response while the handler reads them), `WandInv` (which images are
  loaded, and which wands such an image may own between two frames), `PlaceInv`
  (which handler may be where, and with what error) and `SavedInv` (the images
  saved or tried are those of the URLs behind the loop). What a
  request leaves behind is then read off the step that answers it
  (`HandleAnswers`).
- `RequestsComeNearer`: `GetAll` waits only while a goroutine is at work, and every
  step of a handler or a download lowers `StepsLeft`, the sum of what each download
  and the handler have yet to do, which is at most 5 * `MaxUrls` + 20. This is
  `RequestAnswered` without the fairness: there is no retry and no loop that does
  not consume a URL.

`ImageStoreProofs`, for any number of requests, versions and goroutines. The bag
of goroutines is dealt with by lemmas on its set (`SpawnAdds`, `BagLoses`); how
many it holds is the cardinality of `Goroutines`, the set of its numbered copies,
which one more goroutine adds one to at most (`CopiesGain`, `AtMostOneMore`).

- `StoreTypes`: `Types` with `Held`, that a request about to put or to size an image
  has one. `ImageStoreTypes` is `TypeOK`, with the bound of goroutines.
- `IndexedAlwaysReachable`, under `NothingLost`: nobody deletes, the low store does
  not fail, and only memory evicts. `ReachInv` says that what is indexed is
  `Durable` (in the low store or with a goroutine that will write it), which is
  stronger than being reachable and, unlike it, survives an eviction from memory.
  The order of DbSaveImage is what it rests on: a request that is to write an
  entry has put the image (`Written`).
- `IndexedComesToBePersisted`, under `NothingLost`: what is indexed is in the low
  store or with a goroutine that will write it, such a goroutine goes only by
  writing, and what is written stays. With the fairness of the goroutines, which
  the run has, this is `EventuallyPersisted`.
- `AnswersAlwaysCoherent`: `AnswersCoherent`, for any number of requests and
  versions, with evictions, write-backs, restarts, deletes and every failure. An
  answer is of one image unless `torn`, and `torn` is set by events only: a
  request stores the size while a goroutine, a reader or another saver has one of
  another image in its hands (`Crossed`); a request reads the entry while a save
  of another image is half done, reads the low store before a write behind has
  come, or gives up a save half way (`Tears`); a write behind is lost
  (`LosesWrite`); or the process ends in the middle of one (`CrashTears`). The next
  save that meets nothing of another image ends it. The inductive invariant says
  that while `torn` is false all that is under way is of one image (`CoherenceInductive`).
  None of the events can be left out: with any one of them dropped from the
  definitions TLC finds, within the bounds of `image_coherent` (and with redis
  faults, for the save given up half way), an answer with the metadata of one image
  and the data of the other.
- `DeletedNeverServed`, with crashes: while the image is deleted its entry is absent
  and nobody is saving it, so that a request begun since (`blind`) is still at
  one of the `BlindSteps`, which come before anything was found.
- `CleanFetchAlwaysSucceeds`, with crashes: `FetchInv` says what a fetch that runs
  undisturbed may rely on at each of its steps, and nothing about the state it
  began in. Assumed: the low store is not an S3 that fails, since a failure of
  the network is a missing value there, and GetImageSize then refuses an image
  that the probe of the same fetch has just found.

Only model-checked: what refusals are due to (`ImageAnswers`: its one property is
violated, so nothing is left to prove), and the liveness properties as such.
Liveness under fairness and ENABLED are beyond the prover; what it proves of each
of the five is the part without fairness, that a step is there to be taken or
that every step taken leads nearer to the end.

| Liveness property | The part of it that is proved |
|---|---|
| `CallsReturn` | `OneCallerComesNearer` |
| `RequestsAnswered` | `ArrivedComeNearer` |
| `RequestAnswered` | `RequestsComeNearer` |
| `StopEnds` | `WorkAlwaysGoesOn`, `StopAlwaysGoesOn` |
| `EventuallyPersisted` | `IndexedComesToBePersisted` |

## What is not modelled yet, and the plan

In this order:

1. A measure for `StopEnds` as for the other liveness properties: a request may
   lose its turn in the pool to another, so that it is not one number per
   request that falls.
2. `WeakCache`: an abstract cache of values (a Get returns nothing or a value put
   before and not overwritten since) that the chain implements up to late writes.
   `RecencyCache` says only which keys are held.
3. `Keys`: normalisation of URLs on fetch, which a delete does not do.

The sizes of animations (one sizing for every frame) and negative lengths, which
`NewRectFromQuery` accepts, are left out of `Sizing`.

Not planned: pixels (ImageMagick), TOML and statsd, metrics, logging and
airbrake, `consistentrd` (built and unused, `server.go:82-86`), the rendering of
answers. The write-backs pending at a stop are lost like those of a crash, which
`ImageHistory` has (`Crash`).
