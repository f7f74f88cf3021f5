------------------------------ MODULE Fetching ------------------------------
(***************************************************************************)
(* Fetcher.GetAll (server/fetcher.go): one goroutine for each URL, which   *)
(* fills in the response of its URL, and a WaitGroup that the caller waits *)
(* for.                                                                    *)
(*                                                                         *)
(* What an origin sends is one of Bodies: "blobless" is an image that is   *)
(* read, and of which no blob can be made again.  A URL may not parse, a   *)
(* download may fail before or after the status line, and the end of the   *)
(* request's context looks like either.                                    *)
(***************************************************************************)
EXTENDS Naturals

CONSTANTS
    MaxUrls,  \* bound: URLs of one request
    Statuses  \* status codes of an origin

ASSUME UrlsAssumption == MaxUrls \in Nat \ {0}
ASSUME StatusAssumption == Statuses \subseteq Nat \ {0} /\ 200 \in Statuses

Urls == 1 .. MaxUrls
Bodies == {"empty", "junk", "blobless", "image"}

VARIABLES
    resp,   \* fetches, a FetcherResponse for each URL
    fetch,  \* where each goroutine is
    wg      \* the counter of the WaitGroup

fetchVars == <<resp, fetch, wg>>

NoResponse == [url |-> FALSE, err |-> FALSE, status |-> 0, data |-> "empty"]

FetchInit ==
    /\ resp = [i \in Urls |-> NoResponse]
    /\ fetch = [i \in Urls |-> "none"]
    /\ wg = 0

\* GetAll up to wg.Wait.
StartFetches(n) ==
    /\ resp' = [i \in Urls |-> NoResponse]
    /\ fetch' = [i \in Urls |-> IF i <= n THEN "parsing" ELSE "none"]
    /\ wg' = n

Fill(i, field, value) == resp' = [resp EXCEPT ![i][field] = value]

Finish(i) ==
    /\ fetch' = [fetch EXCEPT ![i] = "none"]
    /\ wg' = wg - 1

Proceed(i, to) ==
    /\ fetch' = [fetch EXCEPT ![i] = to]
    /\ UNCHANGED wg

\* Mutant of the goroutine: wg.Done is called at its end only, and not on the
\* way out of a URL that does not parse.
ParseForgetsDone(i) ==
    /\ fetch[i] = "parsing"
    /\ \/ Fill(i, "err", TRUE) /\ fetch' = [fetch EXCEPT ![i] = "none"] /\ UNCHANGED wg
       \/ Fill(i, "url", TRUE) /\ Proceed(i, "asking")

Parse(i) ==
    /\ fetch[i] = "parsing"
    /\ \/ Fill(i, "err", TRUE) /\ Finish(i)
       \/ Fill(i, "url", TRUE) /\ Proceed(i, "asking")

\* http.NewRequest and ctxhttp.Do.
Do(i) ==
    /\ fetch[i] = "asking"
    /\ \/ Fill(i, "err", TRUE) /\ Finish(i)
       \/ \E s \in Statuses : Fill(i, "status", s) /\ Proceed(i, "reading")

ReadAll(i) ==
    /\ fetch[i] = "reading"
    /\ \/ Fill(i, "err", TRUE)
       \/ \E b \in Bodies : Fill(i, "data", b)
    /\ Finish(i)

Fetch(i) == Parse(i) \/ Do(i) \/ ReadAll(i)

\* wg.Wait returns to the caller of GetAll.
Joined(n) == wg = 0

FetchTypeOK ==
    /\ resp \in [Urls -> [url : BOOLEAN, err : BOOLEAN,
                          status : Statuses \cup {0}, data : Bodies]]
    /\ fetch \in [Urls -> {"none", "parsing", "asking", "reading"}]
    /\ wg \in 0 .. MaxUrls
=============================================================================
