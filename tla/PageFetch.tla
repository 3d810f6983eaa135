----------------------------- MODULE PageFetch -----------------------------
(***************************************************************************)
(* The fetching of page titles (internal/dao/page_fetch.go, service.go):   *)
(* by the job of a new comment, within the limits of pageFetchLimiter; by  *)
(* an administrator for one page; and by the batch over all pages, of      *)
(* which there is one at a time (server/handler/page_fetch_*.go).          *)
(*                                                                         *)
(* A page stands for its accessible URL.  Other servers answer as they     *)
(* like, or not at all; what a title does to the row of its page is in     *)
(* module Pages.  Time is counted down: wait to the next automatic start,  *)
(* left to the end of a fetch.                                             *)
(***************************************************************************)
EXTENDS Integers, FiniteSets

CONSTANTS
    Fetchers,       \* fetches that may be under way at the same time
    URLs, Origins,
    Origin,         \* the origin of every URL
    OriginSets,     \* what the settings and the sites may name
    MaxRedirects,   \* pageFetchMaxRedirects
    MaxConcurrent,  \* pageFetchMaxConcurrent
    Interval,       \* pageFetchInterval, in ticks
    Timeout,        \* pageFetchTimeout, in ticks
    MaxEdits        \* bound: changes of the trusted origins

ASSUME FetchAssumption ==
    /\ IsFiniteSet(URLs) /\ Origin \in [URLs -> Origins] /\ OriginSets \subseteq SUBSET Origins
    /\ MaxRedirects \in Nat /\ MaxConcurrent \in Nat
    /\ Interval \in Nat \ {0} /\ Timeout \in Nat \ {0} /\ MaxEdits \in Nat

VARIABLES
    trusted,        \* TrustedOrigins: what the settings and the sites name
    edits,          \* changes of it so far
    active,         \* pageFetchLimiter.active
    wait,           \* time to pageFetchLimiter.nextStart
    running, done, total,           \* allPageFetch
    at,             \* where every fetch is
    fetchKind,           \* what began it
    page, asks, origins, hops, left,  \* its page, its request, its limits
    todo            \* pages before the batch

status == <<running, done, total>>
fetch == <<asks, origins, hops, left>>
fetchVars == <<trusted, edits, active, wait, status, at, fetchKind, page, fetch, todo>>

Places == {"idle", "acquire", "sent", "list", "next"}

FetchTypeOK ==
    /\ trusted \in OriginSets /\ edits \in 0..MaxEdits
    /\ active \subseteq URLs /\ wait \in 0..Interval
    /\ running \in BOOLEAN /\ done \in Nat /\ total \in Nat
    /\ at \in [Fetchers -> Places] /\ fetchKind \in [Fetchers -> {"auto", "manual", "batch"}]
    /\ page \in [Fetchers -> URLs] /\ asks \in [Fetchers -> URLs]
    /\ origins \in [Fetchers -> SUBSET Origins]
    /\ hops \in [Fetchers -> Nat] /\ left \in [Fetchers -> 0..Timeout]
    /\ todo \subseteq URLs

FetchInit ==
    /\ trusted \in OriginSets /\ edits = 0
    /\ active = {} /\ wait = 0
    /\ running = FALSE /\ done = 0 /\ total = 0
    /\ at = [w \in Fetchers |-> "idle"] /\ fetchKind = [w \in Fetchers |-> "manual"]
    /\ page = [w \in Fetchers |-> CHOOSE u \in URLs : TRUE] /\ asks = page
    /\ origins = [w \in Fetchers |-> {}]
    /\ hops = [w \in Fetchers |-> 0] /\ left = [w \in Fetchers |-> 0]
    /\ todo = {}

GoesTo(w, p) == at' = [at EXCEPT ![w] = p]
Is(w, k) == fetchKind' = [fetchKind EXCEPT ![w] = k]

(* A fetch that has ended leaves nothing behind.                           *)
Forget(w) ==
    /\ GoesTo(w, "idle")
    /\ asks' = [asks EXCEPT ![w] = page[w]] /\ origins' = [origins EXCEPT ![w] = {}]
    /\ hops' = [hops EXCEPT ![w] = 0] /\ left' = [left EXCEPT ![w] = 0]
    /\ UNCHANGED <<trusted, edits, wait, fetchKind, page>>

-----------------------------------------------------------------------------
(* The end of a fetch                                                      *)

finish(w) == running' = FALSE /\ Forget(w) /\ UNCHANGED <<active, done, total, todo>>

(* release is deferred: whatever the fetch came to.                        *)
release_OnTitle(w, titled) ==
    /\ active' = IF titled THEN active \ {page[w]} ELSE active
    /\ Forget(w) /\ UNCHANGED <<status, todo>>
release(w, titled) ==
    /\ active' = active \ {page[w]}
    /\ Forget(w) /\ UNCHANGED <<status, todo>>

(* A page that cannot be fetched does not count; the batch goes on.        *)
progress(w, titled) ==
    /\ done' = IF titled THEN done + 1 ELSE done
    /\ GoesTo(w, "next")
    /\ UNCHANGED <<trusted, edits, active, wait, running, total, fetchKind, page, fetch, todo>>

Ends(w, titled) ==
    \/ fetchKind[w] = "auto" /\ release(w, titled)
    \/ fetchKind[w] = "manual" /\ Forget(w) /\ UNCHANGED <<active, status, todo>>
    \/ fetchKind[w] = "batch" /\ progress(w, titled)

-----------------------------------------------------------------------------
(* One fetch: fetchPageFromURL and fetchPageTitle                          *)

checkPageURL(u, S) == Origin[u] \in S

(* The trusted origins are read when the fetch begins, and not again; the  *)
(* first URL is checked when the request is made.                          *)
fetchPageFromURL(w, u) ==
    /\ page' = [page EXCEPT ![w] = u] /\ asks' = [asks EXCEPT ![w] = u]
    /\ origins' = [origins EXCEPT ![w] = trusted]
    /\ hops' = [hops EXCEPT ![w] = 0] /\ left' = [left EXCEPT ![w] = Timeout]
    /\ GoesTo(w, "sent")
    /\ UNCHANGED <<trusted, edits>>

(* A page that is not to be asked, a server that has not answered in time. *)
Fails(w) ==
    /\ at[w] = "sent" /\ (~ checkPageURL(asks[w], origins[w]) \/ left[w] = 0)
    /\ Ends(w, FALSE)

Asked(w) == at[w] = "sent" /\ checkPageURL(asks[w], origins[w]) /\ left[w] > 0

(* A redirect of the protocol, or a page that refers to another: there is  *)
(* one budget for both, and each is checked before it is followed.         *)
checkRedirect_Unchecked(w, u) ==
    /\ Asked(w)
    /\ IF hops[w] + 1 > MaxRedirects
       THEN Ends(w, FALSE)
       ELSE /\ hops' = [hops EXCEPT ![w] = @ + 1] /\ asks' = [asks EXCEPT ![w] = u]
            /\ UNCHANGED <<trusted, edits, active, wait, status, at, fetchKind, page, origins, left,
                           todo>>
checkRedirect(w, u) ==
    /\ Asked(w)
    /\ IF hops[w] + 1 > MaxRedirects \/ ~checkPageURL(u, origins[w])
       THEN Ends(w, FALSE)
       ELSE /\ hops' = [hops EXCEPT ![w] = @ + 1] /\ asks' = [asks EXCEPT ![w] = u]
            /\ UNCHANGED <<trusted, edits, active, wait, status, at, fetchKind, page, origins, left,
                           todo>>

(* A title, none, which is no error, or an error: of the answer, or of the *)
(* update of the row.                                                      *)
Answer(w) == Asked(w) /\ \E titled \in BOOLEAN : Ends(w, titled)

-----------------------------------------------------------------------------
(* Automatic fetches.  TryFetchPageFromURL looks at the origin before it   *)
(* asks for a place; who finds the limiter busy leaves the title as it is. *)
TryFetchPageFromURL(w, u) ==
    /\ at[w] = "idle" /\ checkPageURL(u, trusted)
    /\ GoesTo(w, "acquire") /\ Is(w, "auto")
    /\ page' = [page EXCEPT ![w] = u] /\ asks' = [asks EXCEPT ![w] = u]
    /\ UNCHANGED <<trusted, edits, active, wait, status, origins, hops, left, todo>>

Busy_Late(u) == wait > 0 \/ Cardinality(active) > MaxConcurrent \/ u \in active
Busy(u) == wait > 0 \/ Cardinality(active) >= MaxConcurrent \/ u \in active

acquire(w) ==
    /\ at[w] = "acquire"
    /\ IF Busy(page[w]) THEN Forget(w) /\ UNCHANGED active
       ELSE /\ active' = active \cup {page[w]} /\ wait' = Interval
            /\ fetchPageFromURL(w, page[w]) /\ UNCHANGED fetchKind
    /\ UNCHANGED <<status, todo>>

(* The request of an administrator, for one page.                          *)
PageFetchOne(w, u) ==
    /\ at[w] = "idle"
    /\ Is(w, "manual") /\ fetchPageFromURL(w, u)
    /\ UNCHANGED <<active, wait, status, todo>>

-----------------------------------------------------------------------------
(* The batch                                                               *)

start_Unchecked == running' = TRUE /\ done' = 0 /\ total' = 0
start == ~running /\ running' = TRUE /\ done' = 0 /\ total' = 0

PageFetchAll(w) ==
    /\ at[w] = "idle"
    /\ start
    /\ GoesTo(w, "list") /\ Is(w, "batch")
    /\ UNCHANGED <<trusted, edits, active, wait, page, fetch, todo>>

(* The pages of all sites or of one; or the list cannot be read.           *)
ListPages(w, S) ==
    /\ at[w] = "list"
    /\ todo' = S /\ done' = 0 /\ total' = Cardinality(S)
    /\ GoesTo(w, "next")
    /\ UNCHANGED <<trusted, edits, active, wait, running, fetchKind, page, fetch>>

ListFails(w) == at[w] = "list" /\ finish(w)

NextPage(w) ==
    /\ at[w] = "next"
    /\ \/ todo = {} /\ finish(w)
       \/ \E u \in todo :
            /\ todo' = todo \ {u}
            /\ fetchPageFromURL(w, u)
            /\ UNCHANGED <<active, wait, status, fetchKind>>

-----------------------------------------------------------------------------
(* Sites and settings change; time passes.                                 *)
EditOrigins(S) ==
    /\ edits < MaxEdits /\ S # trusted
    /\ trusted' = S /\ edits' = edits + 1
    /\ UNCHANGED <<active, wait, status, at, fetchKind, page, fetch, todo>>

Less(n) == IF n > 0 THEN n - 1 ELSE 0
FetchTick ==
    /\ wait' = Less(wait)
    /\ left' = [w \in Fetchers |-> Less(left[w])]
    /\ UNCHANGED <<trusted, edits, active, status, at, fetchKind, page, asks, origins, hops, todo>>

Own(w) == acquire(w) \/ Fails(w) \/ NextPage(w) \/ ListPages(w, URLs) \/ ListFails(w)
Answered(w) == Answer(w) \/ \E u \in URLs : checkRedirect(w, u) \/ ListPages(w, {u})
Sends(w) == PageFetchAll(w) \/ \E u \in URLs : TryFetchPageFromURL(w, u) \/ PageFetchOne(w, u)

FetchNext ==
    \/ \E w \in Fetchers : Own(w) \/ Answered(w) \/ Sends(w)
    \/ \E S \in OriginSets : EditOrigins(S)
    \/ FetchTick

(* Goroutines go on, and time does; other servers owe nothing.             *)
FetchFairness == WF_fetchVars(FetchTick) /\ \A w \in Fetchers : WF_fetchVars(Own(w))

FetchSpec == FetchInit /\ [][FetchNext]_fetchVars /\ FetchFairness

-----------------------------------------------------------------------------
(* The pages that automatic fetches are fetching now.                      *)
Holding(w) == fetchKind[w] = "auto" /\ at[w] = "sent"
Held == {page[w] : w \in {v \in Fetchers : Holding(v)}}

(* Whatever servers answer: a fetch that follows redirects asks only       *)
(* origins that were trusted when it began, and follows no more than the   *)
(* budget, however redirects of both kinds mix.                            *)
OnlyTrusted ==
    \A w \in Fetchers : at[w] = "sent" /\ hops[w] > 0 =>
        checkPageURL(asks[w], origins[w]) /\ hops[w] <= MaxRedirects

(* There is one batch at a time; the status tells whether it runs, and     *)
(* never of more pages done than it has begun.                             *)
Batches == {w \in Fetchers : fetchKind[w] = "batch" /\ at[w] # "idle"}
StatusTrue ==
    /\ \A v, w \in Batches : v = w
    /\ running = (Batches # {})
    /\ \A w \in Batches : at[w] # "list" =>
          done + Cardinality(todo) + (IF at[w] = "sent" THEN 1 ELSE 0) <= total

FetchSound == FetchTypeOK /\ OnlyTrusted /\ StatusTrue

(* The limiter keeps what FetchSlots promises of the fetches that really   *)
(* run: at most MaxConcurrent, one of a URL, starts Interval apart.        *)
Slots == INSTANCE FetchSlots WITH running <- Held, since <- Interval - wait
SlotsKept == Slots!Spec

(* A server that never answers holds up neither the batch nor a place of   *)
(* the limiter for ever.                                                   *)
FetchesEnd ==
    /\ running ~> ~running
    /\ \A u \in URLs : u \in active ~> u \notin active
=============================================================================
