-------------------------------- MODULE Pages --------------------------------
(***************************************************************************)
(* The row of one page (a key of a site) and the requests that create,     *)
(* count, edit, title and delete it, with the two cache keys of the page.  *)
(*                                                                         *)
(* Every worker makes one request.  A request is a sequence of steps, each *)
(* one SQL statement, one cache call or one entry to or exit from a        *)
(* singleflight group, whose members share the leader's result.            *)
(***************************************************************************)
EXTENDS Integers, FiniteSets

CONSTANTS
    Workers,  \* requests
    Kinds,    \* the combinations of requests to consider
    MaxId,    \* bound on the rows
    Titles,   \* titles that editors enter and that the network returns
    Blank,    \* the empty title
    Miss,     \* not cached
    None      \* nobody

ASSUME PagesAssumption ==
    /\ Kinds \subseteq [Workers -> {"none", "view", "comment", "edit", "auto", "fetch", "delete"}]
    /\ MaxId \in Nat \ {0} /\ Blank \notin Titles /\ None \notin Workers
    /\ IsFiniteSet(Workers)

Ids == 1..MaxId
Counts == 0..Cardinality(Workers)
Title == Titles \cup {Blank}

(* A page struct; id 0 is the empty one.                                   *)
Page == [id : 0..MaxId, title : Title, pv : Counts]
Empty == [id |-> 0, title |-> Blank, pv |-> 0]

ASSUME MissAssumption == Miss \notin Page

VARIABLES
    kind,     \* what every worker requests ("none": nothing)
    cached,   \* cache.enabled
    expires,  \* whether the time to live of the cached page may end now
    table,    \* rows of the page; id 0 in a row that does not exist
    last,     \* auto-increment
    byKey,    \* cache key page#key;site_name
    byId,     \* cache keys page#id
    query,    \* leader of the singleflight of a lookup by key
    late,     \* history: FindCreateAction was given an answer from before the row was made
    create,   \* leader of the singleflight of FindCreateAction
    lock,     \* owner of the mutex of PagePV
    work,     \* every request: its step, its copy of the page
    counted,  \* history: views counted per row
    gone      \* history: rows that were deleted

pagesVars == <<kind, cached, expires, table, last, byKey, byId, query, late, create, lock, work,
               counted, gone>>
fixed == <<kind, cached, expires>>
store == <<fixed, table, last, counted, gone>>
cache == <<byKey, byId>>

Pc == {"start", "find", "join", "store", "share", "found", "findCreate", "joinCreate", "findIn",
       "joinIn", "storeIn", "shareIn", "foundIn", "insert", "cacheNew", "inc", "net", "setTitle",
       "delete", "uncache", "editDel", "save", "cacheSave", "done"}

PagesTypeOK ==
    /\ kind \in Kinds /\ cached \in BOOLEAN /\ expires \in BOOLEAN
    /\ table \in [Ids -> Page] /\ \A i \in Ids : table[i].id \in {0, i}
    /\ last \in 0..MaxId
    /\ byKey \in Page \cup {Miss}
    /\ byId \in [Ids -> Page \cup {Miss}]
    /\ {query, create, lock} \subseteq Workers \cup {None}
    /\ work \in [Workers -> [pc : Pc, page : Page]]
    /\ counted \in [Ids -> Counts] /\ gone \subseteq Ids /\ late \in BOOLEAN

(* The page exists already, or not.                                        *)
PagesInit ==
    /\ kind \in Kinds /\ cached \in BOOLEAN /\ expires \in {FALSE, cached}
    /\ \E n \in {0, 1} :
         /\ last = n
         /\ table = [i \in Ids |-> IF i <= n THEN [id |-> i, title |-> Blank, pv |-> 0]
                                             ELSE Empty]
    /\ byKey = Miss /\ byId = [i \in Ids |-> Miss]
    /\ query = None /\ late = FALSE /\ create = None /\ lock = None
    /\ work = [w \in Workers |-> [pc |-> "start", page |-> Empty]]
    /\ counted = [i \in Ids |-> 0] /\ gone = {}

Alive == {i \in Ids : table[i].id # 0}
First == IF Alive = {} THEN Empty ELSE table[CHOOSE i \in Alive : \A j \in Alive : i <= j]

At(w, pc) == work[w].pc = pc
Moves(w, pc) == work' = [work EXCEPT ![w].pc = pc]
With(w, pc, p) == work' = [work EXCEPT ![w] = [pc |-> pc, page |-> p]]
Saved(p) ==
    IF cached THEN byKey' = p /\ byId' = [byId EXCEPT ![p.id] = p] ELSE UNCHANGED cache
Dropped(p) == byKey' = Miss /\ byId' = [byId EXCEPT ![p.id] = Miss]

-----------------------------------------------------------------------------
(* PagePV takes the mutex of the key first; CommentCreate does not.        *)
Begin(w) ==
    /\ At(w, "start") /\ kind[w] \in {"view", "comment"}
    /\ IF kind[w] = "view" THEN lock = None /\ lock' = w ELSE UNCHANGED lock
    /\ Moves(w, "find")
    /\ UNCHANGED <<store, cache, query, late, create>>

End(w) == Moves(w, "done") /\ lock' = IF lock = w THEN None ELSE lock

(* FindPage, called by the request ("find") or in FindCreatePage           *)
(* ("findIn"): a lookup under way is joined, with the cache on or off;     *)
(* else this one leads, with the cached page or a query.  Only a query     *)
(* that the cache has missed is stored.                                    *)
Join(pc) == IF pc = "find" THEN "join" ELSE "joinIn"
Store(pc) == IF pc = "find" THEN "store" ELSE "storeIn"
Share(pc) == IF pc = "find" THEN "share" ELSE "shareIn"
Found(pc) == IF pc \in {"join", "store", "share"} THEN "found" ELSE "foundIn"

FindPage(w) ==
    /\ work[w].pc \in {"find", "findIn"}
    /\ \/ /\ query # None
          /\ Moves(w, Join(work[w].pc))
          /\ late' = (late \/ (At(w, "findIn") /\ Alive # {} /\ work[query].page.id = 0))
          /\ UNCHANGED query
       \/ /\ query = None
          /\ IF cached /\ byKey = Miss THEN With(w, Store(work[w].pc), First)
             ELSE With(w, Share(work[w].pc), IF cached THEN byKey ELSE First)
          /\ query' = w
          /\ UNCHANGED late
    /\ UNCHANGED <<store, cache, create, lock>>

StoreFound(w) ==
    /\ work[w].pc \in {"store", "storeIn", "share", "shareIn"}
    /\ byKey' = IF work[w].pc \in {"store", "storeIn"} THEN work[w].page ELSE byKey
    /\ query' = None
    /\ work' = [x \in Workers |->
         IF x = w \/ work[x].pc \in {"join", "joinIn"}
         THEN [pc |-> Found(work[x].pc), page |-> work[w].page] ELSE work[x]]
    /\ UNCHANGED <<store, byId, late, create, lock>>

(* PagePV creates a missing page if the creation limit allows it;          *)
(* CommentCreate may be rejected, else it goes on to FindCreatePage.       *)
AfterFind(w) ==
    /\ At(w, "found")
    /\ IF kind[w] = "view" /\ work[w].page.id # 0
       THEN Moves(w, "inc") /\ UNCHANGED lock
       ELSE (Moves(w, "findCreate") /\ UNCHANGED lock) \/ End(w)
    /\ UNCHANGED <<store, cache, query, late, create>>

(* FindCreateAction: one leader finds or creates, the others wait.         *)
FindCreatePage_NoGroup(w) ==
    /\ At(w, "findCreate")
    /\ Moves(w, "findIn")
    /\ UNCHANGED <<store, cache, query, late, create, lock>>
FindCreatePage(w) ==
    /\ At(w, "findCreate")
    /\ IF create = None THEN Moves(w, "findIn") /\ create' = w
       ELSE Moves(w, "joinCreate") /\ UNCHANGED create
    /\ UNCHANGED <<store, cache, query, late, lock>>

Shared(w, p) ==
    /\ create' = None
    /\ work' = [x \in Workers |->
         IF x = w \/ At(x, "joinCreate")
         THEN [pc |-> IF kind[x] = "view" THEN "inc" ELSE "done", page |-> p] ELSE work[x]]

AfterFindIn(w) ==
    /\ At(w, "foundIn")
    /\ IF work[w].page.id # 0 THEN Shared(w, work[w].page)
       ELSE Moves(w, "insert") /\ UNCHANGED create
    /\ UNCHANGED <<store, cache, query, late, lock>>

CreatePage(w) ==
    /\ At(w, "insert") /\ last < MaxId
    /\ last' = last + 1
    /\ table' = [table EXCEPT ![last + 1] = [id |-> last + 1, title |-> Blank, pv |-> 0]]
    /\ With(w, "cacheNew", table'[last + 1])
    /\ UNCHANGED <<fixed, counted, gone, cache, query, late, create, lock>>

CacheNew(w) ==
    /\ At(w, "cacheNew")
    /\ Saved(work[w].page)
    /\ Shared(w, work[w].page)
    /\ UNCHANGED <<store, query, late, lock>>

(* IncrementPagePV: an atomic update, then the cache keys are deleted.     *)
IncrementPagePV_Down(w) ==
    LET p == work[w].page IN
    /\ At(w, "inc")
    /\ IF p.id \in Alive
       THEN /\ table' = [table EXCEPT ![p.id].pv = @ - 1]
            /\ counted' = [counted EXCEPT ![p.id] = @ + 1]
       ELSE UNCHANGED <<table, counted>>
    /\ Moves(w, "uncache")
    /\ UNCHANGED <<fixed, last, gone, cache, query, late, create, lock>>
IncrementPagePV(w) ==
    LET p == work[w].page IN
    /\ At(w, "inc")
    /\ IF p.id \in Alive
       THEN /\ table' = [table EXCEPT ![p.id].pv = @ + 1]
            /\ counted' = [counted EXCEPT ![p.id] = @ + 1]
       ELSE UNCHANGED <<table, counted>>
    /\ Moves(w, "uncache")
    /\ UNCHANGED <<fixed, last, gone, cache, query, late, create, lock>>

Uncache_KeepsLock(w) ==
    /\ At(w, "uncache")
    /\ Dropped(work[w].page)
    /\ Moves(w, "done")
    /\ UNCHANGED <<store, query, late, create, lock>>
Uncache(w) ==
    /\ At(w, "uncache")
    /\ Dropped(work[w].page)
    /\ End(w)
    /\ UNCHANGED <<store, query, late, create>>

-----------------------------------------------------------------------------
(* Requests about a page found by its id.  This lookup comes first in its  *)
(* request: one that joins another is as if it had begun with that one.    *)
FindPageByID(i) == IF byId[i] # Miss THEN byId[i] ELSE table[i]
Filled(i) == IF cached THEN byId' = [byId EXCEPT ![i] = FindPageByID(i)] ELSE UNCHANGED byId

(* autoFetchPageTitle stops when the page has a title.                     *)
Open(w, i) ==
    LET p == FindPageByID(i)
        pc == CASE kind[w] = "edit" -> "editDel" [] kind[w] = "delete" -> "delete"
                [] OTHER -> "net"
    IN /\ At(w, "start") /\ kind[w] \in {"edit", "delete", "fetch", "auto"}
       /\ IF p.id = 0 \/ (kind[w] = "auto" /\ p.title # Blank)
          THEN Moves(w, "done") ELSE With(w, pc, p)
       /\ Filled(i)
       /\ UNCHANGED <<store, byKey, query, late, create, lock>>

(* PageUpdate: the cache keys are deleted, the whole row is saved from the *)
(* copy (a deleted row is inserted again), the copy is cached.             *)
EditDel(w) ==
    /\ At(w, "editDel")
    /\ Dropped(work[w].page)
    /\ Moves(w, "save")
    /\ UNCHANGED <<store, query, late, create, lock>>

UpdatePage(w, t) ==
    LET p == [work[w].page EXCEPT !.title = t] IN
    /\ At(w, "save")
    /\ table' = [table EXCEPT ![p.id] = p]
    /\ With(w, "cacheSave", p)
    /\ UNCHANGED <<fixed, last, counted, gone, cache, query, late, create, lock>>

CacheSave(w) ==
    /\ At(w, "cacheSave")
    /\ Saved(work[w].page)
    /\ End(w)
    /\ UNCHANGED <<store, query, late, create>>

(* fetchPageFromURL: the network, then an update of the title alone; by    *)
(* the automatic job only where it is still empty.                         *)
FetchTitle(w, t) ==
    /\ At(w, "net")
    /\ With(w, IF t = Blank THEN "done" ELSE "setTitle", [work[w].page EXCEPT !.title = t])
    /\ UNCHANGED <<store, cache, query, late, create, lock>>

SetTitle_Save(w) ==
    LET p == work[w].page IN
    /\ At(w, "setTitle")
    /\ table' = [table EXCEPT ![p.id] = p]
    /\ Moves(w, "uncache")
    /\ UNCHANGED <<fixed, last, counted, gone, cache, query, late, create, lock>>
SetTitle(w) ==
    LET p == work[w].page IN
    /\ At(w, "setTitle")
    /\ table' = IF p.id \in Alive /\ (kind[w] = "auto" => table[p.id].title = Blank)
                THEN [table EXCEPT ![p.id].title = p.title] ELSE table
    /\ Moves(w, "uncache")
    /\ UNCHANGED <<fixed, last, counted, gone, cache, query, late, create, lock>>

(* DelPage: the row, then the cache keys.                                  *)
DelPage(w) ==
    /\ At(w, "delete")
    /\ table' = [table EXCEPT ![work[w].page.id] = Empty]
    /\ gone' = gone \cup {work[w].page.id}
    /\ Moves(w, "uncache")
    /\ UNCHANGED <<fixed, last, counted, cache, query, late, create, lock>>

-----------------------------------------------------------------------------
Step(w) ==
    \/ Begin(w) \/ FindPage(w) \/ StoreFound(w) \/ AfterFind(w) \/ FindCreatePage(w)
    \/ AfterFindIn(w) \/ CreatePage(w) \/ CacheNew(w) \/ IncrementPagePV(w) \/ Uncache(w)
    \/ (\E i \in Ids : Open(w, i)) \/ EditDel(w) \/ CacheSave(w) \/ SetTitle(w) \/ DelPage(w)
    \/ (\E t \in Titles : UpdatePage(w, t)) \/ (\E t \in Title : FetchTitle(w, t))

(* The time to live of the cached page ends.                               *)
Expire ==
    /\ expires /\ byKey # Miss
    /\ byKey' = Miss
    /\ UNCHANGED <<store, byId, query, late, create, lock, work>>

PagesNext == Expire \/ \E w \in Workers : Step(w)

PagesSpec == PagesInit /\ [][PagesNext]_pagesVars

-----------------------------------------------------------------------------
(* Properties.                                                             *)

Unmade(k) == \A w \in Workers : kind[w] # k

(* However many requests find the page missing, only one row is created    *)
(* for it, with the cache on or off: FindCreateAction and the mutex of     *)
(* PagePV, as long as nobody deletes the page, no cached answer expires    *)
(* between their steps, and the lookup of FindCreateAction does not join   *)
(* an older one, which began before the row was made and found nothing.    *)
OnePageRow == Unmade("delete") /\ ~ expires /\ ~ late => Cardinality(Alive) <= 1

(* No view is lost or counted twice: the column pv of every row is the     *)
(* number of increments made on it, though titles are fetched and the page *)
(* is deleted; an edit may save an old count.                              *)
ViewsKept == Unmade("edit") => \A i \in Alive : table[i].pv = counted[i]

(* A deleted page does not come back under its id, although views and      *)
(* title fetches that found it earlier are still under way.                *)
NeverRevived == Unmade("edit") => Alive \cap gone = {}

(* The automatic title discovery never replaces a title that was set while *)
(* its network request was under way.                                      *)
TitleKept ==
    \A i \in Alive : table[i].title # Blank /\ table'[i].title # table[i].title =>
       \E w \in Workers : work[w] # work'[w] /\ kind[w] # "auto"

(* What is stored of a page survives whatever is under way: no step loses  *)
(* a view, brings a deleted page back or discovers over a title.           *)
RowKept == [][ViewsKept' /\ NeverRevived' /\ TitleKept]_pagesVars

(* While a request is unfinished some request can go on: nobody waits for  *)
(* a mutex or for the leader of a group that will never let go.            *)
NoneStuck ==
    (\E w \in Workers : kind[w] # "none" /\ ~ At(w, "done"))
        => ENABLED (\E w \in Workers : Step(w))

(* The page is one row.                                                    *)
PagesSound == PagesTypeOK /\ OnePageRow

(* query_find_create.go: "only one goroutine can perform the find or       *)
(* create operation for a given key at a time ... to prevent duplicate     *)
(* operations": there is only one row of the page, always.                 *)
NoDuplicate == Cardinality(Alive) <= 1
=============================================================================
