------------------------------- MODULE Sites -------------------------------
(***************************************************************************)
(* Sites (server/handler/site_*.go, server/common/site.go, and the DAO):   *)
(* pages and comments name their site, so a rename goes through all rows;  *)
(* sites are cached by name and by id, and pages by key and name of site.  *)
(* Names of sites are unique in the database.                              *)
(*                                                                         *)
(* All sites have one page, with the same key; a row stands for the page   *)
(* and its comments, which are renamed and deleted in the same way.        *)
(***************************************************************************)
EXTENDS Integers

CONSTANTS
    Admins,       \* requests that may be under way at the same time
    Names,
    MaxSites,     \* bound on the rows of sites
    MaxPageRows,  \* bound on the rows of pages
    MaxRequests,  \* bound on the requests
    Uncached,
    NoName        \* the empty name

ASSUME SitesAssumption ==
    /\ MaxSites \in Nat \ {0} /\ MaxPageRows \in Nat /\ MaxRequests \in Nat
    /\ Uncached \notin Names /\ NoName \notin Names

SiteIds == 1..MaxSites
PageIds == 1..MaxPageRows

VARIABLES
    sites,      \* the name of every row of sites, NoName if there is none
    lastSite,   \* auto-increment
    pages,      \* the name of the site in every row of pages
    lastPage,
    bySiteName,     \* cache keys site#name: a site
    bySiteId,       \* cache keys site#id: a site
    pageBy,     \* cache keys page#key;site_name: the id of a page, 0 if empty
    works,      \* every request: where it is, its copy of the site, its argument
    requests,   \* requests so far
    made,       \* history: the site for which every page was created
    renamed,    \* history: names that a rename has given up
    muddled     \* history: changes overlapped, or a name was used again

tables == <<sites, lastSite, pages, lastPage, made>>
caches == <<bySiteName, bySiteId, pageBy>>
sitesVars == <<tables, caches, works, requests, renamed, muddled>>

(* The struct of a site, or the empty one; a request names it by its id.   *)
EmptySite == [id |-> 0, name |-> NoName]
Site == [id : SiteIds, name : Names] \cup {EmptySite}
AskedSite == [id : SiteIds, name : {NoName}]
NoWork == [at |-> "idle", site |-> EmptySite, name |-> NoName, todo |-> {}]
SitePlaces == {"idle", "create", "insert", "rename", "exists", "uncache", "list", "rows", "save",
        "delete", "delRow", "delList", "delPages", "delCache", "comment", "page"}

SitesTypeOK ==
    /\ sites \in [SiteIds -> Names \cup {NoName}] /\ lastSite \in 0..MaxSites
    /\ pages \in [PageIds -> Names \cup {NoName}] /\ lastPage \in 0..MaxPageRows
    /\ bySiteName \in [Names -> Site \cup {Uncached}]
    /\ bySiteId \in [SiteIds -> Site \cup {Uncached}]
    /\ pageBy \in [Names -> 0..MaxPageRows \cup {Uncached}]
    /\ works \in [Admins -> [at : SitePlaces, site : Site \cup AskedSite,
                             name : Names \cup {NoName}, todo : SUBSET PageIds]]
    /\ requests \in 0..MaxRequests /\ made \in [PageIds -> 0..MaxSites]
    /\ renamed \subseteq Names /\ muddled \in BOOLEAN

SitesInit ==
    /\ \E n \in Names : sites = [i \in SiteIds |-> IF i = 1 THEN n ELSE NoName]
    /\ lastSite = 1 /\ lastPage = 0 /\ requests = 0
    /\ pages = [p \in PageIds |-> NoName] /\ made = [p \in PageIds |-> 0]
    /\ bySiteName = [n \in Names |-> Uncached] /\ bySiteId = [i \in SiteIds |-> Uncached]
    /\ pageBy = [n \in Names |-> Uncached]
    /\ works = [w \in Admins |-> NoWork]
    /\ renamed = {} /\ muddled = FALSE

RowOf(i) == IF sites[i] = NoName THEN EmptySite ELSE [id |-> i, name |-> sites[i]]
RowNamed(n) ==
    IF \E i \in SiteIds : sites[i] = n
    THEN [id |-> CHOOSE i \in SiteIds : sites[i] = n, name |-> n] ELSE EmptySite

FindSite(n) == IF bySiteName[n] # Uncached THEN bySiteName[n] ELSE RowNamed(n)
FindSiteByID(i) == IF bySiteId[i] # Uncached THEN bySiteId[i] ELSE RowOf(i)
FilledName(n) ==
    bySiteName' = [bySiteName EXCEPT ![n] = FindSite(n)] /\ UNCHANGED <<bySiteId, pageBy>>
FilledId(i) ==
    bySiteId' = [bySiteId EXCEPT ![i] = FindSiteByID(i)] /\ UNCHANGED <<bySiteName, pageBy>>

SiteCacheSave(s) ==
    /\ bySiteId' = [bySiteId EXCEPT ![s.id] = s] /\ bySiteName' = [bySiteName EXCEPT ![s.name] = s]
    /\ UNCHANGED pageBy
SiteCacheDel(s) ==
    /\ bySiteId' = [bySiteId EXCEPT ![s.id] = Uncached]
    /\ bySiteName' = [bySiteName EXCEPT ![s.name] = Uncached]
    /\ UNCHANGED pageBy

SiteAt(w, a) == works[w].at = a
SiteGoes(w, a) == works' = [works EXCEPT ![w].at = a]
Leaves(w) == works' = [works EXCEPT ![w] = NoWork]
History == <<requests, renamed, muddled>>
PagesOf(n) == {p \in PageIds : pages[p] = n}

-----------------------------------------------------------------------------
(* A request begins.  Changes of sites that overlap are remembered: they   *)
(* may leave rows behind (see the properties).                             *)
SiteBegins(w, a, s, n) ==
    /\ SiteAt(w, "idle") /\ requests < MaxRequests
    /\ works' = [works EXCEPT ![w] = [NoWork EXCEPT !.at = a, !.site = s, !.name = n]]
    /\ requests' = requests + 1
    /\ muddled' =
         \/ muddled
         \/ \E v \in Admins : ~SiteAt(v, "idle") /\ {a, works[v].at} \ {"comment", "page"} # {}
         \/ n \in renamed /\ a # "comment"
    /\ UNCHANGED <<tables, caches, renamed>>

SiteRequest(w) ==
    \/ \E n \in Names : SiteBegins(w, "create", EmptySite, n)
    \/ \E n \in Names : SiteBegins(w, "comment", EmptySite, n)
    \/ \E i \in SiteIds, n \in Names : SiteBegins(w, "rename", [id |-> i, name |-> NoName], n)
    \/ \E i \in SiteIds : SiteBegins(w, "delete", [id |-> i, name |-> NoName], NoName)

-----------------------------------------------------------------------------
(* SiteCreate                                                              *)
CheckNew(w) ==
    /\ SiteAt(w, "create")
    /\ FilledName(works[w].name)
    /\ IF FindSite(works[w].name).id # 0 THEN Leaves(w) ELSE SiteGoes(w, "insert")
    /\ UNCHANGED <<tables, History>>

CreateSite(w) ==
    LET n == works[w].name IN
    /\ SiteAt(w, "insert") /\ lastSite < MaxSites
    /\ IF RowNamed(n).id # 0 THEN UNCHANGED <<sites, lastSite, caches>>
       ELSE /\ lastSite' = lastSite + 1 /\ sites' = [sites EXCEPT ![lastSite + 1] = n]
            /\ SiteCacheSave([id |-> lastSite + 1, name |-> n])
    /\ Leaves(w)
    /\ UNCHANGED <<pages, lastPage, made, History>>

-----------------------------------------------------------------------------
(* SiteUpdate and SiteDelete look for the site first.                      *)
FindOld(w) ==
    /\ SiteAt(w, "rename") \/ SiteAt(w, "delete")
    /\ FilledId(works[w].site.id)
    /\ LET s == FindSiteByID(works[w].site.id) IN
       IF s.id = 0 THEN Leaves(w)
       ELSE works' = [works EXCEPT ![w].site = s,
              ![w].at = IF @ = "delete" THEN "delRow"
                        ELSE IF works[w].name # s.name THEN "exists" ELSE "uncache"]
    /\ UNCHANGED <<tables, History>>

CheckName(w) ==
    /\ SiteAt(w, "exists")
    /\ FilledName(works[w].name)
    /\ IF FindSite(works[w].name).id # 0 THEN Leaves(w) ELSE SiteGoes(w, "uncache")
    /\ UNCHANGED <<tables, History>>

(* The cache of the old name must go before the rows change.               *)
UncacheOld_None(w) ==
    /\ SiteAt(w, "uncache")
    /\ SiteGoes(w, IF works[w].name = works[w].site.name THEN "save" ELSE "list")
    /\ UNCHANGED <<tables, caches, History>>
UncacheOld(w) ==
    /\ SiteAt(w, "uncache")
    /\ SiteCacheDel(works[w].site)
    /\ SiteGoes(w, IF works[w].name = works[w].site.name THEN "save" ELSE "list")
    /\ UNCHANGED <<tables, History>>

ListRows(w) ==
    /\ SiteAt(w, "list") \/ SiteAt(w, "delList")
    /\ works' = [works EXCEPT ![w].todo = PagesOf(works[w].site.name),
         ![w].at = IF @ = "list" THEN "rows" ELSE "delPages"]
    /\ UNCHANGED <<tables, caches, History>>

(* Row by row; the page is saved whole, and cached under its new name.     *)
RenameRow(w) ==
    /\ SiteAt(w, "rows")
    /\ IF works[w].todo = {} THEN SiteGoes(w, "save") /\ UNCHANGED <<pages, pageBy>>
       ELSE \E p \in works[w].todo :
              /\ pages' = [pages EXCEPT ![p] = works[w].name]
              /\ pageBy' = [pageBy EXCEPT ![works[w].name] = p]
              /\ works' = [works EXCEPT ![w].todo = @ \ {p}]
    /\ UNCHANGED <<sites, lastSite, lastPage, made, bySiteName, bySiteId, History>>

(* The unique index may refuse the row; the cache is written all the same. *)
UpdateSite(w) ==
    LET s == [works[w].site EXCEPT !.name = works[w].name] IN
    /\ SiteAt(w, "save")
    /\ sites' = IF RowNamed(s.name).id \in {0, s.id}
                THEN [sites EXCEPT ![s.id] = s.name] ELSE sites
    /\ SiteCacheSave(s)
    /\ renamed' = renamed \cup ({works[w].site.name} \ {s.name})
    /\ Leaves(w)
    /\ UNCHANGED <<lastSite, pages, lastPage, made, requests, muddled>>

-----------------------------------------------------------------------------
(* DelSite: the row, then the pages one by one, then the cache.            *)
DelSiteRow(w) ==
    /\ SiteAt(w, "delRow")
    /\ sites' = [sites EXCEPT ![works[w].site.id] = NoName]
    /\ SiteGoes(w, "delList")
    /\ UNCHANGED <<lastSite, pages, lastPage, made, caches, History>>

(* DelPage drops the cache of the page too.                                *)
DelOnePage(w) ==
    /\ SiteAt(w, "delPages")
    /\ IF works[w].todo = {} THEN SiteGoes(w, "delCache") /\ UNCHANGED <<pages, pageBy>>
       ELSE \E p \in works[w].todo :
              /\ pages' = [pages EXCEPT ![p] = NoName]
              /\ pageBy' = [pageBy EXCEPT ![works[w].site.name] = Uncached]
              /\ works' = [works EXCEPT ![w].todo = @ \ {p}]
    /\ UNCHANGED <<sites, lastSite, lastPage, made, bySiteName, bySiteId, History>>

DelSiteCache(w) ==
    /\ SiteAt(w, "delCache")
    /\ SiteCacheDel(works[w].site)
    /\ Leaves(w)
    /\ UNCHANGED <<tables, History>>

-----------------------------------------------------------------------------
(* A comment: CheckSiteExist, then FindCreatePage (in steps in Pages).     *)
CheckSiteExist(w) ==
    /\ SiteAt(w, "comment")
    /\ FilledName(works[w].name)
    /\ LET s == FindSite(works[w].name) IN
       IF s.id = 0 THEN Leaves(w)
       ELSE works' = [works EXCEPT ![w].at = "page", ![w].site = s]
    /\ UNCHANGED <<tables, History>>

CommentPage(w) ==
    LET n == works[w].name IN
    /\ SiteAt(w, "page") /\ lastPage < MaxPageRows
    /\ IF pageBy[n] \notin {0, Uncached} THEN UNCHANGED <<tables, pageBy>>
       ELSE IF pageBy[n] = Uncached /\ PagesOf(n) # {}
       THEN /\ pageBy' = [pageBy EXCEPT ![n] = CHOOSE p \in PagesOf(n) : TRUE]
            /\ UNCHANGED tables
       ELSE /\ lastPage' = lastPage + 1
            /\ pages' = [pages EXCEPT ![lastPage + 1] = n]
            /\ made' = [made EXCEPT ![lastPage + 1] = works[w].site.id]
            /\ pageBy' = [pageBy EXCEPT ![n] = lastPage + 1]
            /\ UNCHANGED <<sites, lastSite>>
    /\ Leaves(w)
    /\ UNCHANGED <<bySiteName, bySiteId, History>>

SiteStep(w) ==
    \/ CheckNew(w) \/ CreateSite(w) \/ FindOld(w) \/ CheckName(w) \/ UncacheOld(w)
    \/ ListRows(w) \/ RenameRow(w) \/ UpdateSite(w) \/ DelSiteRow(w) \/ DelOnePage(w)
    \/ DelSiteCache(w) \/ CheckSiteExist(w) \/ CommentPage(w)

SitesNext == \E w \in Admins : SiteRequest(w) \/ SiteStep(w)
SitesSpec == SitesInit /\ [][SitesNext]_sitesVars

-----------------------------------------------------------------------------
(* Names hold the data together: when nothing is under way, after renames, *)
(* deletions and new sites in any order, every page is a page of the site  *)
(* for which it was created, what the cache says of a name or an id is     *)
(* what the table says, and the page it names for a site is a page of that *)
(* site; unless changes of sites overlapped, or a name came back that a    *)
(* rename had given up (its pages are still cached under it).              *)
PagesRight == \A p \in PageIds : pages[p] # NoName => RowNamed(pages[p]).id = made[p]
CachedRight ==
    /\ \A n \in Names : bySiteName[n] \in {Uncached, RowNamed(n)}
    /\ \A i \in SiteIds : bySiteId[i] \in {Uncached, RowOf(i)}
    /\ \A n \in Names : pageBy[n] # Uncached /\ RowNamed(n).id # 0 =>
          pageBy[n] # 0 /\ pages[pageBy[n]] = n
SitesSound ==
    /\ SitesTypeOK
    /\ ~muddled /\ (\A w \in Admins : SiteAt(w, "idle")) => PagesRight /\ CachedRight
=============================================================================
