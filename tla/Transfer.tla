------------------------------ MODULE Transfer ------------------------------
(***************************************************************************)
(* Export and import of comments (internal/artransfer, the handlers of     *)
(* /transfer/*, the commands export and import).                           *)
(*                                                                         *)
(* An export reads the comments first and then, comment by comment, their  *)
(* users, pages and sites, in no transaction.  An import is one database   *)
(* transaction; a mutex admits one import over HTTP, the command line does *)
(* not take it.  What an import writes is the function Imported below.     *)
(*                                                                         *)
(* A page key is a host, "" in a relative one, and a path.  Users stand    *)
(* for a pair of name and address that differ in more than their case.     *)
(***************************************************************************)
EXTENDS Integers, Sequences, FiniteSets, SequencesExt

CONSTANTS
    Clients,   \* requests to import or to export, one each
    Tables,    \* databases to start from
    Files,     \* the lists of comments that each client may bring
    Params,    \* parameters of an import
    Nobody     \* the mutex is free

VARIABLES
    db,        \* the tables
    exported,  \* files that exports have written
    importing, \* TransferImport's mutex
    job,       \* state of every client
    calm       \* history: nobody wrote since the export of a client began

transferVars == <<db, exported, importing, job, calm>>

NoKey == [host |-> "", path |-> ""]

(* The strings of an Artran that are empty or missing are "" or 0.         *)
Artran == [id : Nat, rid : Nat, site : STRING, urls : Seq(STRING), key : [host : STRING,
           path : STRING], title : STRING, admin : BOOLEAN, nick : STRING, badge : STRING,
           up : Int, down : Int, created : Nat]
Comment == [id : Nat, rid : Nat, root : Nat, site : STRING, key : [host : STRING,
            path : STRING], user : STRING, up : Int, down : Int, created : Nat]

NoJob == [pc |-> "idle", list |-> <<>>, par |-> <<>>, todo |-> <<>>,
         pages |-> <<>>]

TransferTypeOK ==
    /\ DOMAIN db.sites \subseteq STRING /\ DOMAIN db.users \subseteq STRING
    /\ \A k \in DOMAIN db.pages : db.pages[k] \in [title : STRING, admin : BOOLEAN]
    /\ db.comments \subseteq Comment
    /\ \A v \in db.votes : v.type \in {"up", "down"} /\ v.no \in Nat \ {0}
    /\ importing \in Clients \cup {Nobody}
    /\ \A c \in Clients : job[c].pc \in {"idle", "read", "commit", "export", "done", "failed"}
    /\ \A c \in Clients : job[c].list \in Seq(Artran)

TransferInit ==
    /\ db \in Tables
    /\ exported = {}
    /\ importing = Nobody
    /\ job = [c \in Clients |-> NoJob]
    /\ calm = [c \in Clients |-> FALSE]

-----------------------------------------------------------------------------
(* What an import does with a list of comments                             *)

SiteOf(par, a) == IF par.site # "" THEN par.site ELSE a.site
UrlsOf(par, a) == IF par.urls # <<>> THEN par.urls ELSE a.urls

(* The positions that become comments: a comment without a site or a page  *)
(* key is skipped, its site is created nevertheless.                       *)
Sited(par, list) == {i \in DOMAIN list : SiteOf(par, list[i]) # ""}
Kept(par, list) == {i \in Sited(par, list) : list[i].key # NoKey}
InOrder(S) == SetToSortSeq(S, <)

(* URLs that an existing site lacks are put in front of its own.           *)
prepareSite(sites, name, urls) ==
    LET Missing(u) == ~Contains(sites[name], u) IN
    (name :> IF name \in DOMAIN sites THEN SelectSeq(urls, Missing) \o sites[name] ELSE urls)
    @@ sites

(* The URL resolver takes the host of the import's first URL, otherwise    *)
(* the host is stripped unless it is to be kept.                           *)
stripDomainFromURL(key) == [host |-> "", path |-> IF key.path = "" THEN "/" ELSE key.path]
getResolvedPageKey(base, key) == [key EXCEPT !.host = base]
PageKey_Strip(par, a) == stripDomainFromURL(a.key)
PageKey(par, a) ==
    IF par.resolver THEN getResolvedPageKey(par.urls[1], a.key)
    ELSE IF par.keep THEN a.key ELSE stripDomainFromURL(a.key)
PageOf(par, a) == <<SiteOf(par, a), PageKey(par, a)>>

(* A page that exists keeps its title and takes AdminOnly of the comment.  *)
preparePage(pages, p, a) ==
    (p :> [title |-> IF p \in DOMAIN pages THEN pages[p].title ELSE a.title,
           admin |-> a.admin]) @@ pages

correctUserBasicInfo(a) == IF a.nick = "" THEN "Anonymous" ELSE a.nick

prepareUser(users, a) ==
    LET who == correctUserBasicInfo(a)
        old == IF who \in DOMAIN users THEN users[who] ELSE [admin |-> FALSE, badge |-> ""]
    IN (who :> IF old.admin \/ a.badge = "" THEN old ELSE [old EXCEPT !.badge = a.badge])
       @@ users

(* buildGenIdMap: the last position with this ID, 0 if there is none.      *)
buildGenIdMap(list, id) == Max({i \in DOMAIN list : list[i].id = id} \cup {0})

(* buildRid2RootGenIdMap: climb from the comment that is replied to until  *)
(* a comment without a parent, one whose parent is not in the list (then   *)
(* the result is 0), or one that was visited before.                       *)
buildRid2RootGenIdMap_Once(list, rid) == buildGenIdMap(list, rid)
buildRid2RootGenIdMap(list, rid) ==
    LET Climb(at, n) ==
            IF at.pos = 0 \/ at.pos \in at.visited \/ list[at.pos].rid = 0 THEN at
            ELSE [pos |-> buildGenIdMap(list, list[at.pos].rid),
                  visited |-> at.visited \cup {at.pos}]
    IN FoldLeft(Climb, [pos |-> buildGenIdMap(list, rid), visited |-> {}],
                [n \in 1..Len(list) + 1 |-> n]).pos

(* The n-th comment that is inserted is list[Order[n]], its id is          *)
(* first + n - 1.  Its parent and root are numbered by their positions in  *)
(* the list and looked up by the order of insertion; so is its date.       *)
NewComments(par, list, first) ==
    LET order == InOrder(Kept(par, list))
        RealId(gen) == IF gen \in DOMAIN order THEN first + gen - 1 ELSE 0
    IN {LET a == list[order[n]] IN
        [id |-> first + n - 1, rid |-> RealId(buildGenIdMap(list, a.rid)),
         root |-> RealId(buildRid2RootGenIdMap(list, a.rid)),
         site |-> SiteOf(par, a), key |-> PageKey(par, a),
         user |-> correctUserBasicInfo(a), up |-> a.up, down |-> a.down,
         created |-> IF n \in Kept(par, list) THEN list[n].created ELSE 0]
        : n \in DOMAIN order}

(* createMockVote: as many votes as the comment counts, of no client.      *)
MockVotes(comments) ==
    UNION {[target : {c.id}, type : {"up"}, no : 1..c.up]
           \cup [target : {c.id}, type : {"down"}, no : 1..c.down] : c \in comments}

NextId(comments) == 1 + Max({c.id : c \in comments} \cup {0})

Imported(d, par, list) ==
    LET new == NewComments(par, list, NextId(d.comments)) IN
    [sites |-> FoldLeft(LAMBDA s, i : prepareSite(s, SiteOf(par, list[i]),
                                                  UrlsOf(par, list[i])),
                        d.sites, InOrder(Sited(par, list))),
     pages |-> FoldLeft(LAMBDA p, i : preparePage(p, PageOf(par, list[i]), list[i]),
                        d.pages, InOrder(Kept(par, list))),
     users |-> FoldLeft(LAMBDA u, i : prepareUser(u, list[i]),
                        d.users, InOrder(Kept(par, list))),
     comments |-> d.comments \cup new,
     votes |-> d.votes \cup MockVotes(new)]

(* Nothing to import, or a resolver without a URL to resolve with.         *)
ImportFails(par, list) ==
    list = <<>> \/ (par.resolver /\ par.urls = <<>> /\ Kept(par, list) # {})

-----------------------------------------------------------------------------
(* TransferImport: one at a time, the others are answered 429; the command *)
(* import runs beside them.                                                *)
TransferImport(c, par) ==
    /\ job[c].pc = "idle"
    /\ IF par.cli THEN UNCHANGED importing
       ELSE importing = Nobody /\ importing' = c
    /\ job' = [job EXCEPT ![c] = [NoJob EXCEPT !.pc = "read", !.par = par]]
    /\ UNCHANGED <<db, exported, calm>>

InProgress(c) ==
    /\ job[c].pc = "idle" /\ importing # Nobody
    /\ job' = [job EXCEPT ![c].pc = "failed"]
    /\ UNCHANGED <<db, exported, importing, calm>>

Unlock(c) == importing' = IF importing = c THEN Nobody ELSE importing

(* RunImportArtrans: the JSON comes with the request or from a file.       *)
ReadJson(c, list) ==
    /\ job[c].pc = "read"
    /\ job' = [job EXCEPT ![c].pc = "commit", ![c].list = list]
    /\ UNCHANGED <<db, exported, importing, calm>>

(* It is missing, or it is not an array of objects.                        *)
BadJson(c) ==
    /\ job[c].pc = "read"
    /\ job' = [job EXCEPT ![c] = [NoJob EXCEPT !.pc = "failed"]]
    /\ Unlock(c)
    /\ UNCHANGED <<db, exported, calm>>

importArtrans(c) ==
    /\ job[c].pc = "commit"
    /\ ~ImportFails(job[c].par, job[c].list)
    /\ db' = Imported(db, job[c].par, job[c].list)
    /\ job' = [job EXCEPT ![c] = [NoJob EXCEPT !.pc = "done"]]
    /\ calm' = [o \in Clients |-> FALSE]
    /\ Unlock(c)
    /\ UNCHANGED exported

(* An error of importArtrans or of a statement rolls everything back; so   *)
(* does the answer no to the question of the command, which ends it.       *)
Rollback(c) ==
    /\ job[c].pc = "commit"
    /\ job' = [job EXCEPT ![c] = [NoJob EXCEPT !.pc = "failed"]]
    /\ Unlock(c)
    /\ UNCHANGED <<db, exported, calm>>

-----------------------------------------------------------------------------
ById(S) == SetToSortSeq(S, LAMBDA a, b : a.id < b.id)

(* exportArtrans: all comments; no caller sets the scope of sites.         *)
exportArtrans(c) ==
    /\ job[c].pc = "idle"
    /\ job' = [job EXCEPT ![c] = [NoJob EXCEPT !.pc = "export", !.todo = ById(db.comments)]]
    /\ calm' = [calm EXCEPT ![c] = TRUE]
    /\ UNCHANGED <<db, exported, importing>>

NoPage == [key |-> NoKey, title |-> "", admin |-> FALSE]
FoundPage(x) ==
    LET p == <<x.site, x.key>> IN
    IF p \in DOMAIN db.pages
    THEN [key |-> x.key, title |-> db.pages[p].title, admin |-> db.pages[p].admin]
    ELSE NoPage

(* exportCache keeps pages by their key alone: the first page with a key   *)
(* stands for the pages of all sites with this key.                        *)
CachedPage(c, x) ==
    IF x.key \in DOMAIN job[c].pages THEN job[c].pages[x.key] ELSE FoundPage(x)

commentToArtran(c, x) ==
    LET page == CachedPage(c, x)
        known == x.user \in DOMAIN db.users
        sited == x.site \in DOMAIN db.sites
    IN [id |-> x.id, rid |-> x.rid,
        site |-> IF sited THEN x.site ELSE "",
        urls |-> IF sited THEN db.sites[x.site] ELSE <<>>,
        key |-> page.key, title |-> page.title, admin |-> page.admin,
        nick |-> IF known THEN x.user ELSE "",
        badge |-> IF known THEN db.users[x.user].badge ELSE "",
        up |-> x.up, down |-> x.down, created |-> x.created]

ExportNext(c) ==
    LET x == Head(job[c].todo) IN
    /\ job[c].pc = "export" /\ job[c].todo # <<>>
    /\ job' = [job EXCEPT ![c].todo = Tail(@), ![c].list = Append(@, commentToArtran(c, x)),
                          ![c].pages = (x.key :> CachedPage(c, x)) @@ @]
    /\ UNCHANGED <<db, exported, importing, calm>>

TransferExport(c) ==
    /\ job[c].pc = "export" /\ job[c].todo = <<>>
    /\ job' = [job EXCEPT ![c].pc = "done", ![c].pages = <<>>]
    /\ exported' = exported \cup {job[c].list}
    /\ UNCHANGED <<db, importing, calm>>

(* DelPage: the row of the page goes first, its comments after it.  Only   *)
(* pages that an export is about to read are deleted.                      *)
AboutToRead(p) ==
    \E c \in Clients : job[c].todo # <<>> /\ p = <<Head(job[c].todo).site, Head(job[c].todo).key>>
DelPage(p) ==
    /\ p \in DOMAIN db.pages /\ AboutToRead(p)
    /\ db' = [db EXCEPT !.pages = [q \in DOMAIN db.pages \ {p} |-> db.pages[q]]]
    /\ calm' = [o \in Clients |-> FALSE]
    /\ UNCHANGED <<exported, importing, job>>

DelPageComments(p) ==
    LET gone == {x \in db.comments : <<x.site, x.key>> = p} IN
    /\ p \notin DOMAIN db.pages /\ gone # {}
    /\ db' = [db EXCEPT !.comments = @ \ gone,
                        !.votes = {v \in @ : v.target \notin {x.id : x \in gone}}]
    /\ calm' = [o \in Clients |-> FALSE]
    /\ UNCHANGED <<exported, importing, job>>

TransferNext ==
    \/ \E c \in Clients :
          \/ \E par \in Params : TransferImport(c, par)
          \/ InProgress(c)
          \/ \E f \in Files[c] \cup exported : ReadJson(c, f)
          \/ BadJson(c) \/ importArtrans(c) \/ Rollback(c)
          \/ exportArtrans(c) \/ ExportNext(c) \/ TransferExport(c)
    \/ \E x \in db.comments : DelPage(<<x.site, x.key>>) \/ DelPageComments(<<x.site, x.key>>)

-----------------------------------------------------------------------------
(* r is the root of x: it answers nobody, and whoever climbs from x, parent *)
(* by parent, comes to r.                                                  *)
IsRoot(r, x, C) ==
    /\ r.rid = 0
    /\ \A S \in SUBSET C :
          (x \in S /\ \A y \in S : \A z \in C : z.id = y.rid => z \in S) => r \in S

Threaded(C) ==
    \A x \in C : IF x.rid = 0 THEN x.root = 0
                 ELSE \E r \in C : r.id = x.root /\ IsRoot(r, x, C)

(* The root of a comment is the one that its chain of parents leads to     *)
(* (entity/comment.go:34: RootID "can be derived from `Rid`").             *)
RootFromRid == Threaded(db.comments)

(* A list that an import can carry over in full: IDs and dates tell its    *)
(* comments apart, those that are skipped come last, and the parents of    *)
(* the others are among them, without a cycle.                             *)
Complete(par, list) ==
    LET kept == Kept(par, list) IN
    /\ kept = 1..Cardinality(kept)
    /\ \A i, j \in DOMAIN list : i # j => list[i].id # list[j].id
                                        /\ list[i].created # list[j].created
    /\ \A i \in kept : list[i].rid # 0 => \E j \in kept : list[j].id = list[i].rid
    /\ \A S \in SUBSET kept \ {{}} :
          \E i \in S : \A j \in S : list[i].rid # list[j].id

ImportSteps(c) == job[c].pc = "commit" /\ job'[c].pc = "done"

(* An import carries a complete list over in full: every comment arrives   *)
(* once, with its author, date and counters and as many votes, below the   *)
(* comment it answers and under the right root.  Whatever the list, rows   *)
(* that were there keep their comments, votes and the URLs of their sites. *)
ImportExact ==
    [][\A c \in Clients : ImportSteps(c) =>
        LET list == job[c].list
            par == job[c].par
            new == {x \in db'.comments : x.id >= NextId(db.comments)}
            At(i) == CHOOSE x \in new : x.created = list[i].created
        IN /\ db'.comments \ new = db.comments /\ db.votes \subseteq db'.votes
           /\ \A n \in DOMAIN db.sites : ToSet(db.sites[n]) \subseteq ToSet(db'.sites[n])
           /\ Cardinality(new) = Cardinality(Kept(par, list))
           /\ Complete(par, list) =>
                /\ Threaded(new)
                /\ \A i \in Kept(par, list) :
                      /\ Cardinality({x \in new : x.created = list[i].created}) = 1
                      /\ \A j \in Kept(par, list) :
                            list[i].rid = list[j].id <=> At(i).rid = At(j).id
                      /\ list[i].nick # "" => At(i).user = list[i].nick
                      /\ \A t \in {"up", "down"} :
                            Max({0, list[i][t]}) =
                            Cardinality({v \in db'.votes : v.target = At(i).id /\ v.type = t})
      ]_transferVars

-----------------------------------------------------------------------------
NoTables == [sites |-> <<>>, pages |-> <<>>, users |-> <<>>, comments |-> {}, votes |-> {}]
KeepAll == [cli |-> FALSE, site |-> "", urls |-> <<>>, resolver |-> FALSE, keep |-> TRUE]

(* Numbering from one, in the order of the ids.                            *)
Number(C, n) == IF n = 0 THEN 0 ELSE Cardinality({x \in C : x.id <= n})
Renumbered(C) ==
    {[x EXCEPT !.id = Number(C, x.id), !.rid = Number(C, x.rid), !.root = Number(C, x.root)]
       : x \in C}

(* Tables whose rows refer to rows that exist, sites that share no page    *)
(* key, votes that agree with their counters, and a thread on one site.    *)
Coherent(d) ==
    /\ Threaded(d.comments)
    /\ \A x \in d.comments : /\ x.user \in DOMAIN d.users /\ x.site \in DOMAIN d.sites
                             /\ <<x.site, x.key>> \in DOMAIN d.pages
    /\ \A x, y \in d.comments : /\ x.key = y.key => x.site = y.site
                                /\ x.rid = y.id => x.site = y.site
    /\ d.votes = MockVotes(d.comments)

(* What nobody disturbs an export of, comes back as it was by an import    *)
(* into an empty database: comments, threads, votes, pages and sites.      *)
RoundTrip ==
    \A c \in Clients :
        (job[c].pc = "done" /\ calm[c] /\ Coherent(db)) =>
        LET C == db.comments
            back == Imported(NoTables, KeepAll, job[c].list)
        IN /\ back.comments = Renumbered(C) /\ back.votes = MockVotes(Renumbered(C))
           /\ \A x \in C : /\ back.pages[<<x.site, x.key>>] = db.pages[<<x.site, x.key>>]
                           /\ back.sites[x.site] = db.sites[x.site]

(* Imports over HTTP exclude each other.                                   *)
OneImport ==
    \A c \in Clients : (job[c].pc \in {"read", "commit"} /\ ~job[c].par.cli) => importing = c

TransferSound == TransferTypeOK /\ OneImport /\ RoundTrip
=============================================================================
