------------------------------ MODULE Listing -------------------------------
(***************************************************************************)
(* What readers see: GET /comments (server/handler/comment_list.go and     *)
(* comments_get), GET /comments/:id, GET /notifies and GET /stats/:type,   *)
(* while comments are written, approved, hidden, pinned and deleted.       *)
(*                                                                         *)
(* A list is assembled from up to four queries outside a transaction: the  *)
(* page of roots (or of all comments in flat mode), the replies below them *)
(* (or the comments they answer), and two counts.  Every query is one      *)
(* step.  A response keeps copies of the rows, so what a reader was shown  *)
(* can be judged by what the rows were when they were read.                *)
(*                                                                         *)
(* A handler that looks a comment up by its id asks the cache first.  How  *)
(* its entries grow old is the subject of CommentTree; here a handler may  *)
(* be given any copy of the comment that was ever saved or meant to be.    *)
(***************************************************************************)
EXTENDS Integers, Sequences, FiniteSets, SequencesExt

CONSTANTS
    Viewers,    \* who may ask: [user, admin, guest]
    Queries,    \* the options of a list request: [scope, page, site, type, sort, nested,
                \* limit, search, onlyAdmin]
    Tables0,    \* tables to start from
    MaxRows,      \* bound: ids given to comments
    MaxWrites   \* bound: changes of the table by others

(* Row: date orders creation; hit tells whether the row matches the search *)
(* words; guest is the hash of the browser secret, "" if there is none.    *)
Row == [id : Nat, rid : Nat, root : Nat, page : STRING, site : STRING, user : Nat,
        guest : STRING, pending : BOOLEAN, pinned : BOOLEAN, votes : Int, date : Nat,
        hit : BOOLEAN]

(* A table is a finite set of rows with ids of their own.                  *)
ASSUME ListingAssumption ==
    /\ MaxRows \in Nat /\ MaxWrites \in Nat
    /\ \A v \in Viewers : /\ v.user \in Nat /\ v.admin \in BOOLEAN /\ v.guest \in STRING
                          /\ v.user = 0 \/ v.guest = ""
    /\ \A o \in Queries : /\ o.scope \in {"page", "user", "site"} /\ o.limit \in Int
                           /\ {o.nested, o.search, o.onlyAdmin} \subseteq BOOLEAN
    /\ \A T \in Tables0 : /\ T \subseteq Row /\ IsFiniteSet(T)
                          /\ \A c \in T : c.id \in 1..MaxRows
                          /\ \A c, d \in T : c.id = d.id => c = d

VARIABLES
    comments,  \* the rows of table comments
    lastId,    \* its auto-increment
    notices,   \* the rows of table notifies
    reader,    \* a reader who pages through a list
    copies,    \* the copies of comments that a cache may hold
    doomed,    \* the deletions that run
    writes,    \* requests that change comments, so far
    before,    \* history: what was to be listed when the reader began
    since,     \* history: what others have done since then
    moved      \* history: comments that were deleted or given to another author

others == <<copies, doomed, moved>>
listingVars == <<comments, lastId, notices, reader, writes, before, since, others>>

Stranger == [user |-> 0, admin |-> FALSE, guest |-> ""]
NoRequest == [scope |-> "", page |-> "", site |-> "", type |-> "", sort |-> "", nested |-> FALSE,
              limit |-> 0, search |-> FALSE, onlyAdmin |-> FALSE]
NoReader == [pc |-> "idle", v |-> Stranger, o |-> NoRequest, list |-> <<>>, linked |-> {},
             last |-> 0, count |-> 0, roots |-> 0]

ListingTypeOK ==
    /\ comments \subseteq Row
    /\ \A a, b \in comments : a.id = b.id => a = b
    /\ \A c \in comments : {c.id, c.rid} \subseteq 0..lastId
    /\ \A n \in notices : n.read \in BOOLEAN /\ n.user \in Nat /\ n.comment \in 1..MaxRows
    /\ reader.pc \in {"idle", "first", "second", "count", "roots", "page", "given"}
    /\ reader.list \in Seq(Row) /\ reader.linked \subseteq Row
    /\ {reader.count, reader.roots, reader.last, writes} \subseteq Nat
    /\ copies \subseteq Row /\ moved \subseteq 1..MaxRows
    /\ \A d \in doomed : d.now \in 1..MaxRows /\ d.rest \subseteq 1..MaxRows
    /\ before \subseteq 1..MaxRows /\ since \in {"nothing", "added", "changed"}

ListingInit ==
    /\ comments \in Tables0
    /\ lastId = Max({c.id : c \in comments} \cup {c.rid : c \in comments} \cup {0})
    /\ notices = {[user |-> x[2].user, comment |-> x[1].id, read |-> FALSE] :
                      x \in {y \in comments \X comments : y[1].rid = y[2].id}}
    /\ reader = NoReader
    /\ copies = comments /\ doomed = {} /\ moved = {}
    /\ writes = 0 /\ before = {} /\ since = "nothing"

-----------------------------------------------------------------------------
(* The WHERE conditions.  GuestTokenHash is empty beside a login token.    *)

(* NoPending, with the user whose own pending comments are allowed         *)
NoPending(user, c) == ~c.pending \/ (user # 0 /\ c.user = user)

CommonScope_Guest(v, c) ==
    v.admin \/ ~c.pending \/ c.guest = v.guest \/ (v.user # 0 /\ c.user = v.user)
CommonScope(v, c) ==
    \/ v.admin
    \/ v.guest # "" /\ v.user = 0 /\ (~c.pending \/ c.guest = v.guest)
    \/ (v.guest = "" \/ v.user # 0) /\ NoPending(v.user, c)

SearchScope(o, c) == o.search => c.hit

Admins == {v.user : v \in {w \in Viewers : w.admin}}

PageScopeQuery(o, c) ==
    /\ o.site # "" /\ o.page # ""
    /\ c.site = o.site /\ c.page = o.page
    /\ o.onlyAdmin => c.user \in Admins

GetUserAllCommentIDs(user) == {c.id : c \in {d \in comments : d.user = user}}
GetGuestComments(hash) == {c.id : c \in {d \in comments : d.guest = hash}}

(* A type that is unknown stands for "all" to a guest, and for no further  *)
(* condition to a user.                                                    *)
UserScopeQuery(v, o, c) ==
    LET Kind(mine, answers, other) ==
            CASE o.type = "mine" -> mine
              [] o.type = "pending" -> mine /\ c.pending
              [] o.type = "mentions" -> ~mine /\ answers
              [] o.type = "all" -> mine \/ answers
              [] OTHER -> mine \/ answers \/ other
    IN \/ /\ v.user = 0 /\ v.guest # ""
          /\ Kind(c.guest = v.guest, c.rid \in GetGuestComments(v.guest), FALSE)
       \/ /\ v.user # 0
          /\ Kind(c.user = v.user, c.rid \in GetUserAllCommentIDs(v.user), TRUE)

SiteScopeQuery(v, o, c) ==
    /\ v.admin
    /\ o.site # "" => c.site = o.site
    /\ o.type = "pending" => c.pending

GetQueryScopes(v, o, c) ==
    /\ CommonScope(v, c)
    /\ SearchScope(o, c)
    /\ CASE o.scope = "page" -> PageScopeQuery(o, c)
         [] o.scope = "user" -> UserScopeQuery(v, o, c)
         [] o.scope = "site" -> SiteScopeQuery(v, o, c)

Matching(v, o) == {c \in comments : GetQueryScopes(v, o, c)}
OnlyRoot(S) == {c \in S : c.rid = 0}

(* GetSortSQL: the order of two rows; rows that tie come in any order.     *)
GetSortSQL(o, a, b) ==
    CASE o.sort = "date_asc" -> a.date < b.date
      [] o.sort = "vote" -> a.votes > b.votes \/ (a.votes = b.votes /\ a.date > b.date)
      [] o.sort = "" /\ o.scope = "page" ->
            (a.pinned /\ ~b.pinned) \/ (a.pinned = b.pinned /\ a.date > b.date)
      [] OTHER -> a.date > b.date

Sorted(o, S) ==
    {s \in SetToSeqs(S) : \A i, j \in DOMAIN s : i < j => ~GetSortSQL(o, s[j], s[i])}
SetLimit_Overlap(s, offset, limit) ==
    SubSeq(s, Max({1, offset}), IF limit < 0 THEN Len(s) ELSE Min({Len(s), offset + limit}))
SetLimit(s, offset, limit) ==
    SubSeq(s, offset + 1, IF limit < 0 THEN Len(s) ELSE Min({Len(s), offset + limit}))

-----------------------------------------------------------------------------
(* CommentList and FindComments                                            *)

(* A scope that is unknown, or a page scope whose site does not exist, is  *)
(* refused before; o.site exists.                                          *)
CommentList(v, o) ==
    /\ reader.pc = "idle"
    /\ reader' = [NoReader EXCEPT !.pc = "first", !.v = v, !.o = o]
    /\ before' = {c.id : c \in Matching(v, o)} /\ since' = "nothing"
    /\ UNCHANGED <<comments, lastId, notices, writes, others>>

(* The next page of roots, or of all comments.  The client asks for it     *)
(* with the number of rows it has got as the offset.                       *)
FindComments ==
    LET v == reader.v
        o == reader.o
        S == IF o.nested THEN OnlyRoot(Matching(v, o)) ELSE Matching(v, o)
    IN /\ reader.pc = "first"
       /\ \E s \in Sorted(o, S) :
             LET rows == SetLimit(s, Len(reader.list), o.limit) IN
             reader' = [reader EXCEPT !.pc = "second", !.list = @ \o rows, !.last = Len(rows)]
       /\ UNCHANGED <<comments, lastId, notices, writes, before, since, others>>

LastPage == ToSet(SubSeq(reader.list, Len(reader.list) - reader.last + 1, Len(reader.list)))

(* All replies below the roots, without pagination.                        *)
findNestedChildren ==
    /\ reader.pc = "second" /\ reader.o.nested
    /\ reader' = [reader EXCEPT !.pc = "count", !.linked = @ \cup
                    {c \in Matching(reader.v, reader.o) :
                        c.rid # 0 /\ c.root \in {r.id : r \in LastPage}}]
    /\ UNCHANGED <<comments, lastId, notices, writes, before, since, others>>

(* The comments that are answered and not in the page, under the same      *)
(* conditions; they are marked invisible.                                  *)
findFlatLinkedComments ==
    /\ reader.pc = "second" /\ ~reader.o.nested
    /\ reader' = [reader EXCEPT !.pc = "count", !.linked = @ \cup
                    {c \in Matching(reader.v, reader.o) :
                        /\ c.id \notin {x.id : x \in LastPage}
                        /\ \E x \in LastPage : x.rid # 0 /\ x.rid = c.id}]
    /\ UNCHANGED <<comments, lastId, notices, writes, before, since, others>>

CountAll ==
    /\ reader.pc = "count"
    /\ reader' = [reader EXCEPT !.pc = "roots",
                                !.count = Cardinality(Matching(reader.v, reader.o))]
    /\ UNCHANGED <<comments, lastId, notices, writes, before, since, others>>

CountRoots ==
    /\ reader.pc = "roots"
    /\ reader' = [reader EXCEPT !.pc = "page",
                                !.roots = Cardinality(OnlyRoot(Matching(reader.v, reader.o)))]
    /\ UNCHANGED <<comments, lastId, notices, writes, before, since, others>>

(* The client goes on while pages come in full, and then forgets the list. *)
NextPage ==
    /\ reader.pc = "page" /\ reader.o.limit > 0 /\ reader.last = reader.o.limit
    /\ reader' = [reader EXCEPT !.pc = "first"]
    /\ UNCHANGED <<comments, lastId, notices, writes, before, since, others>>

Leave ==
    /\ \/ reader.pc = "given"
       \/ reader.pc = "page" /\ ~(reader.o.limit > 0 /\ reader.last = reader.o.limit)
    /\ reader' = NoReader /\ before' = {} /\ since' = "nothing"
    /\ UNCHANGED <<comments, lastId, notices, writes, others>>

-----------------------------------------------------------------------------
(* CommentGet: one comment, and the one it answers.                        *)
canRead(v, c) ==
    \/ ~c.pending \/ v.admin
    \/ v.user # 0 /\ v.user = c.user
    \/ v.guest # "" /\ v.guest = c.guest

FindComment(id) == {c \in copies : c.id = id}

CommentGet(v, id) ==
    /\ reader.pc = "idle"
    /\ \E c \in FindComment(id) :
          /\ canRead(v, c)
          /\ \E linked \in {{}} \cup {{d} : d \in {e \in FindComment(c.rid) : canRead(v, e)}} :
                reader' = [NoReader EXCEPT !.pc = "given", !.v = v, !.list = <<c>>,
                                           !.linked = linked]
    /\ UNCHANGED <<comments, lastId, notices, writes, before, since, others>>

(* Stat: latest_comments and rand_comments list approved comments of one   *)
(* site, the newest or any.                                                *)
QueryComments(site) == {c \in comments : c.site = site /\ ~c.pending}
Stat(v, site, order, limit) ==
    LET n == IF limit <= 0 THEN 5 ELSE Min({limit, 100})
        Newest(s) == \A i, j \in DOMAIN s : i < j => s[i].date >= s[j].date
    IN /\ reader.pc = "idle"
       /\ \E s \in SetToSeqs(QueryComments(site)) :
             /\ order = "latest" => Newest(s)
             /\ reader' = [NoReader EXCEPT !.pc = "given", !.v = v, !.list = SetLimit(s, 0, n)]
       /\ UNCHANGED <<comments, lastId, notices, writes, before, since, others>>

(* NotificationQuery: a user's own rows; with a browser secret, those of   *)
(* approved replies to comments of that browser, if meant for their author. *)
NotificationQuery(v) ==
    {n \in notices :
        IF v.user # 0 THEN n.user = v.user
        ELSE /\ v.guest # ""
             /\ \E c, d \in comments : /\ c.id = n.comment /\ ~c.pending /\ c.rid = d.id
                                       /\ d.guest = v.guest /\ d.user = n.user}

UnreadNotifications(v) == {n \in NotificationQuery(v) : ~n.read}

NotifyReadAll(v) ==
    /\ UnreadNotifications(v) # {}
    /\ notices' = (notices \ UnreadNotifications(v))
                  \cup {[n EXCEPT !.read = TRUE] : n \in UnreadNotifications(v)}
    /\ UNCHANGED <<comments, lastId, reader, writes, before, since, others>>

-----------------------------------------------------------------------------
(* Others change the table (the handlers of modules CommentTree, Votes and *)
(* NotifyFlow).                                                            *)
Request ==
    /\ writes < MaxWrites
    /\ writes' = writes + 1
    /\ UNCHANGED <<reader, before>>

Announce(users, id) == {[user |-> u, comment |-> id, read |-> FALSE] : u \in users}

NewestDate == Max({c.date : c \in comments} \cup {0}) + 1

(* An answer to a comment, or another comment on its page.  Notifications  *)
(* are made for the author who is answered and for administrators, unless  *)
(* the jobs or settings leave them out.                                    *)
CommentCreate(v, c, top, pending) ==
    LET id == lastId + 1
        new == [c EXCEPT !.id = id, !.rid = IF top THEN 0 ELSE c.id, !.user = v.user,
                  !.root = IF top THEN 0 ELSE IF c.rid = 0 THEN c.id ELSE c.root,
                  !.guest = v.guest, !.pending = pending, !.pinned = FALSE, !.votes = 0,
                  !.date = NewestDate]
    IN /\ id <= MaxRows
       /\ Request
       /\ lastId' = id
       /\ comments' = comments \cup {new} /\ copies' = copies \cup {new}
       /\ since' = IF since = "changed" THEN "changed" ELSE "added"
       /\ \E users \in SUBSET ((IF top THEN {} ELSE {c.user}) \cup Admins) :
             notices' = notices \cup Announce(users, id)
       /\ UNCHANGED <<doomed, moved>>

(* UpdateComment with a copy that was looked up: Save writes all columns,  *)
(* of a row that is gone too; where it fails the copy is cached all the    *)
(* same.  Whoever is answered by a comment that is approved is notified.   *)
CommentUpdate(c, user, page, pending, pinned) ==
    LET new == [c EXCEPT !.user = user, !.page = page, !.pending = pending, !.pinned = pinned]
        told == {d \in FindComment(c.rid) : d.user # user /\ d.user \notin Admins}
    IN /\ Request
       /\ \/ /\ comments' = {d \in comments : d.id # c.id} \cup {new}
             /\ since' = "changed"
          \/ UNCHANGED <<comments, since>>
       /\ copies' = copies \cup {new}
       /\ moved' = IF \E d \in comments : d.id = c.id /\ d.user = user
                   THEN moved ELSE moved \cup {c.id}
       /\ \/ UNCHANGED notices
          \/ /\ c.pending /\ ~pending
             /\ \E d \in told : notices' = Announce({d.user}, c.id) \cup
                   {n \in notices : n.user # d.user \/ n.comment # c.id}
       /\ UNCHANGED <<lastId, doomed>>

(* A comment and all that answer it, directly or not.                      *)
Thread(id) ==
    {i \in 1..MaxRows : \A S \in SUBSET (1..MaxRows) :
        (id \in S /\ \A c \in copies : c.rid \in S => c.id \in S) => i \in S}

(* CommentDelete: DelComment of the comment, and then of every reply that  *)
(* is found through the cached lists of replies, which may miss any.  The  *)
(* notifications of a comment go before its row.                           *)
CommentDelete(id) ==
    /\ FindComment(id) # {}
    /\ Request
    /\ doomed' = doomed \cup {[now |-> id, step |-> "notices", top |-> TRUE, rest |-> {}]}
    /\ UNCHANGED <<comments, lastId, notices, since, copies, moved>>

(* The deletion d goes on with the replies left, or ends.                  *)
GoOn(d, left) ==
    doomed' = (doomed \ {d}) \cup
        (IF left = {} THEN {}
         ELSE LET i == CHOOSE j \in left : TRUE
              IN {[now |-> i, step |-> "notices", top |-> FALSE, rest |-> left \ {i}]})

DeleteNotices(d) ==
    /\ d.step = "notices"
    /\ notices' = {n \in notices : n.comment # d.now}
    /\ doomed' = (doomed \ {d}) \cup {[d EXCEPT !.step = "row"]}
    /\ UNCHANGED <<comments, lastId, reader, writes, before, since, copies, moved>>

DeleteRow(d) ==
    /\ d.step = "row"
    /\ comments' = {c \in comments : c.id # d.now}
    /\ since' = "changed" /\ moved' = moved \cup {d.now}
    /\ IF d.top THEN \E found \in SUBSET (Thread(d.now) \ {d.now}) : GoOn(d, found)
       ELSE GoOn(d, d.rest)
    /\ UNCHANGED <<lastId, notices, reader, writes, before, copies>>

(* A statement fails: that ends the request if the comment itself could    *)
(* not be deleted; a reply that could not is passed over.                  *)
DeleteFails(d) ==
    /\ GoOn(d, IF d.top THEN {} ELSE d.rest)
    /\ UNCHANGED <<comments, lastId, notices, reader, writes, before, since, copies, moved>>

Authors == {v.user : v \in Viewers}

ListingNext ==
    \/ \E v \in Viewers :
          \/ \E o \in Queries : CommentList(v, o)
          \/ \E id \in 1..lastId : CommentGet(v, id)
          \/ \E order \in {"latest", "rand"}, n \in {-1, 2}, c \in comments :
                Stat(v, c.site, order, n)
          \/ NotifyReadAll(v)
          \/ \E c \in copies, top, pending \in BOOLEAN : CommentCreate(v, c, top, pending)
    \/ FindComments \/ findNestedChildren \/ findFlatLinkedComments \/ CountAll \/ CountRoots
    \/ NextPage \/ Leave
    \/ \E c \in copies, pending, pinned \in BOOLEAN :
          \E user \in Authors \cup {c.user}, page \in {d.page : d \in copies} :
             CommentUpdate(c, user, page, pending, pinned)
    \/ \E id \in 1..lastId : CommentDelete(id)
    \/ \E d \in doomed : DeleteNotices(d) \/ DeleteRow(d) \/ DeleteFails(d)

ListingSpec == ListingInit /\ [][ListingNext]_listingVars

-----------------------------------------------------------------------------
(* Who may read a comment: everybody if it is approved; otherwise an       *)
(* administrator, its author, or the browser that wrote it.                *)
MayRead(v, c) ==
    c.pending => v.admin \/ (v.user # 0 /\ c.user = v.user) \/ (v.guest # "" /\ c.guest = v.guest)

Shown == ToSet(reader.list) \cup reader.linked

(* Nothing reaches a reader that he may not read, by whichever query, and  *)
(* a list of a page holds comments of that page only.                      *)
OnlyReadable ==
    \A c \in Shown :
        /\ MayRead(reader.v, c)
        /\ reader.o.scope = "page" => PageScopeQuery(reader.o, c)

(* Whatever a notification announces to somebody who is no administrator,  *)
(* its owner finds among "all" of his messages once it is approved, unless *)
(* what it answers was deleted or given to another author: whatever copies *)
(* the caches hold, whichever deletions fail or miss replies.              *)
All == [scope |-> "user", type |-> "all", search |-> FALSE]
NoticesFound ==
    \A v \in Viewers : \A n \in NotificationQuery(v) : \A c \in comments :
        (c.id = n.comment /\ ~c.pending /\ c.rid \notin moved /\ n.user \notin Admins) =>
            GetQueryScopes(v, All, c)

(* A reader has come to the end of a list.                                 *)
Ended == reader.pc = "page" /\ reader.o.limit # 0
         /\ (reader.o.limit < 0 \/ reader.last < reader.o.limit)
Times(id) == Cardinality({i \in DOMAIN reader.list : reader.list[i].id = id})
Untied == \A a, b \in comments : a.date = b.date => a = b

(* Who pages to the end while comments are only added sees everything that *)
(* was there, exactly once if the list is by ascending date: an offset is  *)
(* shifted by new comments, never past an old one.  If nothing at all has  *)
(* changed, the counts are those of the list: what is counted and not      *)
(* shown are replies below roots that are hidden from the reader.          *)
WalkComplete ==
    (Ended /\ since # "changed" /\ Untied) =>
    LET o == reader.o
        due == {id \in before : o.nested => \E c \in comments : c.id = id /\ c.rid = 0}
    IN /\ \A id \in due : Times(id) >= 1
       /\ o.sort = "date_asc" => \A id \in due : Times(id) = 1
       /\ since = "nothing" =>
            /\ IF o.nested THEN reader.roots = Len(reader.list)
               ELSE reader.count = Len(reader.list)
            /\ o.nested =>
                 reader.count - reader.roots - Cardinality(reader.linked) =
                 Cardinality({c \in Matching(reader.v, o) :
                                c.rid # 0 /\ c.root \notin {r.id : r \in ToSet(reader.list)}})

(* What a reader gets is readable, found and complete.                     *)
ListingSound == ListingTypeOK /\ OnlyReadable /\ NoticesFound /\ WalkComplete
=============================================================================
