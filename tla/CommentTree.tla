---------------------------- MODULE CommentTree ----------------------------
(***************************************************************************)
(* Comments, their replies and their two caches (internal/dao): the entry  *)
(* of a comment by id, and the list of the reply ids of a comment.  The    *)
(* caches are written by the requests, after the table and without a lock, *)
(* filled by readers that miss, and emptied by the time to live.           *)
(*                                                                         *)
(* One SQL statement or one cache call is one step, except that a handler  *)
(* that looks a comment up and fills the cache does so in its first step:  *)
(* the race of a fill with a write is that of ReadMiss and ReadStore.      *)
(***************************************************************************)
EXTENDS Integers, FiniteSets

CONSTANTS
    MaxId,     \* bound on the comments ever created
    Versions,  \* what a comment's row may hold
    Gone,      \* no such row (the empty struct in the cache)
    Miss,      \* not cached
    Workers,   \* concurrent requests
    Ops        \* the requests that are made

ASSUME TreeAssumption ==
    /\ MaxId \in Nat \ {0}
    /\ Versions # {} /\ Gone \notin Versions /\ Miss \notin Versions /\ Gone # Miss
    /\ Ops \subseteq {"create", "update", "delete", "read", "flush", "warm", "outside"}

Ids == 1..MaxId
Value == Versions \cup {Gone}

VARIABLES
    table,    \* table comments
    parent,   \* column rid, 0 for a root
    last,     \* auto-increment
    entry,    \* cache key comment#v2:id
    kids,     \* cache key comment_child_ids#id
    work,     \* state of every request
    deleted,  \* history: comments whose deletion was reported as successful
    raced,    \* history: two requests have overlapped
    outside,  \* history: rows were changed outside the program
    unsaved   \* history: comments whose last Save failed

vars == <<table, parent, last, entry, kids, work, deleted, raced, outside, unsaved>>
history == <<raced, outside, unsaved>>

Work == [pc : {"idle", "insert", "save", "entry", "listRead", "listWrite", "delRow",
               "delCache", "expand", "next", "store", "flush"},
         op : Ops \cup {""}, id : Ids, rid : 0..MaxId, copy : [Ids -> Value],
         todo : SUBSET Ids, open : SUBSET Ids, list : SUBSET Ids, failed : BOOLEAN]

NoCopy == [i \in Ids |-> Gone]
Idle == [pc |-> "idle", op |-> "", id |-> 1, rid |-> 0, copy |-> NoCopy,
         todo |-> {}, open |-> {}, list |-> {}, failed |-> FALSE]

TypeOK ==
    /\ table \in [Ids -> Value]
    /\ parent \in [Ids -> 0..MaxId]
    /\ last \in 0..MaxId
    /\ entry \in [Ids -> Value \cup {Miss}]
    /\ \A i \in Ids : kids[i] = Miss \/ kids[i] \subseteq Ids
    /\ work \in [Workers -> Work]
    /\ deleted \subseteq Ids /\ raced \in BOOLEAN /\ outside \in BOOLEAN
    /\ unsaved \subseteq Ids

Init ==
    /\ table = NoCopy
    /\ parent = [i \in Ids |-> 0]
    /\ last = 0
    /\ entry = [i \in Ids |-> Miss]
    /\ kids = [i \in Ids |-> Miss]
    /\ work = [w \in Workers |-> Idle]
    /\ deleted = {} /\ raced = FALSE /\ outside = FALSE /\ unsaved = {}

Goto(w, pc) == work' = [work EXCEPT ![w].pc = pc]
Return(w) == work' = [work EXCEPT ![w] = Idle]
Alive == {i \in Ids : table[i] # Gone}
Busy(w) == \E o \in Workers \ {w} : work[o].pc # "idle"
Idling(w, op) ==
    /\ work[w].pc = "idle" /\ op \in Ops
    /\ raced' = (raced \/ Busy(w))
    /\ UNCHANGED <<outside, unsaved>>

(* FindComment: QueryDBWithCache returns the cached value, an empty one    *)
(* too, or queries the table and stores what it found.                     *)
Find(i) == IF entry[i] # Miss THEN entry[i] ELSE table[i]
Fill(i) == entry' = [entry EXCEPT ![i] = Find(i)]

-----------------------------------------------------------------------------
(* CommentCreate: the parent is looked up, then CreateComment.             *)
CreateStart(w, p, v) ==
    /\ Idling(w, "create")
    /\ last < MaxId
    /\ IF p = 0 THEN UNCHANGED entry ELSE p <= last /\ Find(p) # Gone /\ Fill(p)
    /\ work' = [work EXCEPT ![w] = [Idle EXCEPT !.pc = "insert", !.op = "create",
                                      !.rid = p, !.copy = [i \in Ids |-> v]]]
    /\ UNCHANGED <<table, parent, last, kids, deleted>>

CreateInsert(w) ==
    /\ work[w].pc = "insert"
    /\ \/ /\ last < MaxId
          /\ last' = last + 1
          /\ table' = [table EXCEPT ![last + 1] = work[w].copy[last + 1]]
          /\ parent' = [parent EXCEPT ![last + 1] = work[w].rid]
          /\ work' = [work EXCEPT ![w].pc = "entry", ![w].id = last + 1]
       \/ Return(w) /\ UNCHANGED <<table, parent, last>>
    /\ UNCHANGED <<entry, kids, deleted, history>>

(* UpdateComment with a copy read earlier: Save inserts a row that is gone *)
(* again; where it fails the error is logged, and the copy is cached all   *)
(* the same.                                                               *)
UpdateStart(w, i, v) ==
    /\ Idling(w, "update")
    /\ Find(i) # Gone
    /\ Fill(i)
    /\ work' = [work EXCEPT ![w] = [Idle EXCEPT !.pc = "save", !.op = "update", !.id = i,
                                                !.copy = [NoCopy EXCEPT ![i] = v]]]
    /\ UNCHANGED <<table, parent, last, kids, deleted>>

UpdateSave(w) ==
    /\ work[w].pc = "save"
    /\ \/ /\ table' = [table EXCEPT ![work[w].id] = work[w].copy[work[w].id]]
          /\ unsaved' = unsaved \ {work[w].id}
       \/ unsaved' = unsaved \cup {work[w].id} /\ UNCHANGED table
    /\ Goto(w, "entry")
    /\ UNCHANGED <<parent, last, entry, kids, deleted, raced, outside>>

(* CommentCacheSave: the entry, then ChildCommentCacheSave in two calls.   *)
SaveEntry_ListOnly(w) ==
    /\ work[w].pc = "entry"
    /\ Goto(w, "listRead")
    /\ UNCHANGED <<table, parent, last, entry, kids, deleted, history>>
SaveEntry(w) ==
    /\ work[w].pc = "entry"
    /\ entry' = [entry EXCEPT ![work[w].id] = work[w].copy[work[w].id]]
    /\ Goto(w, "listRead")
    /\ UNCHANGED <<table, parent, last, kids, deleted, history>>

ListKey(i) == IF parent[i] = 0 THEN i ELSE parent[i]

(* A root's list is set to empty if there is none; a reply is appended to  *)
(* its parent's list, or to the empty list if there is none.               *)
ListRead(w) ==
    LET i == work[w].id
        old == IF kids[ListKey(i)] = Miss THEN {} ELSE kids[ListKey(i)]
    IN /\ work[w].pc = "listRead"
       /\ IF parent[i] = 0 /\ kids[i] # Miss
          THEN Goto(w, "next")
          ELSE work' = [work EXCEPT ![w].pc = "listWrite",
                          ![w].list = IF parent[i] = 0 THEN {} ELSE old \cup {i}]
       /\ UNCHANGED <<table, parent, last, entry, kids, deleted, history>>

ListWrite(w) ==
    /\ work[w].pc = "listWrite"
    /\ kids' = [kids EXCEPT ![ListKey(work[w].id)] = work[w].list]
    /\ Goto(w, "next")
    /\ UNCHANGED <<table, parent, last, entry, deleted, history>>

-----------------------------------------------------------------------------
(* CommentDelete: DelComment of the comment, then DelCommentChildren: find *)
(* all descendants through the caches, then DelComment of each.            *)
DeleteStart(w, i) ==
    /\ Idling(w, "delete")
    /\ Find(i) # Gone
    /\ Fill(i)
    /\ work' = [work EXCEPT ![w] = [Idle EXCEPT !.pc = "delRow", !.op = "delete",
                                                !.id = i, !.rid = i]]
    /\ UNCHANGED <<table, parent, last, kids, deleted>>

DelRow(w) ==
    /\ work[w].pc = "delRow"
    /\ table' = [table EXCEPT ![work[w].id] = Gone]
    /\ Goto(w, "delCache")
    /\ UNCHANGED <<parent, last, entry, kids, deleted, history>>

(* A statement of DelComment fails: the request ends if it was the comment *)
(* itself, and goes on with the next one if it was a descendant.           *)
DelRowFails(w) ==
    /\ work[w].pc = "delRow"
    /\ IF work[w].id = work[w].rid THEN Return(w)
       ELSE work' = [work EXCEPT ![w].pc = "next", ![w].failed = TRUE]
    /\ UNCHANGED <<table, parent, last, entry, kids, deleted, history>>

(* CommentCacheDel: the entry, the own list and the parent's list.         *)
Uncached_KeepList(i) ==
    /\ entry' = [entry EXCEPT ![i] = Miss] /\ unsaved' = unsaved \ {i}
    /\ kids' = [k \in Ids |-> IF k = parent[i] THEN Miss ELSE kids[k]]
Uncached(i) ==
    /\ entry' = [entry EXCEPT ![i] = Miss] /\ unsaved' = unsaved \ {i}
    /\ kids' = [k \in Ids |-> IF k = i \/ k = parent[i] THEN Miss ELSE kids[k]]

DelCache(w) ==
    /\ work[w].pc = "delCache"
    /\ Uncached(work[w].id)
    /\ work' = IF work[w].id = work[w].rid
               THEN [work EXCEPT ![w].pc = "expand", ![w].open = {work[w].id}]
               ELSE [work EXCEPT ![w].pc = "next"]
    /\ UNCHANGED <<table, parent, last, deleted, raced, outside>>

(* FindCommentChildrenShallow of one comment, a step of the recursion of   *)
(* FindCommentChildren: the list is cached or queried and stored, every    *)
(* child is looked up.                                                     *)
Children(i) == IF kids[i] # Miss THEN kids[i] ELSE {c \in Alive : parent[c] = i}

Expand(w) ==
    /\ work[w].pc = "expand"
    /\ \/ \E i \in work[w].open :
            LET found == {c \in Children(i) : Find(c) # Gone} IN
            /\ kids' = [kids EXCEPT ![i] = Children(i)]
            /\ entry' = [c \in Ids |-> IF c \in Children(i) THEN Find(c) ELSE entry[c]]
            /\ work' = [work EXCEPT ![w].open = (@ \ {i}) \cup found,
                                    ![w].todo = @ \cup found]
       \/ work[w].open = {} /\ Goto(w, "next") /\ UNCHANGED <<entry, kids>>
    /\ UNCHANGED <<table, parent, last, deleted, history>>

-----------------------------------------------------------------------------
(* The next comment of a loop, or the end of the request.                  *)
First(S) == CHOOSE i \in S : \A j \in S : i <= j

Body_NoFlush(op) == IF op = "delete" THEN "delRow" ELSE ""
Body(op) == CASE op = "delete" -> "delRow" [] op = "warm" -> "entry" [] OTHER -> "flush"

NextItem(w) ==
    /\ work[w].pc = "next"
    /\ IF work[w].todo # {}
       THEN /\ work' = [work EXCEPT ![w].id = First(work[w].todo),
                          ![w].todo = @ \ {First(@)}, ![w].list = {},
                          ![w].pc = Body(work[w].op)]
            /\ UNCHANGED deleted
       ELSE /\ Return(w)
            /\ deleted' = IF work[w].op = "delete" /\ ~ work[w].failed
                          THEN deleted \cup {work[w].rid} ELSE deleted
    /\ UNCHANGED <<table, parent, last, entry, kids, history>>

(* CacheWarmUp: load all rows, then CommentCacheSave of each.              *)
WarmStart(w) ==
    /\ Idling(w, "warm")
    /\ work' = [work EXCEPT ![w] = [Idle EXCEPT !.pc = "next", !.op = "warm",
                                      !.copy = table, !.todo = Alive]]
    /\ UNCHANGED <<table, parent, last, entry, kids, deleted>>

(* CacheFlushAll: load all rows, then CommentCacheDel of each.             *)
FlushStart(w) ==
    /\ Idling(w, "flush")
    /\ work' = [work EXCEPT ![w] = [Idle EXCEPT !.pc = "next", !.op = "flush", !.todo = Alive]]
    /\ UNCHANGED <<table, parent, last, entry, kids, deleted>>

FlushOne_ListOnly(w) ==
    /\ work[w].pc = "flush"
    /\ kids' = [kids EXCEPT ![work[w].id] = Miss]
    /\ Goto(w, "next")
    /\ UNCHANGED <<table, parent, last, entry, deleted, history>>
FlushOne(w) ==
    /\ work[w].pc = "flush"
    /\ Uncached(work[w].id)
    /\ Goto(w, "next")
    /\ UNCHANGED <<table, parent, last, deleted, raced, outside>>

(* A reader that misses: the query, then the store (QueryDBWithCache).     *)
ReadMiss(w, i) ==
    /\ Idling(w, "read")
    /\ entry[i] = Miss
    /\ \A o \in Workers : ~ (work[o].pc = "store" /\ work[o].id = i)
    /\ work' = [work EXCEPT ![w] = [Idle EXCEPT !.pc = "store", !.op = "read", !.id = i,
                                      !.copy = [NoCopy EXCEPT ![i] = table[i]]]]
    /\ UNCHANGED <<table, parent, last, entry, kids, deleted>>

ReadStore(w) ==
    /\ work[w].pc = "store"
    /\ entry' = [entry EXCEPT ![work[w].id] = work[w].copy[work[w].id]]
    /\ Return(w)
    /\ UNCHANGED <<table, parent, last, kids, deleted, history>>

(* The time to live of a cache entry ends.                                 *)
ExpireEntry(i) ==
    /\ entry[i] # Miss
    /\ entry' = [entry EXCEPT ![i] = Miss]
    /\ UNCHANGED <<table, parent, last, kids, work, deleted, history>>

ExpireList(i) ==
    /\ kids[i] # Miss
    /\ kids' = [kids EXCEPT ![i] = Miss]
    /\ UNCHANGED <<table, parent, last, entry, work, deleted, history>>

(* Somebody edits or deletes a row with an SQL client, while no request    *)
(* runs.                                                                   *)
OutsideWrite(i, v) ==
    /\ "outside" \in Ops
    /\ \A w \in Workers : work[w].pc = "idle"
    /\ i \in Alive /\ v # table[i]
    /\ table' = [table EXCEPT ![i] = v]
    /\ outside' = TRUE
    /\ UNCHANGED <<parent, last, entry, kids, work, deleted, raced, unsaved>>

-----------------------------------------------------------------------------
Step(w) ==
    \/ CreateInsert(w) \/ UpdateSave(w) \/ SaveEntry(w) \/ ListRead(w) \/ ListWrite(w)
    \/ DelRow(w) \/ DelRowFails(w) \/ DelCache(w) \/ Expand(w) \/ NextItem(w)
    \/ FlushOne(w) \/ ReadStore(w)

Next ==
    \/ \E w \in Workers :
          \/ \E p \in 0..MaxId, v \in Versions : CreateStart(w, p, v)
          \/ \E i \in Ids, v \in Versions : UpdateStart(w, i, v)
          \/ \E i \in Ids : DeleteStart(w, i) \/ ReadMiss(w, i)
          \/ WarmStart(w) \/ FlushStart(w)
          \/ Step(w)
    \/ \E i \in Ids : ExpireEntry(i) \/ ExpireList(i)
    \/ \E i \in Ids, v \in Value : OutsideWrite(i, v)

Spec == Init /\ [][Next]_vars

-----------------------------------------------------------------------------
(* Properties.                                                             *)

Quiet == \A w \in Workers : work[w].pc = "idle"
Fresh(i) == entry[i] \in {Miss, table[i]}

(* A comment whose last Save failed may be cached with the copy that was   *)
(* not saved; both it and the row are there.                               *)
Near(i) == Fresh(i) \/ (i \in unsaved /\ entry[i] # Gone /\ table[i] # Gone)

(* Requests that follow one another leave no stale comment in the cache    *)
(* but a copy that could not be saved, whatever expires between their      *)
(* steps; and no comment is cached that was deleted, or as one that is     *)
(* gone while it is there.                                                 *)
EntriesFresh == Quiet /\ ~ raced /\ ~ outside => \A i \in Ids : Near(i)

(* A deletion that reports success has deleted every direct reply, even    *)
(* though the cached reply list of the comment may have been incomplete:   *)
(* DelComment drops that list before DelCommentChildren reads it.          *)
RepliesDeleted ==
    Quiet /\ ~ raced /\ ~ outside => \A c \in Alive : parent[c] \notin deleted

(* The types, and that cached comments are never stale, and replies never  *)
(* survive, once requests that follow one another have ended.              *)
TreeSound == TypeOK /\ EntriesFresh /\ RepliesDeleted

(* After a flush no comment that is in the table is cached with an old     *)
(* value, though rows were edited outside the program.                     *)
FlushRefreshes ==
    [][~ raced => \A w \in Workers : work[w].op = "flush" /\ work'[w].pc = "idle"
         => \A i \in Alive : Fresh(i)]_vars
=============================================================================
