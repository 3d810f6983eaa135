------------------------------ MODULE Migration ------------------------------
(***************************************************************************)
(* The start of the server on a database that an earlier version has       *)
(* left, MigrateModels: the root ids of old comments, the rename of the    *)
(* column that holds the proofs of guests, the automatic migration of the  *)
(* schema, and the merge of pages that an environment variable asks for.   *)
(*                                                                         *)
(* A step is one statement.  Statements fail, and the process may be       *)
(* killed between any two; the next launch finds what is left.             *)
(***************************************************************************)
EXTENDS Integers, Sequences, FiniteSets, FiniteSetsExt, TLC

CONSTANTS
    MaxComment,  \* bound on comment ids
    Databases,   \* the databases to consider
    MaxFaults,   \* bound on failing statements and kills
    MaxBoots     \* bound on launches

CommentIds == 1..MaxComment
Parents == [CommentIds -> 0..MaxComment]
Columns == {"id", "root_id", "guest_key_hash", "guest_token_hash"}
Model == {"id", "root_id", "guest_token_hash"}
Indexed == {"root_id", "guest_token_hash"}

(* What does not change: whether the dialect has constraints and recursive *)
(* queries, the parents of the comments, which of them exist at first and  *)
(* are deleted, and who wrote as a guest.  And what is found at first: the *)
(* columns, the indexes, and the rows of the table of pages.               *)
Database == [constrains : BOOLEAN, cte : BOOLEAN, rid : Parents, comments : SUBSET CommentIds,
             deleted : SUBSET CommentIds, guests : SUBSET CommentIds,
             columns : SUBSET Columns, indexes : SUBSET Columns]

(* Parents may have any ids, an import numbers them so, and may form a     *)
(* circle, but none is yet to be written.  An index is on a column, there  *)
(* are no rows without a table, and the column of proofs has one name.     *)
ASSUME MigrationAssumption ==
    /\ MaxComment \in Nat /\ MaxFaults \in Nat /\ MaxBoots \in Nat
    /\ \A d \in Databases :
          /\ d.base \in Database
          /\ \A c \in d.base.comments : \E b \in d.base.comments : d.base.rid[c] <= b
          /\ ~ ({"guest_key_hash", "guest_token_hash"} \subseteq d.base.columns)
          /\ d.base.indexes \subseteq d.base.columns
          /\ d.base.columns = {} => d.base.comments = {}

VARIABLES
    base,     \* the database as it is found
    columns,  \* columns of the table of comments
    indexes,  \* indexes of the table of comments
    comments,     \* comments
    root,     \* column root_id; NULL reads as 0
    proved,   \* column name -> comments in which it holds a proof
    bound,    \* the foreign keys are there
    pageRows,    \* table of pages: id -> row
    env,      \* the ATK_DB_MIGRATOR_FUNC variables of this launch
    boot,     \* where the process is
    todo,     \* comments the fallback has still to do, or pages to insert
    faultless,    \* history: no fault since the launch
    missed,   \* history: comments whose root_id nothing has filled
    faults,   \* history: statements that failed and kills
    boots     \* history: launches

migrationVars == <<base, columns, indexes, comments, root, proved, bound, pageRows, env, boot, todo,
                   missed, faultless, faults, boots>>
schema == <<columns, indexes, comments, root, proved, bound, pageRows, missed>>

Off == "off"
Steps == {Off, "open", "addRoot", "fill", "zero", "load", "loop", "rename", "renameIndex",
          "columns", "indexes", "drop", "merge", "clear", "insert", "serving"}

(* A row of the table of pages; site names and keys are sequences of       *)
(* letters, for MergePages joins them.                                     *)
PageRow == [site : Seq(STRING), key : Seq(STRING), pv : Nat, deleted : BOOLEAN]

LiveRows == comments \ base.deleted
Goes(pc) == boot' = pc /\ UNCHANGED <<base, env, todo, faultless, faults, boots>>

(* A statement that fails; log.Fatal ends the process.                     *)
Fails(pc) ==
    /\ faults < MaxFaults /\ faults' = faults + 1 /\ faultless' = FALSE
    /\ boot' = pc /\ UNCHANGED <<base, schema, env, boots>>
Fatal == Fails(Off) /\ todo' = {}

-----------------------------------------------------------------------------
(* The chain of parents from c, as far as the comments of S go, and its    *)
(* end, unless it goes in a circle.                                        *)
Up(p, S) == IF p \in S /\ base.rid[p] # 0 THEN base.rid[p] ELSE p
Path(c, S) ==
    LET step[n \in 0..MaxComment] == IF n = 0 THEN c ELSE Up(step[n - 1], S) IN step
Top(c, S) == Path(c, S)[MaxComment]

(* From a circle it returns the first comment that it sees again.          *)
SeenAgain(path) == {n \in 0..MaxComment : \E m \in 0..MaxComment : n < m /\ path[m] = path[n]}
FindCommentRootID(c) ==
    LET path == Path(c, LiveRows)
        top == Top(c, LiveRows)
    IN IF Up(top, LiveRows) = top THEN top ELSE path[Min(SeenAgain(path))]

(* The recursive query: the threads below comments with rid = 0, through   *)
(* deleted comments too.  The rows it does not reach get NULL.             *)
Hierarchy_Parent(c) == base.rid[c]
Hierarchy(c) == LET t == Top(c, comments)
                IN IF t \in comments /\ base.rid[t] = 0 THEN t ELSE 0

MigrationInit ==
    /\ \E d \in Databases :
          /\ base = d.base /\ pageRows = d.pageRows
          /\ columns = d.base.columns /\ indexes = d.base.indexes /\ comments = d.base.comments
          /\ proved = [k \in Columns |-> IF k \in d.base.columns \ {"id", "root_id"}
                                         THEN d.base.guests \cap d.base.comments ELSE {}]
          /\ bound = (d.base.constrains /\ d.base.columns # {})
    /\ root = [c \in CommentIds |-> IF c \in comments /\ "root_id" \in columns /\ base.rid[c] # 0
                                    THEN Hierarchy(c) ELSE 0]
    /\ missed = IF "root_id" \in columns THEN {} ELSE comments
    /\ env = {} /\ boot = Off /\ todo = {} /\ faultless = TRUE
    /\ faults = 0 /\ boots = 0

Launch(e) ==
    /\ boot = Off /\ boots < MaxBoots
    /\ boot' = "open" /\ env' = e /\ boots' = boots + 1 /\ faultless' = TRUE
    /\ UNCHANGED <<base, schema, todo, faults>>

(* NewDB, and the first condition of MigrateModels.                        *)
Opened ==
    /\ boot = "open"
    /\ \/ /\ Goes(IF columns # {} /\ ("root_id" \notin columns \/ "root" \in env)
                  THEN "addRoot" ELSE "rename")
          /\ UNCHANGED schema
       \/ Fatal

(* The error of AddColumn is dropped.                                      *)
AddRoot ==
    /\ boot = "addRoot"
    /\ \/ /\ Goes("fill")
          /\ columns' = columns \cup {"root_id"}
          /\ UNCHANGED <<indexes, comments, root, proved, bound, pageRows, missed>>
       \/ "root_id" \notin columns /\ Fails("fill") /\ todo' = {}

Fill ==
    /\ boot = "fill"
    /\ \/ /\ base.cte /\ "root_id" \in columns
          /\ Goes("zero")
          /\ root' = [c \in CommentIds |-> IF c \in comments THEN Hierarchy(c) ELSE 0]
          /\ missed' = {}
          /\ UNCHANGED <<columns, indexes, comments, proved, bound, pageRows>>
       \/ /\ ~ (base.cte /\ "root_id" \in columns)
          /\ Goes("load") /\ UNCHANGED schema
       \/ Fails("load") /\ todo' = {}

(* The roots get 0; the error of this statement is dropped.                *)
ZeroRoots ==
    /\ boot = "zero"
    /\ \/ /\ Goes("rename")
          /\ root' = [c \in CommentIds |-> IF c \in LiveRows /\ root[c] = c THEN 0 ELSE root[c]]
          /\ UNCHANGED <<columns, indexes, comments, proved, bound, pageRows, missed>>
       \/ Fails("rename") /\ todo' = {}

Load ==
    /\ boot = "load"
    /\ \/ /\ boot' = "loop" /\ todo' = LiveRows
          /\ UNCHANGED <<base, schema, env, faultless, faults, boots>>
       \/ Fatal

(* An update that fails is logged.  Roots get their own id here.           *)
Loop ==
    /\ boot = "loop"
    /\ \/ \E c \in todo :
             /\ todo' = todo \ {c}
             /\ \/ /\ "root_id" \in columns
                   /\ root' = [root EXCEPT ![c] = FindCommentRootID(c)]
                   /\ missed' = missed \ {c}
                   /\ boot' = "loop"
                   /\ UNCHANGED <<base, columns, indexes, comments, proved, bound, pageRows, env,
                                  faultless, faults, boots>>
                \/ /\ "root_id" \notin columns
                   /\ boot' = "loop" /\ UNCHANGED <<base, schema, env, faultless, faults, boots>>
                \/ Fails("loop")
       \/ todo = {} /\ Goes("rename") /\ UNCHANGED schema

(* The proofs of guests keep their place under the new name.               *)
Drafted == "guest_key_hash" \in columns /\ "guest_token_hash" \notin columns
RenameColumn ==
    /\ boot = "rename"
    /\ \/ /\ ~ Drafted /\ Goes("columns") /\ UNCHANGED schema
       \/ /\ Drafted
          /\ \/ /\ Goes("renameIndex")
                /\ columns' = (columns \ {"guest_key_hash"}) \cup {"guest_token_hash"}
                /\ proved' = [proved EXCEPT !["guest_token_hash"] = proved["guest_key_hash"],
                                            !["guest_key_hash"] = {}]
                /\ UNCHANGED <<indexes, comments, root, bound, pageRows, missed>>
             \/ Fatal

RenameIndex ==
    /\ boot = "renameIndex"
    /\ \/ /\ Goes("columns")
          /\ indexes' = IF "guest_key_hash" \notin indexes THEN indexes
                        ELSE (indexes \ {"guest_key_hash"}) \cup {"guest_token_hash"}
          /\ UNCHANGED <<columns, comments, root, proved, bound, pageRows, missed>>
       \/ Fatal

(* AutoMigrate: the table with its columns, or the columns it misses one   *)
(* after another, then their indexes.                                      *)
AddColumns ==
    /\ boot = "columns"
    /\ \/ \E k \in Model \ columns :
             /\ columns' = IF columns = {} THEN Model ELSE columns \cup {k}
             /\ Goes("columns")
             /\ UNCHANGED <<indexes, comments, root, proved, bound, pageRows, missed>>
       \/ Model \subseteq columns /\ Goes("indexes") /\ UNCHANGED schema
       \/ Fatal
AddIndexes ==
    /\ boot = "indexes"
    /\ \/ \E k \in Indexed \ indexes :
             /\ indexes' = indexes \cup {k}
             /\ Goes("indexes")
             /\ UNCHANGED <<columns, comments, root, proved, bound, pageRows, missed>>
       \/ Indexed \subseteq indexes /\ Goes("drop") /\ UNCHANGED schema
       \/ Fatal

DropConstraintsIfExist ==
    /\ boot = "drop"
    /\ \/ /\ Goes(IF "merge" \in env THEN "merge" ELSE "serving")
          /\ bound' = (bound /\ ~ base.constrains)
          /\ UNCHANGED <<columns, indexes, comments, root, proved, pageRows, missed>>
       \/ base.constrains /\ bound /\ Fatal

-----------------------------------------------------------------------------
(* MergePages: what it adds up is remembered, what is deleted keeps its    *)
(* row and its id.                                                         *)
LivePages == {i \in DOMAIN pageRows : ~ pageRows[i].deleted}
Joined(i) == pageRows[i].site \o pageRows[i].key
Group(i) == {j \in LivePages : Joined(j) = Joined(i)}
PV(S) == MapThenSumSet(LAMBDA i : pageRows[i].pv, S)

Merge ==
    /\ boot = "merge"
    /\ \/ /\ boot' = "clear"
          /\ todo' = {[id |-> i, row |-> [pageRows[i] EXCEPT !.pv = PV(Group(i))]] :
                         i \in {j \in LivePages : \A k \in Group(j) : j <= k}}
          /\ UNCHANGED <<base, schema, env, faultless, faults, boots>>
       \/ Fatal

(* The error of the deletion is dropped.                                   *)
Clear ==
    /\ boot = "clear"
    /\ \/ /\ Goes("insert")
          /\ pageRows' = [i \in DOMAIN pageRows |-> [pageRows[i] EXCEPT !.deleted = TRUE]]
          /\ UNCHANGED <<columns, indexes, comments, root, proved, bound, missed>>
       \/ Fails("insert") /\ UNCHANGED todo

(* The rows are inserted under the ids they had, in one transaction: an id *)
(* that the table holds already is an error, and the process ends in any   *)
(* case.                                                                   *)
Insert ==
    /\ boot = "insert"
    /\ \/ /\ boot' = Off /\ todo' = {}
          /\ pageRows' = IF \E m \in todo : m.id \in DOMAIN pageRows THEN pageRows
                      ELSE pageRows @@ [i \in {m.id : m \in todo} |->
                                       (CHOOSE m \in todo : m.id = i).row]
          /\ UNCHANGED <<base, columns, indexes, comments, root, proved, bound, missed, env,
                         faultless, faults, boots>>
       \/ Fatal

-----------------------------------------------------------------------------
(* While the server runs: a comment is written, a reply to one that is     *)
(* there; ids grow.                                                        *)
Reply(c) ==
    /\ boot = "serving" /\ \A b \in comments : b < c
    /\ base.rid[c] \in {0} \cup LiveRows
    /\ comments' = comments \cup {c}
    /\ root' = [root EXCEPT ![c] = IF base.rid[c] = 0 THEN 0 ELSE FindCommentRootID(base.rid[c])]
    /\ proved' = [proved EXCEPT !["guest_token_hash"] = @ \cup ({c} \cap base.guests)]
    /\ Goes("serving") /\ UNCHANGED <<columns, indexes, bound, pageRows, missed>>

Stop ==
    /\ boot = "serving"
    /\ Goes(Off) /\ UNCHANGED schema

(* The process is killed; what is committed stays.                         *)
Kill ==
    /\ boot \notin {Off, "serving"}
    /\ Fatal

MigrationNext ==
    \/ \E e \in SUBSET {"root", "merge"} : Launch(e)
    \/ Opened \/ AddRoot \/ Fill \/ ZeroRoots \/ Load \/ Loop \/ RenameColumn \/ RenameIndex
    \/ AddColumns \/ AddIndexes \/ DropConstraintsIfExist \/ Merge \/ Clear \/ Insert
    \/ \E c \in CommentIds : Reply(c)
    \/ Stop \/ Kill
MigrationSpec == MigrationInit /\ [][MigrationNext]_migrationVars

-----------------------------------------------------------------------------
(* The states of the module.                                               *)
MigrationTypeOK ==
    /\ base \in Database
    /\ columns \subseteq Columns /\ indexes \subseteq Columns /\ comments \subseteq CommentIds
    /\ root \in [CommentIds -> 0..MaxComment]
    /\ proved \in [Columns -> SUBSET CommentIds]
    /\ bound \in BOOLEAN /\ faultless \in BOOLEAN
    /\ env \subseteq {"root", "merge"} /\ boot \in Steps
    /\ boot = "loop" => todo \subseteq CommentIds
    /\ missed \subseteq comments
    /\ faults \in 0..MaxFaults /\ boots \in 0..MaxBoots

(* A comment whose ancestors are all there, up to the root of the thread.  *)
Rooted(c) == Top(c, LiveRows) \in LiveRows /\ base.rid[Top(c, LiveRows)] = 0

(* While the server runs, a reply is in the thread of its parent, whether  *)
(* a migration or a visitor wrote it: the lists find replies by root_id    *)
(* alone.  A comment that no migration has reached is the exception, and   *)
(* there is one only after a fault; a launch that asks for the migration   *)
(* of root ids and meets no fault leaves none (dao/migrate.go:10-16).      *)
RootsRight ==
    boot = "serving" =>
        /\ \A c \in {x \in LiveRows : base.rid[x] \notin {0, x} /\ Rooted(x)} :
              {c, base.rid[c]} \cap missed = {} =>
                root[c] = IF base.rid[base.rid[c]] = 0 THEN base.rid[c] ELSE root[base.rid[c]]
        /\ faults = 0 \/ (faultless /\ "root" \in env) => missed \cap LiveRows = {}

(* The comments with a proof: those written since one is stored.           *)
HasProof == {c \in base.guests \cap comments :
            c \in base.comments => base.columns \cap {"guest_key_hash", "guest_token_hash"} # {}}

(* While the server runs, the proofs by which guests own their comments    *)
(* are all in the column that is read, wherever the rename was             *)
(* interrupted, and the columns that lists and owners are found by are     *)
(* indexed, the old index gone unless there was a fault.                   *)
ProofsKept ==
    boot = "serving" =>
        /\ "guest_token_hash" \in columns
        /\ proved["guest_token_hash"] = HasProof
        /\ Indexed \subseteq indexes
        /\ "guest_key_hash" \in indexes => faults > 0
        /\ ~ bound

(* An upgraded database is one the server can work with.                   *)
MigrationSound == MigrationTypeOK /\ RootsRight /\ ProofsKept

(* After MergePages, when nothing failed, every page that was there is     *)
(* there still, with the views of the rows it was merged from ("merge      *)
(* pages with same key and site_name, sum pv", dao/migrate.go:132).        *)
MergeKept ==
    boot = Off /\ faults = 0 =>
        \A i \in DOMAIN pageRows :
            \E j \in LivePages :
                pageRows[j].site = pageRows[i].site /\ pageRows[j].key = pageRows[i].key
=============================================================================
