--------------------------- MODULE MCCommentTree ---------------------------
(* Instances of CommentTree, Listing and Transfer for TLC.  They are       *)
(* checked side by side: live names the one whose steps a behaviour takes, *)
(* the variables of the others keep one initial value.                     *)
EXTENDS CommentTree, Listing, Transfer

CONSTANTS v1, v2, Casts, c1, c2, Lives

VARIABLES cast, live

(* CommentTree: one request after the other, on threads of three comments; *)
(* the same with a database that is also edited outside the program, on    *)
(* two; and overlapping requests on one.                                   *)
Together == {[overlap |-> FALSE, ids |-> 3, outside |-> FALSE],
             [overlap |-> FALSE, ids |-> 2, outside |-> TRUE],
             [overlap |-> TRUE, ids |-> 1, outside |-> FALSE]}

TreeNext ==
    /\ Next
    /\ raced' => cast.overlap
    /\ \A w \in Workers : work[w].pc = "idle" /\ work'[w].pc # "idle" =>
          last + Cardinality({o \in Workers : work'[o].pc = "insert"}) <= cast.ids
    /\ outside' => cast.outside

(* Listing: a stranger, a browser that has commented, a user, an           *)
(* administrator; a hidden root, a hidden reply, a pinned comment.         *)
Who(user, admin, guest) == [user |-> user, admin |-> admin, guest |-> guest]
MCViewers == {Who(0, FALSE, ""), Who(0, FALSE, "g"), Who(1, FALSE, ""), Who(9, TRUE, "")}

Opt(scope, type, sort, nested, limit, search) ==
    [scope |-> scope, page |-> "p", site |-> "s", type |-> type, sort |-> sort,
     nested |-> nested, limit |-> limit, search |-> search, onlyAdmin |-> FALSE]
MCQueries ==
    {Opt("page", "", "", TRUE, 2, FALSE), Opt("page", "", "date_asc", FALSE, 2, FALSE),
     Opt("page", "", "date_asc", FALSE, -1, TRUE), Opt("page", "", "vote", TRUE, 1, FALSE),
     [Opt("page", "", "date_desc", FALSE, 1, FALSE) EXCEPT !.onlyAdmin = TRUE],
     Opt("user", "all", "", FALSE, 2, FALSE), Opt("user", "mentions", "", FALSE, -1, FALSE),
     Opt("user", "mine", "", FALSE, -1, FALSE), Opt("user", "pending", "", FALSE, 0, FALSE),
     Opt("user", "", "", TRUE, -1, FALSE),
     Opt("site", "pending", "", FALSE, -1, FALSE), Opt("site", "all", "", TRUE, -1, FALSE)}

C(id, rid, root, user, guest, pending, date) ==
    [id |-> id, rid |-> rid, root |-> root, page |-> "p", site |-> "s", user |-> user,
     guest |-> guest, pending |-> pending, pinned |-> FALSE, votes |-> 0, date |-> date,
     hit |-> id # 2]
MCTables0 ==
    {{C(1, 0, 0, 1, "", FALSE, 1), C(2, 1, 1, 5, "g", TRUE, 2), C(3, 0, 0, 9, "", FALSE, 3)},
     {C(1, 0, 0, 5, "g", TRUE, 1), C(2, 1, 1, 1, "", FALSE, 2), C(3, 2, 1, 6, "", FALSE, 3)},
     {C(1, 0, 0, 1, "", FALSE, 1), [C(2, 0, 0, 9, "", FALSE, 1) EXCEPT !.pinned = TRUE],
      [C(3, 0, 0, 1, "", FALSE, 1) EXCEPT !.page = "q"]}}

(* An edit changes one column; a root that is added is a stranger's, an    *)
(* answer that of the browser or the administrator.  While somebody pages  *)
(* through a list the steps of others are those that change the table,     *)
(* which is all that he can see of them, and the notifications stay.       *)
ListsNext ==
    /\ ListingNext
    /\ \A new \in copies' \ copies :
          IF new.id <= lastId
          THEN \E old \in FindComment(new.id) :
                  Cardinality({f \in DOMAIN new : new[f] # old[f]}) = 1
          ELSE IF new.rid = 0 THEN new.user = 0 /\ new.guest = ""
               ELSE new.user = 9 \/ new.guest = "g"
    /\ \/ reader.pc = "idle" \/ reader' # reader
       \/ comments' # comments /\ notices' = notices

(* Transfer: every way three comments answer each other or a comment       *)
(* outside the list; lists with comments that are skipped; tables that are *)
(* empty, or hold two sites whose pages may have one key.                  *)
Key(h, p) == [host |-> h, path |-> p]
Art(id, rid, site, key, admin, nick, up) ==
    [id |-> id, rid |-> rid, site |-> site, urls |-> IF site = "S" THEN <<"u1">> ELSE <<>>,
     key |-> key, title |-> "t", admin |-> admin, nick |-> nick, badge |-> "b",
     up |-> up, down |-> 1 - up, created |-> id]

Threads == {<<Art(1, a, "S", Key("h", "/p"), FALSE, "", 1),
              Art(2, b, "S", Key("h", "/p"), TRUE, "ann", 0),
              Art(3, c, "S", IF c = 0 THEN NoKey ELSE Key("h", "/p"), FALSE, "bob", 0)>> :
               a \in {0, 2}, b \in {0, 1, 3}, c \in 0..2}
Skips == {<<Art(1, 0, "S", k1, FALSE, "", 1), Art(2, 0, "", Key("h", ""), TRUE, "ann", 2),
            Art(3, r, "S", Key("h", "/p"), TRUE, "ann", -1)>> :
               k1 \in {Key("h", "/p"), NoKey}, r \in 0..2}
MCFiles == c1 :> Threads \cup {<<>>} @@ c2 :> Skips
(* A reply whose parent answers a comment that is not in the list.         *)
Orphans == c1 :> {t \in Threads : t[1].rid = 0 /\ t[2].rid = 1} @@
           c2 :> {<<Art(4, 9, "S", Key("h", "/p"), FALSE, "ann", 0),
                    Art(5, 4, "S", Key("h", "/p"), FALSE, "bob", 0)>>}

Par(cli, site, urls, resolver, keep) ==
    [cli |-> cli, site |-> site, urls |-> urls, resolver |-> resolver, keep |-> keep]
MCParams == {Par(TRUE, "", <<>>, FALSE, FALSE), Par(FALSE, "", <<>>, FALSE, TRUE),
             Par(FALSE, "S", <<"u2", "u1">>, TRUE, FALSE), Par(FALSE, "S", <<>>, TRUE, FALSE)}

Com(id, rid, root, site, key, user, up) ==
    [id |-> id, rid |-> rid, root |-> root, site |-> site, key |-> key, user |-> user,
     up |-> up, down |-> 0, created |-> 10 + id]
Blog(keyS, keyT) ==
    LET X == {Com(2, 0, 0, "S", keyS, "ann", 1), Com(4, 2, 2, "S", keyS, "bob", 0),
              Com(5, 0, 0, "T", keyT, "bob", 0), Com(7, 4, 2, "S", keyS, "ann", 0)}
    IN [sites |-> ("S" :> <<"u1">> @@ "T" :> <<>>),
        pages |-> (<<"T", keyT>> :> [title |-> "q", admin |-> FALSE]
                   @@ <<"S", keyS>> :> [title |-> "p", admin |-> TRUE]),
        users |-> ("ann" :> [admin |-> TRUE, badge |-> "boss"]
                   @@ "bob" :> [admin |-> FALSE, badge |-> ""]),
        comments |-> X, votes |-> MockVotes(X)]
MCTables == {NoTables, Blog(Key("h", "/p"), Key("", "/q")), Blog(Key("", "/p"), Key("", "/p"))}

(* All transfers have ended.                                               *)
Transferred ==
    \A c \in Clients : job[c].pc \in {"done", "failed"}

-----------------------------------------------------------------------------
Everything == {"tree", "lists", "transfer"}
OnlyTransfer == {"transfer"}

MCInit ==
    /\ live \in Lives /\ cast \in Casts
    /\ Init /\ ListingInit /\ TransferInit
    /\ live # "tree" => cast = CHOOSE k \in Casts : TRUE
    /\ live # "lists" => comments = CHOOSE t \in Tables0 : TRUE
    /\ live # "transfer" => db = CHOOSE t \in Tables : TRUE

MCNext ==
    \/ live = "tree" /\ TreeNext /\ UNCHANGED <<listingVars, transferVars, cast, live>>
    \/ live = "lists" /\ ListsNext /\ UNCHANGED <<vars, transferVars, cast, live>>
    \/ live = "transfer" /\ TransferNext /\ UNCHANGED <<vars, listingVars, cast, live>>
    \/ live = "transfer" /\ Transferred /\ UNCHANGED <<vars, listingVars, transferVars, cast, live>>
MCSpec == MCInit /\ [][MCNext]_<<vars, listingVars, transferVars, cast, live>>

Symmetry == Permutations(Workers) \cup Permutations({v1, v2})
=============================================================================
