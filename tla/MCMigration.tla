----------------------------- MODULE MCMigration -----------------------------
(* Instances of Migration for TLC: the databases that a server finds.      *)
EXTENDS Migration

PageOf(s, k) == [site |-> s, key |-> k, pv |-> 1, deleted |-> FALSE]

(* A thread of three and a reply to come, with a parent that is missing,   *)
(* one that is deleted, or one that is the comment itself; and as an       *)
(* import numbers them, with parents that are later, or go in a circle.    *)
Threads == {[rid |-> <<0, 1, 2, 3>>, deleted |-> {}], [rid |-> <<0, 1, 2, 3>>, deleted |-> {2}],
            [rid |-> <<2, 3, 0, 1>>, deleted |-> {}], [rid |-> <<3, 1, 2, 2>>, deleted |-> {}],
            [rid |-> <<0, 2, 1, 2>>, deleted |-> {}], [rid |-> <<0, 1, 0, 2>>, deleted |-> {1}]}

(* Nothing yet; from before root ids; from a build of the draft of guest   *)
(* proofs, with or without root ids; and the columns of today.             *)
Age(cols, ids, rs) == [columns |-> cols, indexes |-> ids, comments |-> rs]
Ages == {Age({}, {}, {}), Age({"id"}, {}, 1..3),
         Age({"id", "guest_key_hash"}, {"guest_key_hash"}, 1..3),
         Age({"id", "root_id", "guest_key_hash"}, {"root_id", "guest_key_hash"}, 1..3),
         Age(Model, Indexed, 1..3)}

(* A page twice; and two pages whose names join to the same letters.       *)
PageTables == {<<PageOf(<<"a">>, <<"b", "c">>), PageOf(<<"a">>, <<"b", "c">>)>>,
           <<PageOf(<<"a">>, <<"b", "c">>), PageOf(<<"a", "b">>, <<"c">>)>>}

Found == {[base |-> t @@ a @@ [constrains |-> k, cte |-> q, guests |-> {1, 3, 4}],
           pageRows |-> <<>>] :
            t \in Threads, a \in Ages, k \in BOOLEAN, q \in BOOLEAN}
         \cup {[base |-> [rid |-> <<0, 1, 2, 3>>, deleted |-> {}, constrains |-> FALSE,
                          cte |-> TRUE, guests |-> {}] @@ Age(Model, Indexed, {}), pageRows |-> t] :
                  t \in PageTables}
=============================================================================
