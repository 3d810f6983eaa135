----------------------------- MODULE MCAccounts -----------------------------
(* Instances of Accounts for TLC: who acts at the same time, and in what   *)
(* order of requests.                                                      *)
EXTENDS Accounts

CONSTANTS w1, w2, n1, n2, e1, e2, c1, c2, v1, i1

VARIABLE cast

Account(i, n, e, admin) == [id |-> i, name |-> n, email |-> e, admin |-> admin, from |-> 0]

(* Nobody yet; or two accounts of one address, one of an administrator,    *)
(* with a comment each, an anonymous vote and a social login.              *)
Two == [i \in Ids |-> CASE i = 1 -> Account(1, n1, e1, TRUE) [] i = 2 -> Account(2, n2, e1, FALSE)
                        [] OTHER -> Zero]
Owned == [x \in Items |-> CASE x = c1 -> 1 [] x = c2 -> 2 [] x = v1 -> 0 [] x = i1 -> 2]
Start == {[users |-> [i \in Ids |-> Zero], owner |-> NoOwner],
          [users |-> Two, owner |-> Owned]}

(* One request after another, for one address; the same with a second      *)
(* address and the requests that change or look up addresses; merges and   *)
(* logins at the same time; four of the requests that create, merge and    *)
(* delete, one after another, with the cache.  Entries of the cache expire *)
(* where there is room for it, comments need no login where it matters.    *)
Cast(who, kinds, emails, max, expiry, auth) ==
    [who |-> who, ops |-> kinds, emails |-> emails, max |-> max, expiry |-> expiry, auth |-> auth]
Casts ==
    {Cast({w1}, Opers, {e1}, 2, TRUE, BOOLEAN),
     Cast({w1}, Opers, {e1}, 3, FALSE, BOOLEAN),
     Cast({w1}, {"", "update", "profile", "merge"}, {e1, e2}, 3, TRUE, {TRUE}),
     Cast({w1, w2}, {"", "merge"}, {e1}, 3, TRUE, {TRUE}),
     Cast({w1}, {"", "register", "delete", "merge"}, {e1}, 4, FALSE, {TRUE})}

MCInit ==
    /\ AccountsInit
    /\ cast \in {c \in Casts : conf.auth \in c.auth /\ (c.max > 3 => conf.cached)}
MCNext ==
    /\ \/ \E w \in cast.who : ops < cast.max /\ (plain \/ cast.who # {w1}) /\ Begin(w)
       \/ \E w \in cast.who : Step(w)
       \/ Passes
       \/ cast.expiry /\ Expire
    /\ \A w \in cast.who : /\ work'[w].op \in cast.ops
                           /\ {work'[w].email, work'[w].user.email} \subseteq cast.emails \cup {""}
    /\ \A e \in Addresses \ cast.emails :
          byEmail'[e] = Nil /\ \A n \in Names : byKey'[<<n, e>>] = Nil
    /\ UNCHANGED cast
MCSpec == MCInit /\ [][MCNext]_<<accountVars, cast>>
=============================================================================
