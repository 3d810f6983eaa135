------------------------------ MODULE Accounts ------------------------------
(***************************************************************************)
(* Accounts: table users with its three cache keys (by id, by name and     *)
(* email, ids by email), the tokens that name a user by id, and what users *)
(* own (comments, votes, identities of social logins).  The requests:      *)
(* anonymous and logged-in comments, votes with a name, registration and   *)
(* password reset by email, logins, social login, SSO exchange, the        *)
(* administrator's creation, update and deletion of a user, the profile    *)
(* update, and the merge of all accounts of one address.                   *)
(*                                                                         *)
(* A lookup and its fill of the cache are one step (CommentTree and Pages  *)
(* look inside), and so is FindCreateUser, which a singleflight group      *)
(* guards; every statement that writes is a step of its own.               *)
(***************************************************************************)
EXTENDS Integers, Sequences, FiniteSets, FiniteSetsExt, SequencesExt

CONSTANTS
    Names, Addresses,
    Requests,     \* concurrent requests
    Comments,     \* possible comments
    Ballots,        \* possible votes; the merge treats notifies in the same way
    Identities,   \* accounts at a social login provider
    Tables,       \* contents of the tables at the start of the server
    MaxId,        \* bound: rows ever inserted into users
    MaxHour,      \* bound: seconds
    MaxOps,       \* bound: requests made
    MaxExpiries,  \* bound: entries of the cache that expire
    Nil           \* no entry

Ids == 1..MaxId
Items == Comments \cup Ballots \cup Identities

(* A user as the handlers hold it.  from is TokenValidFrom, 0 when null.   *)
User == [id : 0..MaxId, name : Names \cup {""}, email : Addresses \cup {""},
         admin : BOOLEAN, from : 0..MaxHour]
Zero == [id |-> 0, name |-> "", email |-> "", admin |-> FALSE, from |-> 0]

Table == [users : [Ids -> User], owner : [Items -> 0..MaxId \cup {Nil}]]

(* The tables as earlier runs left them: a row stands at its id, nobody's  *)
(* password is changed in the future, and comments and identities belong   *)
(* to users that exist, no deletion having been broken off.                *)
RowAt(i, u) ==
    \/ u = Zero
    \/ u.id = i /\ u.name \in Names /\ u.email \in Addresses /\ u.from <= 1

ASSUME AccountAssumption ==
    /\ MaxId \in Nat /\ MaxHour \in Nat \ {0} /\ MaxOps \in Nat /\ MaxExpiries \in Nat
    /\ Nil \notin 0..MaxId /\ (Comments \cup Identities) \cap Ballots = {}
    /\ Tables \subseteq Table
    /\ \A t \in Tables :
         /\ \A i \in Ids : RowAt(i, t.users[i])
         /\ \A x \in Comments \cup Identities :
               t.owner[x] # Nil => t.owner[x] \in Ids /\ t.users[t.owner[x]] # Zero

VARIABLES
    conf,     \* auth: social login enabled; cached: cache enabled
    hour,    \* time.Now(), in seconds
    users,    \* table users: Zero where there is no row
    nextId,   \* the id of the next row
    owner,    \* user_id of every comment, vote and identity, Nil: no row
    byId, byKey, byEmail,  \* the cache
    tokens,   \* tokens issued: <<user id, IssuedAt>>
    mutex,    \* mutexMap of AuthMergeApply: who holds the lock of a user id
    work,     \* state of every request
    ops,      \* requests made so far
    expired,  \* entries expired so far
    changed,  \* history: when the password of a user was changed last
    plain,    \* history: no overlap, no profile rename, no failed save yet
    mixed     \* history: a merge has overlapped with anything but a merge
              \* of the same account

cache == <<byId, byKey, byEmail>>
history == <<changed, plain, mixed>>
accountVars == <<conf, hour, users, nextId, owner, cache, tokens, mutex, work, ops, expired,
                history>>

Pcs == {"idle", "findCreate", "create", "save", "insert", "token", "delRow",
        "delRest", "lock", "list", "move"}
Opers == {"", "comment", "vote", "register", "sso", "social", "gitea", "add", "update",
          "delete", "profile", "merge"}

(* Where a merge stands: whose it is, the users it has to move and delete, *)
(* the statements done, and the owners when its transaction began.         *)
Work == [pc : Pcs, op : Opers, user : User, name : Names \cup {""}, email : Addresses \cup {""},
         others : SUBSET User, by : 0..MaxId, done : Nat, item : Items \cup {Nil},
         before : [Items -> 0..MaxId \cup {Nil}]]

NoOwner == [x \in Items |-> Nil]
Idle == [pc |-> "idle", op |-> "", user |-> Zero, name |-> "", email |-> "", others |-> {},
         by |-> 0, done |-> 0, item |-> Nil, before |-> NoOwner]

AccountsTypeOK ==
    /\ conf \in [auth : BOOLEAN, cached : BOOLEAN] /\ hour \in 1..MaxHour
    /\ users \in [Ids -> User] /\ \A i \in Ids : users[i].id \in {0, i}
    /\ nextId \in 1..(MaxId + 1) /\ owner \in [Items -> 0..MaxId \cup {Nil}]
    /\ \A i \in Ids : byId[i] = Nil \/ byId[i] \in User
    /\ \A k \in Names \X Addresses : byKey[k] = Nil \/ byKey[k] \in User
    /\ \A e \in Addresses : byEmail[e] = Nil \/ byEmail[e] \in SUBSET Ids
    /\ tokens \subseteq Ids \X (1..MaxHour)
    /\ mutex \in [0..MaxId -> Requests \cup {Nil}]
    /\ \A w \in Requests : work[w].before \in [Items -> 0..MaxId \cup {Nil}] /\ work[w] \in Work
    /\ ops \in 0..MaxOps /\ expired \in 0..MaxExpiries
    /\ changed \in [Ids -> 0..MaxHour] /\ plain \in BOOLEAN
    /\ mixed \in BOOLEAN

AccountsInit ==
    /\ conf \in [auth : BOOLEAN, cached : BOOLEAN] /\ hour = 1
    /\ \E t \in Tables :
         /\ users = t.users /\ owner = t.owner
         /\ nextId = 1 + Max({0} \cup {t.users[i].id : i \in Ids})
    /\ byId = [i \in Ids |-> Nil] /\ byKey = [k \in Names \X Addresses |-> Nil]
    /\ byEmail = [e \in Addresses |-> Nil]
    /\ tokens = {} /\ mutex = [i \in 0..MaxId |-> Nil]
    /\ work = [w \in Requests |-> Idle] /\ ops = 0 /\ expired = 0
    /\ changed = [i \in Ids |-> 0] /\ plain = TRUE /\ mixed = FALSE

-----------------------------------------------------------------------------
(* Lookups                                                                 *)

Put(f, k, v) == IF conf.cached THEN [f EXCEPT ![k] = v] ELSE f
Rows == {users[i] : i \in {j \in Ids : users[j].id # 0}}
First(us) == IF us = {} THEN Zero ELSE CHOOSE u \in us : \A v \in us : u.id <= v.id

FindUser(n, e) == IF byKey[<<n, e>>] # Nil THEN byKey[<<n, e>>]
                  ELSE First({u \in Rows : u.name = n /\ u.email = e})
FindUserByID(i) == IF byId[i] # Nil THEN byId[i] ELSE users[i]
FindUserIdsByEmail(e) == IF byEmail[e] # Nil THEN byEmail[e]
                         ELSE {u.id : u \in {v \in Rows : v.email = e}}

FillKey(n, e) == byKey' = Put(byKey, <<n, e>>, FindUser(n, e))
FillId(i) == byId' = Put(byId, i, FindUserByID(i))

(* FindUsersByEmail looks up the list and then every id of it.             *)
FindUsersByEmail(e) == {FindUserByID(i) : i \in FindUserIdsByEmail(e)}
FirstByEmail(e) == IF FindUserIdsByEmail(e) = {} THEN Zero
                   ELSE FindUserByID(Min(FindUserIdsByEmail(e)))
FillEmail(e) ==
    /\ byEmail' = Put(byEmail, e, FindUserIdsByEmail(e))
    /\ byId' = [i \in Ids |-> IF conf.cached /\ i \in FindUserIdsByEmail(e)
                              THEN FindUserByID(i) ELSE byId[i]]

(* UserCacheSave and UserCacheDel                                          *)
CacheSave(u) == byId' = Put(byId, u.id, u) /\ byKey' = Put(byKey, <<u.name, u.email>>, u)
CacheDel_KeepsKey(u, ids, keys) ==
    /\ byId' = Put(ids, u.id, Nil)
    /\ byKey' = keys
    /\ byEmail' = Put(byEmail, u.email, Nil)
CacheDel(u, ids, keys) ==
    /\ byId' = Put(ids, u.id, Nil)
    /\ byKey' = Put(keys, <<u.name, u.email>>, Nil)
    /\ byEmail' = Put(byEmail, u.email, Nil)

(* GetUserByReq                                                            *)
Authentic(t) ==
    /\ FindUserByID(t[1]).id # 0
    /\ FindUserByID(t[1]).from # 0 => t[2] >= FindUserByID(t[1]).from
IsAdminReq(t) == t \in tokens /\ Authentic(t) /\ FindUserByID(t[1]).admin
SeenUser(t) == Put(byId, t[1], FindUserByID(t[1]))

-----------------------------------------------------------------------------
(* The arrival of a request; new is its state after the first lookups.     *)
Arrive(w, new) ==
    /\ work[w].pc = "idle" /\ ops < MaxOps
    /\ ops' = ops + 1
    /\ work' = [work EXCEPT ![w] = new]
    /\ LET running == {o \in Requests : work[o].pc # "idle"} IN
       /\ plain' = (plain /\ running = {})
       /\ mixed' = (mixed \/ \E o \in running :
                       /\ new.pc # "idle" /\ "merge" \in {new.op, work[o].op}
                       /\ new.op # work[o].op \/ new.by # work[o].by)
    /\ UNCHANGED <<conf, hour, users, nextId, owner, mutex, expired>>

Enter(pc, op, n, e) == [Idle EXCEPT !.pc = pc, !.op = op, !.name = n, !.email = e]
Holding(pc, op, u) == [Idle EXCEPT !.pc = pc, !.op = op, !.user = u]

(* A comment without a token, under a name that is no administrator's.     *)
CommentAnonymous(w, n, e) ==
    /\ \A u \in Rows : u.admin => ~ (u.name = n /\ u.email = e)
    /\ Arrive(w, Enter("findCreate", "comment", n, e))
    /\ UNCHANGED <<cache, tokens, changed>>

CommentLoggedIn(w, t) ==
    /\ t \in tokens /\ Authentic(t)
    /\ Arrive(w, Holding("insert", "comment", FindUserByID(t[1])))
    /\ FillId(t[1])
    /\ UNCHANGED <<byKey, byEmail, tokens, changed>>

(* A vote may be given without a name.                                     *)
Vote(w, n, e) ==
    /\ Arrive(w, Enter("findCreate", "vote", n, e))
    /\ UNCHANGED <<cache, tokens, changed>>
VoteNameless(w) ==
    /\ Arrive(w, Holding("insert", "vote", Zero))
    /\ UNCHANGED <<cache, tokens, changed>>

(* POST /auth/email/register once the code is accepted; without a name it  *)
(* resets the password of the first account of the address.                *)
Register(w, n, e) ==
    /\ Arrive(w, Enter("findCreate", "register", n, e))
    /\ UNCHANGED <<cache, tokens, changed>>
ResetPassword(w, e) ==
    /\ FindUserIdsByEmail(e) # {} /\ FirstByEmail(e).name # ""
    /\ Arrive(w, Enter("findCreate", "register", FirstByEmail(e).name, e))
    /\ FillEmail(e)
    /\ UNCHANGED <<byKey, tokens, changed>>

(* Logins: by email (first account, or the only one), by name and email.   *)
LoginByEmail(w, e) ==
    /\ Arrive(w, Idle)
    /\ FillEmail(e)
    /\ tokens' = IF FirstByEmail(e).id = 0 THEN tokens
                 ELSE tokens \cup {<<FirstByEmail(e).id, hour>>}
    /\ UNCHANGED <<byKey, changed>>
LoginByName(w, n, e) ==
    /\ Arrive(w, Idle)
    /\ FillKey(n, e)
    /\ tokens' = IF FindUser(n, e).id = 0 THEN tokens
                 ELSE tokens \cup {<<FindUser(n, e).id, hour>>}
    /\ UNCHANGED <<byId, byEmail, changed>>

SSOExchange(w, n, e) ==
    /\ Arrive(w, Enter("findCreate", "sso", n, e))
    /\ UNCHANGED <<cache, tokens, changed>>

(* The callback of a social login; a self-hosted server's users get an     *)
(* account of their own.                                                   *)
SocialLogin(w, x, n, e, gitea) ==
    /\ owner[x] = Nil
    /\ Arrive(w, [Enter(IF gitea THEN "create" ELSE "findCreate",
                        IF gitea THEN "gitea" ELSE "social", n, e) EXCEPT !.item = x,
                    !.user = IF gitea THEN [Zero EXCEPT !.name = n, !.email = e] ELSE Zero])
    /\ UNCHANGED <<cache, tokens, changed>>
SocialAgain(w, x) ==
    /\ owner[x] \notin {Nil, 0}
    /\ Arrive(w, Idle)
    /\ FillId(owner[x])
    /\ tokens' = IF FindUserByID(owner[x]).id = 0 THEN tokens
                 ELSE tokens \cup {<<owner[x], hour>>}
    /\ UNCHANGED <<byKey, byEmail, changed>>

(* An administrator creates, changes and deletes users.                    *)
Modified_Later(u, n, e, admin, pass) ==
    [u EXCEPT !.name = n, !.email = e, !.admin = admin, !.from = IF pass THEN hour + 1 ELSE @]
Modified(u, n, e, admin, pass) ==
    [u EXCEPT !.name = n, !.email = e, !.admin = admin, !.from = IF pass THEN hour ELSE @]

UserCreate(w, t, n, e, admin, pass) ==
    /\ IsAdminReq(t) /\ FindUser(n, e).id = 0
    /\ Arrive(w, Holding("create", "add", Modified(Zero, n, e, admin, pass)))
    /\ byId' = SeenUser(t) /\ FillKey(n, e)
    /\ UNCHANGED <<byEmail, tokens, changed>>
(* The cache drops the user that was found, under its old name and email.  *)
UserUpdate(w, t, i, n, e, admin, pass) ==
    LET u == FindUserByID(i) IN
    /\ IsAdminReq(t) /\ u.id # 0
    /\ n # u.name /\ e # u.email => FindUser(n, e).id = 0
    /\ Arrive(w, Holding("save", "update", Modified(u, n, e, admin, pass)))
    /\ CacheDel(u, SeenUser(t), IF n = u.name \/ e = u.email THEN byKey
                            ELSE Put(byKey, <<n, e>>, FindUser(n, e)))
    /\ UNCHANGED <<tokens, changed>>
UserDelete(w, t, i) ==
    /\ IsAdminReq(t) /\ FindUserByID(i).id # 0
    /\ Arrive(w, [Holding("delRow", "delete", Zero) EXCEPT !.others = {FindUserByID(i)}])
    /\ byId' = Put(SeenUser(t), i, FindUserByID(i))
    /\ UNCHANGED <<byKey, byEmail, tokens, changed>>

(* POST /user: a user changes his name, or his address with a code.        *)
UserInfoUpdate(w, t, n, e) ==
    LET u == FindUserByID(t[1]) IN
    /\ t \in tokens /\ Authentic(t)
    /\ n # u.name => FindUser(n, e).id \in {0, u.id}
    /\ e # u.email => \A v \in Rows : v.email # e
    /\ Arrive(w, Holding("save", "profile", [u EXCEPT !.name = n, !.email = e]))
    /\ FillId(t[1])
    /\ IF n # u.name THEN FillKey(n, e) ELSE UNCHANGED byKey
    /\ UNCHANGED <<byEmail, tokens, changed>>

(* GET /user and GET /auth/merge only look; so do logins that are refused. *)
UserInfo(w, n, e) ==
    /\ Arrive(w, Idle)
    /\ FillKey(n, e)
    /\ UNCHANGED <<byId, byEmail, tokens, changed>>
UserInfoOfToken(w, t) ==
    /\ Arrive(w, Idle)
    /\ FillId(t[1])
    /\ UNCHANGED <<byKey, byEmail, tokens, changed>>
MergeCheck(w, e) ==
    /\ Arrive(w, Idle)
    /\ FillEmail(e)
    /\ UNCHANGED <<byKey, tokens, changed>>

(* POST /auth/merge: the user is read before the lock is taken.            *)
MergeApply(w, t, n) ==
    /\ t \in tokens /\ Authentic(t)
    /\ Arrive(w, [Holding("lock", "merge", FindUserByID(t[1])) EXCEPT !.name = n, !.by = t[1]])
    /\ FillId(t[1])
    /\ UNCHANGED <<byKey, byEmail, tokens, changed>>

-----------------------------------------------------------------------------
(* The steps of the requests                                               *)

Goto(w, pc) == work' = [work EXCEPT ![w].pc = pc]
Done(w) ==
    /\ work' = [work EXCEPT ![w] = Idle]
    /\ mutex' = [i \in 0..MaxId |-> IF mutex[i] = w THEN Nil ELSE mutex[i]]

MergeLock_None(w) ==
    /\ work[w].pc = "lock"
    /\ Goto(w, "list")
    /\ UNCHANGED <<conf, hour, users, nextId, owner, cache, tokens, mutex, ops, expired, history>>
MergeLock(w) ==
    /\ work[w].pc = "lock" /\ mutex[work[w].user.id] = Nil
    /\ mutex' = [mutex EXCEPT ![work[w].user.id] = w]
    /\ Goto(w, "list")
    /\ UNCHANGED <<conf, hour, users, nextId, owner, cache, tokens, ops, expired, history>>

MergeList(w) ==
    LET e == work[w].user.email IN
    /\ work[w].pc = "list"
    /\ FillEmail(e)
    /\ IF FindUserIdsByEmail(e) = {} THEN Done(w)
       ELSE /\ work' = [work EXCEPT ![w].pc = "findCreate", ![w].email = e,
                                    ![w].others = FindUsersByEmail(e)]
            /\ UNCHANGED mutex
    /\ UNCHANGED <<conf, hour, users, nextId, owner, byKey, tokens, ops, expired, history>>

(* What a request does with the user that it found or created.             *)
After(r, u) ==
    LET isAdmin == \E o \in r.others : o.admin
        others == {o \in r.others : o.id # u.id}
    IN CASE r.op = "comment" -> [r EXCEPT !.user = u,
                                   !.pc = IF conf.auth THEN "insert" ELSE "save"]
         [] r.op = "register" -> [r EXCEPT !.user = [u EXCEPT !.from = hour], !.pc = "save"]
         [] r.op = "sso" -> [r EXCEPT !.user = u, !.pc = "token"]
         [] r.op = "merge" -> [r EXCEPT !.user = [u EXCEPT !.admin = isAdmin],
                                 !.others = others,
                                 !.pc = IF u.admin # isAdmin THEN "save"
                                        ELSE IF others = {} THEN "token" ELSE "move"]
         [] r.op = "add" -> Idle
         [] OTHER -> [r EXCEPT !.user = u, !.pc = "insert"]

(* CreateUser                                                              *)
Insertion(u) ==
    /\ nextId <= MaxId
    /\ users' = [users EXCEPT ![nextId] = u]
    /\ nextId' = nextId + 1
    /\ changed' = [changed EXCEPT ![nextId] = u.from]
    /\ CacheSave(u)

FindCreateUser(w) ==
    LET r == work[w]
        found == FindUser(r.name, r.email)
        new == [Zero EXCEPT !.id = nextId, !.name = r.name, !.email = r.email]
    IN /\ r.pc = "findCreate"
       /\ IF found.id # 0
          THEN /\ work' = [work EXCEPT ![w] = After(r, found)]
               /\ FillKey(r.name, r.email)
               /\ UNCHANGED <<users, nextId, byId, changed>>
          ELSE Insertion(new) /\ work' = [work EXCEPT ![w] = After(r, new)]
       /\ UNCHANGED <<conf, hour, owner, byEmail, tokens, mutex, ops, expired, plain, mixed>>

(* UserCreate, and NewUser of a self-hosted provider's user.               *)
CreateUser(w) ==
    LET u == [work[w].user EXCEPT !.id = nextId] IN
    /\ work[w].pc = "create"
    /\ Insertion(u)
    /\ work' = [work EXCEPT ![w] = After(work[w], u)]
    /\ UNCHANGED <<conf, hour, owner, byEmail, tokens, mutex, ops, expired, plain, mixed>>

(* UpdateUser: Save writes the whole row, and inserts it if it is gone;    *)
(* the cache is written also when Save fails.                              *)
AfterSave(r, ok) ==
    CASE r.op = "comment" -> [r EXCEPT !.pc = "insert"]
      [] r.op = "merge" -> [r EXCEPT !.pc = IF r.others = {} THEN "token" ELSE "move"]
      [] r.op = "register" /\ ok -> [r EXCEPT !.pc = "token"]
      [] OTHER -> Idle

UpdateUser_NotCached(w, ok) ==
    LET u == work[w].user
        renamed == /\ work[w].op = "profile"
                   /\ <<u.name, u.email>> # <<users[u.id].name, users[u.id].email>>
    IN /\ work[w].pc = "save"
       /\ users' = IF ok THEN [users EXCEPT ![u.id] = u] ELSE users
       /\ work' = [work EXCEPT ![w] = AfterSave(work[w], ok)]
       /\ changed' = IF ok /\ work[w].op \in {"register", "update"}
                     THEN [changed EXCEPT ![u.id] = Max({@, u.from})] ELSE changed
       /\ plain' = (plain /\ ok /\ ~ renamed)
       /\ UNCHANGED <<conf, hour, nextId, owner, cache, tokens, mutex, ops, expired, mixed>>
UpdateUser(w, ok) ==
    LET u == work[w].user
        renamed == /\ work[w].op = "profile"
                   /\ <<u.name, u.email>> # <<users[u.id].name, users[u.id].email>>
    IN /\ work[w].pc = "save"
       /\ users' = IF ok THEN [users EXCEPT ![u.id] = u] ELSE users
       /\ CacheSave(u)
       /\ work' = [work EXCEPT ![w] = AfterSave(work[w], ok)]
       /\ changed' = IF ok /\ work[w].op \in {"register", "update"}
                     THEN [changed EXCEPT ![u.id] = Max({@, u.from})] ELSE changed
       /\ plain' = (plain /\ ok /\ ~ renamed)
       /\ UNCHANGED <<conf, hour, nextId, owner, byEmail, tokens, mutex, ops, expired, mixed>>

(* The new comment, vote or identity.                                      *)
InsertItem(w, x) ==
    LET r == work[w] IN
    /\ r.pc = "insert"
    /\ CASE r.op = "comment" -> x \in Comments /\ owner[x] = Nil
         [] r.op = "vote" -> x \in Ballots /\ owner[x] = Nil
         [] OTHER -> x = r.item
    /\ owner' = IF owner[x] = Nil THEN [owner EXCEPT ![x] = r.user.id] ELSE owner
    /\ work' = [work EXCEPT ![w] = IF r.op \in {"social", "gitea"}
                                  THEN [r EXCEPT !.pc = "token"] ELSE Idle]
    /\ UNCHANGED <<conf, hour, users, nextId, cache, tokens, mutex, ops, expired, history>>

(* A statement that inserts fails and the request is answered with an      *)
(* error.                                                                  *)
InsertFails(w) ==
    /\ \/ work[w].pc \in {"create", "insert"}
       \/ work[w].pc = "findCreate" /\ FindUser(work[w].name, work[w].email).id = 0
    /\ Done(w)
    /\ UNCHANGED <<conf, hour, users, nextId, owner, cache, tokens, ops, expired, history>>

(* LoginGetUserToken; a social login finds the user of the identity first. *)
Token(w) ==
    LET r == work[w]
        social == r.op \in {"social", "gitea"}
        u == IF social THEN FindUserByID(r.user.id) ELSE r.user
    IN /\ r.pc = "token"
       /\ byId' = IF social THEN Put(byId, r.user.id, u) ELSE byId
       /\ tokens' = IF u.id = 0 THEN tokens ELSE tokens \cup {<<u.id, hour>>}
       /\ Done(w)
       /\ UNCHANGED <<conf, hour, users, nextId, owner, byKey, byEmail, ops, expired, history>>

(* The statements of the merge: comments, votes and identities of every    *)
(* other user.  They run on the plain connection, not on the transaction.  *)
Kinds == <<Comments, Ballots, Identities>>
OtherIds(r) == SetToSortSeq({o.id : o \in r.others}, <)
Moved(r) == [x \in Items |-> IF /\ x \in Kinds[(r.done % 3) + 1]
                                /\ owner[x] = OtherIds(r)[(r.done \div 3) + 1]
                             THEN r.user.id ELSE owner[x]]
Move(w) ==
    LET r == work[w] IN
    /\ r.pc = "move"
    /\ owner' = Moved(r)
    /\ work' = [work EXCEPT ![w].done = @ + 1,
                  ![w].before = IF r.done = 0 THEN owner ELSE @,
                  ![w].pc = IF r.done + 1 = 3 * Len(OtherIds(r)) THEN "delRow" ELSE "move"]
    /\ UNCHANGED <<conf, hour, users, nextId, cache, tokens, mutex, ops, expired, history>>
MoveFails(w) ==
    /\ work[w].pc = "move"
    /\ Done(w)
    /\ UNCHANGED <<conf, hour, users, nextId, owner, cache, tokens, ops, expired, history>>

(* DelUser: the row; then what the user owns, with the replies below its   *)
(* comments and the votes on them, and the cache.  Without an id there is  *)
(* nothing to delete, which is an error.                                   *)
Finish(w, u) ==
    IF work[w].others # {u}
    THEN /\ work' = [work EXCEPT ![w].others = @ \ {u}, ![w].pc = "delRow"]
         /\ UNCHANGED mutex
    ELSE IF work[w].op = "merge"
    THEN /\ work' = [work EXCEPT ![w].others = {}, ![w].pc = "token"]
         /\ UNCHANGED mutex
    ELSE Done(w)

DelUser(w) ==
    LET u == First(work[w].others) IN
    /\ work[w].pc = "delRow" /\ u.id # 0
    /\ users' = [users EXCEPT ![u.id] = Zero]
    /\ Goto(w, "delRest")
    /\ UNCHANGED <<conf, hour, nextId, owner, cache, tokens, mutex, ops, expired, history>>
DelUserFails(w) ==
    /\ work[w].pc = "delRow"
    /\ Finish(w, First(work[w].others))
    /\ UNCHANGED <<conf, hour, users, nextId, owner, cache, tokens, ops, expired, history>>
DelRest_KeepsIdentities(w) ==
    LET u == First(work[w].others) IN
    /\ work[w].pc = "delRest"
    /\ owner' = [x \in Items |-> IF x \in Comments /\ owner[x] = u.id THEN Nil ELSE owner[x]]
    /\ CacheDel(u, byId, byKey)
    /\ Finish(w, u)
    /\ UNCHANGED <<conf, hour, users, nextId, tokens, ops, expired, history>>
DelRest(w) ==
    LET u == First(work[w].others)
        own == {x \in Items \ Ballots : owner[x] = u.id}
    IN
    /\ work[w].pc = "delRest"
    /\ \E more \in SUBSET (Comments \cup Ballots) :
          /\ own \cap Comments = {} => more = {}
          /\ owner' = [x \in Items |-> IF x \in own \cup more THEN Nil ELSE owner[x]]
    /\ CacheDel(u, byId, byKey)
    /\ Finish(w, u)
    /\ UNCHANGED <<conf, hour, users, nextId, tokens, ops, expired, history>>

-----------------------------------------------------------------------------
Passes ==
    /\ hour < MaxHour
    /\ hour' = hour + 1
    /\ UNCHANGED <<conf, users, nextId, owner, cache, tokens, mutex, work, ops, expired, history>>

(* Any entry may expire at any time.                                       *)
Expire ==
    /\ expired < MaxExpiries /\ expired' = expired + 1
    /\ \/ \E i \in Ids : byId[i] # Nil /\ byId' = Put(byId, i, Nil) /\ UNCHANGED <<byKey, byEmail>>
       \/ \E k \in Names \X Addresses :
            byKey[k] # Nil /\ byKey' = Put(byKey, k, Nil) /\ UNCHANGED <<byId, byEmail>>
       \/ \E e \in Addresses :
            byEmail[e] # Nil /\ byEmail' = Put(byEmail, e, Nil) /\ UNCHANGED <<byId, byKey>>
    /\ UNCHANGED <<conf, hour, users, nextId, owner, tokens, mutex, work, ops, history>>

Begin(w) ==
    /\ work[w].pc = "idle" /\ ops < MaxOps
    /\ \/ \E n \in Names, e \in Addresses :
            \/ CommentAnonymous(w, n, e) \/ Vote(w, n, e) \/ Register(w, n, e)
            \/ LoginByName(w, n, e) \/ SSOExchange(w, n, e) \/ UserInfo(w, n, e)
            \/ \E x \in Identities, gitea \in BOOLEAN : SocialLogin(w, x, n, e, gitea)
            \/ \E t \in tokens : UserInfoUpdate(w, t, n, e)
       \/ \E t \in tokens :
            /\ IsAdminReq(t)
            /\ \/ \E i \in Ids : UserDelete(w, t, i)
               \/ \E n \in Names, e \in Addresses, admin, pass \in BOOLEAN :
                    \/ UserCreate(w, t, n, e, admin, pass)
                    \/ \E i \in Ids : UserUpdate(w, t, i, n, e, admin, pass)
       \/ \E e \in Addresses : ResetPassword(w, e) \/ LoginByEmail(w, e) \/ MergeCheck(w, e)
       \/ \E t \in tokens :
            CommentLoggedIn(w, t) \/ UserInfoOfToken(w, t) \/ \E n \in Names : MergeApply(w, t, n)
       \/ \E x \in Identities : SocialAgain(w, x)
       \/ VoteNameless(w)

Step(w) ==
    \/ MergeLock(w) \/ MergeList(w) \/ FindCreateUser(w) \/ CreateUser(w)
    \/ UpdateUser(w, TRUE) \/ UpdateUser(w, FALSE)
    \/ \E x \in Items : InsertItem(w, x)
    \/ InsertFails(w) \/ Token(w) \/ Move(w) \/ MoveFails(w)
    \/ DelUser(w) \/ DelUserFails(w) \/ DelRest(w)

AccountsNext == (\E w \in Requests : Begin(w) \/ Step(w)) \/ Passes \/ Expire

AccountsSpec == AccountsInit /\ [][AccountsNext]_accountVars

-----------------------------------------------------------------------------
(* Properties.                                                             *)

Quiet == \A w \in Requests : work[w].pc = "idle"

(* Between requests that follow one another no cached user differs from    *)
(* its row, and no existing user is cached as missing; the list of ids of  *)
(* an address, which CreateUser leaves alone, may lack new users.          *)
CacheFresh ==
    plain /\ Quiet =>
        /\ \A i \in Ids : byId[i] \in {Nil, users[i]}
        /\ \A n \in Names, e \in Addresses : byKey[<<n, e>>] # Nil =>
              LET u == byKey[<<n, e>>] IN
              IF u.id = 0 THEN \A v \in Rows : <<v.name, v.email>> # <<n, e>>
              ELSE u = users[u.id] /\ <<u.name, u.email>> = <<n, e>>
        /\ \A e \in Addresses : byEmail[e] # Nil => \A i \in byEmail[e] : users[i].email = e

(* A token issued before the second of its user's last password change is  *)
(* refused, also after all later requests that save the whole row.         *)
RevokedStays == plain => \A t \in tokens : t[2] < changed[t[1]] => ~ Authentic(t)

(* Between requests that follow one another every comment and identity     *)
(* belongs to an existing user.                                            *)
NoDangling ==
    plain /\ Quiet => \A x \in Comments \cup Identities :
                         owner[x] # Nil => users[owner[x]].id # 0

(* What every part of the program believes of a user is what its row says. *)
UsersSound == AccountsTypeOK /\ CacheFresh /\ NoDangling

(* A merge loses nothing: only the deletion of a user deletes a comment or *)
(* an identity, whatever statement fails and however often one account     *)
(* asks for merges into whichever name at the same time.                   *)
MergeKeeps(x) ==
    ~ mixed' /\ owner[x] # Nil /\ owner'[x] = Nil =>
       \E w \in Requests : work[w].op = "delete" /\ work'[w] # work[w]

(* A merge takes over only what belongs to an account of the same address, *)
(* in particular no anonymous votes.                                       *)
OnlyOwnAddress(x) ==
    plain /\ owner[x] # Nil /\ owner'[x] \notin {Nil, owner[x]} =>
       owner[x] # 0 /\ users[owner[x]].email = users[owner'[x]].email

(* AuthMergeApply moves all that the accounts of one address own, and      *)
(* nothing else.                                                           *)
MergeExact == [][\A x \in Items : MergeKeeps(x) /\ OnlyOwnAddress(x)]_accountVars

(* auth_merge_apply.go: "if error the whole transaction will be rollback": *)
(* after a merge that failed everything belongs to whom it belonged.       *)
RolledBack ==
    [][plain => \A w \in Requests :
          work[w].pc = "move" /\ work'[w].pc = "idle" /\ work[w].done > 0 =>
             owner' = work[w].before]_accountVars
=============================================================================
